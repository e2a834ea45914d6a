-------------------------- MODULE CommandReceipts --------------------------
(***************************************************************************)
(* Prompt admission: AgentCommandReceiptStore                              *)
(* (rag_ime/agent_command_receipts.py) as agent_prompt_application.prompt  *)
(* uses it.                                                                *)
(*                                                                         *)
(* A client sends a prompt under a clientMessageId and may send it again   *)
(* (a lost HTTP answer, a page reload), or send a successor that names the *)
(* failed message it retries.  Each HTTP request is one thread of the      *)
(* gateway; each database call is one transaction; the Pi call lies        *)
(* between transactions.  The process may die at any step.  The durable    *)
(* facts are the receipt row and the promptAcceptance event that Pi's      *)
(* event stream leaves in agent_runtime_events.                            *)
(***************************************************************************)
EXTENDS Naturals, FiniteSets

CONSTANTS
    Messages,       \* clientMessageIds of one Session
    Bodies,         \* prompt payloads without their retry reference
    Requests,       \* HTTP requests, one handler thread each
    MessageOf,      \* request -> its clientMessageId
    BodyOf,         \* request -> its payload
    RetryOf,        \* request -> retryOfClientMessageId, or None
    None,
    MaxCrashes      \* bound: process deaths explored

ASSUME ReceiptAssumption ==
    /\ None \notin Messages
    /\ None \notin Requests
    /\ MessageOf \in [Requests -> Messages]
    /\ BodyOf \in [Requests -> Bodies]
    /\ RetryOf \in [Requests -> Messages \cup {None}]
    /\ MaxCrashes \in Nat

Digest(r) == [body |-> BodyOf[r], retryOf |-> RetryOf[r]]

\* "cancelled" is an accepted row whose response says accepted = False.
Answered == {"accepted", "cancelled", "failed"}

VARIABLES
    state,          \* message -> agent_command_receipts.state
    digest,         \* message -> payload_sha256 and semantic_payload_sha256
    claim,          \* message -> the request whose claim_token the row has
    proof,          \* message -> response_json holds acceptance evidence
    event,          \* message -> its promptAcceptance event: none, stored or pruned
    pc,             \* request -> where its handler is
    cause,          \* request -> why it looks for evidence
    reply,          \* request -> what its client was told
    call,           \* Pi: message -> what became of its prompt call
    runs,           \* Pi: message -> how often its turn was started
    crashes

row == <<state, digest, claim, proof>>
handler == <<pc, cause, reply>>
pi == <<call, runs>>
vars == <<row, event, handler, pi, crashes>>

Init ==
    /\ state = [m \in Messages |-> "absent"]
    /\ digest = [m \in Messages |-> None]
    /\ claim = [m \in Messages |-> None]
    /\ proof = [m \in Messages |-> FALSE]
    /\ event = [m \in Messages |-> "none"]
    /\ pc = [r \in Requests |-> "new"]
    /\ cause = [r \in Requests |-> "none"]
    /\ reply = [r \in Requests |-> "none"]
    /\ call = [m \in Messages |-> "none"]
    /\ runs = [m \in Messages |-> 0]
    /\ crashes = 0

Goto(r, label) == pc' = [pc EXCEPT ![r] = label]

Answer(r, what) ==
    /\ Goto(r, "done")
    /\ reply' = [reply EXCEPT ![r] = what]
    /\ UNCHANGED cause

\* The exception path of prompt: look for durable evidence before answering.
LookForEvidence(r, why) ==
    /\ Goto(r, "recover")
    /\ cause' = [cause EXCEPT ![r] = why]
    /\ UNCHANGED reply
-----------------------------------------------------------------------------
(* AgentCommandReceiptStore.begin: one transaction, five outcomes.         *)

\* _validate_retry_lineage: only a durably failed command with the same body
\* may have a successor, and it may have one.
LineageOK_ManySuccessors(r) ==
    LET p == RetryOf[r] IN
    p # None => state[p] = "failed" /\ digest[p].body = BodyOf[r]
LineageOK(r) ==
    LET p == RetryOf[r] IN
    p # None =>
        /\ state[p] = "failed"
        /\ digest[p].body = BodyOf[r]
        /\ \A m \in Messages : state[m] # "absent" => digest[m].retryOf # p

\* Only a message without a row is executed.
Fresh_Reclaims(m) == state[m] \in {"absent", "pending"}
Fresh(m) == state[m] = "absent"

Admit(r) ==
    LET m == MessageOf[r] IN
    /\ pc[r] = "new"
    /\ Fresh(m)
    /\ LineageOK(r)
    /\ state' = [state EXCEPT ![m] = "pending"]
    /\ digest' = [digest EXCEPT ![m] = Digest(r)]
    /\ claim' = [claim EXCEPT ![m] = r]
    /\ Goto(r, "prepare")
    /\ UNCHANGED <<proof, event, cause, reply, pi, crashes>>

\* The id belongs to another payload, or the retry is not allowed.
Conflict(r) ==
    LET m == MessageOf[r] IN
    /\ pc[r] = "new"
    /\ IF state[m] = "absent" THEN ~LineageOK(r) ELSE digest[m] # Digest(r)
    /\ Answer(r, "conflict")
    /\ UNCHANGED <<row, event, pi, crashes>>

\* A repeated command is answered from its row.
StoredAnswer(m) == state[m]

Replay(r) ==
    LET m == MessageOf[r] IN
    /\ pc[r] = "new"
    /\ state[m] \in Answered
    /\ digest[m] = Digest(r)
    /\ Answer(r, StoredAnswer(m))
    /\ UNCHANGED <<row, event, pi, crashes>>

\* AgentCommandReceiptPending: the command may be running somewhere.
Join(r) ==
    LET m == MessageOf[r] IN
    /\ pc[r] = "new"
    /\ state[m] = "pending"
    /\ digest[m] = Digest(r)
    /\ LookForEvidence(r, "pending")
    /\ UNCHANGED <<row, event, pi, crashes>>
-----------------------------------------------------------------------------
(* prompt, after the claim.                                                *)

\* Goal check, admission fence, context assembly: a failure before the call
\* is a rejection, a Stop a cancellation; an undispatched call whose failure
\* is not a typed rejection (the host did not start) counts as unknown.
PreparationFails(r) ==
    /\ pc[r] = "prepare"
    /\ \E why \in {"rejected", "cancelled", "unknown"} : LookForEvidence(r, why)
    /\ UNCHANGED <<row, event, pi, crashes>>

\* session.prompt is written to the host.
Dispatch(r) ==
    /\ pc[r] = "prepare"
    /\ call' = [call EXCEPT ![MessageOf[r]] = "flight"]
    /\ Goto(r, "waiting")
    /\ UNCHANGED <<row, event, cause, reply, runs, crashes>>

Acknowledged(r) ==
    /\ pc[r] = "waiting"
    /\ call[MessageOf[r]] = "executed"
    /\ Goto(r, "accepted")
    /\ UNCHANGED <<row, event, cause, reply, pi, crashes>>

Rejected(r) ==
    /\ pc[r] = "waiting"
    /\ call[MessageOf[r]] = "refused"
    /\ LookForEvidence(r, "rejected")
    /\ UNCHANGED <<row, event, pi, crashes>>

\* AgentPromptAcceptanceUnknown: any other end of a call that was written.
CallFailure_Rejected == "rejected"
CallFailure == "unknown"

CallRaises(r) ==
    /\ pc[r] = "waiting"
    /\ LookForEvidence(r, CallFailure)
    /\ UNCHANGED <<row, event, pi, crashes>>

\* record_acceptance_evidence: under the claim, while the row is pending; a
\* row another request already accepted from evidence is fine too.
RecordEvidence(r) ==
    LET m == MessageOf[r] IN
    /\ pc[r] = "accepted"
    /\ \/ /\ state[m] = "pending" /\ claim[m] = r
          /\ proof' = [proof EXCEPT ![m] = TRUE]
          /\ Goto(r, "project")
          /\ UNCHANGED <<cause, reply>>
       \/ /\ state[m] \in {"accepted", "cancelled"}
          /\ Goto(r, "project")
          /\ UNCHANGED <<proof, cause, reply>>
    /\ UNCHANGED <<state, digest, claim, event, pi, crashes>>

\* AgentPromptPostAcceptanceFailure: the write failed, Pi did accept.
EvidenceFailure_Rejected == "rejected"
EvidenceFailure == "unknown"

RecordEvidenceRaises(r) ==
    /\ pc[r] = "accepted"
    /\ LookForEvidence(r, EvidenceFailure)
    /\ UNCHANGED <<row, event, pi, crashes>>

\* mark_delivered and the trace come after the evidence; they may fail.
ProjectionFails(r) ==
    /\ pc[r] = "project"
    /\ LookForEvidence(r, "rejected")
    /\ UNCHANGED <<row, event, pi, crashes>>

\* AgentCommandReceiptStore.complete with the accepted or cancelled response.
Complete(r, response) ==
    LET m == MessageOf[r] IN
    \/ /\ claim[m] = r /\ state[m] = "pending"
       /\ state' = [state EXCEPT ![m] = response]
       /\ Answer(r, response)
    \/ /\ claim[m] = r /\ state[m] \in {"accepted", "cancelled"}
       /\ Answer(r, state[m])
       /\ UNCHANGED state

CompleteAccepted(r) ==
    /\ pc[r] = "project"
    /\ Complete(r, "accepted")
    /\ UNCHANGED <<digest, claim, proof, event, pi, crashes>>

CompleteRaises(r) ==
    /\ pc[r] = "project"
    /\ LookForEvidence(r, "incomplete")
    /\ UNCHANGED <<row, event, pi, crashes>>
-----------------------------------------------------------------------------
(* _recover_accepted_prompt: two reads, then one transaction.              *)

\* pending_acceptance_evidence: of the row, while it is pending.
HasEvidence_WhenAccepted(m) == state[m] = "accepted" /\ proof[m]
HasEvidence(m) == state[m] = "pending" /\ proof[m]

ReadReceipt(r) ==
    /\ pc[r] = "recover"
    /\ Goto(r, IF HasEvidence(MessageOf[r]) THEN "prove" ELSE "events")
    /\ UNCHANGED <<row, event, cause, reply, pi, crashes>>

\* prompt_acceptance_evidence: of the runtime events, read afterwards.
ReadEvents(r) ==
    /\ pc[r] = "events"
    /\ Goto(r, IF event[MessageOf[r]] = "stored" THEN "prove" ELSE "unproven")
    /\ UNCHANGED <<row, event, cause, reply, pi, crashes>>

\* accept_pending_from_evidence: any request may close a pending row.
AcceptFromEvidence(r) ==
    LET m == MessageOf[r] IN
    /\ pc[r] = "prove"
    /\ state' = [state EXCEPT ![m] = IF @ = "pending" THEN "accepted" ELSE @]
    /\ Answer(r, state'[m])
    /\ UNCHANGED <<digest, claim, proof, event, pi, crashes>>

\* A joined or unknown command stays pending.
AnswerPending(r) ==
    /\ pc[r] = "unproven"
    /\ cause[r] \in {"pending", "unknown"}
    /\ Answer(r, "pending")
    /\ UNCHANGED <<row, event, pi, crashes>>

AnswerError(r) ==
    /\ pc[r] = "unproven"
    /\ cause[r] = "incomplete"
    /\ Answer(r, "error")
    /\ UNCHANGED <<row, event, pi, crashes>>

CompleteCancelled(r) ==
    /\ pc[r] = "unproven"
    /\ cause[r] = "cancelled"
    /\ Complete(r, "cancelled")
    /\ UNCHANGED <<digest, claim, proof, event, pi, crashes>>

\* AgentCommandReceiptStore.fail: stored evidence outranks the error.
Failed(m) ==
    CASE state[m] = "pending" /\ proof[m] -> "pending"
      [] state[m] = "pending" /\ ~proof[m] -> "failed"
      [] OTHER -> state[m]

Fail(r) ==
    LET m == MessageOf[r] IN
    /\ pc[r] = "unproven"
    /\ cause[r] = "rejected"
    /\ claim[m] = r
    /\ state' = [state EXCEPT ![m] = Failed(m)]
    /\ Answer(r, Failed(m))
    /\ UNCHANGED <<digest, claim, proof, event, pi, crashes>>
-----------------------------------------------------------------------------
(* The process and the runtime.                                            *)

\* The gateway process dies with every handler in it.
Crash ==
    LET dying == {r \in Requests : pc[r] \notin {"new", "done"}} IN
    /\ crashes < MaxCrashes
    /\ dying # {}
    /\ pc' = [r \in Requests |-> IF r \in dying THEN "done" ELSE pc[r]]
    /\ reply' = [r \in Requests |-> IF r \in dying THEN "lost" ELSE reply[r]]
    /\ crashes' = crashes + 1
    /\ UNCHANGED <<row, event, cause, pi>>

\* record_runtime_event bounds the event window, but keeps acceptance records
\* whose receipt is pending.
Prunable_Unpinned(m) == event[m] = "stored"
Prunable(m) == event[m] = "stored" /\ state[m] # "pending"

PruneEvent(m) ==
    /\ Prunable(m)
    /\ event' = [event EXCEPT ![m] = "pruned"]
    /\ UNCHANGED <<row, handler, pi, crashes>>

Execute(m) ==
    /\ call[m] = "flight"
    /\ call' = [call EXCEPT ![m] = "executed"]
    /\ runs' = [runs EXCEPT ![m] = @ + 1]
    /\ UNCHANGED <<row, event, handler, crashes>>

Refuse(m) ==
    /\ call[m] = "flight"
    /\ \E fate \in {"refused", "lost"} : call' = [call EXCEPT ![m] = fate]
    /\ UNCHANGED <<row, event, handler, runs, crashes>>

\* The user message of the turn arrives on the event stream and is stored
\* with its promptAcceptance.
StoreEvent(m) ==
    /\ call[m] = "executed"
    /\ event[m] = "none"
    /\ event' = [event EXCEPT ![m] = "stored"]
    /\ UNCHANGED <<row, handler, pi, crashes>>
-----------------------------------------------------------------------------
Handler(r) ==
    \/ Admit(r) \/ Conflict(r) \/ Replay(r) \/ Join(r)
    \/ PreparationFails(r) \/ Dispatch(r)
    \/ Acknowledged(r) \/ Rejected(r) \/ CallRaises(r)
    \/ RecordEvidence(r) \/ RecordEvidenceRaises(r)
    \/ ProjectionFails(r) \/ CompleteAccepted(r) \/ CompleteRaises(r)
    \/ ReadReceipt(r) \/ ReadEvents(r) \/ AcceptFromEvidence(r)
    \/ AnswerPending(r) \/ AnswerError(r) \/ CompleteCancelled(r) \/ Fail(r)

Runtime(m) == Execute(m) \/ Refuse(m) \/ StoreEvent(m) \/ PruneEvent(m)

Next ==
    \/ \E r \in Requests : Handler(r)
    \/ \E m \in Messages : Runtime(m)
    \/ Crash

Spec == Init /\ [][Next]_vars

\* Handlers run to their end: every wait in them has a timeout.
FairSpec == Spec /\ \A r \in Requests : WF_vars(Handler(r))
-----------------------------------------------------------------------------
\* A prompt and its retries: a client that follows the retry references can
\* never have the same request executed twice.
Retries(m, n) == state[n] # "absent" /\ digest[n].retryOf = m
OneTurnPerLineage ==
    \A m, n \in Messages :
        Retries(m, n) =>
            /\ runs[n] = 1 => runs[m] = 0 /\ call[m] # "flight"
            /\ \A k \in Messages : Retries(m, k) => k = n

\* Evidence of an undecided command does not disappear: not by a failure, not
\* by a restart, not by the retention of runtime events.
Undecided(m) == state[m] = "pending" /\ (proof[m] \/ event[m] = "stored")
EvidenceSurvives ==
    [][\A m \in Messages :
        Undecided(m) => Undecided(m)' \/ state'[m] = "accepted"]_vars

\* A request that arrives when the acceptance of its command is durable decides
\* the command, unless the process dies under it.  (Its own answer may still
\* be "pending", if another request decided between begin and its reads.)
EvidenceIsHeard ==
    \A r \in Requests :
        LET m == MessageOf[r] IN
        (pc[r] = "new" /\ digest[m] = Digest(r) /\ Undecided(m))
            ~> (state[m] = "accepted" \/ reply[r] = "lost")

\* Receipts implement the same promise as the runtime-effect outbox.
Reported(m) ==
    CASE state[m] = "accepted" -> "executed"
      [] state[m] \in {"failed", "cancelled"} -> "not_executed"
      [] OTHER -> "open"

Outcome == INSTANCE EffectOutcome
    WITH Effects <- Messages, executions <- runs,
         report <- [m \in Messages |-> Reported(m)]
ImplementsOutcome == Outcome!Spec
=============================================================================
