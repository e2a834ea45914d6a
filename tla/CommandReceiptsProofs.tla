----------------------- MODULE CommandReceiptsProofs -----------------------
(***************************************************************************)
(* Theorems about CommandReceipts for every number of messages, requests and *)
(* deaths of the gateway.                                                   *)
(***************************************************************************)
EXTENDS CommandReceipts, TLAPS

Owning == {"prepare", "waiting", "accepted", "project"}
Seeking == {"recover", "events", "prove", "unproven"}
Causes == {"none", "pending", "unknown", "rejected", "cancelled", "incomplete"}

Typed ==
    /\ state \in [Messages -> {"absent", "pending"} \cup Answered]
    /\ DOMAIN digest = Messages /\ digest = [m \in Messages |-> digest[m]]
    /\ claim \in [Messages -> Requests \cup {None}]
    /\ proof \in [Messages -> BOOLEAN]
    /\ event \in [Messages -> {"none", "stored", "pruned"}]
    /\ pc \in [Requests -> {"new", "done"} \cup Owning \cup Seeking]
    /\ cause \in [Requests -> Causes]
    /\ call \in [Messages -> {"none", "flight", "executed", "refused", "lost"}]
    /\ runs \in [Messages -> Nat]

\* Pi has not performed these and no handler will ask it to.
NeverSent ==
    {m \in Messages :
        \/ call[m] = "refused"
        \/ call[m] = "none" /\ \A r \in Requests : pc[r] = "prepare" => MessageOf[r] # m}

\* What a handler knows: it holds the claim, and its cause is the truth about the call.
HandlerInv ==
    \A r \in Requests :
        /\ pc[r] = "new" => claim[MessageOf[r]] # r
        /\ pc[r] \in Owning => claim[MessageOf[r]] = r /\ state[MessageOf[r]] # "absent"
        /\ pc[r] \in Seeking =>
               /\ state[MessageOf[r]] # "absent"
               /\ cause[r] # "pending" => claim[MessageOf[r]] = r
        /\ pc[r] = "prepare" => state[MessageOf[r]] = "pending" /\ call[MessageOf[r]] = "none"
        /\ pc[r] \in {"accepted", "project", "prove"} => call[MessageOf[r]] = "executed"
        /\ pc[r] = "project" => proof[MessageOf[r]] \/ state[MessageOf[r]] = "accepted"
        /\ pc[r] \in Seeking /\ cause[r] = "rejected" =>
               MessageOf[r] \in NeverSent \/ proof[MessageOf[r]] \/ state[MessageOf[r]] = "accepted"
        /\ pc[r] \in Seeking /\ cause[r] = "cancelled" => MessageOf[r] \in NeverSent

\* What a row says is true of the call.
RowInv ==
    \A m \in Messages :
        /\ state[m] = "absent" =>
               claim[m] = None /\ ~proof[m] /\ event[m] = "none" /\ call[m] = "none"
        /\ state[m] # "absent" => claim[m] \in Requests /\ MessageOf[claim[m]] = m
        /\ runs[m] = IF call[m] = "executed" THEN 1 ELSE 0
        /\ event[m] # "none" \/ proof[m] \/ state[m] = "accepted" => call[m] = "executed"
        /\ state[m] \in {"failed", "cancelled"} => m \in NeverSent

\* Only a failed message has a successor, and one.
Lineage ==
    \A m, n \in Messages : Retries(m, n) =>
        /\ state[m] = "failed"
        /\ \A k \in Messages : Retries(m, k) => k = n

IInv == Typed /\ HandlerInv /\ RowInv /\ Lineage

LEMMA InitInv == Init => IInv
  BY ReceiptAssumption
     DEF Init, IInv, Typed, HandlerInv, RowInv, Lineage, Retries, Owning, Seeking, Causes, Answered

-----------------------------------------------------------------------------
(* Every step keeps IInv.                                                  *)

\* A request that moves on, and changes no row, must know what its new place says.
LEMMA MoveStep ==
    ASSUME IInv, NEW r \in Requests, UNCHANGED <<row, event, pi>>,
           pc' = [pc EXCEPT ![r] = pc'[r]],
           cause' = [cause EXCEPT ![r] = cause'[r]],
           pc'[r] \in {"waiting", "accepted", "project", "done"} \cup Seeking,
           cause'[r] \in Causes,
           pc'[r] \in Owning => claim[MessageOf[r]] = r /\ state[MessageOf[r]] # "absent",
           pc'[r] \in Seeking =>
               /\ state[MessageOf[r]] # "absent"
               /\ cause'[r] # "pending" => claim[MessageOf[r]] = r,
           pc'[r] \in {"accepted", "project", "prove"} => call[MessageOf[r]] = "executed",
           pc'[r] = "project" => proof[MessageOf[r]] \/ state[MessageOf[r]] = "accepted",
           pc'[r] \in Seeking /\ cause'[r] = "rejected" =>
               MessageOf[r] \in NeverSent' \/ proof[MessageOf[r]] \/ state[MessageOf[r]] = "accepted",
           pc'[r] \in Seeking /\ cause'[r] = "cancelled" => MessageOf[r] \in NeverSent'
    PROVE  IInv'
<1> USE ReceiptAssumption
<1>1. NeverSent \subseteq NeverSent'
  BY DEF IInv, Typed, NeverSent, pi, Seeking
<1>2. Typed'
  BY DEF IInv, Typed, row, pi, Owning
<1>3. HandlerInv'
  BY <1>1 DEF IInv, Typed, HandlerInv, row, pi, Owning, Seeking
<1>4. RowInv'
  BY <1>1 DEF IInv, RowInv, row, pi
<1>5. Lineage'
  BY DEF IInv, Lineage, Retries, row
<1>q. QED BY <1>2, <1>3, <1>4, <1>5 DEF IInv

\* The steps of a handler between its transactions, and those that only answer.
LEMMA HandlerMoves ==
    ASSUME IInv, NEW r \in Requests,
           \/ Conflict(r) \/ Replay(r) \/ Join(r) \/ PreparationFails(r)
           \/ Acknowledged(r) \/ Rejected(r) \/ CallRaises(r) \/ RecordEvidenceRaises(r)
           \/ ProjectionFails(r) \/ CompleteRaises(r) \/ ReadReceipt(r) \/ ReadEvents(r)
           \/ AnswerPending(r) \/ AnswerError(r)
    PROVE  IInv'
<1> USE ReceiptAssumption DEF Owning, Seeking, Causes
<1>0. /\ cause = [cause EXCEPT ![r] = cause[r]] /\ cause[r] \in Causes
      /\ \A l : Goto(r, l) => pc' = [pc EXCEPT ![r] = pc'[r]] /\ pc'[r] = l
      /\ \A why : LookForEvidence(r, why) =>
              /\ pc' = [pc EXCEPT ![r] = pc'[r]] /\ pc'[r] = "recover"
              /\ cause' = [cause EXCEPT ![r] = cause'[r]] /\ cause'[r] = why
      /\ \A what : Answer(r, what) =>
              /\ pc' = [pc EXCEPT ![r] = pc'[r]] /\ pc'[r] = "done"
              /\ cause' = cause
  BY DEF IInv, Typed, Goto, LookForEvidence, Answer
<1>1. CASE Conflict(r) \/ Replay(r) \/ AnswerPending(r) \/ AnswerError(r)
  BY <1>0, <1>1, MoveStep DEF Conflict, Replay, AnswerPending, AnswerError
<1>2. CASE Join(r)
  <2>1. state[MessageOf[r]] # "absent"
    BY <1>2 DEF Join
  <2>q. QED BY <1>0, <1>2, <2>1, MoveStep DEF Join
<1>3. CASE PreparationFails(r)
  <2>1. PICK why \in {"rejected", "cancelled", "unknown"} : LookForEvidence(r, why)
    BY <1>3 DEF PreparationFails
  <2>2. /\ claim[MessageOf[r]] = r /\ state[MessageOf[r]] # "absent"
        /\ call[MessageOf[r]] = "none"
    BY <1>3 DEF PreparationFails, IInv, HandlerInv
  <2>3. \A x \in Requests : x # r /\ MessageOf[x] = MessageOf[r] => pc[x] # "prepare"
    BY <2>2 DEF IInv, HandlerInv
  <2>4. MessageOf[r] \in NeverSent'
    BY <1>3, <2>1, <2>2, <2>3
       DEF PreparationFails, LookForEvidence, Goto, NeverSent, pi, IInv, Typed
  <2>q. QED BY <1>0, <1>3, <2>1, <2>2, <2>4, MoveStep DEF PreparationFails
<1>4. CASE Acknowledged(r)
  <2>1. claim[MessageOf[r]] = r /\ state[MessageOf[r]] # "absent"
    BY <1>4 DEF Acknowledged, IInv, HandlerInv
  <2>q. QED BY <1>0, <1>4, <2>1, MoveStep DEF Acknowledged
<1>5. CASE Rejected(r)
  <2>1. claim[MessageOf[r]] = r /\ state[MessageOf[r]] # "absent"
    BY <1>5 DEF Rejected, IInv, HandlerInv
  <2>2. MessageOf[r] \in NeverSent'
    BY <1>5 DEF Rejected, NeverSent, pi
  <2>q. QED BY <1>0, <1>5, <2>1, <2>2, MoveStep DEF Rejected
<1>6. CASE CallRaises(r) \/ RecordEvidenceRaises(r) \/ CompleteRaises(r)
  <2>1. claim[MessageOf[r]] = r /\ state[MessageOf[r]] # "absent"
    BY <1>6 DEF CallRaises, RecordEvidenceRaises, CompleteRaises, IInv, HandlerInv
  <2>q. QED
    BY <1>0, <1>6, <2>1, MoveStep
       DEF CallRaises, RecordEvidenceRaises, CompleteRaises, CallFailure, EvidenceFailure
<1>7. CASE ProjectionFails(r)
  <2>1. /\ claim[MessageOf[r]] = r /\ state[MessageOf[r]] # "absent"
        /\ proof[MessageOf[r]] \/ state[MessageOf[r]] = "accepted"
    BY <1>7 DEF ProjectionFails, IInv, HandlerInv
  <2>q. QED BY <1>0, <1>7, <2>1, MoveStep DEF ProjectionFails
<1>8. CASE ReadReceipt(r) \/ ReadEvents(r)
  <2>1. /\ pc'[r] \in {"prove", "events", "unproven"}
        /\ pc' = [pc EXCEPT ![r] = pc'[r]]
        /\ UNCHANGED <<row, event, cause, pi>>
    BY <1>8 DEF ReadReceipt, ReadEvents, Goto, IInv, Typed
  <2>2. pc'[r] = "prove" => call[MessageOf[r]] = "executed"
    BY <1>0, <1>8 DEF ReadReceipt, ReadEvents, HasEvidence, IInv, Typed, RowInv
  <2>3. /\ pc[r] \in Seeking
        /\ state[MessageOf[r]] # "absent"
        /\ cause[r] # "pending" => claim[MessageOf[r]] = r
        /\ cause[r] = "rejected" =>
              \/ MessageOf[r] \in NeverSent
              \/ proof[MessageOf[r]] \/ state[MessageOf[r]] = "accepted"
        /\ cause[r] = "cancelled" => MessageOf[r] \in NeverSent
    BY <1>8 DEF ReadReceipt, ReadEvents, IInv, HandlerInv
  <2>4. NeverSent \subseteq NeverSent'
    BY <2>1 DEF NeverSent, pi, IInv, Typed
  <2>q. QED BY <1>0, <2>1, <2>2, <2>3, <2>4, MoveStep
<1>q. QED BY <1>1, <1>2, <1>3, <1>4, <1>5, <1>6, <1>7, <1>8

\* A new row: no handler and no event knows its message yet.
LEMMA AdmitStep == ASSUME IInv, NEW r \in Requests, Admit(r) PROVE IInv'
<1> USE ReceiptAssumption
<1> DEFINE m == MessageOf[r]
<1>0. /\ m \in Messages /\ pc[r] = "new" /\ state[m] = "absent"
      /\ state' = [state EXCEPT ![m] = "pending"]
      /\ digest' = [digest EXCEPT ![m] = Digest(r)]
      /\ claim' = [claim EXCEPT ![m] = r]
      /\ pc' = [pc EXCEPT ![r] = "prepare"]
      /\ UNCHANGED <<proof, event, cause, reply, pi, crashes>>
  BY DEF Admit, Fresh, Goto
<1>1. \A x \in Messages : x \in NeverSent /\ x # m => x \in NeverSent'
  BY <1>0 DEF NeverSent, pi, IInv, Typed
<1>2. Typed'
  <2>1. DOMAIN digest' = Messages /\ digest' = [x \in Messages |-> digest'[x]]
    <3>1. DOMAIN digest = Messages
      BY DEF IInv, Typed
    <3>2. digest' = [x \in Messages |-> IF x = m THEN Digest(r) ELSE digest[x]]
      BY <1>0, <3>1
    <3>q. QED BY <3>2
  <2>2. claim' \in [Messages -> Requests \cup {None}]
    BY <1>0 DEF IInv, Typed
  <2>q. QED BY <1>0, <2>1, <2>2 DEF IInv, Typed, pi, Owning
<1>3. HandlerInv'
  BY <1>0, <1>1 DEF IInv, Typed, HandlerInv, RowInv, pi, Owning, Seeking
<1>4. RowInv'
  BY <1>0, <1>1 DEF IInv, Typed, RowInv, pi
<1>5. Lineage'
  <2>1. \A x \in Messages : digest'[x] = IF x = m THEN Digest(r) ELSE digest[x]
    BY <1>0 DEF IInv, Typed
  <2>2. \A x \in Messages : ~ Retries(x, m)
    BY <1>0 DEF Retries
  <2>3. \A x \in Messages : Retries(m, x) => FALSE
    BY <1>0 DEF IInv, Lineage
  <2>4. \A x \in Messages : x = RetryOf[r] =>
            state[x] = "failed" /\ \A n \in Messages : ~ Retries(x, n)
    BY DEF Admit, LineageOK, Retries
  <2>5. \A x, n \in Messages : (Retries(x, n))' =>
            IF n = m THEN x = RetryOf[r] ELSE Retries(x, n)
    BY <1>0, <2>1 DEF Retries, Digest, IInv, Typed
  <2>q. QED BY <1>0, <2>2, <2>3, <2>4, <2>5 DEF IInv, Typed, Lineage
<1>q. QED BY <1>2, <1>3, <1>4, <1>5 DEF IInv

\* The one call of a message: the claim is exclusive, so nobody counted on its absence.
LEMMA DispatchStep == ASSUME IInv, NEW r \in Requests, Dispatch(r) PROVE IInv'
<1> USE ReceiptAssumption
<1> DEFINE m == MessageOf[r]
<1>0. /\ m \in Messages /\ pc[r] = "prepare"
      /\ call' = [call EXCEPT ![m] = "flight"]
      /\ pc' = [pc EXCEPT ![r] = "waiting"]
      /\ UNCHANGED <<row, event, cause, reply, runs, crashes>>
  BY DEF Dispatch, Goto
<1>1. /\ m \notin NeverSent /\ state[m] = "pending" /\ call[m] = "none" /\ claim[m] = r
      /\ \A x \in Requests : pc[x] = "prepare" /\ MessageOf[x] = m => x = r
  BY <1>0 DEF NeverSent, IInv, HandlerInv, Owning
<1>2. NeverSent \subseteq NeverSent'
  BY <1>0, <1>1 DEF NeverSent, IInv, Typed
<1>3. Typed'
  BY <1>0 DEF IInv, Typed, row, Owning
<1>4. HandlerInv'
  BY <1>0, <1>1, <1>2 DEF IInv, Typed, HandlerInv, row, Owning, Seeking
<1>5. RowInv'
  BY <1>0, <1>1, <1>2 DEF IInv, Typed, RowInv, row
<1>6. Lineage'
  BY <1>0 DEF IInv, Lineage, Retries, row
<1>q. QED BY <1>3, <1>4, <1>5, <1>6 DEF IInv

\* A row is decided, or gains its evidence, and its request moves on.
LEMMA DecideStep ==
    ASSUME IInv, NEW r \in Requests, UNCHANGED <<digest, claim, event, cause, pi>>,
           NEW m, m = MessageOf[r], state[m] # "absent",
           NEW s, s \in {"pending"} \cup Answered, state' = [state EXCEPT ![m] = s],
           NEW b, b \in BOOLEAN, proof' = [proof EXCEPT ![m] = b], proof[m] => b,
           NEW l, l \in {"project", "done"}, pc' = [pc EXCEPT ![r] = l],
           l = "project" => claim[m] = r /\ call[m] = "executed" /\ (b \/ s = "accepted"),
           s = "accepted" \/ b => call[m] = "executed",
           s # state[m] => state[m] = "pending" /\ (pc[r] = "prove" \/ claim[m] = r),
           s \in {"failed", "cancelled"} => m \in NeverSent
    PROVE  IInv'
<1> USE ReceiptAssumption
<1>1. m \in Messages /\ NeverSent \subseteq NeverSent'
  BY DEF IInv, Typed, NeverSent, pi
<1>2. Typed'
  BY <1>1 DEF IInv, Typed, pi, Owning, Answered
<1>3. HandlerInv'
  <2>1. \A x \in Requests : MessageOf[x] = m /\ pc[x] = "prepare" => s = "pending"
    BY <1>1 DEF IInv, HandlerInv, NeverSent, Answered
  <2>q. QED BY <1>1, <2>1 DEF IInv, Typed, HandlerInv, pi, Owning, Seeking, Answered
<1>4. RowInv'
  BY <1>1 DEF IInv, Typed, RowInv, pi, Answered
<1>5. Lineage'
  BY <1>1 DEF IInv, Typed, Lineage, Retries, Answered
<1>q. QED BY <1>2, <1>3, <1>4, <1>5 DEF IInv

\* The transactions of a handler that change its row.
LEMMA TransactionStep ==
    ASSUME IInv, NEW r \in Requests,
           \/ RecordEvidence(r) \/ CompleteAccepted(r) \/ AcceptFromEvidence(r)
           \/ CompleteCancelled(r) \/ Fail(r)
    PROVE  IInv'
<1> USE ReceiptAssumption
<1> DEFINE m == MessageOf[r]
<1>0. /\ m \in Messages
      /\ state = [state EXCEPT ![m] = state[m]] /\ proof = [proof EXCEPT ![m] = proof[m]]
      /\ state[m] \in {"absent", "pending"} \cup Answered /\ proof[m] \in BOOLEAN
      /\ state[m] = "accepted" \/ proof[m] => call[m] = "executed"
      /\ state[m] \in {"failed", "cancelled"} => m \in NeverSent
  BY DEF IInv, Typed, RowInv
<1>1. CASE RecordEvidence(r)
  <2>1. /\ claim[m] = r /\ state[m] # "absent" /\ call[m] = "executed"
        /\ UNCHANGED <<state, digest, claim, event, cause, pi>>
        /\ pc' = [pc EXCEPT ![r] = "project"]
    BY <1>1 DEF RecordEvidence, Goto, IInv, HandlerInv, Owning
  <2>2. state[m] # "cancelled"
    BY <1>0, <2>1 DEF NeverSent
  <2>3. CASE proof' = [proof EXCEPT ![m] = TRUE]
    BY <1>0, <2>1, <2>3, DecideStep
  <2>4. CASE UNCHANGED proof /\ state[m] \in {"accepted", "cancelled"}
    BY <1>0, <2>1, <2>2, <2>4, DecideStep
  <2>q. QED BY <1>1, <2>3, <2>4 DEF RecordEvidence
<1>2. CASE CompleteAccepted(r)
  <2>1. call[m] = "executed"
    BY <1>2 DEF CompleteAccepted, IInv, HandlerInv
  <2>2. PICK s \in {"pending"} \cup Answered :
           /\ state' = [state EXCEPT ![m] = s] /\ pc' = [pc EXCEPT ![r] = "done"]
           /\ s # state[m] => state[m] = "pending" /\ claim[m] = r
           /\ s = "accepted" \/ s = state[m]
           /\ state[m] # "absent"
    BY <1>0, <1>2 DEF CompleteAccepted, Complete, Answer, Goto, Answered
  <2>q. QED
    BY <1>0, <1>2, <2>1, <2>2, DecideStep DEF CompleteAccepted, Complete, Answer, Answered
<1>3. CASE AcceptFromEvidence(r)
  <2>1. call[m] = "executed" /\ state[m] # "absent" /\ pc[r] = "prove"
    BY <1>3 DEF AcceptFromEvidence, IInv, HandlerInv, Seeking
  <2>2. PICK s \in {"pending"} \cup Answered :
           /\ state' = [state EXCEPT ![m] = s] /\ pc' = [pc EXCEPT ![r] = "done"]
           /\ s # state[m] => state[m] = "pending"
           /\ s = "accepted" \/ s = state[m]
    BY <1>0, <1>3, <2>1 DEF AcceptFromEvidence, Answer, Goto, Answered
  <2>q. QED
    BY <1>0, <1>3, <2>1, <2>2, DecideStep DEF AcceptFromEvidence, Answer, Answered
<1>4. CASE CompleteCancelled(r)
  <2>1. m \in NeverSent
    BY <1>4 DEF CompleteCancelled, IInv, HandlerInv, Seeking
  <2>2. PICK s \in {"pending"} \cup Answered :
           /\ state' = [state EXCEPT ![m] = s] /\ pc' = [pc EXCEPT ![r] = "done"]
           /\ s # state[m] => state[m] = "pending" /\ claim[m] = r
           /\ s = "cancelled" \/ s = state[m]
           /\ state[m] # "absent"
    BY <1>0, <1>4 DEF CompleteCancelled, Complete, Answer, Goto, Answered
  <2>q. QED
    BY <1>0, <1>4, <2>1, <2>2, DecideStep DEF CompleteCancelled, Complete, Answer, Answered
<1>5. CASE Fail(r)
  <2>1. /\ claim[m] = r /\ state[m] # "absent"
        /\ m \in NeverSent \/ proof[m] \/ state[m] = "accepted"
    BY <1>5 DEF Fail, IInv, HandlerInv, Seeking
  <2>2. /\ Failed(m) \in {"pending"} \cup Answered
        /\ Failed(m) # state[m] => state[m] = "pending" /\ ~ proof[m]
        /\ Failed(m) = "failed" \/ Failed(m) = state[m]
    BY <1>0, <2>1 DEF Failed, Answered
  <2>3. /\ state' = [state EXCEPT ![m] = Failed(m)] /\ pc' = [pc EXCEPT ![r] = "done"]
        /\ UNCHANGED <<digest, claim, proof, event, cause, pi>>
    BY <1>5 DEF Fail, Answer, Goto
  <2>q. QED
    BY <1>0, <2>1, <2>2, <2>3, DecideStep DEF Answered
<1>q. QED BY <1>1, <1>2, <1>3, <1>4, <1>5

\* The gateway dies: its handlers are gone and nothing else changed.
LEMMA CrashStep == ASSUME IInv, Crash PROVE IInv'
<1> USE ReceiptAssumption
<1>0. /\ pc' \in [Requests -> {"new", "done"}]
      /\ \A r \in Requests : pc'[r] = "new" => pc[r] = "new"
      /\ UNCHANGED <<row, event, cause, pi>>
  BY DEF Crash, IInv, Typed, Owning, Seeking
<1>1. NeverSent \subseteq NeverSent'
  BY <1>0 DEF NeverSent, pi
<1>2. Typed'
  BY <1>0 DEF IInv, Typed, row, pi
<1>3. HandlerInv'
  BY <1>0 DEF IInv, HandlerInv, row, Owning, Seeking
<1>4. RowInv'
  BY <1>0, <1>1 DEF IInv, RowInv, row, pi
<1>5. Lineage'
  BY <1>0 DEF IInv, Lineage, Retries, row
<1>q. QED BY <1>2, <1>3, <1>4, <1>5 DEF IInv

\* Pi answers only a call in flight; its event comes after it.
LEMMA RuntimeKeeps == ASSUME IInv, NEW m \in Messages, Runtime(m) PROVE IInv'
<1> USE ReceiptAssumption
<1>0. UNCHANGED <<row, pc, cause>>
  BY DEF Runtime, Execute, Refuse, StoreEvent, PruneEvent, handler
<1>1. NeverSent \subseteq NeverSent'
  BY <1>0 DEF Runtime, Execute, Refuse, StoreEvent, PruneEvent, handler, pi, NeverSent,
              IInv, Typed
<1>2. Typed'
  BY <1>0 DEF IInv, Typed, row, pi, Runtime, Execute, Refuse, StoreEvent, PruneEvent
<1>3. HandlerInv'
  BY <1>0, <1>1 DEF IInv, Typed, HandlerInv, row, pi, Owning, Seeking,
                    Runtime, Execute, Refuse, StoreEvent, PruneEvent
<1>4. RowInv'
  BY <1>0, <1>1 DEF IInv, Typed, RowInv, row, pi,
                    Runtime, Execute, Refuse, StoreEvent, PruneEvent, Prunable
<1>5. Lineage'
  BY <1>0 DEF IInv, Lineage, Retries, row
<1>q. QED BY <1>2, <1>3, <1>4, <1>5 DEF IInv

LEMMA StutterKeeps == ASSUME IInv, UNCHANGED vars PROVE IInv'
<1>1. UNCHANGED <<state, digest, claim, proof, event, pc, cause, call, runs>>
  BY DEF vars, row, handler, pi
<1>2. NeverSent' = NeverSent
  BY <1>1 DEF NeverSent
<1>3. Lineage'
  BY <1>1 DEF IInv, Lineage, Retries
<1>q. QED BY <1>1, <1>2, <1>3 DEF IInv, Typed, HandlerInv, RowInv

LEMMA Invariance == Spec => []IInv
<1>1. IInv /\ [Next]_vars => IInv'
  BY HandlerMoves, AdmitStep, DispatchStep, TransactionStep, CrashStep, RuntimeKeeps, StutterKeeps
     DEF Next, Handler
<1>q. QED BY InitInv, <1>1, PTL DEF Spec

-----------------------------------------------------------------------------
\* A client that follows the retry references never has its request executed twice:
\* only a message that will not run any more has a successor, and it has one.
THEOREM OneTurn == Spec => []OneTurnPerLineage
<1>1. IInv => OneTurnPerLineage
  BY DEF IInv, Lineage, RowInv, NeverSent, OneTurnPerLineage, Retries
<1>q. QED BY <1>1, Invariance, PTL

\* What a request can do to a row: open it, accept what Pi executed, give up what
\* Pi will not execute; to its own row only, and never against the evidence.
LEMMA Decisions ==
    ASSUME IInv, NEW r \in Requests, Handler(r)
    PROVE  /\ UNCHANGED <<event, runs>>
           /\ \A m \in Messages :
                /\ m # MessageOf[r] => state'[m] = state[m]
                /\ proof[m] => proof'[m]
                /\ \/ state'[m] = state[m]
                   \/ state[m] = "absent" /\ state'[m] = "pending"
                   \/ state[m] = "pending" /\ state'[m] = "accepted" /\ call[m] = "executed"
                   \/ /\ state[m] = "pending" /\ state'[m] \in {"failed", "cancelled"}
                      /\ m \in NeverSent
<1> USE ReceiptAssumption
<1>1. CASE Admit(r)
  BY <1>1 DEF Admit, Fresh, IInv, Typed, pi
<1>2. CASE RecordEvidence(r)
  BY <1>2 DEF RecordEvidence, IInv, Typed, pi
<1>3. CASE CompleteAccepted(r)
  <2>1. call[MessageOf[r]] = "executed"
    BY <1>3 DEF CompleteAccepted, IInv, HandlerInv
  <2>q. QED BY <1>3, <2>1 DEF CompleteAccepted, Complete, IInv, Typed, pi
<1>4. CASE AcceptFromEvidence(r)
  <2>1. call[MessageOf[r]] = "executed"
    BY <1>4 DEF AcceptFromEvidence, IInv, HandlerInv
  <2>q. QED BY <1>4, <2>1 DEF AcceptFromEvidence, IInv, Typed, pi
<1>5. CASE CompleteCancelled(r)
  <2>1. MessageOf[r] \in NeverSent
    BY <1>5 DEF CompleteCancelled, IInv, HandlerInv, Seeking
  <2>q. QED BY <1>5, <2>1 DEF CompleteCancelled, Complete, IInv, Typed, pi
<1>6. CASE Fail(r)
  <2>1. \/ MessageOf[r] \in NeverSent
        \/ proof[MessageOf[r]] \/ state[MessageOf[r]] = "accepted"
    BY <1>6 DEF Fail, IInv, HandlerInv, Seeking
  <2>2. \/ Failed(MessageOf[r]) = state[MessageOf[r]]
        \/ /\ Failed(MessageOf[r]) = "failed" /\ state[MessageOf[r]] = "pending"
           /\ ~ proof[MessageOf[r]]
    BY DEF Failed, IInv, Typed
  <2>q. QED BY <1>6, <2>1, <2>2 DEF Fail, IInv, Typed, pi
<1>7. CASE Dispatch(r)
  BY <1>7 DEF Dispatch, row
<1>8. CASE \/ Conflict(r) \/ Replay(r) \/ Join(r) \/ PreparationFails(r)
           \/ Acknowledged(r) \/ Rejected(r) \/ CallRaises(r) \/ RecordEvidenceRaises(r)
           \/ ProjectionFails(r) \/ CompleteRaises(r) \/ ReadReceipt(r) \/ ReadEvents(r)
           \/ AnswerPending(r) \/ AnswerError(r)
  BY <1>8 DEF Conflict, Replay, Join, PreparationFails, Acknowledged, Rejected, CallRaises,
              RecordEvidenceRaises, ProjectionFails, CompleteRaises, ReadReceipt, ReadEvents,
              AnswerPending, AnswerError, row, pi
<1>q. QED BY <1>1, <1>2, <1>3, <1>4, <1>5, <1>6, <1>7, <1>8 DEF Handler

\* Acceptance evidence of an undecided command stays until the command is accepted:
\* no failure, death of the gateway or retention of events takes it away.
THEOREM EvidenceStays == Spec => EvidenceSurvives
<1>1. IInv /\ [Next]_vars =>
        [\A m \in Messages :
            Undecided(m) => Undecided(m)' \/ state'[m] = "accepted"]_vars
  <2> SUFFICES ASSUME IInv, Next, NEW m \in Messages, Undecided(m)
               PROVE  Undecided(m)' \/ state'[m] = "accepted"
    OBVIOUS
  <2> USE ReceiptAssumption
  <2>0. state[m] = "pending" /\ (proof[m] \/ event[m] = "stored") /\ call[m] = "executed"
    BY DEF Undecided, IInv, RowInv
  <2>1. ASSUME NEW r \in Requests, Handler(r)
        PROVE  Undecided(m)' \/ state'[m] = "accepted"
    <3>1. m \notin NeverSent
      BY <2>0 DEF NeverSent
    <3>q. QED BY <2>0, <2>1, <3>1, Decisions DEF Undecided
  <2>2. ASSUME NEW n \in Messages, Runtime(n) PROVE Undecided(m)'
    <3>1. UNCHANGED row
      BY <2>2 DEF Runtime, Execute, Refuse, StoreEvent, PruneEvent
    <3>2. event[m] = "stored" => event'[m] = "stored"
      BY <2>0, <2>2 DEF Runtime, Execute, Refuse, StoreEvent, PruneEvent, Prunable, IInv, Typed
    <3>q. QED BY <2>0, <3>1, <3>2 DEF row, Undecided
  <2>3. CASE Crash
    BY <2>0, <2>3 DEF Crash, row, Undecided
  <2>q. QED BY <2>1, <2>2, <2>3 DEF Next
<1>q. QED BY <1>1, Invariance, PTL DEF Spec, EvidenceSurvives

-----------------------------------------------------------------------------
(* Receipts implement EffectOutcome: what Pi runs and what rows report of  *)
(* it are its executions and its reports.                                  *)

\* Each step is a step of EffectOutcome or invisible there.
LEMMA StepRefines ==
    ASSUME IInv, [Next]_vars
    PROVE  [Outcome!Next]_Outcome!vars
<1> USE ReceiptAssumption
<1>1. ASSUME NEW r \in Requests, Handler(r) PROVE [Outcome!Next]_Outcome!vars
  <2> DEFINE m == MessageOf[r]
  <2>0. m \in Messages /\ UNCHANGED runs
    BY <1>1, Decisions
  <2>1. \A n \in Messages : n # m => Reported(n)' = Reported(n)
    BY <1>1, Decisions DEF Reported
  <2>2. CASE Reported(m)' = Reported(m)
    <3>1. \A n \in Messages : Reported(n)' = Reported(n)
      BY <2>1, <2>2
    <3>q. QED BY <2>0, <3>1 DEF Outcome!vars
  <2>3. CASE Reported(m)' # Reported(m)
    <3>1. \/ state[m] = "pending" /\ state'[m] = "accepted" /\ call[m] = "executed"
          \/ /\ state[m] = "pending" /\ state'[m] \in {"failed", "cancelled"}
             /\ m \in NeverSent
      BY <1>1, <2>0, <2>3, Decisions DEF Reported
    <3>2. runs[m] = IF state'[m] = "accepted" THEN 1 ELSE 0
      BY <2>0, <3>1 DEF IInv, RowInv, NeverSent
    <3>3. /\ Reported(m) = "open"
          /\ Reported(m)' = IF runs[m] = 1 THEN "executed" ELSE "not_executed"
      BY <3>1, <3>2 DEF Reported
    <3> DEFINE old == [x \in Messages |-> Reported(x)]
               new == [x \in Messages |-> Reported(x)']
    <3>4. new = [old EXCEPT ![m] = IF runs[m] = 1 THEN "executed" ELSE "not_executed"]
      BY <2>1, <3>3
    <3>5. Outcome!Report(m)
      BY <2>0, <3>3, <3>4 DEF Outcome!Report
    <3>q. QED BY <2>0, <3>5 DEF Outcome!Next
  <2>q. QED BY <2>2, <2>3
<1>2. ASSUME NEW m \in Messages, Execute(m) PROVE Outcome!Next
  <2>1. runs[m] = 0 /\ Reported(m) = "open"
    BY <1>2 DEF Execute, IInv, Typed, RowInv, NeverSent, Reported
  <2>2. runs' = [runs EXCEPT ![m] = 1]
    BY <1>2, <2>1 DEF Execute
  <2>3. \A n \in Messages : Reported(n)' = Reported(n)
    BY <1>2 DEF Execute, Reported, row
  <2>4. Outcome!Execute(m)
    BY <2>1, <2>2, <2>3 DEF Outcome!Execute
  <2>q. QED BY <2>4 DEF Outcome!Next
<1>3. ASSUME \/ \E m \in Messages : Refuse(m) \/ StoreEvent(m) \/ PruneEvent(m)
             \/ Crash
             \/ UNCHANGED vars
      PROVE  UNCHANGED Outcome!vars
  <2>1. UNCHANGED <<row, runs>>
    BY <1>3 DEF Refuse, StoreEvent, PruneEvent, Crash, vars, pi
  <2>2. \A n \in Messages : Reported(n)' = Reported(n)
    BY <2>1 DEF row, Reported
  <2>q. QED BY <2>1, <2>2 DEF Outcome!vars
<1>q. QED BY <1>1, <1>2, <1>3 DEF Next, Runtime

\* Receipts with all their requests, retries and crashes keep the same promise as the
\* outbox: a prompt runs at most once, and a row never tells a client the opposite.
THEOREM ReceiptsImplementOutcome == Spec => ImplementsOutcome
<1>1. Init => Outcome!Init
  <2> SUFFICES ASSUME Init PROVE Outcome!Init
    OBVIOUS
  <2>1. \A m \in Messages : Reported(m) = "open"
    BY DEF Init, Reported
  <2>q. QED BY <2>1 DEF Init, Outcome!Init
<1>2. IInv /\ [Next]_vars => [Outcome!Next]_Outcome!vars
  BY StepRefines
<1>q. QED BY <1>1, <1>2, Invariance, PTL DEF Spec, Outcome!Spec, ImplementsOutcome
=============================================================================
