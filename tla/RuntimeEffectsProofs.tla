------------------------ MODULE RuntimeEffectsProofs ------------------------
(***************************************************************************)
(* Theorems about RuntimeEffects for every set of effects, Sessions and    *)
(* workers and any number of crashes.                                      *)
(***************************************************************************)
EXTENDS RuntimeEffects, TLAPS

(* The strengthening of the safety properties to an inductive invariant.   *)

\* A worker handles an effect exactly while it is not idle.
Attention ==
    \A w \in Workers :
        /\ pc[w] = "idle" => at[w] = None
        /\ pc[w] # "idle" => at[w] \in Effects

\* Before it was claimed an effect is nobody's business, the runtime's included.
Untouched ==
    \A e \in Effects :
        state[e] \in {"absent", "pending", "not_sent"} =>
            /\ call[e] = "none"
            /\ \A w \in Workers : at[w] # e

\* The right to call belongs to one worker, and is spent by the call.
Claimed(w, e) == pc[w] = "claimed" /\ at[w] = e
OneClaimer ==
    \A e \in Effects : \A w1 \in Workers :
        Claimed(w1, e) =>
            /\ call[e] = "none"
            /\ state[e] \in InDoubt
            /\ \A w2 \in Workers : Claimed(w2, e) => w1 = w2

\* What excludes that an effect is performed later.
NeverPerformed(e) ==
    /\ call[e] \in {"none", "refused"}
    /\ \A w \in Workers : ~Claimed(w, e)

\* A receipt on its way to the row states a fact.
ReceiptsProven ==
    \A w \in Workers :
        pc[w] = "record" =>
            /\ receipt[w] = "accepted" => call[at[w]] = "executed"
            /\ receipt[w] = "rejected" => NeverPerformed(at[w])

\* So does a row.
RowsProven ==
    \A e \in Effects :
        /\ state[e] = "accepted" => call[e] = "executed"
        /\ state[e] = "rejected" => NeverPerformed(e)

RunsCounted ==
    \A e \in Effects : runs[e] = IF call[e] \in {"unproven", "executed"} THEN
           1 ELSE 0

\* A turn exists since its dispatch was performed.
TurnsStarted ==
    \A d \in Dispatches : turn[d] # "none" <=> call[d] \in {"unproven", "executed"}

\* A dispatch holds its Session from its claim to its drain or non-admission.
SlotsHeld ==
    \A d \in Dispatches :
        /\ state[d] \in {"pending"} \cup InDoubt => slot[SessionOf[d]] = d
        /\ state[d] = "accepted" /\ d \notin drained => slot[SessionOf[d]] = d
        /\ d \in drained => state[d] = "accepted" /\ turn[d] = "settled"

\* Only an accepted attempt is ever cancelled.
CancelsAimed ==
    \A c \in Cancels : state[c] # "absent" => state[TargetOf[c]] = "accepted"

IInv ==
    /\ TypeOK
    /\ Attention
    /\ Untouched
    /\ OneClaimer
    /\ ReceiptsProven
    /\ RowsProven
    /\ RunsCounted
    /\ TurnsStarted
    /\ SlotsHeld
    /\ CancelsAimed
    /\ NoLateCancel

\* Every step of the owner, of a worker and of the runtime keeps the invariant:
\* one step per action, under it the conjuncts the action can disturb.
LEMMA InvStep == IInv /\ [Next]_vars => IInv'
<1> SUFFICES ASSUME IInv, [Next]_vars PROVE IInv'
  OBVIOUS
<1> USE EffectAssumption
<1>1. ASSUME NEW d \in Dispatches, ClaimDispatch(d) PROVE IInv'
  <2>1. TypeOK'
    BY <1>1 DEF IInv, ClaimDispatch, TypeOK, States, thread, runtime
  <2>2. Untouched'
    BY <1>1 DEF IInv, ClaimDispatch, Untouched, thread, runtime
  <2>3. OneClaimer'
    BY <1>1 DEF IInv, ClaimDispatch, OneClaimer, thread, runtime, Untouched,
           Claimed
  <2>4. RowsProven'
    BY <1>1 DEF IInv, ClaimDispatch, RowsProven, thread, runtime, Claimed,
           NeverPerformed
  <2>5. SlotsHeld'
    BY <1>1 DEF IInv, ClaimDispatch, SlotsHeld, TypeOK, runtime
  <2>6. CancelsAimed'
    BY <1>1 DEF IInv, ClaimDispatch, CancelsAimed
  <2>7. NoLateCancel'
    BY <1>1 DEF IInv, ClaimDispatch, NoLateCancel
  <2>8. (Attention /\ ReceiptsProven /\ RunsCounted /\ TurnsStarted)'
    BY <1>1 DEF IInv, ClaimDispatch, thread, runtime, Attention,
           ReceiptsProven, RunsCounted, TurnsStarted, Claimed, NeverPerformed
  <2>q. QED BY <2>1, <2>2, <2>3, <2>4, <2>5, <2>6, <2>7, <2>8 DEF IInv
<1>2. ASSUME NEW d \in Dispatches, Supersede(d) PROVE IInv'
  <2>1. TypeOK'
    BY <1>2 DEF IInv, Supersede, TypeOK, thread, runtime
  <2>2. (Attention /\ Untouched /\ OneClaimer /\ ReceiptsProven /\ RowsProven
         /\ RunsCounted /\ TurnsStarted /\ SlotsHeld /\ CancelsAimed /\
         NoLateCancel)'
    BY <1>2 DEF IInv, Supersede, thread, runtime, Attention, Untouched,
           OneClaimer, ReceiptsProven, RowsProven, RunsCounted, TurnsStarted,
           SlotsHeld, CancelsAimed, NoLateCancel, Claimed, NeverPerformed
  <2>q. QED BY <2>1, <2>2 DEF IInv
<1>3. ASSUME NEW d \in Dispatches, RecordDrain(d) PROVE IInv'
  <2>1. TypeOK'
    BY <1>3 DEF IInv, RecordDrain, TypeOK, thread, runtime
  <2>2. SlotsHeld'
    BY <1>3 DEF IInv, RecordDrain, SlotsHeld, runtime
  <2>3. (Attention /\ Untouched /\ OneClaimer /\ ReceiptsProven /\ RowsProven
         /\ RunsCounted /\ TurnsStarted /\ CancelsAimed /\ NoLateCancel)'
    BY <1>3 DEF IInv, RecordDrain, thread, runtime, Attention, Untouched,
           OneClaimer, ReceiptsProven, RowsProven, RunsCounted, TurnsStarted,
           CancelsAimed, NoLateCancel, Claimed, NeverPerformed
  <2>q. QED BY <2>1, <2>2, <2>3 DEF IInv
<1>4. ASSUME NEW d \in Dispatches, ReleaseExecutor(d) PROVE IInv'
  <2>1. TypeOK'
    BY <1>4 DEF IInv, ReleaseExecutor, TypeOK, States, thread, runtime
  <2>2. Untouched'
    BY <1>4 DEF IInv, ReleaseExecutor, Untouched, thread, runtime
  <2>3. OneClaimer'
    BY <1>4 DEF IInv, ReleaseExecutor, OneClaimer, thread, runtime,
           DrainProven, CancelsSettled, CancelsOf, Claimed
  <2>4. RowsProven'
    BY <1>4 DEF IInv, ReleaseExecutor, RowsProven, thread, runtime, Claimed,
           NeverPerformed
  <2>5. SlotsHeld'
    BY <1>4 DEF IInv, ReleaseExecutor, SlotsHeld, InDoubt, Effects, runtime,
           DrainProven, CancelsSettled, CancelsOf
  <2>6. CancelsAimed'
    BY <1>4 DEF IInv, ReleaseExecutor, CancelsAimed, Effects
  <2>7. NoLateCancel'
    BY <1>4 DEF IInv, ReleaseExecutor, NoLateCancel, InDoubt, Effects,
           DrainProven, CancelsSettled, CancelsOf
  <2>8. (Attention /\ ReceiptsProven /\ RunsCounted /\ TurnsStarted)'
    BY <1>4 DEF IInv, ReleaseExecutor, thread, runtime, Attention,
           ReceiptsProven, RunsCounted, TurnsStarted, Claimed, NeverPerformed
  <2>q. QED BY <2>1, <2>2, <2>3, <2>4, <2>5, <2>6, <2>7, <2>8 DEF IInv
<1>5. ASSUME NEW d \in Dispatches, FailDispatch(d) PROVE IInv'
  <2>1. TypeOK'
    BY <1>5 DEF IInv, FailDispatch, TypeOK, thread, runtime
  <2>2. SlotsHeld'
    BY <1>5 DEF IInv, FailDispatch, SlotsHeld, InDoubt, runtime
  <2>3. NoLateCancel'
    BY <1>5 DEF IInv, FailDispatch, NoLateCancel, InDoubt, CancelsAimed
  <2>4. (Attention /\ Untouched /\ OneClaimer /\ ReceiptsProven /\ RowsProven
         /\ RunsCounted /\ TurnsStarted /\ CancelsAimed)'
    BY <1>5 DEF IInv, FailDispatch, thread, runtime, Attention, Untouched,
           OneClaimer, ReceiptsProven, RowsProven, RunsCounted, TurnsStarted,
           CancelsAimed, Claimed, NeverPerformed
  <2>q. QED BY <2>1, <2>2, <2>3, <2>4 DEF IInv
<1>6. ASSUME NEW c \in Cancels, RequestReclaim(c) PROVE IInv'
  <2>1. TypeOK'
    BY <1>6 DEF IInv, RequestReclaim, TypeOK, States, owner, thread, runtime
  <2>2. Untouched'
    BY <1>6 DEF IInv, RequestReclaim, Untouched, thread, runtime
  <2>3. OneClaimer'
    BY <1>6 DEF IInv, RequestReclaim, OneClaimer, thread, runtime, Untouched,
           Claimed
  <2>4. RowsProven'
    BY <1>6 DEF IInv, RequestReclaim, RowsProven, thread, runtime, Claimed,
           NeverPerformed
  <2>5. SlotsHeld'
    BY <1>6 DEF IInv, RequestReclaim, SlotsHeld, owner, runtime
  <2>6. CancelsAimed'
    BY <1>6 DEF IInv, RequestReclaim, CancelsAimed
  <2>7. NoLateCancel'
    BY <1>6 DEF IInv, RequestReclaim, NoLateCancel, owner
  <2>8. (Attention /\ ReceiptsProven /\ RunsCounted /\ TurnsStarted)'
    BY <1>6 DEF IInv, RequestReclaim, thread, runtime, Attention,
           ReceiptsProven, RunsCounted, TurnsStarted, Claimed, NeverPerformed
  <2>q. QED BY <2>1, <2>2, <2>3, <2>4, <2>5, <2>6, <2>7, <2>8 DEF IInv
<1>7. ASSUME NEW e \in Effects, AbandonPrepared(e) PROVE IInv'
  <2>1. TypeOK'
    BY <1>7 DEF IInv, AbandonPrepared, TypeOK, States, owner, thread, runtime
  <2>2. Untouched'
    BY <1>7 DEF IInv, AbandonPrepared, Untouched, thread, runtime, Withdrawable
  <2>3. OneClaimer'
    BY <1>7 DEF IInv, AbandonPrepared, OneClaimer, thread, runtime,
           Withdrawable, Untouched, Claimed
  <2>4. RowsProven'
    BY <1>7 DEF IInv, AbandonPrepared, RowsProven, thread, runtime, Claimed,
           NeverPerformed
  <2>5. SlotsHeld'
    BY <1>7 DEF IInv, AbandonPrepared, SlotsHeld, owner, runtime, Withdrawable
  <2>6. CancelsAimed'
    BY <1>7 DEF IInv, AbandonPrepared, CancelsAimed, Withdrawable
  <2>7. NoLateCancel'
    BY <1>7 DEF IInv, AbandonPrepared, NoLateCancel, owner, Withdrawable
  <2>8. (Attention /\ ReceiptsProven /\ RunsCounted /\ TurnsStarted)'
    BY <1>7 DEF IInv, AbandonPrepared, thread, runtime, Attention,
           ReceiptsProven, RunsCounted, TurnsStarted, Claimed, NeverPerformed
  <2>q. QED BY <2>1, <2>2, <2>3, <2>4, <2>5, <2>6, <2>7, <2>8 DEF IInv
<1>8. ASSUME NEW w \in Workers, NEW e \in Effects, ClaimSend(w, e) PROVE IInv'
  <2>1. TypeOK'
    BY <1>8 DEF IInv, ClaimSend, TypeOK, States, owner, runtime
  <2>2. Attention'
    BY <1>8 DEF IInv, ClaimSend, Attention, TypeOK
  <2>3. Untouched'
    BY <1>8 DEF IInv, ClaimSend, Untouched, TypeOK, runtime
  <2>4. OneClaimer'
    BY <1>8 DEF IInv, ClaimSend, OneClaimer, TypeOK, InDoubt, runtime,
           Sendable, Untouched, Claimed
  <2>5. ReceiptsProven'
    BY <1>8 DEF IInv, ClaimSend, ReceiptsProven, TypeOK, runtime, Sendable,
           Untouched, Claimed, NeverPerformed
  <2>6. RowsProven'
    BY <1>8 DEF IInv, ClaimSend, RowsProven, TypeOK, runtime, Claimed,
           NeverPerformed
  <2>7. SlotsHeld'
    BY <1>8 DEF IInv, ClaimSend, SlotsHeld, owner, runtime, Sendable
  <2>8. CancelsAimed'
    BY <1>8 DEF IInv, ClaimSend, CancelsAimed, Sendable
  <2>9. NoLateCancel'
    BY <1>8 DEF IInv, ClaimSend, NoLateCancel, owner, Sendable
  <2>10. (RunsCounted /\ TurnsStarted)'
    BY <1>8 DEF IInv, ClaimSend, runtime, RunsCounted, TurnsStarted
  <2>q. QED BY <2>1, <2>2, <2>3, <2>4, <2>5, <2>6, <2>7, <2>8, <2>9, <2>10 DEF IInv
<1>9. ASSUME NEW w \in Workers, NEW e \in Effects, StartReconcile(w, e) PROVE IInv'
  <2>1. TypeOK'
    BY <1>9 DEF IInv, StartReconcile, TypeOK, owner, runtime
  <2>2. Attention'
    BY <1>9 DEF IInv, StartReconcile, Attention, TypeOK
  <2>3. Untouched'
    BY <1>9 DEF IInv, StartReconcile, Untouched, InDoubt, runtime
  <2>4. OneClaimer'
    BY <1>9 DEF IInv, StartReconcile, OneClaimer, runtime, Claimed
  <2>5. ReceiptsProven'
    BY <1>9 DEF IInv, StartReconcile, ReceiptsProven, runtime, Claimed,
           NeverPerformed
  <2>6. RowsProven'
    BY <1>9 DEF IInv, StartReconcile, RowsProven, runtime, Claimed,
           NeverPerformed
  <2>7. (RunsCounted /\ TurnsStarted /\ SlotsHeld /\ CancelsAimed /\
         NoLateCancel)'
    BY <1>9 DEF IInv, StartReconcile, owner, runtime, RunsCounted,
           TurnsStarted, SlotsHeld, CancelsAimed, NoLateCancel
  <2>q. QED BY <2>1, <2>2, <2>3, <2>4, <2>5, <2>6, <2>7 DEF IInv
<1>10. ASSUME NEW w \in Workers, NotSent(w) PROVE IInv'
  <2>1. TypeOK'
    BY <1>10 DEF IInv, NotSent, TypeOK, Receipts, owner, runtime
  <2>2. Attention'
    BY <1>10 DEF IInv, NotSent, Attention
  <2>3. OneClaimer'
    BY <1>10 DEF IInv, NotSent, OneClaimer, runtime, Claimed
  <2>4. ReceiptsProven'
    BY <1>10 DEF IInv, NotSent, ReceiptsProven, TypeOK, runtime, Attention,
           OneClaimer, Claimed, NeverPerformed
  <2>5. RowsProven'
    BY <1>10 DEF IInv, NotSent, RowsProven, runtime, Claimed, NeverPerformed
  <2>6. (Untouched /\ RunsCounted /\ TurnsStarted /\ SlotsHeld /\ CancelsAimed
         /\ NoLateCancel)'
    BY <1>10 DEF IInv, NotSent, owner, runtime, Untouched, RunsCounted,
           TurnsStarted, SlotsHeld, CancelsAimed, NoLateCancel
  <2>q. QED BY <2>1, <2>2, <2>3, <2>4, <2>5, <2>6 DEF IInv
<1>11. ASSUME NEW w \in Workers, Send(w) PROVE IInv'
  <2>1. TypeOK'
    BY <1>11 DEF IInv, Send, TypeOK, Calls, owner
  <2>2. Attention'
    BY <1>11 DEF IInv, Send, Attention
  <2>3. Untouched'
    BY <1>11 DEF IInv, Send, Untouched
  <2>4. OneClaimer'
    BY <1>11 DEF IInv, Send, OneClaimer, TypeOK, Claimed
  <2>5. ReceiptsProven'
    BY <1>11 DEF IInv, Send, ReceiptsProven, TypeOK, OneClaimer, Claimed,
           NeverPerformed
  <2>6. RowsProven'
    BY <1>11 DEF IInv, Send, RowsProven, OneClaimer, Claimed, NeverPerformed
  <2>7. RunsCounted'
    BY <1>11 DEF IInv, Send, RunsCounted, OneClaimer, Claimed
  <2>8. TurnsStarted'
    BY <1>11 DEF IInv, Send, TurnsStarted, TypeOK, OneClaimer, Claimed
  <2>9. (SlotsHeld /\ CancelsAimed /\ NoLateCancel)'
    BY <1>11 DEF IInv, Send, owner, SlotsHeld, CancelsAimed, NoLateCancel
  <2>q. QED BY <2>1, <2>2, <2>3, <2>4, <2>5, <2>6, <2>7, <2>8, <2>9 DEF IInv
<1>12. ASSUME NEW w \in Workers, Answer(w) PROVE IInv'
  <2>1. TypeOK'
    BY <1>12 DEF IInv, Answer, TypeOK, Receipts, owner, runtime, Evidence
  <2>2. Attention'
    BY <1>12 DEF IInv, Answer, Attention
  <2>3. OneClaimer'
    BY <1>12 DEF IInv, Answer, OneClaimer, runtime, Claimed
  <2>4. ReceiptsProven'
    BY <1>12 DEF IInv, Answer, ReceiptsProven, TypeOK, runtime, Evidence,
           Attention, OneClaimer, Claimed, NeverPerformed
  <2>5. RowsProven'
    BY <1>12 DEF IInv, Answer, RowsProven, runtime, Claimed, NeverPerformed
  <2>6. (Untouched /\ RunsCounted /\ TurnsStarted /\ SlotsHeld /\ CancelsAimed
         /\ NoLateCancel)'
    BY <1>12 DEF IInv, Answer, owner, runtime, Untouched, RunsCounted,
           TurnsStarted, SlotsHeld, CancelsAimed, NoLateCancel
  <2>q. QED BY <2>1, <2>2, <2>3, <2>4, <2>5, <2>6 DEF IInv
<1>13. ASSUME NEW w \in Workers, CallRaises(w) PROVE IInv'
  <2>1. TypeOK'
    BY <1>13 DEF IInv, CallRaises, TypeOK, Receipts, owner, runtime,
           CallFailure
  <2>2. Attention'
    BY <1>13 DEF IInv, CallRaises, Attention
  <2>3. OneClaimer'
    BY <1>13 DEF IInv, CallRaises, OneClaimer, runtime, Claimed
  <2>4. ReceiptsProven'
    BY <1>13 DEF IInv, CallRaises, ReceiptsProven, TypeOK, runtime,
           CallFailure, Claimed, NeverPerformed
  <2>5. RowsProven'
    BY <1>13 DEF IInv, CallRaises, RowsProven, runtime, Claimed, NeverPerformed
  <2>6. (Untouched /\ RunsCounted /\ TurnsStarted /\ SlotsHeld /\ CancelsAimed
         /\ NoLateCancel)'
    BY <1>13 DEF IInv, CallRaises, owner, runtime, Untouched, RunsCounted,
           TurnsStarted, SlotsHeld, CancelsAimed, NoLateCancel
  <2>q. QED BY <2>1, <2>2, <2>3, <2>4, <2>5, <2>6 DEF IInv
<1>14. ASSUME NEW w \in Workers, Lookup(w) PROVE IInv'
  <2>1. TypeOK'
    BY <1>14 DEF IInv, Lookup, TypeOK, Receipts, owner, runtime, Evidence
  <2>2. Attention'
    BY <1>14 DEF IInv, Lookup, Attention
  <2>3. OneClaimer'
    BY <1>14 DEF IInv, Lookup, OneClaimer, runtime, Claimed
  <2>4. ReceiptsProven'
    BY <1>14 DEF IInv, Lookup, ReceiptsProven, TypeOK, runtime, Evidence,
           Attention, OneClaimer, Claimed, NeverPerformed
  <2>5. RowsProven'
    BY <1>14 DEF IInv, Lookup, RowsProven, runtime, Claimed, NeverPerformed
  <2>6. (Untouched /\ RunsCounted /\ TurnsStarted /\ SlotsHeld /\ CancelsAimed
         /\ NoLateCancel)'
    BY <1>14 DEF IInv, Lookup, owner, runtime, Untouched, RunsCounted,
           TurnsStarted, SlotsHeld, CancelsAimed, NoLateCancel
  <2>q. QED BY <2>1, <2>2, <2>3, <2>4, <2>5, <2>6 DEF IInv
<1>15. ASSUME NEW w \in Workers, LookupRaises(w) PROVE IInv'
  <2>1. TypeOK'
    BY <1>15 DEF IInv, LookupRaises, TypeOK, owner, runtime
  <2>2. Attention'
    BY <1>15 DEF IInv, LookupRaises, Attention, TypeOK
  <2>3. Untouched'
    BY <1>15 DEF IInv, LookupRaises, Untouched, runtime
  <2>4. OneClaimer'
    BY <1>15 DEF IInv, LookupRaises, OneClaimer, runtime, Claimed
  <2>5. ReceiptsProven'
    BY <1>15 DEF IInv, LookupRaises, ReceiptsProven, runtime, Claimed,
           NeverPerformed
  <2>6. RowsProven'
    BY <1>15 DEF IInv, LookupRaises, RowsProven, runtime, Claimed,
           NeverPerformed
  <2>7. (RunsCounted /\ TurnsStarted /\ SlotsHeld /\ CancelsAimed /\
         NoLateCancel)'
    BY <1>15 DEF IInv, LookupRaises, owner, runtime, RunsCounted, TurnsStarted,
           SlotsHeld, CancelsAimed, NoLateCancel
  <2>q. QED BY <2>1, <2>2, <2>3, <2>4, <2>5, <2>6, <2>7 DEF IInv
<1>16. ASSUME NEW w \in Workers, Record(w) PROVE IInv'
  <2>1. TypeOK'
    BY <1>16 DEF IInv, Record, TypeOK, States, Receipts, owner, runtime,
           Recorded
  <2>2. Attention'
    BY <1>16 DEF IInv, Record, Attention, TypeOK
  <2>3. Untouched'
    BY <1>16 DEF IInv, Record, Untouched, TypeOK, Receipts, runtime, Recorded
  <2>4. OneClaimer'
    BY <1>16 DEF IInv, Record, OneClaimer, TypeOK, InDoubt, Receipts, runtime,
           Recorded, ReceiptsProven, Claimed, NeverPerformed
  <2>5. ReceiptsProven'
    BY <1>16 DEF IInv, Record, ReceiptsProven, TypeOK, runtime, Claimed,
           NeverPerformed
  <2>6. RowsProven'
    BY <1>16 DEF IInv, Record, RowsProven, runtime, Recorded, ReceiptsProven,
           Claimed, NeverPerformed
  <2>7. SlotsHeld'
    BY <1>16 DEF IInv, Record, SlotsHeld, TypeOK, States, Terminal, InDoubt,
           owner, runtime, Recorded, Untouched
  <2>8. CancelsAimed'
    BY <1>16 DEF IInv, Record, CancelsAimed, TypeOK, Terminal, Recorded,
           Untouched
  <2>9. NoLateCancel'
    BY <1>16 DEF IInv, Record, NoLateCancel, TypeOK, States, Terminal, InDoubt,
           owner, Recorded, Untouched
  <2>10. (RunsCounted /\ TurnsStarted)'
    BY <1>16 DEF IInv, Record, runtime, RunsCounted, TurnsStarted
  <2>q. QED BY <2>1, <2>2, <2>3, <2>4, <2>5, <2>6, <2>7, <2>8, <2>9, <2>10 DEF IInv
<1>17. ASSUME NEW w \in Workers, Crash(w) PROVE IInv'
  <2>1. TypeOK'
    BY <1>17 DEF IInv, Crash, TypeOK, Receipts, owner, runtime
  <2>2. Attention'
    BY <1>17 DEF IInv, Crash, Attention, TypeOK
  <2>3. Untouched'
    BY <1>17 DEF IInv, Crash, Untouched, runtime
  <2>4. OneClaimer'
    BY <1>17 DEF IInv, Crash, OneClaimer, runtime, Claimed
  <2>5. ReceiptsProven'
    BY <1>17 DEF IInv, Crash, ReceiptsProven, TypeOK, runtime, Claimed,
           NeverPerformed
  <2>6. RowsProven'
    BY <1>17 DEF IInv, Crash, RowsProven, runtime, Claimed, NeverPerformed
  <2>7. (RunsCounted /\ TurnsStarted /\ SlotsHeld /\ CancelsAimed /\
         NoLateCancel)'
    BY <1>17 DEF IInv, Crash, owner, runtime, RunsCounted, TurnsStarted,
           SlotsHeld, CancelsAimed, NoLateCancel
  <2>q. QED BY <2>1, <2>2, <2>3, <2>4, <2>5, <2>6, <2>7 DEF IInv
<1>18. ASSUME NEW e \in Effects, Execute(e) PROVE IInv'
  <2>1. TypeOK'
    BY <1>18 DEF IInv, Execute, TypeOK, Calls, owner, thread
  <2>2. Untouched'
    BY <1>18 DEF IInv, Execute, Untouched, thread
  <2>3. OneClaimer'
    BY <1>18 DEF IInv, Execute, OneClaimer, thread, Claimed
  <2>4. ReceiptsProven'
    BY <1>18 DEF IInv, Execute, ReceiptsProven, thread, Claimed, NeverPerformed
  <2>5. RowsProven'
    BY <1>18 DEF IInv, Execute, RowsProven, thread, Claimed, NeverPerformed
  <2>6. RunsCounted'
    BY <1>18 DEF IInv, Execute, RunsCounted, TypeOK
  <2>7. TurnsStarted'
    BY <1>18 DEF IInv, Execute, TurnsStarted, TypeOK
  <2>8. SlotsHeld'
    BY <1>18 DEF IInv, Execute, SlotsHeld, owner, TurnsStarted
  <2>9. (Attention /\ CancelsAimed /\ NoLateCancel)'
    BY <1>18 DEF IInv, Execute, owner, thread, Attention, CancelsAimed,
           NoLateCancel
  <2>q. QED BY <2>1, <2>2, <2>3, <2>4, <2>5, <2>6, <2>7, <2>8, <2>9 DEF IInv
<1>19. ASSUME NEW e \in Effects, ProveLate(e) PROVE IInv'
  <2>1. TypeOK'
    BY <1>19 DEF IInv, ProveLate, TypeOK, Calls, owner, thread
  <2>2. Untouched'
    BY <1>19 DEF IInv, ProveLate, Untouched, thread
  <2>3. OneClaimer'
    BY <1>19 DEF IInv, ProveLate, OneClaimer, thread, Claimed
  <2>4. ReceiptsProven'
    BY <1>19 DEF IInv, ProveLate, ReceiptsProven, thread, Claimed,
           NeverPerformed
  <2>5. RowsProven'
    BY <1>19 DEF IInv, ProveLate, RowsProven, thread, Claimed, NeverPerformed
  <2>6. RunsCounted'
    BY <1>19 DEF IInv, ProveLate, RunsCounted
  <2>7. TurnsStarted'
    BY <1>19 DEF IInv, ProveLate, TurnsStarted
  <2>8. (Attention /\ SlotsHeld /\ CancelsAimed /\ NoLateCancel)'
    BY <1>19 DEF IInv, ProveLate, owner, thread, Attention, SlotsHeld,
           CancelsAimed, NoLateCancel
  <2>q. QED BY <2>1, <2>2, <2>3, <2>4, <2>5, <2>6, <2>7, <2>8 DEF IInv
<1>20. ASSUME NEW e \in Effects, Refuse(e) PROVE IInv'
  <2>1. TypeOK'
    BY <1>20 DEF IInv, Refuse, TypeOK, Calls, owner, thread
  <2>2. Untouched'
    BY <1>20 DEF IInv, Refuse, Untouched, thread
  <2>3. OneClaimer'
    BY <1>20 DEF IInv, Refuse, OneClaimer, thread, Claimed
  <2>4. ReceiptsProven'
    BY <1>20 DEF IInv, Refuse, ReceiptsProven, thread, Claimed, NeverPerformed
  <2>5. RowsProven'
    BY <1>20 DEF IInv, Refuse, RowsProven, thread, Claimed, NeverPerformed
  <2>6. RunsCounted'
    BY <1>20 DEF IInv, Refuse, RunsCounted
  <2>7. TurnsStarted'
    BY <1>20 DEF IInv, Refuse, TurnsStarted
  <2>8. (Attention /\ SlotsHeld /\ CancelsAimed /\ NoLateCancel)'
    BY <1>20 DEF IInv, Refuse, owner, thread, Attention, SlotsHeld,
           CancelsAimed, NoLateCancel
  <2>q. QED BY <2>1, <2>2, <2>3, <2>4, <2>5, <2>6, <2>7, <2>8 DEF IInv
<1>21. ASSUME NEW d \in Dispatches, TurnSettles(d) PROVE IInv'
  <2>1. TypeOK'
    BY <1>21 DEF IInv, TurnSettles, TypeOK, owner, thread
  <2>2. TurnsStarted'
    BY <1>21 DEF IInv, TurnSettles, TurnsStarted
  <2>3. SlotsHeld'
    BY <1>21 DEF IInv, TurnSettles, SlotsHeld, owner
  <2>4. (Attention /\ Untouched /\ OneClaimer /\ ReceiptsProven /\ RowsProven
         /\ RunsCounted /\ CancelsAimed /\ NoLateCancel)'
    BY <1>21 DEF IInv, TurnSettles, owner, thread, Attention, Untouched,
           OneClaimer, ReceiptsProven, RowsProven, RunsCounted, CancelsAimed,
           NoLateCancel, Claimed, NeverPerformed
  <2>q. QED BY <2>1, <2>2, <2>3, <2>4 DEF IInv
<1>22. CASE UNCHANGED vars
  BY <1>22 DEF vars, owner, thread, runtime, IInv, TypeOK, Attention,
         Untouched, OneClaimer, ReceiptsProven, RowsProven, RunsCounted,
         TurnsStarted, SlotsHeld, CancelsAimed, NoLateCancel, Claimed,
         NeverPerformed, InDoubt
<1>q. QED BY <1>1, <1>2, <1>3, <1>4, <1>5, <1>6, <1>7, <1>8, <1>9, <1>10,
       <1>11, <1>12, <1>13, <1>14, <1>15, <1>16, <1>17, <1>18, <1>19, <1>20,
       <1>21, <1>22 DEF Next, OwnerStep, WorkerStep, RuntimeStep

-----------------------------------------------------------------------------
\* The empty outbox satisfies the invariant.
LEMMA InitInv == Init => IInv
<1> SUFFICES ASSUME Init PROVE IInv
  OBVIOUS
<1> USE EffectAssumption
<1>1. TypeOK
  BY DEF Init, TypeOK, States, Receipts, Calls
<1>2. Attention /\ Untouched /\ OneClaimer /\ ReceiptsProven
  BY DEF Init, Attention, Untouched, OneClaimer, ReceiptsProven, Claimed, InDoubt
<1>3. RowsProven /\ RunsCounted /\ TurnsStarted
  BY DEF Init, RowsProven, RunsCounted, TurnsStarted, Effects
<1>4. SlotsHeld /\ CancelsAimed /\ NoLateCancel
  BY DEF Init, SlotsHeld, CancelsAimed, NoLateCancel, Effects, InDoubt
<1>q. QED BY <1>1, <1>2, <1>3, <1>4 DEF IInv

\* The strengthened invariant holds in every reachable state.
LEMMA Invariance == Spec => []IInv
BY InitInv, InvStep, PTL DEF Spec

\* Every row, slot, thread and runtime record keeps its type, for any number of
\* effects, Sessions, workers and deaths.
THEOREM TypeCorrect == Spec => []TypeOK
<1>1. IInv => TypeOK
  BY DEF IInv
<1>q. QED BY <1>1, Invariance, PTL

\* deliver, reconcile and their crashes never make the runtime perform an
\* effect twice: the right to call is claimed by one worker and spent by its call.
THEOREM SentOnce == Spec => []AtMostOneRun
<1>1. IInv => AtMostOneRun
  BY DEF IInv, RunsCounted, AtMostOneRun
<1>q. QED BY <1>1, Invariance, PTL

\* A row that says accepted, rejected or not_sent says what the runtime did, and
\* nothing is left that could make it false.
THEOREM OutcomesAreTrue == Spec => []TruthfulOutcome
<1>1. IInv => TruthfulOutcome
  BY DEF IInv, TruthfulOutcome, RunsCounted, RowsProven, Untouched, NeverPerformed
<1>q. QED BY <1>1, Invariance, PTL

\* The conflict "contradictory runtime receipts" of _record is unreachable.
THEOREM ReceiptsAgree == Spec => []NoContradiction
<1>1. IInv => NoContradiction
  <2> SUFFICES ASSUME IInv, NEW w \in Workers, pc[w] = "record",
                      receipt[w] # "unknown", state[at[w]] \in Terminal
               PROVE  receipt[w] = state[at[w]]
    BY DEF NoContradiction
  <2>1. at[w] \in Effects /\ receipt[w] \in {"accepted", "rejected"}
    BY DEF IInv, Attention, TypeOK, Receipts
  <2>2. state[at[w]] # "not_sent"
    BY <2>1 DEF IInv, Untouched
  <2>3. CASE receipt[w] = "accepted"
    BY <2>1, <2>2, <2>3 DEF IInv, ReceiptsProven, RowsProven, NeverPerformed, Terminal
  <2>4. CASE receipt[w] = "rejected"
    BY <2>1, <2>2, <2>4 DEF IInv, ReceiptsProven, RowsProven, NeverPerformed, Terminal
  <2>q. QED BY <2>1, <2>3, <2>4
<1>q. QED BY <1>1, Invariance, PTL

\* An attempt that runs, or may still start, holds the slot of its Session.
LEMMA LiveHoldsSlot ==
    ASSUME IInv, NEW d \in Dispatches, Live(d)
    PROVE  slot[SessionOf[d]] = d
<1>1. state[d] \in {"accepted"} \cup InDoubt
  BY DEF IInv, Live, TypeOK, States, Effects, Untouched, RowsProven,
         NeverPerformed, TurnsStarted, InDoubt
<1>2. CASE state[d] \in InDoubt
  BY <1>2 DEF IInv, SlotsHeld
<1>3. CASE state[d] = "accepted"
  <2>1. turn[d] = "running"
    BY <1>3 DEF IInv, Live, RowsProven, Effects
  <2>q. QED BY <1>3, <2>1 DEF IInv, SlotsHeld
<1>q. QED BY <1>1, <1>2, <1>3

\* A Session is never given to a second attempt while the first runs or a call in
\* flight may still start it.
THEOREM SessionsAreExclusive == Spec => []OneAttemptPerSession
<1>1. IInv => OneAttemptPerSession
  BY LiveHoldsSlot DEF OneAttemptPerSession
<1>q. QED BY <1>1, Invariance, PTL

\* A cancel that may still be sent aims at an attempt that still holds its
\* Session, so it cannot hit the Session's next attempt.
THEOREM CancelsAreInTime == Spec => []NoLateCancel
<1>1. IInv => NoLateCancel
  BY DEF IInv
<1>q. QED BY <1>1, Invariance, PTL

-----------------------------------------------------------------------------
\* What a step can do to the report of an effect: nothing, unless it proves one
\* open effect, or withdraws several that were never sent.
LEMMA TerminalStays ==
    ASSUME IInv, [Next]_vars, NEW x \in Effects, state[x] \in Terminal
    PROVE  state'[x] = state[x]
<1> USE EffectAssumption DEF Terminal
<1>1. ASSUME NEW d \in Dispatches,
             ClaimDispatch(d) \/ Supersede(d) \/ RecordDrain(d)
             \/ ReleaseExecutor(d) \/ FailDispatch(d)
      PROVE  state'[x] = state[x]
  BY <1>1 DEF IInv, TypeOK, ClaimDispatch, Supersede, RecordDrain, ReleaseExecutor,
              FailDispatch
<1>2. ASSUME NEW c \in Cancels, RequestReclaim(c) PROVE state'[x] = state[x]
  BY <1>2 DEF IInv, TypeOK, RequestReclaim
<1>3. ASSUME NEW e \in Effects, AbandonPrepared(e) PROVE state'[x] = state[x]
  BY <1>3 DEF IInv, TypeOK, AbandonPrepared, Withdrawable
<1>4. ASSUME NEW w \in Workers, NEW e \in Effects, ClaimSend(w, e) \/ StartReconcile(w, e)
      PROVE  state'[x] = state[x]
  BY <1>4 DEF IInv, TypeOK, ClaimSend, StartReconcile, Sendable
<1>5. ASSUME NEW w \in Workers, Record(w) PROVE state'[x] = state[x]
  BY <1>5 DEF IInv, TypeOK, Record, Recorded
<1>6. ASSUME NEW w \in Workers,
             NotSent(w) \/ Send(w) \/ Answer(w) \/ CallRaises(w) \/ Lookup(w)
             \/ LookupRaises(w) \/ Crash(w)
      PROVE  state'[x] = state[x]
  BY <1>6 DEF NotSent, Send, Answer, CallRaises, Lookup, LookupRaises, Crash
<1>7. ASSUME RuntimeStep PROVE state'[x] = state[x]
  BY <1>7 DEF RuntimeStep, Execute, ProveLate, Refuse, TurnSettles
<1>8. CASE UNCHANGED vars
  BY <1>8 DEF vars
<1>q. QED BY <1>1, <1>2, <1>3, <1>4, <1>5, <1>6, <1>7, <1>8 DEF Next, OwnerStep, WorkerStep

\* A proven outcome is never demoted or replaced: _record keeps a terminal row, and
\* no owner transaction touches one.
THEOREM OutcomesAreFinal == Spec => OutcomeIsFinal
<1>1. IInv /\ [Next]_vars =>
        [\A e \in Effects : state[e] \in Terminal => state'[e] = state[e]]_vars
  BY TerminalStays
<1>q. QED BY <1>1, Invariance, PTL DEF Spec, OutcomeIsFinal

-----------------------------------------------------------------------------
(* The outbox implements EffectOutcome: every step executes, reports or    *)
(* withdraws effects there, or changes nothing that a caller can see.      *)

\* Steps that leave the runtime's runs and every report alone are invisible.
LEMMA Invisible ==
    ASSUME UNCHANGED runs, \A e \in Effects : Reported(e)' = Reported(e)
    PROVE  UNCHANGED Outcome!vars
BY DEF Outcome!vars

\* A step that only closes the report of one open effect, truthfully, reports it.
LEMMA OneReport ==
    ASSUME NEW e \in Effects, UNCHANGED runs,
           Reported(e) = "open",
           Reported(e)' = IF runs[e] = 1 THEN "executed" ELSE "not_executed",
           \A x \in Effects : x # e => Reported(x)' = Reported(x)
    PROVE  Outcome!Report(e)
<1> DEFINE old == [x \in Effects |-> Reported(x)]
           new == [x \in Effects |-> Reported(x)']
           end == IF runs[e] = 1 THEN "executed" ELSE "not_executed"
<1>1. new = [old EXCEPT ![e] = end]
  OBVIOUS
<1>q. QED BY <1>1 DEF Outcome!Report

\* Each step of the outbox is a step of EffectOutcome or invisible there.
LEMMA StepRefines ==
    ASSUME IInv, [Next]_vars
    PROVE  [Outcome!Next]_Outcome!vars
<1> USE EffectAssumption
<1>1. ASSUME NEW d \in Dispatches,
             ClaimDispatch(d) \/ Supersede(d) \/ RecordDrain(d) \/ FailDispatch(d)
      PROVE  UNCHANGED Outcome!vars
  <2>1. UNCHANGED runs
    BY <1>1 DEF ClaimDispatch, Supersede, RecordDrain, FailDispatch, runtime
  <2>2. \A e \in Effects : Reported(e)' = Reported(e)
    BY <1>1 DEF ClaimDispatch, Supersede, RecordDrain, FailDispatch, Reported,
                IInv, TypeOK
  <2>q. QED BY <2>1, <2>2, Invisible
<1>2. ASSUME NEW d \in Dispatches, ReleaseExecutor(d) PROVE Outcome!Next
  <2> DEFINE E == {c \in CancelsOf(d) : state[c] = "pending"}
  <2>1. E \in SUBSET Effects
    BY DEF CancelsOf, Effects
  <2>2. \A e \in E : runs[e] = 0
    BY <2>1 DEF IInv, Untouched, RunsCounted
  <2>3. Outcome!Withdraw(E)
    <3>1. \A e \in E : Reported(e) = "open"
      BY DEF Reported
    <3>2. \A e \in Effects :
             Reported(e)' = IF e \in E THEN "not_executed" ELSE Reported(e)
      BY <1>2 DEF ReleaseExecutor, Reported
    <3>3. UNCHANGED runs
      BY <1>2 DEF ReleaseExecutor, runtime
    <3>q. QED BY <2>1, <2>2, <3>1, <3>2, <3>3 DEF Outcome!Withdraw
  <2>q. QED BY <2>1, <2>3 DEF Outcome!Next
<1>3. ASSUME NEW c \in Cancels, RequestReclaim(c) PROVE UNCHANGED Outcome!vars
  <2>1. UNCHANGED runs
    BY <1>3 DEF RequestReclaim, runtime
  <2>2. \A e \in Effects : Reported(e)' = Reported(e)
    BY <1>3 DEF RequestReclaim, Reported, IInv, TypeOK
  <2>q. QED BY <2>1, <2>2, Invisible
<1>4. ASSUME NEW e \in Effects, AbandonPrepared(e) PROVE Outcome!Next
  <2>1. runs[e] = 0 /\ Reported(e) = "open"
    BY <1>4 DEF AbandonPrepared, Withdrawable, IInv, Untouched, RunsCounted, Reported
  <2>2. /\ Reported(e)' = "not_executed"
        /\ \A x \in Effects : x # e => Reported(x)' = Reported(x)
    BY <1>4 DEF AbandonPrepared, Reported, IInv, TypeOK
  <2>3. UNCHANGED runs
    BY <1>4 DEF AbandonPrepared, runtime
  <2>4. Outcome!Report(e)
    BY <2>1, <2>2, <2>3, OneReport
  <2>q. QED BY <2>4 DEF Outcome!Next
<1>5. ASSUME NEW w \in Workers, NEW e \in Effects, ClaimSend(w, e) \/ StartReconcile(w, e)
      PROVE  UNCHANGED Outcome!vars
  <2>1. UNCHANGED runs
    BY <1>5 DEF ClaimSend, StartReconcile, runtime
  <2>2. \A x \in Effects : Reported(x)' = Reported(x)
    BY <1>5 DEF ClaimSend, StartReconcile, Sendable, Reported, IInv, TypeOK
  <2>q. QED BY <2>1, <2>2, Invisible
<1>6. ASSUME NEW w \in Workers, Record(w) PROVE [Outcome!Next]_Outcome!vars
  <2>0. PICK e \in Effects : e = at[w]
    BY <1>6 DEF Record, IInv, Attention
  <2>1. receipt[w] \in Receipts
    BY DEF IInv, TypeOK
  <2>2. UNCHANGED runs
    BY <1>6 DEF Record, runtime
  <2>3. \A x \in Effects : x # e => Reported(x)' = Reported(x)
    BY <1>6, <2>0 DEF Record, Reported, IInv, TypeOK
  <2>4. state'[e] = IF state[e] \in Terminal THEN state[e] ELSE receipt[w]
    BY <1>6, <2>0 DEF Record, Recorded, IInv, TypeOK
  <2>5. CASE state[e] \in Terminal \/ receipt[w] = "unknown"
    <3>1. Reported(e)' = Reported(e)
      BY <2>4, <2>5 DEF Reported, Terminal
    <3>q. QED BY <2>2, <2>3, <3>1, Invisible
  <2>6. CASE state[e] \notin Terminal /\ receipt[w] # "unknown"
    <3>1. runs[e] = IF receipt[w] = "accepted" THEN 1 ELSE 0
      BY <1>6, <2>0, <2>1, <2>6
         DEF Record, Receipts, IInv, ReceiptsProven, NeverPerformed, RunsCounted
    <3>2. /\ Reported(e) = "open"
          /\ Reported(e)' = IF runs[e] = 1 THEN "executed" ELSE "not_executed"
      BY <2>1, <2>4, <2>6, <3>1 DEF Reported, Terminal, Receipts
    <3>3. Outcome!Report(e)
      BY <2>2, <2>3, <3>2, OneReport
    <3>q. QED BY <3>3 DEF Outcome!Next
  <2>q. QED BY <2>5, <2>6
<1>7. ASSUME NEW w \in Workers,
             NotSent(w) \/ Send(w) \/ Answer(w) \/ CallRaises(w) \/ Lookup(w)
             \/ LookupRaises(w) \/ Crash(w)
      PROVE  UNCHANGED Outcome!vars
  <2>1. UNCHANGED runs
    BY <1>7 DEF NotSent, Send, Answer, CallRaises, Lookup, LookupRaises, Crash, runtime
  <2>2. \A e \in Effects : Reported(e)' = Reported(e)
    BY <1>7 DEF NotSent, Send, Answer, CallRaises, Lookup, LookupRaises, Crash, Reported
  <2>q. QED BY <2>1, <2>2, Invisible
<1>8. ASSUME NEW e \in Effects, Execute(e) PROVE Outcome!Next
  <2>1. runs[e] = 0 /\ Reported(e) = "open"
    BY <1>8 DEF Execute, IInv, RunsCounted, Untouched, RowsProven, NeverPerformed, Reported
  <2>2. runs' = [runs EXCEPT ![e] = 1]
    BY <1>8, <2>1 DEF Execute
  <2>3. \A x \in Effects : Reported(x)' = Reported(x)
    BY <1>8 DEF Execute, Reported
  <2>4. Outcome!Execute(e)
    BY <2>1, <2>2, <2>3 DEF Outcome!Execute
  <2>q. QED BY <2>4 DEF Outcome!Next
<1>9. ASSUME (\E e \in Effects : ProveLate(e) \/ Refuse(e))
             \/ (\E d \in Dispatches : TurnSettles(d))
      PROVE  UNCHANGED Outcome!vars
  <2>1. UNCHANGED runs
    BY <1>9 DEF ProveLate, Refuse, TurnSettles
  <2>2. \A e \in Effects : Reported(e)' = Reported(e)
    BY <1>9 DEF ProveLate, Refuse, TurnSettles, Reported
  <2>q. QED BY <2>1, <2>2, Invisible
<1>10. CASE UNCHANGED vars
  <2>1. \A e \in Effects : Reported(e)' = Reported(e)
    BY <1>10 DEF vars, Reported
  <2>q. QED BY <1>10, <2>1, Invisible DEF vars, runtime
<1>q. QED
  BY <1>1, <1>2, <1>3, <1>4, <1>5, <1>6, <1>7, <1>8, <1>9, <1>10
     DEF Next, OwnerStep, WorkerStep, RuntimeStep

\* The outbox with all its threads, crashes and late answers implements the
\* at-most-once, truthful-report promise of EffectOutcome.
THEOREM OutboxImplementsOutcome == Spec => ImplementsOutcome
<1>1. Init => Outcome!Init
  <2> SUFFICES ASSUME Init PROVE Outcome!Init
    OBVIOUS
  <2>1. \A e \in Effects : Reported(e) = "open"
    BY DEF Init, Reported
  <2>q. QED BY <2>1 DEF Init, Outcome!Init
<1>2. IInv /\ [Next]_vars => [Outcome!Next]_Outcome!vars
  BY StepRefines
<1>q. QED BY <1>1, <1>2, Invariance, PTL DEF Spec, Outcome!Spec, ImplementsOutcome
=============================================================================
