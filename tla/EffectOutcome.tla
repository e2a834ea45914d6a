--------------------------- MODULE EffectOutcome ---------------------------
(***************************************************************************)
(* What the runtime-effect outbox promises its callers, and nothing of how *)
(* it keeps the promise.  An effect is executed by the runtime at most     *)
(* once; what is reported of it is true when it is reported and never      *)
(* changes; an effect reported as not executed is not executed afterwards. *)
(***************************************************************************)
EXTENDS Naturals

CONSTANT Effects        \* effect identities, agent_jev_runtime_effects.effect_id

VARIABLES
    executions,         \* effect -> how often the runtime performed it
    report              \* effect -> "open" | "executed" | "not_executed"

vars == <<executions, report>>

Init ==
    /\ executions = [e \in Effects |-> 0]
    /\ report = [e \in Effects |-> "open"]

\* The runtime performs the effect.
Execute(e) ==
    /\ report[e] = "open"
    /\ executions[e] = 0
    /\ executions' = [executions EXCEPT ![e] = 1]
    /\ UNCHANGED report

\* The outcome is proven and becomes the effect's durable answer.
Report(e) ==
    /\ report[e] = "open"
    /\ report' = [report EXCEPT
                    ![e] = IF executions[e] = 1 THEN "executed" ELSE "not_executed"]
    /\ UNCHANGED executions

\* One owner transaction may settle several effects that were never sent.
Withdraw(E) ==
    /\ \A e \in E : report[e] = "open" /\ executions[e] = 0
    /\ report' = [e \in Effects |-> IF e \in E THEN "not_executed" ELSE report[e]]
    /\ UNCHANGED executions

Next ==
    \/ \E e \in Effects : Execute(e) \/ Report(e)
    \/ \E E \in SUBSET Effects : Withdraw(E)

Spec == Init /\ [][Next]_vars
=============================================================================
