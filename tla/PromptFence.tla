----------------------------- MODULE PromptFence -----------------------------
(***************************************************************************)
(* The turn fence of one Session of the classic Pi engine                   *)
(* (PiRuntimeHostManager in rag_ime/pi/runtime.py): the reservation of a     *)
(* prompt, its hand-off to the Host process, the answer and the events that  *)
(* come back on two lanes, messages queued into a turn (steer, follow-up),    *)
(* Stop, the timers that recover a turn whose end was lost, and the exit of   *)
(* the Host.                                                                *)
(*                                                                          *)
(* A prompt is one attempt with a client message id of its own; the turn it  *)
(* starts is named after it.  Each action is one section of the Runtime's    *)
(* lock (a prompt hand-off also holds the write lock of the Host client), or *)
(* what a thread does outside of it.                                         *)
(***************************************************************************)
EXTENDS Integers, FiniteSets, Sequences, SequencesExt

CONSTANTS
    Prompts,    \* prompt attempts
    Stops,      \* Stop requests
    Steers,     \* messages to be queued into the running turn
    None,       \* no prompt, no Stop
    MaxExits    \* bound: exits of the Host

Stoppers == Stops \cup Prompts  \* an answered prompt delivers the Stop that awaited it

ASSUME PromptFenceAssumption ==
    /\ None \notin Stoppers /\ Prompts \cap Stops = {}
    /\ MaxExits \in Nat

VARIABLES
    fence,      \* _HostedSessionState
    retired,    \* _retired_host_turns
    status,     \* the durable status of the Session
    ended,      \* the terminals published for each turn
    pc,         \* each prompt's thread
    stops,      \* each Stop's thread
    workers,    \* _deliver_pending_admission_abort threads, by prompt
    steers,     \* each queued message's thread
    probes,     \* the turns that the settle probe and the abort fallback look at
    late,       \* projections that a thread still has to write, outside the lock
    failing,    \* the turn that the event lane has fenced and will fail
    client,     \* the Host process: how many before it, and whether it runs
    host,       \* what the Host does
    wire,       \* commands on their way to the Host
    events      \* its events, not yet handled

session == <<fence, retired, status, ended>>
threads == <<pc, stops, workers, steers, probes, late, failing>>
external == <<client, host, wire, events>>
vars == <<session, threads, external>>

Unfenced == [admission |-> None,    \* prompt_admission_in_flight, its client id
             cancelled |-> FALSE,   \* abort_pending_admission
             abortSent |-> FALSE,   \* admission_abort_dispatched
             dispatched |-> FALSE,  \* prompt_dispatched
             turn |-> None,         \* turn_id
             aborting |-> None,     \* abort_requested_turn_id
             abortTimer |-> None,   \* the Stop that armed it
             settleTimer |-> None]  \* the turn it was armed for

Init ==
    /\ fence = Unfenced /\ retired = {} /\ status = "idle"
    /\ ended = [p \in Prompts |-> <<>>]
    /\ pc = [p \in Prompts |-> [at |-> "idle", client |-> 0]]
    /\ stops = [s \in Stoppers |-> [at |-> "idle", target |-> None]]
    /\ steers = [q \in Steers |-> [at |-> "idle", turn |-> None]]
    /\ workers = {} /\ late = {} /\ failing = None
    /\ probes = [settle |-> None, abort |-> None]
    /\ client = [exits |-> 0, up |-> TRUE]
    /\ host = [turn |-> None, phase |-> "idle", ran |-> {}]
    /\ wire = <<>> /\ events = <<>>

-----------------------------------------------------------------------------
(***************************************************************************)
(* Reservations and turns.                                                 *)
(***************************************************************************)
\* The one reset of an admission that is consumed, released or refused.
Released_AdmissionOnly(f) == [f EXCEPT !.admission = None]
Released(f) ==
    [f EXCEPT !.admission = None, !.cancelled = FALSE, !.abortSent = FALSE,
              !.dispatched = FALSE]

\* What every terminal path clears with the turn.
Cleared(f) == [f EXCEPT !.turn = None, !.aborting = None]
Untimed(f) == [f EXCEPT !.abortTimer = None, !.settleTimer = None]

Goto(p, label) == pc' = [pc EXCEPT ![p].at = label]

\* reserve_prompt_admission.
Reserve(p) ==
    /\ pc[p].at = "idle"
    /\ IF fence.turn = None /\ fence.admission = None
       THEN /\ fence' = [Released(fence) EXCEPT !.admission = p]
            /\ status' = "busy" /\ Goto(p, "reserved")
       ELSE UNCHANGED <<fence, status>> /\ Goto(p, "over")
    /\ UNCHANGED <<retired, ended, stops, workers, steers, probes, late, failing, external>>

\* The application prepares the prompt and checks a last time that Stop has not come
\* (require_prompt_admission_active); else, or when the preparation fails, it releases
\* the admission (release_prompt_admission).
Prepare(p) ==
    /\ pc[p].at = "reserved" /\ fence.admission = p /\ ~fence.cancelled
    /\ Goto(p, "prepared")
    /\ UNCHANGED <<session, stops, workers, steers, probes, late, failing, external>>

Release(p) ==
    LET owns == fence.admission = p /\ fence.turn = None /\ ~fence.dispatched IN
    /\ pc[p].at = "reserved"
    /\ fence' = IF owns THEN Released(fence) ELSE fence
    /\ status' = IF owns THEN "idle" ELSE status
    /\ Goto(p, "over")
    /\ UNCHANGED <<retired, ended, stops, workers, steers, probes, late, failing, external>>

\* prompt() opens the Session, starting a Host where none runs, and takes the
\* reservation over.  A Host exit has dropped it: then prompt() makes its own.
Enter(p) ==
    /\ pc[p].at = "prepared"
    /\ client' = [client EXCEPT !.up = TRUE]
    /\ \/ /\ fence.turn = None /\ fence.admission \in {p, None} /\ ~fence.cancelled
          /\ fence' = [fence EXCEPT !.admission = p, !.aborting = None]
          /\ pc' = [pc EXCEPT ![p] = [at |-> "entered", client |-> client.exits]]
          /\ status' = "busy" /\ UNCHANGED late
       \/ /\ fence.turn = None /\ fence.admission = p /\ fence.cancelled
          /\ fence' = [Released(fence) EXCEPT !.aborting = None]
          /\ late' = late \cup {[turn |-> p, as |-> "cancelled"]}
          /\ Goto(p, "over") /\ UNCHANGED status
       \/ /\ fence.turn # None \/ fence.admission \notin {p, None}
          /\ Goto(p, "over") /\ UNCHANGED <<fence, status, late>>
    /\ UNCHANGED <<retired, ended, stops, workers, steers, probes, failing,
                   host, wire, events>>

\* _mark_prompt_dispatched right before the write; the tools that are synchronised
\* first may fail.  A Host that dies during the write leaves the answer unknown.
Alive(p) == client.up /\ pc[p].client = client.exits
MayDispatch_IfOwner(p) == fence.turn = None /\ fence.admission = p
MayDispatch(p) == fence.turn = None /\ fence.admission = p /\ ~fence.cancelled

Dispatch(p) ==
    /\ pc[p].at = "entered" /\ Alive(p) /\ MayDispatch(p)
    /\ fence' = [fence EXCEPT !.dispatched = TRUE]
    /\ wire' = Append(wire, [cmd |-> "prompt", by |-> p, turn |-> p])
    /\ Goto(p, "waiting")
    /\ UNCHANGED <<retired, status, ended, stops, workers, steers, probes, late, failing,
                   client, host, events>>

\* A hand-off that was refused here or by the Host releases the exact admission, a
\* lost answer keeps it.
Rejected(p) ==
    LET owns == fence.admission = p /\ fence.turn = None IN
    /\ pc[p].at \in {"entered", "rejected"}
    /\ fence' = IF owns THEN Released(fence) ELSE fence
    /\ status' = IF owns THEN "idle" ELSE status
    /\ Goto(p, "over")
    /\ UNCHANGED <<retired, ended, stops, workers, steers, probes, late, failing, external>>

Unanswered_Releases(p) ==
    LET owns == fence.admission = p /\ fence.turn = None IN
    /\ pc[p].at = "waiting" /\ Goto(p, "over")
    /\ fence' = IF owns THEN Released(fence) ELSE fence
    /\ UNCHANGED <<retired, status, ended, stops, workers, steers, probes, late, failing, external>>
Unanswered(p) ==
    /\ pc[p].at = "waiting" /\ Goto(p, "over")
    /\ UNCHANGED <<session, stops, workers, steers, probes, late, failing, external>>

\* The answer: bound unless the turn has ended or a newer owner has come; a Stop
\* that waited for the turn id is handed to the bound abort.
Newer(p) ==
    ~Alive(p) \/ fence.admission \notin {None, p} \/ fence.turn \notin {None, p}
Binds_Retired(p) == ~Newer(p)
Binds(p) == ~Newer(p) /\ p \notin retired

Acknowledge(p) ==
    LET owns == fence.admission = p /\ Alive(p)
        stop == owns /\ fence.cancelled
        f == IF owns THEN Released(fence) ELSE fence
    IN
    /\ pc[p].at = "accepted"
    /\ fence' = IF Binds(p) THEN [f EXCEPT !.turn = p, !.aborting = IF stop THEN p ELSE @]
                ELSE f
    /\ status' = IF Binds(p) THEN "busy" ELSE status
    /\ Goto(p, IF Binds(p) /\ stop THEN "stopping" ELSE "over")
    /\ UNCHANGED <<retired, ended, stops, workers, steers, probes, late, failing, external>>

-----------------------------------------------------------------------------
(***************************************************************************)
(* prompt() with the delivery steer or follow_up.                           *)
(***************************************************************************)
SteerGoto(q, label, turn) == steers' = [steers EXCEPT ![q] = [at |-> label, turn |-> turn]]

\* A message is queued into a turn, or waits for the hand-off of the one that is coming
\* and looks again; then it asks the Host.
Steer(q) ==
    LET refused == \/ fence.aborting # None \/ fence.cancelled
                   \/ fence.turn = None /\ fence.admission = None
        handsOff == fence.admission # None /\ ~fence.dispatched /\ ~fence.cancelled
    IN
    /\ \/ steers[q].at = "idle"
       \/ steers[q].at = "waiting" /\ ~handsOff
    /\ SteerGoto(q, IF refused THEN "over"
                    ELSE IF fence.turn = None /\ steers[q].at = "idle" THEN "waiting"
                    ELSE "asking", None)
    /\ UNCHANGED <<session, pc, stops, workers, probes, late, failing, external>>

\* The wait is over, the Host refuses, or its answer is lost.
SteerFails(q) ==
    /\ steers[q].at \in {"waiting", "asking"} /\ SteerGoto(q, "over", None)
    /\ UNCHANGED <<session, pc, stops, workers, probes, late, failing, external>>

\* The answer binds its turn where none is bound: the retired turns are not looked at.
SteerAnswered(q) ==
    LET t == steers[q].turn
        binds == fence.turn = None
    IN
    /\ steers[q].at = "accepted"
    /\ fence' = [fence EXCEPT !.turn = IF binds THEN t ELSE @]
    /\ SteerGoto(q, IF binds /\ t \in retired THEN "returned" ELSE "over", None)
    /\ UNCHANGED <<retired, status, ended, pc, stops, workers, probes, late, failing, external>>

-----------------------------------------------------------------------------
(***************************************************************************)
(* Stop.                                                                   *)
(***************************************************************************)
StopGoto(s, label, target) == stops' = [stops EXCEPT ![s] = [at |-> label, target |-> target]]

\* abort() on a bound turn marks it before it tells the Host, and arms the fallback;
\* a turn whose end is fenced already has settled.
Bind(s) ==
    LET t == fence.turn IN
    /\ t # None
    /\ IF t \in retired THEN StopGoto(s, "over", None) /\ UNCHANGED fence
       ELSE /\ fence' = [fence EXCEPT !.aborting = t, !.abortTimer = s]
            /\ StopGoto(s, "calling", t)
    /\ UNCHANGED <<status, workers>>

\* Before the turn is known, Stop marks the admission: it is cancelled for good when
\* the prompt has not been handed off, else a worker tells the Host.
Cancel(s) ==
    LET p == fence.admission IN
    /\ fence.turn = None /\ p # None
    /\ fence' = [fence EXCEPT !.cancelled = TRUE,
                             !.abortSent = @ \/ fence.dispatched]
    /\ workers' = IF fence.dispatched /\ ~fence.abortSent THEN workers \cup {<<p, "calling">>} ELSE workers
    /\ status' = IF fence.dispatched THEN status ELSE "idle"
    /\ StopGoto(s, IF fence.dispatched THEN "pending" ELSE "cancelled", p)

NothingToStop(s) ==
    /\ fence.turn = None /\ fence.admission = None
    /\ status' = "idle" /\ StopGoto(s, "over", None)
    /\ UNCHANGED <<fence, workers>>

Stop(s) ==
    /\ s \in Stops /\ stops[s].at = "idle"
    /\ Bind(s) \/ Cancel(s) \/ NothingToStop(s)
    /\ UNCHANGED <<retired, ended, pc, steers, probes, late, failing, external>>

\* The answered prompt delivers the Stop that its admission met, to its own turn only.
StopOwnTurn(p) ==
    /\ pc[p].at = "stopping" /\ Goto(p, "over")
    /\ \/ fence.turn = p /\ Bind(p)
       \/ fence.turn # p /\ UNCHANGED <<fence, status, stops, workers>>
    /\ UNCHANGED <<retired, ended, steers, probes, late, failing, external>>

\* The worker that tells the Host of a Stop: its call may fail after it was written,
\* then another Stop may try again.  One that has been answered stays "written".
WorkerSends(p) ==
    /\ <<p, "calling">> \in workers /\ client.up
    /\ workers' = (workers \ {<<p, "calling">>}) \cup {<<p, "written">>}
    /\ wire' = Append(wire, [cmd |-> "abort", by |-> None, turn |-> p])
    /\ UNCHANGED <<session, pc, stops, steers, probes, late, failing, client, host, events>>

WorkerFails(p) ==
    /\ \E w \in workers : w[1] = p /\ workers' = workers \ {w}
    /\ fence' = IF fence.admission = p THEN [fence EXCEPT !.abortSent = FALSE] ELSE fence
    /\ UNCHANGED <<retired, status, ended, pc, stops, steers, probes, late, failing, external>>

StopSends(s) ==
    /\ stops[s].at = "calling"
    /\ IF client.up
       THEN /\ wire' = Append(wire, [cmd |-> "abort", by |-> s, turn |-> stops[s].target])
            /\ StopGoto(s, "waiting", stops[s].target)
       ELSE UNCHANGED wire /\ StopGoto(s, "over", stops[s].target)
    /\ UNCHANGED <<session, pc, workers, steers, probes, late, failing, client, host, events>>

\* A turn that one of the recovery paths ends: fenced and cleared in one section,
\* projected by the same thread later.
Retire(t, as) ==
    /\ retired' = retired \cup {t}
    /\ late' = late \cup {[turn |-> t, as |-> as]}

\* The Host stops the turn, proves that it is idle, or refuses: then this Stop's
\* fallback is cancelled.
StopAnswered_AnyError(s) ==
    LET t == stops[s].target IN
    /\ stops[s].at \in {"waiting", "stopped", "already_idle", "mismatch"}
    /\ StopGoto(s, "over", t)
    /\ fence' = [fence EXCEPT !.abortTimer = IF @ = s THEN None ELSE @]
    /\ UNCHANGED <<retired, status, ended, pc, workers, steers, probes, late, failing, external>>
StopAnswered(s) ==
    LET t == stops[s].target IN
    /\ StopGoto(s, "over", t)
    /\ \/ /\ stops[s].at \in {"stopped", "waiting"}      \* or no answer in time
          /\ UNCHANGED <<fence, retired, late>>
       \/ /\ stops[s].at = "already_idle" /\ fence.turn = t
          /\ fence' = Untimed(Cleared(fence)) /\ Retire(t, "aborted")
       \/ /\ stops[s].at = "already_idle" /\ fence.turn # t /\ UNCHANGED <<fence, retired, late>>
       \/ /\ stops[s].at = "mismatch" /\ UNCHANGED <<retired, late>>
          /\ fence' = [fence EXCEPT !.abortTimer = IF @ = s THEN None ELSE @]
    /\ UNCHANGED <<status, ended, pc, workers, steers, probes, failing, external>>

-----------------------------------------------------------------------------
(***************************************************************************)
(* The event lane.                                                         *)
(***************************************************************************)
\* Every event of a turn that is not retired binds it, closes its admission and
\* takes over a Stop that waited for it.
Bound_NoStop(f, t) ==
    LET g == [f EXCEPT !.turn = t]
    IN IF f.admission = t THEN Released(g) ELSE g
Bound(f, t) ==
    LET g == [f EXCEPT !.turn = t, !.aborting = IF f.cancelled THEN t ELSE @]
    IN IF f.admission = t THEN Released(g) ELSE g

\* "work" is any progress of the turn, "end" Pi's agent_end, which arms the probe.
\* A "settled" turn fails when it has collected an error and no Stop, or when its
\* settlement carries the receipt of a failure.  A turn that ends well is fenced,
\* projected and cleared in one section; one that fails is fenced first.
Settles(f, t) ==
    /\ fence' = Untimed(Cleared(f))
    /\ retired' = retired \cup {t} /\ status' = "idle"
    /\ ended' = [ended EXCEPT ![t] = Append(@, IF f.aborting = t THEN "aborted" ELSE "completed")]
    /\ UNCHANGED failing
Fails(f, t) ==
    /\ fence' = f /\ retired' = retired \cup {t} /\ failing' = t
    /\ UNCHANGED <<status, ended>>

Handle ==
    LET e == Head(events)
        f == Bound(fence, e.turn)
    IN
    /\ events # <<>> /\ failing = None
    /\ events' = Tail(events)
    /\ \/ e.turn \in retired /\ UNCHANGED <<session, failing>>
       \/ /\ e.turn \notin retired /\ e.kind \in {"work", "end"}
          /\ fence' = IF e.kind = "end" THEN [f EXCEPT !.settleTimer = e.turn] ELSE f
          /\ UNCHANGED <<retired, status, ended, failing>>
       \/ /\ e.turn \notin retired /\ e.kind = "settled"
          /\ \/ Settles(f, e.turn)
             \/ f.aborting # e.turn /\ Fails(Untimed(f), e.turn)
             \/ Fails(f, e.turn)
    /\ UNCHANGED <<pc, stops, workers, steers, probes, late, client, host, wire>>

\* _turn_failed, for whatever turn is there by now.
FailTurn ==
    LET aborted == fence.aborting = failing IN
    /\ failing # None
    /\ fence' = Untimed(Cleared(fence))
    /\ status' = IF aborted THEN "idle" ELSE "faulted"
    /\ ended' = [ended EXCEPT ![failing] = Append(@, IF aborted THEN "aborted" ELSE "failed")]
    /\ failing' = None
    /\ UNCHANGED <<retired, pc, stops, workers, steers, probes, late, external>>

Lane == Handle \/ FailTurn
-----------------------------------------------------------------------------
(***************************************************************************)
(* Timers, and the second half of the paths that recover a turn.            *)
(***************************************************************************)
\* _settle_fallback_probe and _abort_fallback_expired each look at their turn, ask
\* the Host, and look again.  Bound: one call of each at a time.
SettleFires ==
    LET t == fence.settleTimer IN
    /\ t # None /\ probes.settle = None
    /\ fence' = [fence EXCEPT !.settleTimer = None]
    /\ probes' = IF fence.turn = t /\ client.up THEN [probes EXCEPT !.settle = t] ELSE probes
    /\ UNCHANGED <<retired, status, ended, pc, stops, workers, steers, late, failing, external>>

\* A turn is retired only when the Host has no work for it.
SettleProbe ==
    LET t == probes.settle IN
    /\ t # None
    /\ probes' = [probes EXCEPT !.settle = None]
    /\ \/ /\ client.up /\ host.turn = None /\ fence.turn = t
          /\ fence' = [Cleared(fence) EXCEPT !.abortTimer = None]
          /\ \E as \in {"completed", "failed"} :
                Retire(t, IF fence.aborting = t THEN "aborted" ELSE as)
       \/ UNCHANGED <<fence, retired, late>>
    /\ UNCHANGED <<status, ended, pc, stops, workers, steers, failing, external>>

AbortFires ==
    LET t == stops[fence.abortTimer].target IN
    /\ fence.abortTimer # None /\ probes.abort = None
    /\ fence' = [fence EXCEPT !.abortTimer = None]
    /\ probes' = IF fence.turn = t /\ client.up THEN [probes EXCEPT !.abort = t] ELSE probes
    /\ UNCHANGED <<retired, status, ended, pc, stops, workers, steers, late, failing, external>>

\* The stopped turn ends whether or not the Host is responsive.
AbortFallback ==
    LET t == probes.abort IN
    /\ t # None
    /\ probes' = [probes EXCEPT !.abort = None]
    /\ IF fence.turn = t
       THEN fence' = [Cleared(fence) EXCEPT !.settleTimer = None] /\ Retire(t, "aborted")
       ELSE UNCHANGED <<fence, retired, late>>
    /\ UNCHANGED <<status, ended, pc, stops, workers, steers, failing, external>>

Project ==
    \E l \in late :
        /\ late' = late \ {l}
        /\ status' = IF l.as \in {"failed", "exit"} THEN "faulted" ELSE "idle"
        /\ ended' = IF l.as = "cancelled" THEN ended
                    ELSE [ended EXCEPT ![l.turn] = Append(@, IF l.as = "exit" THEN "failed" ELSE l.as)]
    /\ UNCHANGED <<fence, retired, pc, stops, workers, steers, probes, failing, external>>

-----------------------------------------------------------------------------
(***************************************************************************)
(* The Host: it takes commands in order, answers and publishes on two lanes, *)
(* and may exit.                                                            *)
(***************************************************************************)
\* An answer wakes the thread that waits for it; one that comes too late finds nobody.
AnswerPrompt(p, reply) ==
    pc' = [pc EXCEPT ![p].at = IF @ = "waiting" THEN reply ELSE @]
AnswerStop(s, reply) ==
    stops' = IF s # None /\ stops[s].at = "waiting"
             THEN [stops EXCEPT ![s].at = reply] ELSE stops

Publishes(t, kind) == events' = Append(events, [turn |-> t, kind |-> kind])

\* An accepted prompt publishes its progress (bound: one event).
HostTakes ==
    LET c == Head(wire) IN
    /\ wire # <<>>
    /\ wire' = Tail(wire)
    /\ \/ /\ c.cmd = "prompt" /\ host.turn = None
          /\ host' = [turn |-> c.turn, phase |-> "running", ran |-> host.ran \cup {c.turn}]
          /\ AnswerPrompt(c.by, "accepted") /\ UNCHANGED stops
          /\ Publishes(c.turn, "work") \/ UNCHANGED events
       \/ /\ c.cmd = "prompt" /\ AnswerPrompt(c.by, "rejected")
          /\ UNCHANGED <<host, events, stops>>
       \/ /\ c.cmd = "abort" /\ host.turn = c.turn
          /\ host' = [host EXCEPT !.phase = "stopping"] /\ AnswerStop(c.by, "stopped")
          /\ UNCHANGED <<events, pc>>
       \/ /\ c.cmd = "abort" /\ host.turn # c.turn /\ UNCHANGED <<host, events, pc>>
          /\ AnswerStop(c.by, IF host.turn = None THEN "already_idle" ELSE "mismatch")
    /\ UNCHANGED <<session, workers, steers, probes, late, failing, client>>

\* A message is queued into the turn that runs; the answer names it.
HostTakesSteer(q) ==
    /\ steers[q].at = "asking" /\ host.turn # None
    /\ SteerGoto(q, "accepted", host.turn)
    /\ UNCHANGED <<session, pc, stops, workers, probes, late, failing, external>>

HostEnds ==
    /\ host.phase = "running"
    /\ Publishes(host.turn, "end") /\ host' = [host EXCEPT !.phase = "ended"]
    /\ UNCHANGED <<session, threads, client, wire>>

\* The terminal event may be lost.
HostSettles ==
    /\ host.phase \in {"ended", "stopping"}
    /\ Publishes(host.turn, "settled") \/ UNCHANGED events
    /\ host' = [host EXCEPT !.turn = None, !.phase = "idle"]
    /\ UNCHANGED <<session, threads, client, wire>>

\* _handle_host_exit: on the thread that reads the output, whatever the event lane
\* has still to handle.
HostExits ==
    /\ client.up /\ client.exits < MaxExits
    /\ client' = [exits |-> client.exits + 1, up |-> FALSE]
    /\ host' = [host EXCEPT !.turn = None, !.phase = "idle"] /\ wire' = <<>>
    /\ fence' = Unfenced
    /\ late' = IF fence.turn = None THEN late
               ELSE late \cup {[turn |-> fence.turn, as |-> "exit"]}
    /\ UNCHANGED <<retired, status, ended, pc, stops, workers, steers, probes, failing, events>>

-----------------------------------------------------------------------------
Prompting(p) ==
    \/ Prepare(p) \/ Release(p) \/ Enter(p) \/ Dispatch(p) \/ Rejected(p)
    \/ Unanswered(p) \/ Acknowledge(p) \/ StopOwnTurn(p)
Steering(q) == Steer(q) \/ SteerFails(q) \/ SteerAnswered(q)
Stopping(s) == StopSends(s) \/ StopAnswered(s)
Timers == SettleFires \/ SettleProbe \/ AbortFires \/ AbortFallback
Host == HostTakes \/ HostEnds \/ HostSettles

Next ==
    \/ \E p \in Prompts : Reserve(p) \/ Prompting(p) \/ WorkerSends(p) \/ WorkerFails(p)
    \/ \E q \in Steers : Steering(q) \/ HostTakesSteer(q)
    \/ \E s \in Stops : Stop(s)
    \/ \E s \in Stoppers : Stopping(s)
    \/ Lane \/ Timers \/ Project \/ Host \/ HostExits

\* Threads, timers and the event lane go on.  Nothing is assumed of the Host.
Fairness ==
    /\ \A p \in Prompts : WF_vars(Prompting(p))
    /\ \A s \in Stoppers : WF_vars(Stopping(s))
    /\ WF_vars(Lane) /\ WF_vars(Project)
    /\ WF_vars(SettleFires) /\ WF_vars(SettleProbe)
    /\ WF_vars(AbortFires) /\ WF_vars(AbortFallback)

Spec == Init /\ [][Next]_vars
FairSpec == Spec /\ Fairness
-----------------------------------------------------------------------------
(***************************************************************************)
(* Properties.                                                             *)
(***************************************************************************)
Terminals == {"completed", "aborted", "failed"}
PromptSteps == {"idle", "reserved", "prepared", "entered", "waiting", "accepted",
                "rejected", "stopping", "over"}
StopSteps == {"idle", "cancelled", "pending", "calling", "waiting", "stopped",
              "already_idle", "mismatch", "over"}
SteerSteps == {"idle", "waiting", "asking", "accepted", "returned", "over"}

\* Types; a cancelled or handed-off mark always has an admission that it belongs to.
TypeOK ==
    /\ fence.admission \in Prompts \cup {None} /\ fence.turn \in Prompts \cup {None}
    /\ fence.cancelled \/ fence.dispatched => fence.admission # None
    /\ fence.abortSent => fence.dispatched
    /\ fence.abortTimer \in Stoppers \cup {None} /\ fence.settleTimer \in Prompts \cup {None}
    /\ retired \subseteq Prompts /\ status \in {"idle", "busy", "faulted"}
    /\ ended \in [Prompts -> Seq(Terminals)]
    /\ \A p \in Prompts : pc[p].at \in PromptSteps
    /\ \A s \in Stoppers : stops[s].at \in StopSteps /\ stops[s].target \in Prompts \cup {None}
    /\ \A q \in Steers : steers[q].at \in SteerSteps
    /\ workers \subseteq Prompts \X {"calling", "written"}
    /\ failing \in retired \cup {None}
    /\ host.turn \in Prompts \cup {None} /\ host.ran \subseteq Prompts

\* A prompt whose Stop was answered "cancelled before the hand-off" never reaches the
\* Host, wherever the two threads meet.  (An exit of the Host drops the mark.)
CancelledNeverRuns ==
    client.exits = 0 =>
        \A s \in Stops : stops[s].at = "cancelled" => stops[s].target \notin host.ran

\* The terminals of a turn, published or about to be.
Endings(t) ==
    Len(ended[t]) + Cardinality({l \in late : l.turn = t /\ l.as # "cancelled"})
                  + (IF failing = t THEN 1 ELSE 0)

\* No Host has exited, no turn was ended by the event lane and by a recovery path at
\* once, and no queued message has brought an ended turn back: what the code does then
\* is a finding, not a guarantee.
Undisturbed ==
    /\ client.exits = 0
    /\ \A t \in Prompts : Endings(t) <= 1
    /\ \A q \in Steers : steers[q].at # "returned"

\* The Runtime never loses sight of a turn that the Host works on: it is the bound
\* turn, or its admission is still held (a lost answer does not release it), or it has
\* been given up as ended.  Nor does the mark of a Stop stay behind without its turn,
\* where a later turn would meet it.
NoOrphanTurn ==
    Undisturbed =>
        /\ host.turn \in retired \cup {None, fence.turn, fence.admission}
        /\ fence.aborting \in {None, fence.turn}

\* A turn that a Stop was answered for is never shown as completed, whichever of the
\* answer of the prompt, the events, the timers and the Stop itself come first.
StoppedIsNotCompleted ==
    Undisturbed =>
        \A s \in Stops : stops[s].target # None =>
            \A i \in DOMAIN ended[stops[s].target] : ended[stops[s].target][i] # "completed"

\* A turn that has ended is bound again only by the answer to a message that the Host
\* had queued into it, and only where nothing else is bound: not by the answer of a
\* prompt, a late event, or what a dead Host left behind.
NoReturn ==
    [][\A t \in retired : fence'.turn = t /\ fence.turn # t =>
          /\ fence.turn = None
          /\ \E q \in Steers : steers[q] = [at |-> "accepted", turn |-> t]]_vars

\* A bound Stop frees the Session although the Host may never answer it nor end the
\* turn: the armed fallback or the events take the turn away.
StopIsCarriedOut ==
    \A t \in Prompts :
        (\E s \in Stoppers : stops[s] = [at |-> "calling", target |-> t])
            ~> fence.turn # t \/ ~Undisturbed

\* "a delayed failure must not clear a newer owner": a turn leaves the fence only with
\* its own end, or with the Host.
OnlyItsEndClearsATurn ==
    [][fence.turn # None /\ fence'.turn # fence.turn
            => fence.turn \in retired' \/ client' # client]_vars
=============================================================================
