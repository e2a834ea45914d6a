------------------------------ MODULE RoomTurns ------------------------------
(***************************************************************************)
(* The Room turns of one Session (rag_ime/rooms/turn_registry.py with the   *)
(* threads that share it): who may prompt the Session, which Room Root its  *)
(* Pi turns belong to, what of them becomes public, and what Stop does.     *)
(*                                                                          *)
(* A prompt is a user dispatch, the wake of a facilitator, a prepared JEV   *)
(* dispatch, a private intercom notice or a direct Agent message; each runs *)
(* in its own thread and starts at most one Pi turn, named after it.  The   *)
(* events of the turns reach the Room through one background lane, which    *)
(* may lag behind every thread.  Each action is one section of the registry *)
(* lock, or one call of the Pi runtime.  All registry maps are keyed by     *)
(* Session, but for the cancelled Roots, so one Session is modelled.        *)
(***************************************************************************)
EXTENDS Integers, FiniteSets, Sequences

CONSTANTS
    UserDispatches,     \* RoomSessionDispatchApplication.dispatch_target
    Wakes,              \* AgentService._dispatch_room_partner_wake
    PreparedDispatches, \* RoomSessionDispatchApplication.dispatch_prepared
    Notices,            \* notification-only intercom deliveries
    Directs,            \* messages sent to the Session itself
    Roots,              \* Room turns
    RootOf,             \* the Root of each dispatch
    None,               \* no prompt, no Root
    MaxEvents,          \* bound: runtime events of the Pi turn of each prompt
    MaxThreads          \* bound: prompts that start

Dispatches == UserDispatches \cup Wakes \cup PreparedDispatches
Prompts == Dispatches \cup Notices \cup Directs

ASSUME RoomTurnsAssumption ==
    /\ RootOf \in [Dispatches -> Roots]
    /\ None \notin Prompts \cup Roots
    /\ Prompts \cap Roots = {} /\ UserDispatches \cap Wakes = {}
    /\ (UserDispatches \cup Wakes) \cap PreparedDispatches = {}
    /\ Dispatches \cap Notices = {} /\ (Dispatches \cup Notices) \cap Directs = {}
    /\ MaxEvents \in [Prompts -> Nat \ {0}] /\ MaxThreads \in Nat

VARIABLES
    registry,   \* RoomTurnRegistry
    pc,         \* each prompt's thread
    running,    \* the Pi turn of the Session
    admission,  \* the prompt that has reserved the Session's next turn
    fenced,     \* that reservation was cancelled by an abort
    emitted,    \* events each Pi turn has published
    queue,      \* the projection lane: events not yet projected
    cursor,     \* where the lane is with the first of them
    room,       \* what became public
    stop        \* the Stop request of each Root

pi == <<running, admission, fenced, emitted>>
lane == <<queue, cursor>>
vars == <<registry, pc, pi, lane, room, stop>>

Kinds == {"delta", "done", "aborted"}   \* done: turn_completed or turn_failed
Event == [turn : Prompts, n : Nat, kind : Kinds]
Terminal(e) == e.kind # "delta"

Ready == [at |-> "ready", root |-> None, claimed |-> FALSE]
NoStop == [at |-> "none", reservation |-> None, turn |-> None]

Init ==
    /\ registry = [pending |-> None,                    \* pending_turn / pending_dispatch
                   bound |-> [p \in Prompts |-> None],  \* turn_by_session_turn
                   notice |-> None,                     \* private_intercom_pending
                   private |-> {},                      \* private_intercom_by_session_turn
                   cancelled |-> {},                    \* cancelled_turns
                   cancelledRoot |-> None,              \* cancelled_root_by_session
                   cancelledTurn |-> [p \in Prompts |-> None],
                   claimed |-> {},                      \* cancelled_terminal_by_session_root
                   buffer |-> [p \in Prompts |-> <<>>], \* pending_events_by_session_turn
                   priority |-> None]                   \* whose _priority_reservation
    /\ pc = [p \in Prompts |-> "idle"]
    /\ running = None /\ admission = None /\ fenced = FALSE
    /\ emitted = [p \in Prompts |-> 0]
    /\ queue = <<>> /\ cursor = Ready
    /\ room = [said |-> [p \in Prompts |-> <<>>], aborts |-> [r \in Roots |-> 0]]
    /\ stop = [r \in Roots |-> NoStop]

-----------------------------------------------------------------------------
(***************************************************************************)
(* RoomTurnRegistry: each operator is one section of its lock.             *)
(***************************************************************************)
Root(p) == IF p \in Dispatches THEN RootOf[p] ELSE None

NoBuffer == [p \in Prompts |-> <<>>]

\* hold_priority_if_idle, and the reservation-checked release.
Engaged(reg) ==
    \/ reg.priority # None \/ reg.pending # None
    \/ \E t \in Prompts : reg.bound[t] # None
Released(reg, p) ==
    IF reg.priority = p THEN [reg EXCEPT !.priority = None] ELSE reg

\* begin, on a Root that is not cancelled.
Begun(reg, p) ==
    [reg EXCEPT !.pending = p, !.buffer = NoBuffer, !.cancelledRoot = None,
                !.cancelledTurn = [t \in Prompts |-> None]]

Cancelled_BoundOnly(reg, root) ==
    LET stopped == root \in reg.cancelled
    IN [reg EXCEPT
          !.cancelledRoot = IF stopped THEN root ELSE @,
          !.cancelledTurn = [t \in Prompts |->
              IF stopped /\ reg.bound[t] = root THEN root ELSE @[t]],
          !.bound = [t \in Prompts |-> IF @[t] = root THEN None ELSE @[t]]]
Cancelled(reg, root) ==
    LET stopped == root \in reg.cancelled
        own == reg.pending # None /\ Root(reg.pending) = root
    IN [reg EXCEPT
          !.cancelledRoot = IF stopped THEN root ELSE @,
          !.pending = IF own THEN None ELSE @,
          !.buffer = IF own THEN NoBuffer ELSE @,
          !.cancelledTurn = [t \in Prompts |->
              IF stopped /\ reg.bound[t] = root THEN root ELSE @[t]],
          !.bound = [t \in Prompts |-> IF @[t] = root THEN None ELSE @[t]]]

Finished(reg, turn, root) ==
    [reg EXCEPT !.bound[turn] = None,
                !.pending = IF @ # None /\ Root(@) = root THEN None ELSE @,
                !.buffer = NoBuffer]

\* active_turn: the pending dispatch, else a registered one.
Active(reg, p) ==
    \/ reg.pending = p
    \/ reg.pending = None /\ reg.bound[p] # None

\* claim_cancelled_terminal: the Root whose abort terminal this event may be.
ClaimRoot_Unclaimed(reg, e) ==
    LET root == IF reg.bound[e.turn] # None THEN reg.bound[e.turn]
                ELSE IF reg.cancelledTurn[e.turn] # None THEN reg.cancelledTurn[e.turn]
                ELSE reg.cancelledRoot
    IN IF e.kind = "aborted" /\ root \in reg.cancelled THEN root ELSE None
ClaimRoot(reg, e) ==
    LET root == IF reg.bound[e.turn] # None THEN reg.bound[e.turn]
                ELSE IF reg.cancelledTurn[e.turn] # None THEN reg.cancelledTurn[e.turn]
                ELSE reg.cancelledRoot
    IN IF e.kind = "aborted" /\ root \in reg.cancelled \ reg.claimed THEN root ELSE None
Claimed(reg, root) ==
    IF root = None THEN reg ELSE [reg EXCEPT !.claimed = @ \cup {root}]

\* allows_room_event; an event met while a Root is pending is kept for accept().
Allows(reg, e) ==
    \/ e.turn \in reg.private \/ reg.notice # None
    \/ /\ reg.cancelledTurn[e.turn] = None /\ reg.cancelledRoot = None
       /\ reg.bound[e.turn] # None
Kept(reg, e) ==
    IF /\ reg.cancelledTurn[e.turn] = None /\ reg.cancelledRoot = None
       /\ reg.pending # None
    THEN [reg EXCEPT !.buffer[e.turn] = Append(@, e)] ELSE reg

\* private_intercom_for_event, and finish_private_intercom_event.
Private(reg, e) == e.turn \in reg.private \/ reg.notice # None
TakenPrivately(reg, e) ==
    [reg EXCEPT !.notice = IF e.turn \in reg.private THEN @ ELSE None,
                !.private = IF Terminal(e) THEN @ \ {e.turn} ELSE @ \cup {e.turn}]

\* registered_turn_for_event, turn_for_event and is_cancelled: an event of no
\* known Root goes by its own turn id.
Registered_FirstObserved(reg, e) ==
    IF reg.bound[e.turn] # None THEN reg.bound[e.turn]
    ELSE IF reg.cancelledTurn[e.turn] # None THEN reg.cancelledTurn[e.turn]
    ELSE IF reg.cancelledRoot # None THEN reg.cancelledRoot
    ELSE IF reg.pending # None THEN Root(reg.pending)
    ELSE e.turn
Registered(reg, e) ==
    IF reg.bound[e.turn] # None THEN reg.bound[e.turn]
    ELSE IF reg.cancelledTurn[e.turn] # None THEN reg.cancelledTurn[e.turn]
    ELSE IF reg.cancelledRoot # None THEN reg.cancelledRoot
    ELSE e.turn
Resolved(reg, e) ==
    IF reg.bound[e.turn] = None /\ reg.cancelledTurn[e.turn] = None
    THEN [reg EXCEPT !.cancelledTurn[e.turn] = reg.cancelledRoot] ELSE reg
IsCancelled(reg, root) == root \in reg.cancelled \/ reg.cancelledRoot = root

-----------------------------------------------------------------------------
(***************************************************************************)
(* Events into the Room.                                                   *)
(***************************************************************************)
\* A claimed abort terminal is published as the Root's, any other event as its
\* turn's under the Root it resolved to.
Published(rm, e, root, claimed) ==
    IF claimed THEN [rm EXCEPT !.aborts[root] = @ + 1]
    ELSE [rm EXCEPT !.said[e.turn] = Append(@, [n |-> e.n, root |-> root])]

\* _mirror_event_to_room as a whole, on a registry and a Room.
Mirrored(state, e) ==
    LET claim == ClaimRoot(state.reg, e)
        reg == Claimed(state.reg, claim)
        root == IF claim # None THEN claim ELSE Registered(reg, e)
    IN IF claim = None /\ ~Allows(reg, e) THEN [state EXCEPT !.reg = Kept(reg, e)]
       ELSE IF Private(reg, e) THEN [state EXCEPT !.reg = TakenPrivately(reg, e)]
       ELSE IF claim = None /\ IsCancelled(reg, root)
            THEN [state EXCEPT !.reg = Resolved(reg, e)]
       ELSE [reg |-> IF Terminal(e) THEN Finished(reg, e.turn, root) ELSE reg,
             rm |-> Published(state.rm, e, root, claim # None)]

\* accept, then the buffered events of the accepted turn, under the one lock.
Accepted_NoFlush(reg, p) ==
    [reg |-> [reg EXCEPT !.pending = None, !.bound[p] = Root(p), !.buffer = NoBuffer],
     rm |-> room]
Accepted(reg, p) ==
    LET kept == reg.buffer[p]
        after[n \in 0..Len(kept)] ==
            IF n = 0
            THEN [reg |-> [reg EXCEPT !.pending = None, !.bound[p] = Root(p), !.buffer = NoBuffer],
                  rm |-> room]
            ELSE Mirrored(after[n - 1], kept[n])
    IN  after[Len(kept)]
Acceptable(reg, p) == reg.pending # None /\ Root(reg.pending) = Root(p)
AcceptTurn(reg, p) ==
    registry' = Accepted(reg, p).reg /\ room' = Accepted(reg, p).rm

\* The lane is one thread: claim, allow, private, resolve, publish and finish
\* are separate sections of the lock, and any thread may run between them.
Head1 == Head(queue)
Goto(at, root, claimed) ==
    /\ cursor' = [at |-> at, root |-> root, claimed |-> claimed]
    /\ UNCHANGED queue
Drop == queue' = Tail(queue) /\ cursor' = Ready

LaneClaim ==
    LET root == ClaimRoot(registry, Head1) IN
    /\ queue # <<>> /\ cursor.at = "ready" /\ Head1.kind = "aborted"
    /\ registry' = Claimed(registry, root)
    /\ IF root # None THEN Goto("private", root, TRUE) ELSE Goto("allow", None, FALSE)
    /\ UNCHANGED <<pc, pi, room, stop>>

LaneAllow ==
    /\ queue # <<>>
    /\ cursor.at = "allow" \/ (cursor.at = "ready" /\ Head1.kind # "aborted")
    /\ IF Allows(registry, Head1)
       THEN Goto("private", None, FALSE) /\ UNCHANGED registry
       ELSE Drop /\ registry' = Kept(registry, Head1)
    /\ UNCHANGED <<pc, pi, room, stop>>

LanePrivate ==
    /\ cursor.at = "private"
    /\ IF Private(registry, Head1)
       THEN Drop /\ registry' = TakenPrivately(registry, Head1)
       ELSE /\ Goto(IF cursor.claimed THEN "publish" ELSE "resolve", cursor.root, cursor.claimed)
            /\ UNCHANGED registry
    /\ UNCHANGED <<pc, pi, room, stop>>

LaneResolve ==
    LET root == Registered(registry, Head1) IN
    /\ cursor.at = "resolve"
    /\ registry' = Resolved(registry, Head1)
    /\ IF IsCancelled(registry, root) THEN Drop ELSE Goto("publish", root, FALSE)
    /\ UNCHANGED <<pc, pi, room, stop>>

LanePublish ==
    /\ cursor.at = "publish"
    /\ room' = Published(room, Head1, cursor.root, cursor.claimed)
    /\ IF Terminal(Head1) THEN Goto("finish", cursor.root, cursor.claimed) ELSE Drop
    /\ UNCHANGED <<registry, pc, pi, stop>>

LaneFinish ==
    /\ cursor.at = "finish"
    /\ registry' = Finished(registry, Head1.turn, cursor.root)
    /\ Drop
    /\ UNCHANGED <<pc, pi, room, stop>>

Lane == LaneClaim \/ LaneAllow \/ LanePrivate \/ LaneResolve \/ LanePublish \/ LaneFinish
-----------------------------------------------------------------------------
(***************************************************************************)
(* The Pi runtime (PiRuntimeHostManager), as far as these threads see it;  *)
(* PromptFence has the whole of it.                                        *)
(***************************************************************************)
PiIdle == running = None /\ admission = None

Step(p, label) == pc' = [pc EXCEPT ![p] = label]

\* prompt() first reserves the admission, and is refused while the Session works.
Reserve(p) ==
    /\ pc[p] = "begun"
    /\ \/ /\ PiIdle /\ admission' = p /\ fenced' = FALSE
          /\ Step(p, "reserved")
       \/ Step(p, "rejected") /\ UNCHANGED <<admission, fenced>>
    /\ UNCHANGED <<registry, running, emitted, lane, room, stop>>

\* The write consumes the reservation, unless an abort has fenced it.  The turn
\* may start and its answer be lost.
Send(p) ==
    /\ pc[p] = "reserved"
    /\ admission' = None /\ fenced' = FALSE
    /\ \/ ~fenced /\ running' = p /\ (Step(p, "sent") \/ Step(p, "lost"))
       \/ Step(p, "rejected") /\ UNCHANGED running
    /\ UNCHANGED <<registry, emitted, lane, room, stop>>

\* The running turn publishes its events; the last one is terminal and leaves the
\* Session idle.
Emit ==
    LET n == emitted[running] + 1 IN
    /\ running # None /\ n < MaxEvents[running]
    /\ emitted' = [emitted EXCEPT ![running] = n]
    /\ queue' = Append(queue, [turn |-> running, n |-> n, kind |-> "delta"])
    /\ UNCHANGED <<registry, pc, running, admission, fenced, cursor, room, stop>>

EndTurn ==
    LET n == emitted[running] + 1 IN
    /\ running # None
    /\ emitted' = [emitted EXCEPT ![running] = n]
    /\ \E kind \in {"done", "aborted"} :
          queue' = Append(queue, [turn |-> running, n |-> n, kind |-> kind])
    /\ running' = None
    /\ UNCHANGED <<registry, pc, admission, fenced, cursor, room, stop>>

-----------------------------------------------------------------------------
(***************************************************************************)
(* User dispatches and wakes.                                              *)
(***************************************************************************)
Hold(p) ==
    /\ p \in UserDispatches \cup Wakes /\ pc[p] = "idle"
    /\ ~Engaged(registry)
    /\ registry' = [registry EXCEPT !.priority = p]
    /\ Step(p, "held")
    /\ UNCHANGED <<pi, lane, room, stop>>

\* _room_target_idle outside the lock; a busy Session refuses or defers the
\* request, an idle one gets its Root announced in the Room.
CheckIdle(p) ==
    /\ pc[p] = "held"
    /\ IF PiIdle THEN Step(p, "announced") /\ UNCHANGED registry
       ELSE Step(p, "idle") /\ registry' = Released(registry, p)
    /\ UNCHANGED <<pi, lane, room, stop>>

Begin(p) ==
    /\ pc[p] = "announced"
    /\ IF Root(p) \in registry.cancelled
       THEN LET refused == [registry EXCEPT !.cancelledRoot = Root(p)] IN
            IF p \in Wakes THEN registry' = Released(refused, p) /\ Step(p, "failed")
            ELSE registry' = refused /\ Step(p, "rejected")
       ELSE registry' = Begun(registry, p) /\ Step(p, "begun")
    /\ UNCHANGED <<pi, lane, room, stop>>

\* _accepted_dispatch checks that its dispatch is still the active one, a wake
\* leaves that to accept(); an answer that has no pending turn is dropped.  Until
\* the release that follows, other threads would just find the Session engaged,
\* so the action includes it.
Accept(p) ==
    LET binds == Acceptable(registry, p) /\ (p \in Wakes \/ Active(registry, p)) IN
    /\ p \in Dispatches /\ pc[p] = "sent"
    /\ IF binds THEN AcceptTurn(Released(registry, p), p)
       ELSE UNCHANGED room /\ registry' = IF p \in PreparedDispatches /\ ~Active(registry, p)
                                          THEN registry ELSE Released(registry, p)
    /\ Step(p, IF binds THEN "accepted" ELSE "detached")
    /\ UNCHANGED <<pi, lane, stop>>

\* _failed_dispatch and the wake's exception path: also when the answer is lost.
Fail_KeepPriority(p) ==
    /\ p \in UserDispatches \cup Wakes /\ pc[p] \in {"rejected", "lost"}
    /\ registry' = Cancelled(registry, Root(p))
    /\ Step(p, "failed")
    /\ UNCHANGED <<pi, lane, room, stop>>
Fail(p) ==
    /\ p \in UserDispatches \cup Wakes /\ pc[p] \in {"rejected", "lost"}
    /\ registry' = Released(Cancelled(registry, Root(p)), p)
    /\ Step(p, "failed")
    /\ UNCHANGED <<pi, lane, room, stop>>

-----------------------------------------------------------------------------
(***************************************************************************)
(* Prepared JEV dispatches: one locked admission, and a check before the    *)
(* prompt that Stop has not come in between.                               *)
(***************************************************************************)
Prepare(p) ==
    /\ p \in PreparedDispatches /\ pc[p] = "idle"
    /\ ~IsCancelled(registry, Root(p)) /\ ~Engaged(registry) /\ PiIdle
    /\ registry' = [Begun(registry, p) EXCEPT !.priority = p]
    /\ \/ admission' = p /\ fenced' = FALSE /\ Step(p, "prepared")
       \/ Step(p, "rejected") /\ UNCHANGED <<admission, fenced>>
    /\ UNCHANGED <<running, emitted, lane, room, stop>>

Recheck(p) ==
    /\ pc[p] = "prepared"
    /\ IF IsCancelled(registry, Root(p)) \/ ~Active(registry, p) \/ fenced
       THEN Step(p, "rejected") /\ admission' = None /\ fenced' = FALSE
       ELSE Step(p, "reserved") /\ UNCHANGED <<admission, fenced>>
    /\ UNCHANGED <<registry, running, emitted, lane, room, stop>>

\* release_registry: nothing unless the Session still works for this dispatch.  A
\* lost answer proves nothing, so the pending turn stays.
ReleaseRegistry(p) ==
    /\ p \in PreparedDispatches /\ pc[p] \in {"rejected", "lost"}
    /\ registry' = IF ~Active(registry, p) THEN registry
                   ELSE IF pc[p] = "lost" THEN Released(registry, p)
                   ELSE Released(Cancelled(registry, Root(p)), p)
    /\ Step(p, IF pc[p] = "lost" THEN "unknown" ELSE "failed")
    /\ UNCHANGED <<pi, lane, room, stop>>

\* repair_prepared_projection of an admission whose answer was lost: the runtime
\* proves, and keeps, the state of the exact turn.
Repair(p) ==
    LET others == \E t \in Prompts \ {p} : registry.bound[t] # None
        free == registry.pending = None /\ ~others
    IN
    /\ pc[p] = "unknown"
    /\ free \/ registry.pending = p
    /\ ~others /\ registry.notice = None /\ registry.private = {}
    /\ free => registry.priority = None
    /\ IF running = p
       THEN /\ ~IsCancelled(registry, Root(p))
            /\ AcceptTurn([(IF free THEN Begun(registry, p) ELSE registry)
                              EXCEPT !.priority = None], p)
            /\ Step(p, "accepted")
       ELSE /\ registry' = IF free THEN registry
                           ELSE Cancelled([registry EXCEPT !.priority = None], Root(p))
            /\ Step(p, "settled") /\ UNCHANGED room
    /\ UNCHANGED <<pi, lane, stop>>

-----------------------------------------------------------------------------
(***************************************************************************)
(* Direct messages and private notices.                                    *)
(***************************************************************************)
\* session_turn_active: it leaves the priority reservations out.
TurnActive ==
    \/ registry.pending # None \/ registry.notice # None \/ registry.private # {}
    \/ \E t \in Prompts : registry.bound[t] # None

\* claim_agent lets one direct message in; the check and the hold are two sections.
DirectCheck(p) ==
    /\ p \in Directs /\ pc[p] = "idle"
    /\ \A q \in Directs : pc[q] \in {"idle", "over"}
    /\ ~TurnActive
    /\ Step(p, "checked")
    /\ UNCHANGED <<registry, pi, lane, room, stop>>

DirectHold(p) ==
    /\ p \in Directs /\ pc[p] = "checked"
    /\ registry' = [registry EXCEPT !.priority = p]
    /\ Step(p, "begun")
    /\ UNCHANGED <<pi, lane, room, stop>>

DirectRelease(p) ==
    /\ p \in Directs /\ pc[p] \in {"sent", "lost", "rejected"}
    /\ registry' = Released(registry, p)
    /\ Step(p, "over")
    /\ UNCHANGED <<pi, lane, room, stop>>

\* deliver: the target is idle, which the registry's turns have no say in.
NoticeCheck(p) ==
    /\ p \in Notices /\ pc[p] = "idle"
    /\ registry.priority = None /\ PiIdle
    /\ Step(p, "checked")
    /\ UNCHANGED <<registry, pi, lane, room, stop>>

BeginPrivate(p) ==
    /\ p \in Notices /\ pc[p] = "checked"
    /\ registry' = [registry EXCEPT !.notice = p]
    /\ Step(p, "begun")
    /\ UNCHANGED <<pi, lane, room, stop>>

\* accept_private_intercom binds the turn unless an event has; an exception
\* abandons the notice.
EndPrivate_KeepPending(p) ==
    /\ p \in Notices /\ pc[p] \in {"sent", "lost", "rejected"}
    /\ registry' = IF registry.notice # p \/ pc[p] = "rejected" THEN registry
                   ELSE [registry EXCEPT !.notice = None,
                            !.private = IF pc[p] = "sent" THEN @ \cup {p} ELSE @]
    /\ Step(p, "over")
    /\ UNCHANGED <<pi, lane, room, stop>>
EndPrivate(p) ==
    /\ p \in Notices /\ pc[p] \in {"sent", "lost", "rejected"}
    /\ registry' = IF registry.notice # p THEN registry
                   ELSE [registry EXCEPT !.notice = None,
                            !.private = IF pc[p] = "sent" THEN @ \cup {p} ELSE @]
    /\ Step(p, "over")
    /\ UNCHANGED <<pi, lane, room, stop>>

-----------------------------------------------------------------------------
(***************************************************************************)
(* RoomSessionCancellation.abort_turn.                                     *)
(***************************************************************************)
\* The Room shows the Root's user message.
Announced(root) ==
    \A p \in UserDispatches : Root(p) = root => pc[p] \notin {"idle", "held"}

StopEnds(root, at) == stop' = [stop EXCEPT ![root] = [NoStop EXCEPT !.at = at]]

\* The Session is a target of the Root while its dispatch is pending or its turn
\* registered.
Targeted_RegisteredOnly(root) == \E t \in Prompts : registry.bound[t] = root
Targeted(root) ==
    \/ registry.pending # None /\ Root(registry.pending) = root
    \/ \E t \in Prompts : registry.bound[t] = root

\* The intent, the targets and their reservations are one section of the lock.
\* A Stop that ended pending may be asked for again.
StopRecord(root) ==
    /\ Announced(root) /\ stop[root].at \in {"none", "pending"}
    /\ registry' = [registry EXCEPT !.cancelled = @ \cup {root}]
    /\ stop' = [stop EXCEPT ![root] =
                  IF Targeted(root) THEN [at |-> "abort", reservation |-> registry.priority, turn |-> None]
                  ELSE [NoStop EXCEPT !.at = "terminal"]]
    /\ UNCHANGED <<pc, pi, lane, room>>

\* The runtime's abort fences a reservation, or stops the turn that runs.
StopAbort(root) ==
    /\ stop[root].at = "abort"
    /\ fenced' = (fenced \/ admission # None)
    /\ stop' = [stop EXCEPT ![root].at = "drain", ![root].turn = running]
    /\ UNCHANGED <<registry, pc, running, admission, emitted, lane, room>>

\* The Session is proven idle: Room's one abort terminal, unless other resources
\* of the Root are pending or the lane has claimed it, then the registry's turns
\* and the reservation the Stop observed.  Otherwise the Stop ends pending.
StopClose(root) ==
    /\ stop[root].at = "drain"
    /\ stop[root].turn = None \/ stop[root].turn # running
    /\ \E proven \in BOOLEAN :
          LET reg == IF proven THEN Claimed(registry, root) ELSE registry IN
          /\ registry' = Released(Cancelled(reg, root), stop[root].reservation)
          /\ room' = IF proven /\ root \notin registry.claimed
                     THEN [room EXCEPT !.aborts[root] = @ + 1] ELSE room
          /\ StopEnds(root, IF proven THEN "terminated" ELSE "pending")
    /\ UNCHANGED <<pc, pi, lane>>

StopGivesUp(root) ==
    /\ stop[root].at = "drain"
    /\ StopEnds(root, "pending")
    /\ UNCHANGED <<registry, pc, pi, lane, room>>

StopGoesOn(root) == StopAbort(root) \/ StopClose(root) \/ StopGivesUp(root)
-----------------------------------------------------------------------------
\* What a thread does once it has started.
Dispatching(p) ==
    \/ CheckIdle(p) \/ Begin(p) \/ Accept(p) \/ Fail(p)
    \/ Recheck(p) \/ ReleaseRegistry(p) \/ Repair(p)
Thread(p) ==
    \/ Dispatching(p) \/ Reserve(p) \/ Send(p)
    \/ DirectHold(p) \/ DirectRelease(p) \/ BeginPrivate(p) \/ EndPrivate(p)

MayStart == Cardinality({p \in Prompts : pc[p] # "idle"}) < MaxThreads
Starts(p) == MayStart /\ (Hold(p) \/ Prepare(p) \/ DirectCheck(p) \/ NoticeCheck(p))

Next ==
    \/ Lane \/ Emit \/ EndTurn
    \/ \E p \in Prompts : Starts(p) \/ Thread(p)
    \/ \E root \in Roots : StopRecord(root) \/ StopGoesOn(root)

\* The lane and every thread that has started go on, a Pi turn ends, and a Stop
\* that was asked for is carried out.
Fairness ==
    /\ WF_vars(Lane) /\ WF_vars(EndTurn)
    /\ \A p \in Prompts : WF_vars(Thread(p))
    /\ \A root \in Roots : WF_vars(StopGoesOn(root))

Spec == Init /\ [][Next]_vars
FairSpec == Spec /\ Fairness
-----------------------------------------------------------------------------
(***************************************************************************)
(* Properties.                                                             *)
(***************************************************************************)
Labels == {"idle", "held", "announced", "checked", "begun", "prepared", "reserved", "sent",
           "lost", "rejected", "unknown", "accepted", "detached", "failed", "settled", "over"}

\* Every map of the registry is well formed, a pending turn has a thread that will
\* accept or cancel it, and a terminal is claimed only for a cancelled Root.
TypeOK ==
    /\ registry.pending \in Dispatches \cup {None}
    /\ registry.priority \in Prompts \cup {None}
    /\ registry.notice \in Notices \cup {None}
    /\ registry.claimed \subseteq registry.cancelled /\ registry.cancelled \subseteq Roots
    /\ \A p \in Prompts : registry.bound[p] \in {None, Root(p)}
    /\ registry.pending # None =>
          pc[registry.pending] \in {"begun", "prepared", "reserved", "sent", "lost",
                                   "rejected", "unknown"}
    /\ pc \in [Prompts -> Labels]
    /\ running \in Prompts \cup {None} /\ admission \in Prompts \cup {None}
    /\ queue \in Seq(Event)

\* Whatever is stopped, refused, lost or private, no event becomes public under
\* the Root of another turn, and the events under a turn's own Root are in the
\* order in which Pi published them: those kept until the answer came before those
\* that the lane brings.
Own(t, i) == room.said[t][i].root = Root(t)
PublicIsFaithful ==
    \A t \in Prompts :
        /\ \A i \in DOMAIN room.said[t] : room.said[t][i].root \in {Root(t), t}
        /\ \A i, j \in DOMAIN room.said[t] :
               i < j /\ Own(t, i) /\ Own(t, j) => room.said[t][i].n < room.said[t][j].n

\* A Root shows at most one abort terminal of Room's own, whoever comes first: the
\* lane with Pi's late proof, or a Stop, the first or a repeated one.
OneAbort == \A root \in Roots : room.aborts[root] <= 1

\* Of an accepted dispatch all of Pi's events are public once the lane is through,
\* also those that Pi published before it answered.  It holds as long as nobody
\* stops a Root of the Session or sends it a private notice.
Undisturbed == registry.cancelled = {} /\ \A n \in Notices : pc[n] \in {"idle", "checked"}
Complete(t) ==
    pc[t] = "accepted" /\ queue = <<>> =>
        room.said[t] = [i \in 1..emitted[t] |-> [n |-> i, root |-> Root(t)]]
NothingLost == Undisturbed => \A t \in Dispatches : Complete(t)

\* A prepared dispatch whose Root was stopped does not run once Stop has answered
\* that the Root is terminated, or had nothing left to stop.  Both hold as long as no
\* direct message overwrites the reservation of a dispatch: that lets a third prompt in.
Stopped(root) == stop[root].at \in {"terminated", "terminal"}
StopHolds == \A t \in PreparedDispatches : Stopped(Root(t)) => running # t

\* In the end no reservation, pending turn or notice keeps the Session engaged,
\* but for a dispatch whose answer was lost; an undisturbed Session has no turn
\* registered either.
SessionComesFree ==
    <>[] /\ registry.priority = None /\ registry.notice = None
         /\ registry.pending # None => pc[registry.pending] = "unknown"
         /\ Undisturbed => \A t \in Prompts : registry.bound[t] = None
=============================================================================
