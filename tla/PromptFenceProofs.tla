-------------------------- MODULE PromptFenceProofs --------------------------
(***************************************************************************)
(* Theorems about PromptFence for every number of prompts, Stops and exits   *)
(* of the Host.                                                             *)
(***************************************************************************)
EXTENDS PromptFence, FiniteSetTheorems, TLAPS

MaybePrompts == Prompts \cup {None}

Fences == [admission : MaybePrompts, cancelled : BOOLEAN, abortSent : BOOLEAN,
           dispatched : BOOLEAN, turn : MaybePrompts, aborting : MaybePrompts,
           abortTimer : Stoppers \cup {None}, settleTimer : MaybePrompts]
Projections == [turn : Prompts, as : {"completed", "failed", "aborted", "cancelled", "exit"}]
Commands == [cmd : {"prompt", "abort"}, by : Stoppers \cup {None}, turn : Prompts]
Records == [turn : Prompts, kind : {"work", "end", "settled"}]
UnderWay == {"calling", "waiting", "stopped", "already_idle", "mismatch"}

(* What the Runtime keeps, and what it hears from the Host, has the right shape. *)

FenceTyped == fence \in Fences

SessionTyped ==
    /\ retired \subseteq Prompts /\ failing \in retired \cup {None}
    /\ status \in {"idle", "busy", "faulted"}
    /\ ended \in [Prompts -> Seq(Terminals)]
    /\ late \subseteq Projections /\ workers \subseteq Prompts \X {"calling", "written"}
    /\ probes \in [settle : MaybePrompts, abort : MaybePrompts]

\* A Stop that is under way knows its turn.
ThreadsTyped ==
    /\ pc \in [Prompts -> [at : PromptSteps, client : Nat]]
    /\ stops \in [Stoppers -> [at : StopSteps, target : MaybePrompts]]
    /\ \A s \in Stoppers : stops[s].at \in UnderWay => stops[s].target # None

SteersTyped == steers \in [Steers -> [at : SteerSteps, turn : MaybePrompts]]

\* The Host ends only a turn that it has.
HostTyped ==
    /\ client \in [exits : Nat, up : BOOLEAN]
    /\ host \in [turn : MaybePrompts, phase : {"idle", "running", "ended", "stopping"},
                 ran : SUBSET Prompts]
    /\ host.phase # "idle" => host.turn # None
    /\ wire \in Seq(Commands) /\ events \in Seq(Records)

Typed == FenceTyped /\ SessionTyped /\ ThreadsTyped /\ SteersTyped /\ HostTyped

\* The marks of an admission belong to one.
WellMarked(f) ==
    /\ f.cancelled \/ f.dispatched => f.admission # None
    /\ f.abortSent => f.dispatched
Marked == WellMarked(fence)

LEMMA TypedInit == Init => Typed /\ Marked
  BY PromptFenceAssumption
     DEF Init, Typed, FenceTyped, SessionTyped, ThreadsTyped, SteersTyped, HostTyped, UnderWay, Marked, WellMarked,
         Unfenced, Fences, MaybePrompts, Stoppers, PromptSteps, StopSteps, SteerSteps, Terminals

\* What the sections of the lock do to a fence keeps its shape.
LEMMA FenceShapes ==
    ASSUME NEW f \in Fences
    PROVE  /\ Released(f) \in Fences /\ Cleared(f) \in Fences /\ Untimed(f) \in Fences
           /\ \A p \in Prompts : Bound(f, p) \in Fences
           /\ Unfenced \in Fences
<1>1. Released(f) \in Fences /\ Cleared(f) \in Fences /\ Untimed(f) \in Fences
  BY DEF Fences, Released, Cleared, Untimed, MaybePrompts
<1>2. ASSUME NEW p \in Prompts PROVE Bound(f, p) \in Fences
  <2> DEFINE g == [f EXCEPT !.turn = p, !.aborting = IF f.cancelled THEN p ELSE @]
  <2>1. g \in Fences
    BY DEF Fences, MaybePrompts
  <2>2. Released(g) \in Fences
    BY <2>1 DEF Fences, Released, MaybePrompts
  <2>q. QED BY <2>1, <2>2 DEF Bound
<1>3. Unfenced \in Fences
  BY DEF Unfenced, Fences, MaybePrompts
<1>q. QED BY <1>1, <1>2, <1>3

LEMMA TypedStep == Typed /\ [Next]_vars => Typed'
<1> SUFFICES ASSUME Typed, [Next]_vars PROVE Typed'
  OBVIOUS
<1> USE PromptFenceAssumption, FenceShapes DEF Typed
<1>0. /\ fence \in Fences /\ fence.admission \in MaybePrompts /\ fence.turn \in MaybePrompts
      /\ None \notin Prompts
  BY DEF FenceTyped, Fences, Stoppers
<1>1. SteersTyped'
  <2>1. CASE steers' = steers
    BY <2>1 DEF SteersTyped
  <2>2. ASSUME NEW q \in Steers, Steering(q) \/ HostTakesSteer(q) PROVE SteersTyped'
    <3>1. PICK label \in SteerSteps, t \in MaybePrompts :
             steers' = [steers EXCEPT ![q] = [at |-> label, turn |-> t]]
      BY <2>2 DEF Steering, Steer, SteerFails, SteerAnswered, HostTakesSteer, SteerGoto, SteerSteps,
                  MaybePrompts, HostTyped
    <3>q. QED BY <3>1 DEF SteersTyped
  <2>q. QED
    BY <2>1, <2>2
       DEF Next, Prompting, Stopping, Lane, Timers, Host, Reserve, Prepare, Release, Enter, Dispatch,
           Rejected, Unanswered, Acknowledge, StopOwnTurn, WorkerSends, WorkerFails, Handle, FailTurn,
           Stop, StopSends, StopAnswered, SettleFires, SettleProbe, AbortFires, AbortFallback, Project,
           HostTakes, HostEnds, HostSettles, HostExits, vars, threads
<1>2. ASSUME NEW p \in Prompts, Reserve(p) PROVE Typed'
  <2>1. FenceTyped'
    <3>1. [Released(fence) EXCEPT !.admission = p] \in Fences
      BY <1>0 DEF Fences, MaybePrompts
    <3>q. QED BY <1>0, <1>2, <3>1 DEF Reserve, FenceTyped
  <2>2. SessionTyped'
    BY <1>2 DEF Reserve, SessionTyped
  <2>3. ThreadsTyped'
    BY <1>2 DEF Reserve, ThreadsTyped, Goto, PromptSteps
  <2>4. HostTyped'
    BY <1>2 DEF Reserve, HostTyped, external
  <2>q. QED BY <1>1, <2>1, <2>2, <2>3, <2>4
<1>3. ASSUME NEW p \in Prompts, Prepare(p) PROVE Typed'
  <2>1. FenceTyped'
    BY <1>3, <1>0 DEF Prepare, FenceTyped, session
  <2>2. SessionTyped'
    BY <1>3, <1>0 DEF Prepare, SessionTyped, session
  <2>3. ThreadsTyped'
    BY <1>3, <1>0 DEF Prepare, ThreadsTyped, Goto, PromptSteps
  <2>4. HostTyped'
    BY <1>3, <1>0 DEF Prepare, HostTyped, external
  <2>q. QED BY <1>1, <2>1, <2>2, <2>3, <2>4
<1>4. ASSUME NEW p \in Prompts, Release(p) PROVE Typed'
  <2>1. FenceTyped'
    BY <1>4, <1>0 DEF Release, FenceTyped
  <2>2. SessionTyped'
    BY <1>4, <1>0 DEF Release, SessionTyped
  <2>3. ThreadsTyped'
    BY <1>4, <1>0 DEF Release, ThreadsTyped, Goto, PromptSteps
  <2>4. HostTyped'
    BY <1>4, <1>0 DEF Release, HostTyped, external
  <2>q. QED BY <1>1, <2>1, <2>2, <2>3, <2>4
<1>5. ASSUME NEW p \in Prompts, Enter(p) PROVE Typed'
  <2>1. FenceTyped'
    <3>1. /\ [fence EXCEPT !.admission = p, !.aborting = None] \in Fences
          /\ [Released(fence) EXCEPT !.aborting = None] \in Fences
      BY <1>0 DEF Fences, MaybePrompts
    <3>q. QED BY <1>0, <1>5, <3>1 DEF Enter, FenceTyped
  <2>2. SessionTyped'
    BY <1>5 DEF Enter, SessionTyped, Projections
  <2>3. ThreadsTyped'
    <3>1. client.exits \in Nat
      BY DEF HostTyped
    <3>q. QED BY <1>5, <3>1 DEF Enter, ThreadsTyped, Goto, PromptSteps
  <2>4. HostTyped'
    BY <1>5 DEF Enter, HostTyped
  <2>q. QED BY <1>1, <2>1, <2>2, <2>3, <2>4
<1>6. ASSUME NEW p \in Prompts, Dispatch(p) PROVE Typed'
  <2>1. FenceTyped'
    <3>1. [fence EXCEPT !.dispatched = TRUE] \in Fences
      BY <1>0 DEF Fences
    <3>q. QED BY <1>6, <3>1 DEF Dispatch, FenceTyped
  <2>2. SessionTyped'
    BY <1>6, <1>0 DEF Dispatch, SessionTyped
  <2>3. ThreadsTyped'
    BY <1>6, <1>0 DEF Dispatch, ThreadsTyped, Goto, PromptSteps
  <2>4. HostTyped'
    <3>1. [cmd |-> "prompt", by |-> p, turn |-> p] \in Commands
      BY DEF Commands, Stoppers
    <3>q. QED BY <1>6, <3>1 DEF Dispatch, HostTyped
  <2>q. QED BY <1>1, <2>1, <2>2, <2>3, <2>4
<1>7. ASSUME NEW p \in Prompts, Rejected(p) PROVE Typed'
  <2>1. FenceTyped'
    BY <1>7, <1>0 DEF Rejected, FenceTyped
  <2>2. SessionTyped'
    BY <1>7, <1>0 DEF Rejected, SessionTyped
  <2>3. ThreadsTyped'
    BY <1>7, <1>0 DEF Rejected, ThreadsTyped, Goto, PromptSteps
  <2>4. HostTyped'
    BY <1>7, <1>0 DEF Rejected, HostTyped, external
  <2>q. QED BY <1>1, <2>1, <2>2, <2>3, <2>4
<1>8. ASSUME NEW p \in Prompts, Unanswered(p) PROVE Typed'
  <2>1. FenceTyped'
    BY <1>8, <1>0 DEF Unanswered, FenceTyped, session
  <2>2. SessionTyped'
    BY <1>8, <1>0 DEF Unanswered, SessionTyped, session
  <2>3. ThreadsTyped'
    BY <1>8, <1>0 DEF Unanswered, ThreadsTyped, Goto, PromptSteps
  <2>4. HostTyped'
    BY <1>8, <1>0 DEF Unanswered, HostTyped, external
  <2>q. QED BY <1>1, <2>1, <2>2, <2>3, <2>4
<1>9. ASSUME NEW p \in Prompts, Acknowledge(p) PROVE Typed'
  <2>1. FenceTyped'
    <3>1. ASSUME NEW f \in Fences, NEW b
          PROVE  [f EXCEPT !.turn = p, !.aborting = IF b THEN p ELSE @] \in Fences
      BY DEF Fences, MaybePrompts
    <3>q. QED BY <1>9, <1>0, <3>1 DEF Acknowledge, FenceTyped
  <2>2. SessionTyped'
    BY <1>9, <1>0 DEF Acknowledge, SessionTyped
  <2>3. ThreadsTyped'
    BY <1>9, <1>0 DEF Acknowledge, ThreadsTyped, Goto, PromptSteps
  <2>4. HostTyped'
    BY <1>9, <1>0 DEF Acknowledge, HostTyped, external
  <2>q. QED BY <1>1, <2>1, <2>2, <2>3, <2>4
<1>10. ASSUME NEW p \in Prompts, StopOwnTurn(p) PROVE Typed'
  <2>1. FenceTyped'
    <3>1. ASSUME NEW s \in Stoppers
          PROVE  [fence EXCEPT !.aborting = fence.turn, !.abortTimer = s] \in Fences
      BY <1>0 DEF Fences
    <3>q. QED BY <1>10, <1>0, <3>1 DEF StopOwnTurn, Bind, FenceTyped, Stoppers
  <2>2. SessionTyped'
    BY <1>10, <1>0 DEF StopOwnTurn, Bind, SessionTyped
  <2>3. ThreadsTyped'
    <3>1. pc' \in [Prompts -> [at : PromptSteps, client : Nat]]
      BY <1>10 DEF StopOwnTurn, ThreadsTyped, Goto, PromptSteps
    <3>2. \/ stops' = stops
          \/ stops' = [stops EXCEPT ![p] = [at |-> "over", target |-> None]]
          \/ stops' = [stops EXCEPT ![p] = [at |-> "calling", target |-> fence.turn]]
             /\ fence.turn # None
      BY <1>10 DEF StopOwnTurn, Bind, StopGoto
    <3>3. stops' \in [Stoppers -> [at : StopSteps, target : MaybePrompts]]
      BY <1>0, <3>2 DEF ThreadsTyped, StopSteps, MaybePrompts
    <3>4. \A s \in Stoppers : stops'[s].at \in UnderWay => stops'[s].target # None
      BY <1>0, <3>2 DEF ThreadsTyped, UnderWay
    <3>q. QED BY <3>1, <3>3, <3>4 DEF ThreadsTyped
  <2>4. HostTyped'
    BY <1>10, <1>0 DEF StopOwnTurn, Bind, HostTyped, external
  <2>q. QED BY <1>1, <2>1, <2>2, <2>3, <2>4
<1>11. ASSUME NEW p \in Prompts, WorkerSends(p) PROVE Typed'
  <2>1. FenceTyped'
    BY <1>11, <1>0 DEF WorkerSends, FenceTyped, session
  <2>2. SessionTyped'
    BY <1>11, <1>0 DEF WorkerSends, SessionTyped, session
  <2>3. ThreadsTyped'
    BY <1>11, <1>0 DEF WorkerSends, ThreadsTyped
  <2>4. HostTyped'
    <3>1. [cmd |-> "abort", by |-> None, turn |-> p] \in Commands
      BY DEF Commands
    <3>2. wire' \in Seq(Commands)
      BY <1>11, <3>1 DEF WorkerSends, HostTyped
    <3>q. QED BY <1>11, <3>2 DEF WorkerSends, HostTyped
  <2>q. QED BY <1>1, <2>1, <2>2, <2>3, <2>4
<1>12. ASSUME NEW p \in Prompts, WorkerFails(p) PROVE Typed'
  <2>1. FenceTyped'
    <3>1. [fence EXCEPT !.abortSent = FALSE] \in Fences
      BY <1>0 DEF Fences
    <3>q. QED BY <1>12, <1>0, <3>1 DEF WorkerFails, FenceTyped
  <2>2. SessionTyped'
    BY <1>12, <1>0 DEF WorkerFails, SessionTyped
  <2>3. ThreadsTyped'
    BY <1>12, <1>0 DEF WorkerFails, ThreadsTyped
  <2>4. HostTyped'
    BY <1>12, <1>0 DEF WorkerFails, HostTyped, external
  <2>q. QED BY <1>1, <2>1, <2>2, <2>3, <2>4
<1>13. ASSUME NEW q \in Steers, Steer(q) \/ SteerFails(q) \/ HostTakesSteer(q) PROVE Typed'
  <2>1. FenceTyped'
    BY <1>13, <1>0 DEF Steer, SteerFails, HostTakesSteer, FenceTyped, session
  <2>2. SessionTyped'
    BY <1>13, <1>0 DEF Steer, SteerFails, HostTakesSteer, SessionTyped, session
  <2>3. ThreadsTyped'
    BY <1>13, <1>0 DEF Steer, SteerFails, HostTakesSteer, ThreadsTyped
  <2>4. HostTyped'
    BY <1>13, <1>0 DEF Steer, SteerFails, HostTakesSteer, HostTyped, external
  <2>q. QED BY <1>1, <2>1, <2>2, <2>3, <2>4
<1>14. ASSUME NEW q \in Steers, SteerAnswered(q) PROVE Typed'
  <2>1. FenceTyped'
    <3>1. ASSUME NEW t \in MaybePrompts PROVE [fence EXCEPT !.turn = t] \in Fences
      BY <1>0 DEF Fences
    <3>2. steers[q].turn \in MaybePrompts
      BY DEF SteersTyped
    <3>3. fence' = [fence EXCEPT !.turn = IF fence.turn = None THEN steers[q].turn ELSE fence.turn]
      BY <1>0, <1>14 DEF SteerAnswered, Fences
    <3>q. QED BY <1>0, <3>1, <3>2, <3>3 DEF FenceTyped
  <2>2. SessionTyped'
    BY <1>14, <1>0 DEF SteerAnswered, SessionTyped
  <2>3. ThreadsTyped'
    BY <1>14, <1>0 DEF SteerAnswered, ThreadsTyped
  <2>4. HostTyped'
    BY <1>14, <1>0 DEF SteerAnswered, HostTyped, external
  <2>q. QED BY <1>1, <2>1, <2>2, <2>3, <2>4
<1>15. ASSUME NEW s \in Stops, Stop(s) PROVE Typed'
  <2>1. FenceTyped'
    <3>1. ASSUME NEW r \in Stoppers
          PROVE  [fence EXCEPT !.aborting = fence.turn, !.abortTimer = r] \in Fences
      BY <1>0 DEF Fences
    <3>2. [fence EXCEPT !.cancelled = TRUE, !.abortSent = @ \/ fence.dispatched] \in Fences
      BY <1>0 DEF Fences
    <3>q. QED BY <1>15, <1>0, <3>1, <3>2 DEF Stop, Bind, Cancel, NothingToStop, FenceTyped, Stoppers
  <2>2. SessionTyped'
    BY <1>15, <1>0 DEF Stop, Bind, Cancel, NothingToStop, SessionTyped, MaybePrompts
  <2>3. ThreadsTyped'
    BY <1>15, <1>0 DEF Stop, Bind, Cancel, NothingToStop, ThreadsTyped, StopGoto, StopSteps, UnderWay, MaybePrompts, Stoppers
  <2>4. HostTyped'
    BY <1>15, <1>0 DEF Stop, Bind, Cancel, NothingToStop, HostTyped, external
  <2>q. QED BY <1>1, <2>1, <2>2, <2>3, <2>4
<1>16. ASSUME NEW s \in Stoppers, StopSends(s) PROVE Typed'
  <2>1. FenceTyped'
    BY <1>16, <1>0 DEF StopSends, FenceTyped, session
  <2>2. SessionTyped'
    BY <1>16, <1>0 DEF StopSends, SessionTyped, session
  <2>3. ThreadsTyped'
    BY <1>16, <1>0 DEF StopSends, ThreadsTyped, StopGoto, StopSteps, UnderWay
  <2>4. HostTyped'
    <3>1. stops[s].target \in Prompts
      BY <1>16 DEF StopSends, ThreadsTyped, UnderWay, MaybePrompts
    <3>2. [cmd |-> "abort", by |-> s, turn |-> stops[s].target] \in Commands
      BY <3>1 DEF Commands
    <3>3. wire' \in Seq(Commands)
      <4>1. wire' = wire \/ wire' = Append(wire, [cmd |-> "abort", by |-> s,
                                                 turn |-> stops[s].target])
        BY <1>16 DEF StopSends
      <4>q. QED BY <4>1, <3>2 DEF HostTyped
    <3>q. QED BY <1>16, <3>3 DEF StopSends, HostTyped
  <2>q. QED BY <1>1, <2>1, <2>2, <2>3, <2>4
<1>17. ASSUME NEW s \in Stoppers, StopAnswered(s) PROVE Typed'
  <2>1. FenceTyped'
    <3>1. [fence EXCEPT !.abortTimer = IF @ = s THEN None ELSE @] \in Fences
      BY <1>0 DEF Fences
    <3>q. QED BY <1>0, <1>17, <3>1 DEF StopAnswered, FenceTyped
  <2>2. SessionTyped'
    BY <1>17, <1>0 DEF StopAnswered, SessionTyped, Retire, Projections, ThreadsTyped, UnderWay,
       MaybePrompts
  <2>3. ThreadsTyped'
    BY <1>17 DEF StopAnswered, ThreadsTyped, StopGoto, StopSteps, UnderWay
  <2>4. HostTyped'
    BY <1>17 DEF StopAnswered, HostTyped, external
  <2>q. QED BY <1>1, <2>1, <2>2, <2>3, <2>4
<1>18. CASE Handle
  <2>0. Head(events) \in Records /\ Tail(events) \in Seq(Records)
    BY <1>18 DEF Handle, HostTyped
  <2>1. FenceTyped'
    <3> DEFINE e == Head(events)
               f == Bound(fence, e.turn)
    <3>1. e.turn \in Prompts /\ f \in Fences
      BY <2>0, <1>0 DEF Records
    <3>2. [f EXCEPT !.settleTimer = e.turn] \in Fences
      BY <3>1 DEF Fences, MaybePrompts
    <3>3. Untimed(f) \in Fences /\ Untimed(Cleared(f)) \in Fences
      BY <3>1
    <3>q. QED BY <1>0, <1>18, <3>1, <3>2, <3>3 DEF Handle, FenceTyped, Settles, Fails, session
  <2>2. SessionTyped'
    <3> DEFINE t == Head(events).turn
    <3>1. t \in Prompts
      BY <2>0 DEF Records
    <3>2. ASSUME NEW f, Settles(f, t) PROVE retired' \subseteq Prompts /\ status' = "idle"
                                         /\ failing' = failing /\ retired \subseteq retired'
                                         /\ ended' \in [Prompts -> Seq(Terminals)]
      BY <3>1, <3>2 DEF Settles, SessionTyped, Terminals
    <3>3. ASSUME NEW f, Fails(f, t) PROVE retired' \subseteq Prompts /\ status' = status
                                         /\ failing' \in retired' /\ ended' = ended
      BY <3>1, <3>3 DEF Fails, SessionTyped
    <3>q. QED BY <1>18, <3>2, <3>3 DEF Handle, SessionTyped, session
  <2>3. ThreadsTyped'
    BY <1>18 DEF Handle, ThreadsTyped
  <2>4. HostTyped'
    BY <1>18, <2>0 DEF Handle, HostTyped
  <2>q. QED BY <1>1, <2>1, <2>2, <2>3, <2>4
<1>19. CASE FailTurn
  <2>1. FenceTyped'
    BY <1>19, <1>0 DEF FailTurn, FenceTyped
  <2>2. SessionTyped'
    BY <1>19, <1>0 DEF FailTurn, SessionTyped, Terminals
  <2>3. ThreadsTyped'
    BY <1>19, <1>0 DEF FailTurn, ThreadsTyped
  <2>4. HostTyped'
    BY <1>19, <1>0 DEF FailTurn, HostTyped, external
  <2>q. QED BY <1>1, <2>1, <2>2, <2>3, <2>4
<1>20. CASE SettleFires \/ AbortFires
  <2>1. FenceTyped'
    <3>1. /\ [fence EXCEPT !.settleTimer = None] \in Fences
          /\ [fence EXCEPT !.abortTimer = None] \in Fences
      BY <1>0 DEF Fences, MaybePrompts
    <3>q. QED BY <1>20, <3>1 DEF SettleFires, AbortFires, FenceTyped
  <2>2. SessionTyped'
    BY <1>20, <1>0 DEF SettleFires, AbortFires, SessionTyped
  <2>3. ThreadsTyped'
    BY <1>20, <1>0 DEF SettleFires, AbortFires, ThreadsTyped
  <2>4. HostTyped'
    BY <1>20, <1>0 DEF SettleFires, AbortFires, HostTyped, external
  <2>q. QED BY <1>1, <2>1, <2>2, <2>3, <2>4
<1>21. CASE SettleProbe
  <2>1. FenceTyped'
    <3>1. Cleared(fence) \in Fences
      BY <1>0
    <3>2. [Cleared(fence) EXCEPT !.abortTimer = None] \in Fences
      BY <3>1 DEF Fences
    <3>q. QED BY <1>21, <1>0, <3>2 DEF SettleProbe, FenceTyped
  <2>2. SessionTyped'
    <3> DEFINE t == probes.settle
    <3>1. t \in Prompts /\ probes' \in [settle : MaybePrompts, abort : MaybePrompts]
      BY <1>21 DEF SettleProbe, SessionTyped, MaybePrompts
    <3>2. \A as \in {"completed", "failed", "aborted"} : [turn |-> t, as |-> as] \in Projections
      BY <3>1 DEF Projections
    <3>3. \/ retired' = retired \cup {t} /\ late' \subseteq Projections
          \/ UNCHANGED <<retired, late>>
      BY <1>21, <3>2 DEF SettleProbe, Retire, SessionTyped
    <3>q. QED BY <1>21, <3>1, <3>3 DEF SettleProbe, SessionTyped
  <2>3. ThreadsTyped'
    BY <1>21, <1>0 DEF SettleProbe, ThreadsTyped
  <2>4. HostTyped'
    BY <1>21, <1>0 DEF SettleProbe, HostTyped, external
  <2>q. QED BY <1>1, <2>1, <2>2, <2>3, <2>4
<1>22. CASE AbortFallback
  <2>1. FenceTyped'
    <3>1. Cleared(fence) \in Fences
      BY <1>0
    <3>2. [Cleared(fence) EXCEPT !.settleTimer = None] \in Fences
      BY <3>1 DEF Fences, MaybePrompts
    <3>q. QED BY <1>22, <1>0, <3>2 DEF AbortFallback, FenceTyped
  <2>2. SessionTyped'
    <3> DEFINE t == probes.abort
    <3>1. t \in Prompts /\ probes' \in [settle : MaybePrompts, abort : MaybePrompts]
      BY <1>22 DEF AbortFallback, SessionTyped, MaybePrompts
    <3>2. [turn |-> t, as |-> "aborted"] \in Projections
      BY <3>1 DEF Projections
    <3>3. \/ retired' = retired \cup {t} /\ late' \subseteq Projections
          \/ UNCHANGED <<retired, late>>
      BY <1>22, <3>2 DEF AbortFallback, Retire, SessionTyped
    <3>q. QED BY <1>22, <3>1, <3>3 DEF AbortFallback, SessionTyped
  <2>3. ThreadsTyped'
    BY <1>22, <1>0 DEF AbortFallback, ThreadsTyped
  <2>4. HostTyped'
    BY <1>22, <1>0 DEF AbortFallback, HostTyped, external
  <2>q. QED BY <1>1, <2>1, <2>2, <2>3, <2>4
<1>23. CASE Project
  <2>1. FenceTyped'
    BY <1>23, <1>0 DEF Project, FenceTyped
  <2>2. SessionTyped'
    BY <1>23, <1>0 DEF Project, SessionTyped, Projections, Terminals
  <2>3. ThreadsTyped'
    BY <1>23, <1>0 DEF Project, ThreadsTyped
  <2>4. HostTyped'
    BY <1>23, <1>0 DEF Project, HostTyped, external
  <2>q. QED BY <1>1, <2>1, <2>2, <2>3, <2>4
<1>24. CASE HostTakes
  <2>0. Head(wire) \in Commands /\ Tail(wire) \in Seq(Commands)
    BY <1>24 DEF HostTakes, HostTyped
  <2>1. FenceTyped'
    BY <1>24 DEF HostTakes, FenceTyped, session
  <2>2. SessionTyped'
    BY <1>24 DEF HostTakes, SessionTyped, session
  <2>3. ThreadsTyped'
    <3>1. CASE UNCHANGED stops
      BY <1>24, <3>1 DEF HostTakes, ThreadsTyped, AnswerPrompt, PromptSteps
    <3>2. CASE UNCHANGED pc
      <4> DEFINE s == Head(wire).by
      <4>1. PICK r \in {"stopped", "already_idle", "mismatch"} :
               stops' = stops \/ (stops[s].at = "waiting" /\ s # None /\ stops' = [stops EXCEPT ![s].at = r])
        BY <1>24, <3>2 DEF HostTakes, AnswerStop
      <4>2. s \in Stoppers \cup {None}
        BY <2>0 DEF Commands
      <4>q. QED BY <3>2, <4>1, <4>2 DEF ThreadsTyped, StopSteps, UnderWay
    <3>q. QED BY <1>24, <3>1, <3>2 DEF HostTakes
  <2>4. HostTyped'
    <3> DEFINE c == Head(wire)
    <3>1. c.turn \in Prompts /\ wire' \in Seq(Commands) /\ UNCHANGED client
      BY <1>24, <2>0 DEF HostTakes, Commands
    <3>2. events' \in Seq(Records)
      <4>1. events' = events \/ events' = Append(events, [turn |-> c.turn, kind |-> "work"])
        BY <1>24 DEF HostTakes, Publishes
      <4>2. [turn |-> c.turn, kind |-> "work"] \in Records
        BY <3>1 DEF Records
      <4>q. QED BY <4>1, <4>2 DEF HostTyped
    <3>3. /\ host' \in [turn : MaybePrompts, phase : {"idle", "running", "ended", "stopping"},
                        ran : SUBSET Prompts]
          /\ host'.phase # "idle" => host'.turn # None
      <4>1. CASE host' = [turn |-> c.turn, phase |-> "running", ran |-> host.ran \cup {c.turn}]
        BY <4>1, <3>1, <1>0 DEF HostTyped, MaybePrompts
      <4>2. CASE host' = [host EXCEPT !.phase = "stopping"] /\ host.turn = c.turn
        BY <4>2, <3>1, <1>0 DEF HostTyped, MaybePrompts
      <4>q. QED BY <1>24, <4>1, <4>2 DEF HostTakes, HostTyped
    <3>q. QED BY <3>1, <3>2, <3>3 DEF HostTyped
  <2>q. QED BY <1>1, <2>1, <2>2, <2>3, <2>4
<1>25. CASE HostEnds \/ HostSettles
  <2>1. FenceTyped'
    BY <1>25, <1>0 DEF HostEnds, HostSettles, FenceTyped, session
  <2>2. SessionTyped'
    BY <1>25, <1>0 DEF HostEnds, HostSettles, SessionTyped, session, threads
  <2>3. ThreadsTyped'
    BY <1>25, <1>0 DEF HostEnds, HostSettles, ThreadsTyped, threads
  <2>4. HostTyped'
    <3>1. host.turn \in Prompts
      BY <1>25 DEF HostEnds, HostSettles, HostTyped, MaybePrompts
    <3>2. \A kind \in {"end", "settled"} : [turn |-> host.turn, kind |-> kind] \in Records
      BY <3>1 DEF Records
    <3>3. events' \in Seq(Records)
      <4>1. \/ events' = events
            \/ \E kind \in {"end", "settled"} :
                   events' = Append(events, [turn |-> host.turn, kind |-> kind])
        BY <1>25 DEF HostEnds, HostSettles, Publishes
      <4>2. ASSUME NEW r \in Records PROVE Append(events, r) \in Seq(Records)
        BY <4>2 DEF HostTyped
      <4>q. QED BY <4>1, <4>2, <3>2 DEF HostTyped
    <3>q. QED BY <1>25, <3>1, <3>3 DEF HostEnds, HostSettles, HostTyped, MaybePrompts
  <2>q. QED BY <1>1, <2>1, <2>2, <2>3, <2>4
<1>26. CASE HostExits
  <2>1. FenceTyped'
    BY <1>26, <1>0 DEF HostExits, FenceTyped
  <2>2. SessionTyped'
    BY <1>26, <1>0 DEF HostExits, SessionTyped, Projections, MaybePrompts
  <2>3. ThreadsTyped'
    BY <1>26, <1>0 DEF HostExits, ThreadsTyped
  <2>4. HostTyped'
    <3>1. /\ client' = [exits |-> client.exits + 1, up |-> FALSE]
          /\ host' = [host EXCEPT !.turn = None, !.phase = "idle"]
          /\ wire' = <<>> /\ events' = events
      BY <1>26 DEF HostExits
    <3>2. client' \in [exits : Nat, up : BOOLEAN]
      BY <3>1 DEF HostTyped
    <3>3. host' \in [turn : MaybePrompts, phase : {"idle", "running", "ended", "stopping"},
                    ran : SUBSET Prompts]
          /\ host'.phase = "idle"
      BY <3>1 DEF HostTyped, MaybePrompts
    <3>q. QED BY <3>1, <3>2, <3>3 DEF HostTyped
  <2>q. QED BY <1>1, <2>1, <2>2, <2>3, <2>4
<1>27. CASE UNCHANGED vars
  <2>1. FenceTyped'
    BY <1>27, <1>0 DEF vars, session, threads, external, FenceTyped
  <2>2. SessionTyped'
    BY <1>27, <1>0 DEF vars, session, threads, external, SessionTyped
  <2>3. ThreadsTyped'
    BY <1>27, <1>0 DEF vars, session, threads, external, ThreadsTyped
  <2>4. HostTyped'
    BY <1>27, <1>0 DEF vars, session, threads, external, HostTyped
  <2>q. QED BY <1>1, <2>1, <2>2, <2>3, <2>4
<1>q. QED
  BY <1>2, <1>3, <1>4, <1>5, <1>6, <1>7, <1>8, <1>9, <1>10, <1>11, <1>12, <1>13, <1>14, <1>15,
     <1>16, <1>17, <1>18, <1>19, <1>20, <1>21, <1>22, <1>23, <1>24, <1>25, <1>26, <1>27
     DEF Next, Prompting, Steering, Stopping, Lane, Timers, Host

(* The marks of admissions, and the turn, over what the sections do to a fence. *)

LEMMA FenceMarks ==
    ASSUME NEW f \in Fences
    PROVE  /\ /\ Released(f).admission = None /\ Released(f).turn = f.turn
              /\ ~Released(f).cancelled /\ ~Released(f).dispatched /\ ~Released(f).abortSent
           /\ /\ Cleared(f).admission = f.admission /\ Cleared(f).turn = None
              /\ Cleared(f).cancelled = f.cancelled /\ Cleared(f).dispatched = f.dispatched
              /\ Cleared(f).abortSent = f.abortSent
           /\ /\ Untimed(f).admission = f.admission /\ Untimed(f).turn = f.turn
              /\ Untimed(f).cancelled = f.cancelled /\ Untimed(f).dispatched = f.dispatched
              /\ Untimed(f).abortSent = f.abortSent
  BY DEF Fences, Released, Cleared, Untimed

LEMMA BoundMarks ==
    ASSUME NEW f \in Fences, NEW p \in Prompts
    PROVE  /\ Bound(f, p).turn = p
           /\ f.admission = p => /\ Bound(f, p).admission = None /\ ~Bound(f, p).cancelled
                                 /\ ~Bound(f, p).dispatched /\ ~Bound(f, p).abortSent
           /\ f.admission # p => /\ Bound(f, p).admission = f.admission
                                 /\ Bound(f, p).cancelled = f.cancelled
                                 /\ Bound(f, p).dispatched = f.dispatched
                                 /\ Bound(f, p).abortSent = f.abortSent
<1> DEFINE g == [f EXCEPT !.turn = p, !.aborting = IF f.cancelled THEN p ELSE @]
<1>1. g \in Fences
  BY DEF Fences, MaybePrompts
<1>2. /\ g.turn = p /\ g.admission = f.admission /\ g.cancelled = f.cancelled
      /\ g.dispatched = f.dispatched /\ g.abortSent = f.abortSent
  BY DEF Fences
<1>3. Bound(f, p) = IF f.admission = p THEN Released(g) ELSE g
  BY DEF Bound
<1> HIDE DEF g
<1>q. QED BY <1>1, <1>2, <1>3, FenceMarks

\* The fence after an event that binds its turn.
LEMMA HandledFence ==
    ASSUME Typed, Handle
    PROVE  \/ fence' = fence /\ Head(events).turn \in retired
           \/ LET t == Head(events).turn
                  f == Bound(fence, t)
              IN /\ t \in Prompts \ retired
                 /\ /\ fence'.admission = f.admission /\ fence'.cancelled = f.cancelled
                    /\ fence'.dispatched = f.dispatched /\ fence'.abortSent = f.abortSent
                 /\ fence'.turn \in {t, None}
<1> DEFINE t == Head(events).turn
           f == Bound(fence, t)
<1>1. t \in Prompts
  <2>1. Head(events) \in Records
    BY DEF Handle, Typed, HostTyped
  <2>q. QED BY <2>1 DEF Records
<1>2. f \in Fences /\ f.turn = t
  BY <1>1, FenceShapes, BoundMarks DEF Typed, FenceTyped
<1>3. /\ Cleared(f) \in Fences /\ Untimed(f) \in Fences
      /\ [f EXCEPT !.settleTimer = t] \in Fences
      /\ LET g == [f EXCEPT !.settleTimer = t]
         IN /\ g.turn = t /\ g.admission = f.admission /\ g.cancelled = f.cancelled
            /\ g.dispatched = f.dispatched /\ g.abortSent = f.abortSent
  BY <1>1, <1>2, FenceShapes DEF Fences, MaybePrompts
<1>4. \/ fence' = fence /\ t \in retired
      \/ /\ t \notin retired
         /\ fence' \in {f, [f EXCEPT !.settleTimer = t], Untimed(f), Untimed(Cleared(f))}
  BY DEF Handle, Settles, Fails, session
<1> HIDE DEF f, t
<1>q. QED BY <1>1, <1>2, <1>3, <1>4, FenceMarks DEF f, t

LEMMA MarkedStep == Typed /\ Marked /\ [Next]_vars => Marked'
<1> SUFFICES ASSUME Typed, Marked, [Next]_vars PROVE Marked'
  OBVIOUS
<1> USE FenceMarks DEF Marked, WellMarked
<1>0. fence \in Fences /\ None \notin Prompts
  BY PromptFenceAssumption DEF Typed, FenceTyped, Stoppers
<1>1. ASSUME NEW p \in Prompts, Reserve(p) PROVE Marked'
  <2>1. Released(fence) \in Fences
    BY <1>0, FenceShapes
  <2>q. QED BY <1>0, <1>1, <2>1 DEF Reserve, Fences
<1>2. ASSUME NEW p \in Prompts, Enter(p) PROVE Marked'
  <2>1. Released(fence) \in Fences
    BY <1>0, FenceShapes
  <2>2. CASE fence' = [fence EXCEPT !.admission = p, !.aborting = None]
    BY <1>0, <2>2 DEF Fences
  <2>3. CASE fence' = [Released(fence) EXCEPT !.aborting = None]
    BY <1>0, <2>1, <2>3 DEF Fences
  <2>q. QED BY <1>0, <1>2, <2>2, <2>3 DEF Enter
<1>3. ASSUME NEW p \in Prompts, Dispatch(p) PROVE Marked'
  BY <1>0, <1>3 DEF Dispatch, MayDispatch, Fences
<1>4. ASSUME NEW p \in Prompts, Release(p) \/ Rejected(p) PROVE Marked'
  BY <1>0, <1>4 DEF Release, Rejected
<1>5. ASSUME NEW p \in Prompts, Acknowledge(p) PROVE Marked'
  <2> DEFINE f == IF fence.admission = p /\ Alive(p) THEN Released(fence) ELSE fence
  <2>1. f \in Fences /\ WellMarked(f)
    BY <1>0, FenceShapes
  <2>2. PICK a : fence' = f \/ fence' = [f EXCEPT !.turn = p, !.aborting = a]
    BY <1>5 DEF Acknowledge
  <2> HIDE DEF f
  <2>q. QED BY <2>1, <2>2 DEF Fences
<1>6. ASSUME NEW s \in Stoppers, Bind(s) PROVE Marked'
  <2>1. \/ fence' = fence
        \/ fence' = [fence EXCEPT !.aborting = fence.turn, !.abortTimer = s]
    BY <1>6 DEF Bind
  <2>2. CASE fence' = [fence EXCEPT !.aborting = fence.turn, !.abortTimer = s]
    BY <1>0, <2>2 DEF Fences
  <2>q. QED BY <2>1, <2>2
<1>7. ASSUME NEW s \in Stops, Stop(s) PROVE Marked'
  <2>1. CASE Cancel(s)
    BY <1>0, <2>1 DEF Cancel, Fences
  <2>q. QED BY <1>6, <1>7, <2>1 DEF Stop, NothingToStop, Stoppers
<1>8. ASSUME NEW p \in Prompts, StopOwnTurn(p) PROVE Marked'
  BY <1>6, <1>8 DEF StopOwnTurn, Stoppers
<1>9. ASSUME NEW p \in Prompts, WorkerFails(p) PROVE Marked'
  BY <1>0, <1>9 DEF WorkerFails, Fences
<1>10. ASSUME NEW s \in Stoppers, StopAnswered(s) PROVE Marked'
  <2>1. Cleared(fence) \in Fences
    BY <1>0, FenceShapes
  <2>q. QED BY <1>0, <1>10, <2>1 DEF StopAnswered, Fences
<1>11. CASE Handle
  BY <1>0, <1>11, HandledFence, BoundMarks
<1>12. CASE FailTurn
  <2>1. Cleared(fence) \in Fences
    BY <1>0, FenceShapes
  <2>q. QED BY <1>0, <1>12, <2>1 DEF FailTurn
<1>13. CASE SettleFires \/ AbortFires
  BY <1>0, <1>13 DEF SettleFires, AbortFires, Fences
<1>14. CASE SettleProbe \/ AbortFallback
  <2>1. Cleared(fence) \in Fences
    BY <1>0, FenceShapes
  <2>q. QED BY <1>0, <1>14, <2>1 DEF SettleProbe, AbortFallback, Fences
<1>15. CASE HostExits
  BY <1>15 DEF HostExits, Unfenced
<1>16. CASE UNCHANGED fence
  BY <1>16
<1>17. ASSUME NEW q \in Steers, SteerAnswered(q) PROVE Marked'
  <2>1. PICK t : fence' = [fence EXCEPT !.turn = t]
    BY <1>17 DEF SteerAnswered
  <2>q. QED BY <1>0, <2>1 DEF Fences
<1>q. QED
  BY <1>1, <1>2, <1>3, <1>4, <1>5, <1>7, <1>8, <1>9, <1>10, <1>11, <1>12, <1>13, <1>14, <1>15, <1>16,
     <1>17
     DEF Next, Prompting, Steering, Steer, SteerFails, HostTakesSteer, WorkerSends, Stopping, Lane,
         Timers, Host, Prepare, Unanswered, StopSends, Project, HostTakes, HostEnds, HostSettles,
         vars, session

\* Types, and no mark without the admission it belongs to, whatever comes first.
THEOREM TypeCorrect == Spec => []TypeOK
<1>1. Init => Typed /\ Marked
  BY TypedInit
<1>2. Typed /\ Marked /\ [Next]_vars => (Typed /\ Marked)'
  BY TypedStep, MarkedStep
<1>3. Typed /\ Marked => TypeOK
  BY DEF Typed, FenceTyped, SessionTyped, ThreadsTyped, SteersTyped, HostTyped, Marked, WellMarked, Fences,
         MaybePrompts, TypeOK
<1>q. QED BY <1>1, <1>2, <1>3, PTL DEF Spec

(* What binds a turn: the answer of a prompt and an event, which look at the retired  *)
(* turns first, and the answer to a message that was queued into a turn, which looks   *)
(* only whether a turn is bound.                                                      *)

LEMMA TurnMoves ==
    Typed /\ [Next]_vars =>
        \/ fence'.turn \in {fence.turn, None}
        \/ Acknowledge(fence'.turn) /\ Binds(fence'.turn) /\ fence'.turn \in Prompts
        \/ Handle /\ fence'.turn = Head(events).turn /\ fence'.turn \in Prompts \ retired
        \/ \E q \in Steers : /\ SteerAnswered(q) /\ fence.turn = None
                              /\ steers[q].at = "accepted" /\ fence'.turn = steers[q].turn
<1> DEFINE Moves == \/ fence'.turn \in {fence.turn, None}
                    \/ Acknowledge(fence'.turn) /\ Binds(fence'.turn) /\ fence'.turn \in Prompts
                    \/ Handle /\ fence'.turn = Head(events).turn /\ fence'.turn \in Prompts \ retired
                    \/ \E q \in Steers : /\ SteerAnswered(q) /\ fence.turn = None
                                          /\ steers[q].at = "accepted" /\ fence'.turn = steers[q].turn
<1> SUFFICES ASSUME Typed, [Next]_vars PROVE Moves
  OBVIOUS
<1> USE FenceMarks
<1>0. fence \in Fences /\ None \notin Prompts
  BY PromptFenceAssumption DEF Typed, FenceTyped, Stoppers
<1>1. Released(fence) \in Fences /\ Cleared(fence) \in Fences
  BY <1>0, FenceShapes
<1>2. CASE fence' = fence \/ fence'.turn = fence.turn \/ fence'.turn = None
  BY <1>0, <1>2
<1>3. ASSUME NEW p \in Prompts, Acknowledge(p) PROVE Moves
  <2> DEFINE f == IF fence.admission = p /\ Alive(p) THEN Released(fence) ELSE fence
  <2>1. f \in Fences /\ f.turn = fence.turn
    BY <1>0, <1>1
  <2>2. PICK a : fence' = f \/ (Binds(p) /\ fence' = [f EXCEPT !.turn = p, !.aborting = a])
    BY <1>3 DEF Acknowledge
  <2>3. fence'.turn = fence.turn \/ (Binds(p) /\ fence'.turn = p)
    <3> HIDE DEF f
    <3>q. QED BY <2>1, <2>2 DEF Fences
  <2>q. QED BY <1>3, <2>3
<1>4. CASE Handle
  BY <1>0, <1>4, HandledFence
<1>5. ASSUME NEW p \in Prompts, Reserve(p) \/ Release(p) \/ Enter(p) \/ Dispatch(p) \/ Rejected(p)
      PROVE  Moves
  <2>1. PICK f \in {fence, Released(fence)} :
            fence' \in {f, [f EXCEPT !.admission = p], [f EXCEPT !.aborting = None],
                       [f EXCEPT !.admission = p, !.aborting = None],
                       [f EXCEPT !.dispatched = TRUE]}
    BY <1>5 DEF Reserve, Release, Enter, Dispatch, Rejected
  <2>2. f \in Fences /\ f.turn = fence.turn
    BY <1>0, <1>1
  <2>q. QED BY <2>1, <2>2 DEF Fences
<1>6. ASSUME NEW s \in Stoppers, Bind(s) PROVE Moves
  <2>1. \/ fence' = fence
        \/ fence' = [fence EXCEPT !.aborting = fence.turn, !.abortTimer = s]
    BY <1>6 DEF Bind
  <2>2. CASE fence' = [fence EXCEPT !.aborting = fence.turn, !.abortTimer = s]
    BY <1>0, <2>2 DEF Fences
  <2>q. QED BY <2>1, <2>2
<1>7. ASSUME NEW s \in Stops, Stop(s) PROVE Moves
  <2>1. CASE Cancel(s)
    BY <1>0, <2>1 DEF Cancel, Fences
  <2>q. QED BY <1>6, <1>7, <2>1 DEF Stop, NothingToStop, Stoppers
<1>8. ASSUME NEW p \in Prompts, StopOwnTurn(p) \/ WorkerFails(p) PROVE Moves
  <2>1. CASE fence' = [fence EXCEPT !.abortSent = FALSE]
    BY <1>0, <2>1 DEF Fences
  <2>q. QED BY <1>6, <1>8, <2>1 DEF StopOwnTurn, WorkerFails, Stoppers
<1>9. ASSUME NEW s \in Stoppers, StopAnswered(s) PROVE Moves
  <2>1. CASE fence' = [fence EXCEPT !.abortTimer = IF @ = s THEN None ELSE @]
    BY <1>0, <2>1 DEF Fences
  <2>q. QED BY <1>0, <1>1, <1>9, <2>1 DEF StopAnswered
<1>10. CASE FailTurn
  BY <1>0, <1>1, <1>10 DEF FailTurn
<1>11. CASE SettleFires \/ AbortFires
  BY <1>0, <1>11 DEF SettleFires, AbortFires, Fences
<1>12. CASE SettleProbe \/ AbortFallback
  <2>1. \/ fence' = fence
        \/ fence' = [Cleared(fence) EXCEPT !.abortTimer = None]
        \/ fence' = [Cleared(fence) EXCEPT !.settleTimer = None]
    BY <1>12 DEF SettleProbe, AbortFallback
  <2>q. QED BY <1>0, <1>1, <2>1 DEF Fences
<1>13. CASE HostExits
  BY <1>0, <1>13 DEF HostExits, Unfenced
<1>14. ASSUME NEW q \in Steers, SteerAnswered(q) PROVE Moves
  <2>1. fence' = [fence EXCEPT !.turn = IF fence.turn = None THEN steers[q].turn ELSE fence.turn]
    BY <1>0, <1>14 DEF SteerAnswered, Fences
  <2>2. fence'.turn = IF fence.turn = None THEN steers[q].turn ELSE fence.turn
    BY <1>0, <2>1 DEF Fences
  <2>q. QED BY <1>14, <2>2 DEF SteerAnswered
<1>q. QED
  BY <1>2, <1>3, <1>4, <1>5, <1>7, <1>8, <1>9, <1>10, <1>11, <1>12, <1>13, <1>14
     DEF Next, Prompting, Steering, Steer, SteerFails, HostTakesSteer, WorkerSends, Stopping, Lane,
         Timers, Host, Prepare, Unanswered, StopSends, Project, HostTakes, HostEnds, HostSettles,
         vars, session

ReturnsByItsMessage ==
    \A t \in retired : fence'.turn = t /\ fence.turn # t =>
        /\ fence.turn = None
        /\ \E q \in Steers : steers[q] = [at |-> "accepted", turn |-> t]

LEMMA NoReturnStep == Typed /\ [Next]_vars => ReturnsByItsMessage
<1> SUFFICES ASSUME Typed, [Next]_vars, NEW t \in retired, fence'.turn = t, fence.turn # t
             PROVE  /\ fence.turn = None
                    /\ \E q \in Steers : steers[q] = [at |-> "accepted", turn |-> t]
  BY DEF ReturnsByItsMessage
<1>1. t # None
  BY PromptFenceAssumption DEF Typed, SessionTyped, Stoppers
<1>2. PICK q \in Steers : fence.turn = None /\ steers[q].at = "accepted" /\ steers[q].turn = t
  BY <1>1, TurnMoves DEF Binds
<1>3. steers[q] = [at |-> "accepted", turn |-> t]
  BY <1>2 DEF Typed, SteersTyped
<1>q. QED BY <1>2, <1>3

\* A turn that has ended is bound again only by the answer to a message that the Host had
\* queued into it, and only where no turn is bound, for every number of prompts, of
\* messages, of Stops and of exits of the Host.
THEOREM RetiredForGood == Spec => NoReturn
<1>1. Init => Typed
  BY TypedInit
<1>2. Typed /\ [Next]_vars => Typed'
  BY TypedStep
<1>3. Typed /\ [Next]_vars => [ReturnsByItsMessage]_vars
  BY NoReturnStep
<1>q. QED BY <1>1, <1>2, <1>3, PTL DEF Spec, NoReturn, ReturnsByItsMessage

(* A Stop that comes before the hand-off.  Until the Host exits, a prompt on its way  *)
(* to the hand-off owns the admission, so the mark that Stop leaves there is the one   *)
(* its own hand-off meets.                                                            *)

Early == {"reserved", "prepared", "entered"}
Sent == host.ran \cup {wire[i].turn : i \in {j \in DOMAIN wire : wire[j].cmd = "prompt"}}

\* A prompt is sent by its own hand-off only.
NotYetSent == \A p \in Prompts : pc[p].at \in {"idle"} \cup Early => p \notin Sent

\* The Host speaks of the turns it runs.
Heard ==
    /\ host.turn \in host.ran \cup {None}
    /\ \A i \in DOMAIN events : events[i].turn \in host.ran
    /\ \A q \in Steers : steers[q].at = "accepted" => steers[q].turn \in host.ran

\* A prompt on its way owns the admission, and an admission that is not handed off is
\* that of a prompt that was not sent.
Owned ==
    client.exits = 0 =>
        \A p \in Prompts :
            /\ pc[p].at \in Early => fence.admission = p /\ ~fence.dispatched
            /\ fence.admission = p /\ ~fence.dispatched => p \notin Sent /\ pc[p].at # "idle"

\* A cancelled prompt that is still on its way will meet the mark.
MarkAwaits ==
    client.exits = 0 =>
        \A s \in Stops : stops[s].at = "cancelled" =>
            /\ stops[s].target \in Prompts /\ stops[s].target \notin Sent
            /\ pc[stops[s].target].at # "idle"
            /\ pc[stops[s].target].at \in Early => fence.cancelled

Ownership == NotYetSent /\ Heard /\ Owned /\ MarkAwaits

LEMMA OwnershipInit == Init => Ownership
  BY PromptFenceAssumption
     DEF Init, Ownership, NotYetSent, Heard, Owned, MarkAwaits, Early, Sent, Unfenced, Stoppers

\* How a prompt's thread moves.
LEMMA PcMoves ==
    Typed /\ [Next]_vars =>
        \A p \in Prompts :
            /\ pc'[p].at = "idle" => pc[p].at = "idle"
            /\ pc'[p].at \in Early => pc[p].at \in Early \/ Reserve(p)
<1> SUFFICES ASSUME Typed, [Next]_vars, NEW p \in Prompts
             PROVE  /\ pc'[p].at = "idle" => pc[p].at = "idle"
                    /\ pc'[p].at \in Early => pc[p].at \in Early \/ Reserve(p)
  OBVIOUS
<1> USE DEF Typed, ThreadsTyped, Early
<1>1. CASE pc' = pc
  BY <1>1
<1>2. ASSUME NEW q \in Prompts,
             \/ Reserve(q) \/ Prepare(q) \/ Release(q) \/ Enter(q) \/ Dispatch(q) \/ Rejected(q)
             \/ Unanswered(q) \/ Acknowledge(q) \/ StopOwnTurn(q)
      PROVE  /\ pc'[p].at = "idle" => pc[p].at = "idle"
             /\ pc'[p].at \in Early => pc[p].at \in Early \/ Reserve(p)
  BY <1>2 DEF Reserve, Prepare, Release, Enter, Dispatch, Rejected, Unanswered, Acknowledge,
              StopOwnTurn, Goto
<1>3. CASE HostTakes
  BY <1>3 DEF HostTakes, AnswerPrompt
<1>q. QED
  BY <1>1, <1>2, <1>3
     DEF Next, Prompting, Steering, Steer, SteerFails, SteerAnswered, HostTakesSteer, WorkerFails,
         Stopping, Lane, Timers, Host, Handle, FailTurn, WorkerSends, Stop,
         StopSends, StopAnswered, SettleFires, SettleProbe, AbortFires, AbortFallback, Project,
         HostEnds, HostSettles, HostExits, vars, session, threads

\* What the Host says.
LEMMA HeardMoves == Typed /\ Heard /\ [Next]_vars => Heard'
<1> SUFFICES ASSUME Typed, Heard, [Next]_vars PROVE Heard'
  OBVIOUS
<1>0. /\ events \in Seq(Records) /\ host.ran \subseteq Prompts /\ None \notin Prompts
      /\ steers \in [Steers -> [at : SteerSteps, turn : MaybePrompts]]
  BY PromptFenceAssumption DEF Typed, HostTyped, SteersTyped, Stoppers
<1>1. CASE UNCHANGED <<host, events, steers>>
  BY <1>1 DEF Heard
<1>2. CASE Handle
  <2>1. host' = host /\ steers' = steers /\ events # <<>> /\ events' = Tail(events)
    BY <1>2 DEF Handle
  <2>q. QED BY <1>0, <2>1 DEF Heard
<1>3. CASE HostTakes
  <2> DEFINE c == Head(wire)
  <2>1. /\ steers' = steers
        /\ \/ events' = events /\ host'.ran = host.ran /\ host'.turn = host.turn
           \/ /\ host'.turn = c.turn /\ host'.ran = host.ran \cup {c.turn}
              /\ events' = events \/ events' = Append(events, [turn |-> c.turn, kind |-> "work"])
    BY <1>3 DEF HostTakes, Publishes, Typed, HostTyped
  <2>q. QED BY <1>0, <2>1 DEF Heard
<1>4. CASE HostEnds \/ HostSettles \/ HostExits
  <2>1. host'.ran = host.ran /\ host'.turn \in {host.turn, None} /\ steers' = steers
    BY <1>4 DEF HostEnds, HostSettles, HostExits, Typed, HostTyped, threads
  <2>2. PICK r : \/ events' = events
                 \/ events' = Append(events, r) /\ r.turn = host.turn /\ host.turn # None
    BY <1>4 DEF HostEnds, HostSettles, HostExits, Publishes, Typed, HostTyped
  <2>3. CASE events' = events
    BY <2>1, <2>3 DEF Heard
  <2>4. CASE events' = Append(events, r) /\ r.turn = host.turn /\ host.turn # None
    BY <1>0, <2>1, <2>4 DEF Heard
  <2>q. QED BY <2>2, <2>3, <2>4
<1>5. ASSUME NEW q \in Steers, Steering(q) \/ HostTakesSteer(q) PROVE Heard'
  <2>1. UNCHANGED <<host, events>>
    BY <1>5 DEF Steering, Steer, SteerFails, SteerAnswered, HostTakesSteer, external
  <2>2. PICK label, t : /\ steers' = [steers EXCEPT ![q] = [at |-> label, turn |-> t]]
                        /\ label = "accepted" => t = host.turn /\ t # None
    BY <1>5 DEF Steering, Steer, SteerFails, SteerAnswered, HostTakesSteer, SteerGoto
  <2>3. \A r \in Steers : steers'[r].at = "accepted" => steers'[r].turn \in host.ran
    BY <1>0, <2>2 DEF Heard
  <2>q. QED BY <2>1, <2>3 DEF Heard
<1>q. QED
  BY <1>1, <1>2, <1>3, <1>4, <1>5
     DEF Next, Prompting, Stopping, Lane, Timers, Host, Reserve, Prepare, Release, Enter, Dispatch,
         Rejected, Unanswered, Acknowledge, StopOwnTurn, WorkerSends, WorkerFails, FailTurn, Stop,
         StopSends, StopAnswered, SettleFires, SettleProbe, AbortFires, AbortFallback, Project, vars,
         external, threads

\* What is sent to it: a prompt by its own hand-off.
LEMMA SentMoves == Typed /\ [Next]_vars => \A p \in Sent' \ Sent : p \in Prompts /\ Dispatch(p)
<1> SUFFICES ASSUME Typed, [Next]_vars, NEW p \in Sent' \ Sent PROVE p \in Prompts /\ Dispatch(p)
  OBVIOUS
<1>0. wire \in Seq(Commands)
  BY DEF Typed, HostTyped
<1>1. CASE UNCHANGED <<host, wire>>
  BY <1>1 DEF Sent
<1>2. CASE host'.ran = host.ran /\ wire' \in {wire, <<>>}
  BY <1>2 DEF Sent
<1>3. ASSUME UNCHANGED host, NEW s, NEW t,
             wire' = Append(wire, [cmd |-> "abort", by |-> s, turn |-> t])
      PROVE  FALSE
  BY <1>0, <1>3 DEF Sent
<1>4. ASSUME NEW q \in Prompts, Dispatch(q) PROVE p = q
  BY <1>0, <1>4 DEF Dispatch, Sent
<1>5. CASE HostTakes
  <2> DEFINE c == Head(wire)
  <2>1. wire # <<>> /\ wire' = Tail(wire)
    BY <1>5 DEF HostTakes
  <2>2. \/ host'.ran = host.ran
        \/ c.cmd = "prompt" /\ host'.ran = host.ran \cup {c.turn}
    BY <1>5 DEF HostTakes, Typed, HostTyped
  <2>q. QED BY <1>0, <2>1, <2>2 DEF Sent
<1>6. CASE HostEnds \/ HostSettles \/ HostExits
  <2>1. host'.ran = host.ran /\ wire' \in {wire, <<>>}
    BY <1>6 DEF HostEnds, HostSettles, HostExits, Typed, HostTyped
  <2>q. QED BY <1>2, <2>1
<1>7. ASSUME NEW q \in Prompts, WorkerSends(q) PROVE FALSE
  BY <1>1, <1>3, <1>7 DEF WorkerSends, Sent
<1>8. ASSUME NEW s \in Stoppers, StopSends(s) PROVE FALSE
  BY <1>1, <1>3, <1>8 DEF StopSends, Sent
<1>q. QED
  BY <1>1, <1>4, <1>5, <1>6, <1>7, <1>8
     DEF Next, Prompting, Steering, Steer, SteerFails, SteerAnswered, HostTakesSteer, WorkerFails,
         Stopping, Lane, Timers, Host, Reserve, Prepare, Release, Enter, Rejected,
         Unanswered, Acknowledge, StopOwnTurn, Handle, FailTurn, Stop, StopAnswered, SettleFires,
         SettleProbe, AbortFires, AbortFallback, Project, vars, external

\* What becomes of the admission while the Host runs.
Keeps ==
    /\ fence'.admission = fence.admission /\ fence'.dispatched = fence.dispatched
    /\ fence.cancelled => fence'.cancelled
Frees(p) == fence.admission = p /\ fence'.admission = None /\ pc'[p].at \notin Early
Takes(p) == Reserve(p) /\ fence.admission = None /\ fence'.admission = p /\ ~fence'.dispatched
Sends(p) ==
    /\ Dispatch(p) /\ pc[p].at \in Early /\ pc'[p].at \notin Early /\ ~fence.cancelled
    /\ fence.admission = p /\ fence'.admission = p /\ fence'.dispatched

LEMMA FenceMoves ==
    Typed /\ Ownership /\ [Next]_vars /\ client.exits = 0 /\ client'.exits = 0 =>
        \/ Keeps
        \/ \E p \in Prompts : Frees(p) \/ Takes(p) \/ Sends(p)
<1> DEFINE Moves == Keeps \/ \E p \in Prompts : Frees(p) \/ Takes(p) \/ Sends(p)
<1> SUFFICES ASSUME Typed, Ownership, [Next]_vars, client.exits = 0, client'.exits = 0
             PROVE  Moves
  OBVIOUS
<1> USE FenceMarks
<1>0. fence \in Fences /\ None \notin Prompts /\ pc \in [Prompts -> [at : PromptSteps, client : Nat]]
  BY PromptFenceAssumption DEF Typed, FenceTyped, ThreadsTyped, Stoppers
<1>1. Released(fence) \in Fences /\ Cleared(fence) \in Fences
  BY <1>0, FenceShapes
<1>2. ASSUME NEW p \in Prompts, fence' = Released(fence), fence.admission = p, pc'[p].at \notin Early
      PROVE  Moves
  BY <1>0, <1>2 DEF Frees
<1>3. CASE fence' = fence
  BY <1>3 DEF Keeps
<1>4. ASSUME NEW p \in Prompts, Reserve(p) PROVE Moves
  <2>1. CASE fence' = [Released(fence) EXCEPT !.admission = p] /\ fence.admission = None
    BY <1>0, <1>1, <1>4, <2>1 DEF Takes, Fences
  <2>q. QED BY <1>3, <1>4, <2>1 DEF Reserve
<1>5. ASSUME NEW p \in Prompts, Enter(p) PROVE Moves
  <2>1. fence.admission = p
    BY <1>5 DEF Enter, Ownership, Owned, Early
  <2>2. CASE fence' = [fence EXCEPT !.admission = p, !.aborting = None]
    BY <1>0, <2>1, <2>2 DEF Keeps, Fences
  <2>3. CASE fence' = [Released(fence) EXCEPT !.aborting = None] /\ pc'[p].at = "over"
    <3>1. fence'.admission = None
      BY <1>0, <1>1, <2>3 DEF Fences
    <3>q. QED BY <2>1, <2>3, <3>1 DEF Frees, Early
  <2>q. QED BY <1>0, <1>3, <1>5, <2>2, <2>3 DEF Enter, Goto
<1>6. ASSUME NEW p \in Prompts, Release(p) \/ Rejected(p) PROVE Moves
  <2>1. pc'[p].at \notin Early
    BY <1>0, <1>6 DEF Release, Rejected, Goto, Early
  <2>q. QED BY <1>2, <1>3, <1>6, <2>1 DEF Release, Rejected
<1>7. ASSUME NEW p \in Prompts, Dispatch(p) PROVE Moves
  <2>1. fence'.admission = fence.admission /\ fence'.dispatched
    BY <1>0, <1>7 DEF Dispatch, Fences
  <2>2. pc[p].at \in Early /\ pc'[p].at \notin Early
    BY <1>0, <1>7 DEF Dispatch, Goto, Early
  <2>q. QED BY <1>7, <2>1, <2>2 DEF Sends, Dispatch, MayDispatch
<1>8. ASSUME NEW p \in Prompts, Acknowledge(p) PROVE Moves
  <2> DEFINE f == IF fence.admission = p /\ Alive(p) THEN Released(fence) ELSE fence
  <2>1. f \in Fences /\ pc'[p].at \notin Early
    BY <1>0, <1>1, <1>8 DEF Acknowledge, Goto, Early
  <2>2. PICK a : fence' = f \/ fence' = [f EXCEPT !.turn = p, !.aborting = a]
    BY <1>8 DEF Acknowledge
  <2>3. fence'.admission = f.admission /\ fence'.dispatched = f.dispatched /\ fence'.cancelled = f.cancelled
    <3> HIDE DEF f
    <3>q. QED BY <2>1, <2>2 DEF Fences
  <2>q. QED BY <1>0, <2>1, <2>3 DEF Keeps, Frees
<1>9. ASSUME NEW s \in Stoppers, Bind(s) PROVE Moves
  <2>1. CASE fence' = [fence EXCEPT !.aborting = fence.turn, !.abortTimer = s]
    BY <1>0, <2>1 DEF Keeps, Fences
  <2>q. QED BY <1>3, <1>9, <2>1 DEF Bind
<1>10. ASSUME NEW s \in Stops, Stop(s) PROVE Moves
  <2>1. CASE Cancel(s)
    BY <1>0, <2>1 DEF Cancel, Keeps, Fences
  <2>q. QED BY <1>3, <1>9, <1>10, <2>1 DEF Stop, NothingToStop, Stoppers
<1>11. ASSUME NEW p \in Prompts, StopOwnTurn(p) \/ WorkerFails(p) PROVE Moves
  <2>1. CASE fence' = [fence EXCEPT !.abortSent = FALSE]
    BY <1>0, <2>1 DEF Keeps, Fences
  <2>q. QED BY <1>3, <1>9, <1>11, <2>1 DEF StopOwnTurn, WorkerFails, Stoppers
<1>12. ASSUME NEW s \in Stoppers, StopAnswered(s) PROVE Moves
  <2>1. CASE fence' = [fence EXCEPT !.abortTimer = IF @ = s THEN None ELSE @]
    BY <1>0, <2>1 DEF Keeps, Fences
  <2>2. CASE fence' = Untimed(Cleared(fence))
    BY <1>0, <1>1, <2>2 DEF Keeps
  <2>q. QED BY <1>3, <1>12, <2>1, <2>2 DEF StopAnswered
<1>13. CASE Handle
  <2> DEFINE t == Head(events).turn
  <2>1. events # <<>> /\ events \in Seq(Records)
    BY <1>13 DEF Handle, Typed, HostTyped
  <2>2. t \in host.ran
    BY <2>1 DEF Ownership, Heard
  <2>3. ASSUME t \in Prompts PROVE pc'[t].at \notin Early
    BY <1>13, <2>2, <2>3 DEF Handle, Ownership, NotYetSent, Sent
  <2> HIDE DEF t
  <2>4. CASE t \in Prompts /\ LET f == Bound(fence, t) IN
                 /\ fence'.admission = f.admission /\ fence'.cancelled = f.cancelled
                 /\ fence'.dispatched = f.dispatched
    <3>1. fence.admission = t => fence'.admission = None
      BY <1>0, <2>4, BoundMarks
    <3>2. fence.admission # t => Keeps
      BY <1>0, <2>4, BoundMarks DEF Keeps
    <3>q. QED BY <2>3, <2>4, <3>1, <3>2 DEF Frees
  <2>q. QED BY <1>3, <1>13, <2>4, HandledFence DEF t
<1>14. CASE FailTurn
  BY <1>0, <1>1, <1>14 DEF FailTurn, Keeps
<1>15. CASE SettleFires \/ AbortFires
  BY <1>0, <1>15 DEF SettleFires, AbortFires, Fences, Keeps
<1>16. CASE SettleProbe \/ AbortFallback
  <2>1. \/ fence' = fence
        \/ fence' = [Cleared(fence) EXCEPT !.abortTimer = None]
        \/ fence' = [Cleared(fence) EXCEPT !.settleTimer = None]
    BY <1>16 DEF SettleProbe, AbortFallback
  <2>q. QED BY <1>0, <1>1, <2>1 DEF Fences, Keeps
<1>17. CASE HostExits
  BY <1>17 DEF HostExits
<1>18. ASSUME NEW q \in Steers, SteerAnswered(q) PROVE Moves
  <2>1. PICK t : fence' = [fence EXCEPT !.turn = t]
    BY <1>18 DEF SteerAnswered
  <2>q. QED BY <1>0, <2>1 DEF Fences, Keeps
<1>q. QED
  BY <1>3, <1>4, <1>5, <1>6, <1>7, <1>8, <1>10, <1>11, <1>12, <1>13, <1>14, <1>15, <1>16, <1>17,
     <1>18
     DEF Next, Prompting, Steering, Steer, SteerFails, HostTakesSteer, WorkerSends, Stopping, Lane,
         Timers, Host, Prepare, Unanswered, StopSends, Project, HostTakes, HostEnds, HostSettles,
         vars, session

\* A Stop is answered "cancelled" where it leaves its mark on an admission that is not
\* handed off.
LEMMA StopMoves ==
    Typed /\ [Next]_vars =>
        \A s \in Stops : stops'[s].at = "cancelled" =>
            \/ stops'[s] = stops[s]
            \/ /\ stops'[s].target = fence.admission /\ fence.admission # None
               /\ ~fence.dispatched /\ fence'.cancelled /\ pc' = pc
<1> SUFFICES ASSUME Typed, [Next]_vars, NEW s \in Stops, stops'[s].at = "cancelled"
             PROVE  \/ stops'[s] = stops[s]
                    \/ /\ stops'[s].target = fence.admission /\ fence.admission # None
                       /\ ~fence.dispatched /\ fence'.cancelled /\ pc' = pc
  OBVIOUS
<1>0. /\ stops \in [Stoppers -> [at : StopSteps, target : MaybePrompts]]
      /\ fence \in Fences /\ s \in Stoppers
  BY DEF Typed, ThreadsTyped, FenceTyped, Stoppers
<1>1. CASE stops' = stops
  BY <1>1
<1>2. ASSUME NEW r \in Stops, Stop(r), s # r PROVE stops'[s] = stops[s]
  BY <1>0, <1>2 DEF Stop, Bind, Cancel, NothingToStop, StopGoto
<1>3. ASSUME Stop(s)
      PROVE  /\ stops'[s].target = fence.admission /\ fence.admission # None
             /\ ~fence.dispatched /\ fence'.cancelled /\ pc' = pc
  <2>1. Cancel(s) /\ ~fence.dispatched
    BY <1>0, <1>3 DEF Stop, Bind, Cancel, NothingToStop, StopGoto
  <2>q. QED BY <1>0, <1>3, <2>1 DEF Stop, Cancel, StopGoto, Fences
<1>4. ASSUME NEW r \in Stoppers, StopSends(r) \/ StopAnswered(r) PROVE stops'[s] = stops[s]
  BY <1>0, <1>4 DEF StopSends, StopAnswered, StopGoto
<1>5. ASSUME NEW p \in Prompts, StopOwnTurn(p) PROVE stops'[s] = stops[s]
  BY <1>0, <1>5 DEF StopOwnTurn, Bind, StopGoto
<1>6. ASSUME HostTakes PROVE stops'[s] = stops[s]
  <2>1. PICK r, c : stops' = stops \/ (r # "cancelled" /\ stops' = [stops EXCEPT ![c].at = r])
    BY <1>6 DEF HostTakes, AnswerStop
  <2>q. QED BY <1>0, <2>1
<1>q. QED
  BY <1>1, <1>2, <1>3, <1>4, <1>5, <1>6
     DEF Next, Prompting, Steering, Steer, SteerFails, SteerAnswered, HostTakesSteer, WorkerFails,
         Stopping, Lane, Timers, Host, Reserve, Prepare, Release, Enter, Dispatch,
         Rejected, Unanswered, Acknowledge, WorkerSends, Handle, FailTurn, SettleFires, SettleProbe,
         AbortFires, AbortFallback, Project, HostEnds, HostSettles, HostExits, vars, threads

LEMMA OwnershipStep == Typed /\ Ownership /\ [Next]_vars => Ownership'
<1> SUFFICES ASSUME Typed, Ownership, [Next]_vars PROVE Ownership'
  OBVIOUS
<1>0. None \notin Prompts /\ fence \in Fences
      /\ pc \in [Prompts -> [at : PromptSteps, client : Nat]]
  BY PromptFenceAssumption DEF Typed, FenceTyped, ThreadsTyped, Stoppers
<1>1. client'.exits = 0 => client.exits = 0
  <2>1. client \in [exits : Nat, up : BOOLEAN]
    BY DEF Typed, HostTyped
  <2>2. ASSUME NEW p \in Prompts, Enter(p) PROVE client'.exits = client.exits
    BY <2>1, <2>2 DEF Enter
  <2>3. HostExits => client'.exits # 0
    BY <2>1 DEF HostExits
  <2>q. QED
    BY <2>2, <2>3
       DEF Next, Prompting, Steering, Steer, SteerFails, SteerAnswered, HostTakesSteer, WorkerFails,
         Stopping, Lane, Timers, Host, Reserve, Prepare, Release, Dispatch,
           Rejected, Unanswered, Acknowledge, StopOwnTurn, WorkerSends, Handle, FailTurn, Stop,
           StopSends, StopAnswered, SettleFires, SettleProbe, AbortFires, AbortFallback, Project,
           HostTakes, HostEnds, HostSettles, vars, external
<1>2. ASSUME NEW p \in Prompts
      PROVE  /\ pc'[p].at = "idle" => pc[p].at = "idle"
             /\ pc'[p].at \in Early => pc[p].at \in Early \/ Takes(p)
             /\ Takes(p) => pc[p].at = "idle" /\ pc'[p].at # "idle"
             /\ p \in Sent' => p \in Sent \/ Sends(p)
  <2>1. Reserve(p) => pc[p].at = "idle" /\ pc'[p].at # "idle"
    BY <1>0 DEF Reserve, Goto
  <2>2. Reserve(p) /\ pc'[p].at \in Early => Takes(p)
    <3>1. Released(fence) \in Fences
      BY <1>0, FenceShapes
    <3>2. [Released(fence) EXCEPT !.admission = p].admission = p
          /\ ~[Released(fence) EXCEPT !.admission = p].dispatched
      BY <1>0, <3>1, FenceMarks DEF Fences
    <3>q. QED BY <1>0, <3>2 DEF Reserve, Takes, Goto, Early
  <2>3. Dispatch(p) => Sends(p)
    BY <1>0 DEF Dispatch, MayDispatch, Sends, Goto, Early, Fences
  <2>q. QED BY <2>1, <2>2, <2>3, PcMoves, SentMoves DEF Takes
<1>3. NotYetSent'
  BY <1>2 DEF Ownership, NotYetSent, Early, Sends
<1>4. Heard'
  BY HeardMoves DEF Ownership
<1>5. Owned'
  <2> SUFFICES ASSUME client'.exits = 0, NEW p \in Prompts
               PROVE  /\ pc'[p].at \in Early => fence'.admission = p /\ ~fence'.dispatched
                      /\ fence'.admission = p /\ ~fence'.dispatched => p \notin Sent' /\ pc'[p].at # "idle"
    BY DEF Owned
  <2>1. /\ pc[p].at \in Early => fence.admission = p /\ ~fence.dispatched
        /\ fence.admission = p /\ ~fence.dispatched => p \notin Sent /\ pc[p].at # "idle"
        /\ pc[p].at = "idle" => p \notin Sent
    BY <1>1 DEF Ownership, Owned, NotYetSent
  <2>2. CASE Keeps
    BY <1>2, <2>1, <2>2 DEF Keeps, Takes, Sends
  <2>3. ASSUME NEW q \in Prompts, Frees(q)
        PROVE  fence'.admission = None /\ pc'[p].at \notin Early
    BY <1>0, <1>2, <2>1, <2>3 DEF Frees, Takes
  <2>4. ASSUME NEW q \in Prompts, Takes(q)
        PROVE  /\ pc'[p].at \in Early => fence'.admission = p /\ ~fence'.dispatched
               /\ fence'.admission = p => p \notin Sent' /\ pc'[p].at # "idle"
    <3>1. fence.admission = None /\ fence'.admission = q /\ ~fence'.dispatched
      BY <2>4 DEF Takes
    <3>2. pc'[p].at \in Early => p = q
      BY <1>0, <1>2, <2>1, <3>1 DEF Takes
    <3>3. p = q => p \notin Sent' /\ pc'[p].at # "idle"
      BY <1>0, <1>2, <2>1, <2>4, <3>1 DEF Sends
    <3>q. QED BY <3>1, <3>2, <3>3
  <2>5. ASSUME NEW q \in Prompts, Sends(q)
        PROVE  fence'.dispatched /\ pc'[p].at \notin Early
    BY <1>0, <1>2, <2>1, <2>5 DEF Sends, Takes
  <2>q. QED BY <1>0, <1>1, <2>2, <2>3, <2>4, <2>5, FenceMoves
<1>6. MarkAwaits'
  <2> SUFFICES ASSUME client'.exits = 0, NEW s \in Stops, stops'[s].at = "cancelled"
               PROVE  LET p == stops'[s].target IN
                          /\ p \in Prompts /\ p \notin Sent' /\ pc'[p].at # "idle"
                          /\ pc'[p].at \in Early => fence'.cancelled
    BY DEF MarkAwaits
  <2>1. CASE /\ stops'[s].target = fence.admission /\ fence.admission # None
             /\ ~fence.dispatched /\ fence'.cancelled /\ pc' = pc
    <3>1. fence.admission \in Prompts
      BY <1>0, <2>1 DEF Fences, MaybePrompts
    <3>2. fence.admission \notin Sent /\ pc[fence.admission].at # "idle"
      BY <1>1, <2>1, <3>1 DEF Ownership, Owned
    <3>q. QED BY <1>2, <2>1, <3>1, <3>2 DEF Sends
  <2>2. CASE stops'[s] = stops[s]
    <3> DEFINE p == stops[s].target
    <3>1. /\ p \in Prompts /\ p \notin Sent /\ pc[p].at # "idle"
          /\ pc[p].at \in Early => fence.cancelled /\ fence.admission = p
      BY <1>1, <2>2 DEF Ownership, MarkAwaits, Owned
    <3> HIDE DEF p
    <3>2. p \notin Sent' /\ pc'[p].at # "idle"
      BY <1>2, <3>1 DEF Sends
    <3>3. ASSUME pc'[p].at \in Early PROVE fence'.cancelled
      <4>1. fence.cancelled /\ fence.admission = p
        BY <1>2, <3>1, <3>3
      <4>q. QED BY <1>0, <1>1, <3>1, <3>3, <4>1, FenceMoves DEF Keeps, Frees, Takes, Sends
    <3>q. QED BY <2>2, <3>1, <3>2, <3>3 DEF p
  <2>q. QED BY <2>1, <2>2, StopMoves
<1>q. QED BY <1>3, <1>4, <1>5, <1>6 DEF Ownership

\* A prompt whose Stop was answered "cancelled before the hand-off" never reaches the
\* Host, for every number of prompts and of Stops, until the Host exits.
THEOREM CancelledForGood == Spec => []CancelledNeverRuns
<1>1. Init => Typed /\ Ownership
  BY TypedInit, OwnershipInit
<1>2. Typed /\ Ownership /\ [Next]_vars => (Typed /\ Ownership)'
  BY TypedStep, OwnershipStep
<1>3. Typed /\ Ownership => CancelledNeverRuns
  BY DEF Ownership, MarkAwaits, Sent, CancelledNeverRuns
<1>q. QED BY <1>1, <1>2, <1>3, PTL DEF Spec

(* Until the Host exits, and while no turn is ended twice, the Runtime knows every    *)
(* turn that the Host may work on.                                                    *)

\* A prompt is on the wire once, and not after the Host has taken it.
WireOnce ==
    \A i \in DOMAIN wire : wire[i].cmd = "prompt" =>
        /\ wire[i].by = wire[i].turn /\ wire[i].turn \notin host.ran
        /\ \A j \in DOMAIN wire :
              wire[j].cmd = "prompt" /\ wire[j].turn = wire[i].turn => i = j

\* A refused prompt does not run, an accepted one does.
Answered ==
    \A p \in Prompts :
        /\ pc[p].at = "rejected" => p \notin Sent
        /\ pc[p].at \in {"accepted", "stopping"} => p \in host.ran

\* Only what the Host has run is bound or retired.
TurnsRan == retired \subseteq host.ran /\ fence.turn \in host.ran \cup {None}

FirstHost == client.exits = 0 => client.up /\ \A p \in Prompts : pc[p].client = 0

\* What has an end is retired.
EndsAreRetired ==
    client.exits = 0 =>
        \A t \in Prompts \ retired :
            ended[t] = <<>> /\ \A l \in late : l.turn = t => l.as = "cancelled"

Recorded ==
    WireOnce /\ Answered /\ TurnsRan /\ FirstHost /\ EndsAreRetired /\ IsFiniteSet(late)

LEMMA RecordedInit == Init => Recorded
<1> SUFFICES ASSUME Init PROVE Recorded
  OBVIOUS
<1>1. IsFiniteSet(late)
  BY FS_EmptySet DEF Init
<1>q. QED
  BY <1>1 DEF Init, Recorded, WireOnce, Answered, TurnsRan, FirstHost, EndsAreRetired, Sent, Unfenced

\* The number of exits only grows.
LEMMA ExitsGrow == Typed /\ [Next]_vars /\ client'.exits = 0 => client.exits = 0 /\ ~HostExits
<1> SUFFICES ASSUME Typed, [Next]_vars, client'.exits = 0 PROVE client.exits = 0 /\ ~HostExits
  OBVIOUS
<1>1. client \in [exits : Nat, up : BOOLEAN]
  BY DEF Typed, HostTyped
<1>2. ASSUME NEW p \in Prompts, Enter(p) PROVE client'.exits = client.exits
  BY <1>1, <1>2 DEF Enter
<1>3. HostExits => client'.exits # 0
  BY <1>1 DEF HostExits
<1>q. QED
  BY <1>2, <1>3
     DEF Next, Prompting, Steering, Steer, SteerFails, SteerAnswered, HostTakesSteer, WorkerFails,
         Stopping, Lane, Timers, Host, Reserve, Prepare, Release, Dispatch,
         Rejected, Unanswered, Acknowledge, StopOwnTurn, WorkerSends, Handle, FailTurn, Stop,
         StopSends, StopAnswered, SettleFires, SettleProbe, AbortFires, AbortFallback, Project,
         HostTakes, HostEnds, HostSettles, vars, external

(* What becomes of the ends of turns. *)

Unended == UNCHANGED <<retired, ended, late, failing>>
Notes(l) == late' = late \cup {l} /\ UNCHANGED <<ended, failing>>
Cancels == \E l \in Projections : l.as = "cancelled" /\ Notes(l) /\ retired' = retired
Recovers(t) ==
    /\ fence.turn = t /\ t # None /\ fence'.turn = None
    /\ \E as \in Terminals : /\ as = "completed" => fence.aborting # t /\ probes.settle = t
                            /\ Notes([turn |-> t, as |-> as])
    /\ retired' = retired \cup {t}
Projects ==
    /\ \E l \in late :
        /\ late' = late \ {l}
        /\ ended' = IF l.as = "cancelled" THEN ended
                    ELSE [ended EXCEPT ![l.turn] = Append(@, IF l.as = "exit" THEN "failed" ELSE l.as)]
    /\ UNCHANGED <<retired, failing>>
Shows(t, as) == ended' = [ended EXCEPT ![t] = Append(@, as)] /\ late' = late
Settled(t) ==
    /\ Shows(t, IF Bound(fence, t).aborting = t THEN "aborted" ELSE "completed")
    /\ retired' = retired \cup {t} /\ UNCHANGED failing
Fenced(t) == retired' = retired \cup {t} /\ failing' = t /\ UNCHANGED <<ended, late>>
FailsNow ==
    /\ failing # None /\ failing' = None /\ UNCHANGED retired
    /\ \E as \in {"aborted", "failed"} : Shows(failing, as)
Heads(t) == Handle /\ t = Head(events).turn /\ t \in host.ran \ retired /\ failing = None

LEMMA EndMoves ==
    Typed /\ Heard /\ [Next]_vars =>
        \/ Unended \/ Cancels \/ Projects \/ FailsNow \/ HostExits
        \/ \E t \in Prompts : Recovers(t) \/ (Heads(t) /\ (Settled(t) \/ Fenced(t)))
<1> DEFINE Moves == \/ Unended \/ Cancels \/ Projects \/ FailsNow \/ HostExits
                    \/ \E t \in Prompts : Recovers(t) \/ (Heads(t) /\ (Settled(t) \/ Fenced(t)))
<1> SUFFICES ASSUME Typed, Heard, [Next]_vars PROVE Moves
  OBVIOUS
<1>0. fence \in Fences /\ None \notin Prompts
  BY PromptFenceAssumption DEF Typed, FenceTyped, Stoppers
<1>1. ASSUME NEW p \in Prompts, Enter(p) PROVE Moves
  BY <1>1 DEF Enter, Unended, Cancels, Notes, Projections
<1>2. ASSUME NEW f, f.turn = None, fence' = f, fence.turn \in Prompts, UNCHANGED <<ended, failing>>,
             NEW as \in Terminals,
             as = "completed" => fence.aborting # fence.turn /\ probes.settle = fence.turn,
             Retire(fence.turn, as)
      PROVE  Moves
  BY <1>2, <1>0 DEF Recovers, Notes, Retire
<1>3. Cleared(fence) \in Fences /\ Cleared(fence).turn = None
  BY <1>0, FenceShapes, FenceMarks
<1>4. ASSUME NEW s \in Stoppers, StopAnswered(s) PROVE Moves
  <2>1. CASE Retire(fence.turn, "aborted") /\ fence.turn = stops[s].target
             /\ stops[s].at = "already_idle" /\ fence' = Untimed(Cleared(fence))
    <3>1. fence.turn \in Prompts
      BY <1>0, <2>1 DEF Typed, ThreadsTyped, UnderWay, MaybePrompts
    <3>q. QED BY <1>2, <1>3, <1>4, <2>1, <3>1, FenceMarks DEF StopAnswered, Terminals
  <2>q. QED BY <1>4, <2>1 DEF StopAnswered, Unended
<1>5. CASE Handle
  <2>1. Head(events).turn \in host.ran /\ Head(events).turn \in Prompts
    <3>1. events \in Seq(Records) /\ events # <<>> /\ host.ran \subseteq Prompts
      BY <1>5 DEF Handle, Typed, HostTyped
    <3>q. QED BY <3>1 DEF Heard
  <2>q. QED
    BY <1>5, <2>1 DEF Handle, Heads, Settles, Fails, Settled, Fenced, Shows, Unended, session
<1>6. CASE FailTurn
  BY <1>6 DEF FailTurn, FailsNow, Shows
<1>7. CASE SettleProbe
  <2>1. CASE fence.turn = probes.settle /\ \E as \in {"completed", "failed"} :
               Retire(fence.turn, IF fence.aborting = fence.turn THEN "aborted" ELSE as)
             /\ fence' = [Cleared(fence) EXCEPT !.abortTimer = None]
    <3>1. fence.turn \in Prompts /\ fence'.turn = None
      BY <1>0, <1>3, <1>7, <2>1 DEF SettleProbe, Fences, MaybePrompts
    <3>q. QED BY <1>2, <1>7, <2>1, <3>1 DEF SettleProbe, Terminals
  <2>q. QED BY <1>7, <2>1 DEF SettleProbe, Unended
<1>8. CASE AbortFallback
  <2>1. CASE fence.turn = probes.abort /\ Retire(fence.turn, "aborted")
             /\ fence' = [Cleared(fence) EXCEPT !.settleTimer = None]
    <3>1. fence.turn \in Prompts /\ fence'.turn = None
      BY <1>0, <1>3, <1>8, <2>1 DEF AbortFallback, Fences, MaybePrompts
    <3>q. QED BY <1>2, <1>8, <2>1, <3>1 DEF AbortFallback, Terminals
  <2>q. QED BY <1>8, <2>1 DEF AbortFallback, Unended
<1>9. CASE Project
  BY <1>9 DEF Project, Projects
<1>q. QED
  BY <1>1, <1>4, <1>5, <1>6, <1>7, <1>8, <1>9
     DEF Next, Prompting, Steering, Steer, SteerFails, SteerAnswered, HostTakesSteer, WorkerFails,
         Stopping, Lane, Timers, Host, Reserve, Prepare, Release, Dispatch,
         Rejected, Unanswered, Acknowledge, StopOwnTurn, WorkerSends, Bind, Stop, Cancel,
         NothingToStop, StopSends, SettleFires, AbortFires, HostTakes, HostEnds, HostSettles,
         Unended, vars, session, threads

LEMMA WireOnceStep == Typed /\ NotYetSent /\ WireOnce /\ [Next]_vars => WireOnce'
<1> SUFFICES ASSUME Typed, NotYetSent, WireOnce, [Next]_vars PROVE WireOnce'
  OBVIOUS
<1>0. wire \in Seq(Commands)
  BY DEF Typed, HostTyped
<1>1. CASE host'.ran = host.ran /\ wire' \in {wire, <<>>}
  BY <1>1 DEF WireOnce
<1>2. ASSUME UNCHANGED host, NEW s, NEW t,
             wire' = Append(wire, [cmd |-> "abort", by |-> s, turn |-> t])
      PROVE  WireOnce'
  BY <1>0, <1>2 DEF WireOnce
<1>3. ASSUME NEW p \in Prompts, Dispatch(p) PROVE WireOnce'
  <2>1. p \notin Sent
    BY <1>3 DEF Dispatch, NotYetSent, Early
  <2>2. /\ UNCHANGED host
        /\ wire' = Append(wire, [cmd |-> "prompt", by |-> p, turn |-> p])
        /\ p \notin host.ran
        /\ \A i \in DOMAIN wire : wire[i].cmd = "prompt" => wire[i].turn # p
    BY <1>3, <2>1 DEF Dispatch, Sent
  <2>q. QED BY <1>0, <2>2 DEF WireOnce
<1>4. CASE HostTakes
  <2>1. wire # <<>> /\ wire' = Tail(wire)
    BY <1>4 DEF HostTakes
  <2>2. \/ host'.ran = host.ran
        \/ Head(wire).cmd = "prompt" /\ host'.ran = host.ran \cup {Head(wire).turn}
    BY <1>4 DEF HostTakes, Typed, HostTyped
  <2>3. /\ Head(wire) = wire[1] /\ 1 \in DOMAIN wire
        /\ \A i \in DOMAIN wire' : wire'[i] = wire[i+1] /\ i+1 \in DOMAIN wire /\ i+1 # 1
        /\ \A i, j \in DOMAIN wire' : i + 1 = j + 1 => i = j
    BY <1>0, <2>1
  <2>q. QED BY <2>2, <2>3 DEF WireOnce
<1>5. ASSUME NEW p \in Prompts, WorkerSends(p) PROVE WireOnce'
  BY <1>1, <1>2, <1>5 DEF WorkerSends
<1>6. ASSUME NEW s \in Stoppers, StopSends(s) PROVE WireOnce'
  BY <1>1, <1>2, <1>6 DEF StopSends
<1>7. CASE HostEnds \/ HostSettles \/ HostExits
  <2>1. host'.ran = host.ran /\ wire' \in {wire, <<>>}
    BY <1>7 DEF HostEnds, HostSettles, HostExits, Typed, HostTyped
  <2>q. QED BY <1>1, <2>1
<1>q. QED
  BY <1>1, <1>3, <1>4, <1>5, <1>6, <1>7
     DEF Next, Prompting, Steering, Steer, SteerFails, SteerAnswered, HostTakesSteer, WorkerFails,
         Stopping, Lane, Timers, Host, Reserve, Prepare, Release, Enter, Rejected,
         Unanswered, Acknowledge, StopOwnTurn, Handle, FailTurn, Stop, StopAnswered, SettleFires,
         SettleProbe, AbortFires, AbortFallback, Project, vars, external

\* The Host keeps what it ran.
LEMMA RanGrows == Typed /\ [Next]_vars => host.ran \subseteq host'.ran
<1> SUFFICES ASSUME Typed, [Next]_vars PROVE host.ran \subseteq host'.ran
  OBVIOUS
<1>1. HostEnds \/ HostSettles \/ HostExits => host.ran \subseteq host'.ran
  BY DEF HostEnds, HostSettles, HostExits, Typed, HostTyped
<1>2. ASSUME HostTakes PROVE host.ran \subseteq host'.ran
  <2>1. host'.ran \in {host.ran, host.ran \cup {Head(wire).turn}}
    BY <1>2 DEF HostTakes, Typed, HostTyped
  <2>q. QED BY <2>1
<1>q. QED
  BY <1>1, <1>2
     DEF Next, Prompting, Steering, Steer, SteerFails, SteerAnswered, HostTakesSteer, WorkerFails,
         Stopping, Lane, Timers, Host, Reserve, Prepare, Release, Enter, Rejected,
         Dispatch, Unanswered, Acknowledge, StopOwnTurn, WorkerSends, Handle, FailTurn, Stop, StopSends,
         StopAnswered, SettleFires, SettleProbe, AbortFires, AbortFallback, Project, vars, external

LEMMA AnsweredStep == Typed /\ NotYetSent /\ WireOnce /\ Answered /\ [Next]_vars => Answered'
<1> SUFFICES ASSUME Typed, NotYetSent, WireOnce, Answered, [Next]_vars, NEW p \in Prompts
             PROVE  /\ pc'[p].at = "rejected" => p \notin Sent'
                    /\ pc'[p].at \in {"accepted", "stopping"} => p \in host'.ran
  BY DEF Answered
<1>0. pc \in [Prompts -> [at : PromptSteps, client : Nat]] /\ wire \in Seq(Commands)
  BY DEF Typed, ThreadsTyped, HostTyped
<1>1. CASE pc'[p].at = pc[p].at
  <2>1. pc'[p].at = "rejected" => ~Dispatch(p)
    BY <1>1 DEF Dispatch
  <2>q. QED BY <1>1, <2>1, SentMoves, RanGrows DEF Answered
<1>2. CASE pc'[p].at \notin {"rejected", "accepted", "stopping"}
  BY <1>2
<1>3. CASE HostTakes
  <2> DEFINE c == Head(wire)
  <2>1. wire # <<>> /\ wire' = Tail(wire) /\ c = wire[1] /\ 1 \in DOMAIN wire
        /\ \A i \in DOMAIN wire' : wire'[i] = wire[i+1] /\ i+1 \in DOMAIN wire /\ i+1 # 1
    BY <1>0, <1>3 DEF HostTakes
  <2>2. \/ pc' = pc
        \/ /\ c.cmd = "prompt" /\ c.turn \in host'.ran
           /\ pc' = [pc EXCEPT ![c.by].at = IF @ = "waiting" THEN "accepted" ELSE @]
        \/ /\ c.cmd = "prompt" /\ host' = host
           /\ pc' = [pc EXCEPT ![c.by].at = IF @ = "waiting" THEN "rejected" ELSE @]
    BY <1>3 DEF HostTakes, AnswerPrompt, Typed, HostTyped
  <2>3. c.cmd = "prompt" => /\ c.by = c.turn /\ c.turn \notin host.ran
                            /\ \A i \in DOMAIN wire' : wire'[i].cmd = "prompt" => wire'[i].turn # c.turn
    BY <2>1 DEF WireOnce
  <2>4. CASE c.cmd = "prompt" /\ c.turn \in host'.ran
             /\ pc' = [pc EXCEPT ![c.by].at = IF @ = "waiting" THEN "accepted" ELSE @]
    BY <1>0, <1>1, <2>3, <2>4
  <2>5. CASE c.cmd = "prompt" /\ host' = host
             /\ pc' = [pc EXCEPT ![c.by].at = IF @ = "waiting" THEN "rejected" ELSE @]
    <3>1. c.turn \notin Sent'
      BY <2>3, <2>5 DEF Sent
    <3>q. QED BY <1>0, <1>1, <2>3, <2>5, <3>1
  <2>q. QED BY <1>1, <2>2, <2>4, <2>5
<1>4. ASSUME NEW q \in Prompts, Acknowledge(q)
      PROVE  \/ pc'[p].at \notin {"rejected", "accepted", "stopping"}
             \/ pc'[p].at = pc[p].at
             \/ pc'[p].at = "stopping" /\ pc[p].at = "accepted"
  <2>1. PICK label : pc' = [pc EXCEPT ![q].at = label] /\ label \in {"stopping", "over"}
    BY <1>4 DEF Acknowledge, Goto
  <2>q. QED BY <1>0, <1>4, <2>1 DEF Acknowledge
<1>5. CASE pc'[p].at = "stopping" /\ pc[p].at = "accepted"
  BY <1>5, RanGrows DEF Answered
<1>6. ASSUME NEW q \in Prompts,
             \/ Reserve(q) \/ Prepare(q) \/ Release(q) \/ Enter(q) \/ Dispatch(q) \/ Rejected(q)
             \/ Unanswered(q) \/ StopOwnTurn(q)
      PROVE  pc'[p].at \notin {"rejected", "accepted", "stopping"} \/ pc'[p].at = pc[p].at
  BY <1>0, <1>6 DEF Reserve, Prepare, Release, Enter, Dispatch, Rejected, Unanswered, StopOwnTurn, Goto
<1>q. QED
  BY <1>1, <1>2, <1>3, <1>4, <1>5, <1>6
     DEF Next, Prompting, Steering, Steer, SteerFails, SteerAnswered, HostTakesSteer, WorkerFails,
         Stopping, Lane, Timers, Host, Handle, FailTurn, WorkerSends, Stop,
         StopSends, StopAnswered, SettleFires, SettleProbe, AbortFires, AbortFallback, Project,
         HostEnds, HostSettles, HostExits, vars, session, threads

LEMMA RecordedStep == Typed /\ Ownership /\ Recorded /\ [Next]_vars => Recorded'
<1> SUFFICES ASSUME Typed, Ownership, Recorded, [Next]_vars PROVE Recorded'
  OBVIOUS
<1>0. /\ None \notin Prompts /\ pc \in [Prompts -> [at : PromptSteps, client : Nat]]
      /\ late \subseteq Projections /\ failing \in retired \cup {None} /\ retired \subseteq Prompts
      /\ ended \in [Prompts -> Seq(Terminals)]
  BY PromptFenceAssumption DEF Typed, SessionTyped, ThreadsTyped, Stoppers
<1>1. WireOnce' /\ Answered'
  BY WireOnceStep, AnsweredStep DEF Ownership, Recorded
<1>2. TurnsRan'
  <2>1. fence'.turn \in host.ran \cup {None}
    <3>1. ASSUME NEW p \in Prompts, Acknowledge(p) PROVE p \in host.ran
      BY <3>1 DEF Acknowledge, Recorded, Answered
    <3>2. Handle => Head(events).turn \in host.ran
      BY DEF Handle, Typed, HostTyped, Ownership, Heard
    <3>3. ASSUME NEW q \in Steers, steers[q].at = "accepted" PROVE steers[q].turn \in host.ran
      BY <3>3 DEF Ownership, Heard
    <3>q. QED BY <3>1, <3>2, <3>3, TurnMoves DEF Recorded, TurnsRan
  <2>2. retired' \subseteq retired \cup host.ran
    BY EndMoves DEF Ownership, Recorded, TurnsRan, Unended, Cancels, Projects, FailsNow, HostExits,
       Recovers, Heads, Settled, Fenced
  <2>q. QED BY <2>1, <2>2, RanGrows DEF Recorded, TurnsRan
<1>3. FirstHost'
  <2> SUFFICES ASSUME client'.exits = 0 PROVE client'.up /\ \A p \in Prompts : pc'[p].client = 0
    BY DEF FirstHost
  <2>1. client.exits = 0 /\ ~HostExits /\ client.up /\ \A p \in Prompts : pc[p].client = 0
    BY ExitsGrow DEF Recorded, FirstHost
  <2>2. client' = client \/ client'.up
    <3>1. client \in [exits : Nat, up : BOOLEAN]
      BY DEF Typed, HostTyped
    <3>2. ASSUME NEW p \in Prompts, Enter(p) PROVE client'.up
      BY <3>1, <3>2 DEF Enter
    <3>q. QED
      BY <2>1, <3>2
         DEF Next, Prompting, Steering, Steer, SteerFails, SteerAnswered, HostTakesSteer, WorkerFails,
         Stopping, Lane, Timers, Host, Reserve, Prepare, Release, Dispatch,
             Rejected, Unanswered, Acknowledge, StopOwnTurn, WorkerSends, Handle, FailTurn, Stop,
             StopSends, StopAnswered, SettleFires, SettleProbe, AbortFires, AbortFallback, Project,
             HostTakes, HostEnds, HostSettles, vars, external
  <2>3. ASSUME NEW p \in Prompts PROVE pc'[p].client = 0
    <3>1. ASSUME NEW q \in Prompts, Prompting(q) \/ Reserve(q) PROVE pc'[p].client = 0
      <4>1. PICK label : \/ pc' = [pc EXCEPT ![q].at = label]
                         \/ pc' = [pc EXCEPT ![q] = [at |-> label, client |-> client.exits]]
        BY <3>1 DEF Prompting, Reserve, Prepare, Release, Enter, Dispatch, Rejected, Unanswered,
                    Acknowledge, StopOwnTurn, Goto
      <4>2. [pc[p] EXCEPT !.at = label].client = 0
        BY <1>0, <2>1
      <4>3. [at |-> label, client |-> client.exits].client = 0
        BY <2>1
      <4>4. \/ pc'[p] = pc[p]
            \/ pc'[p] = [pc[p] EXCEPT !.at = label]
            \/ pc'[p] = [at |-> label, client |-> client.exits]
        BY <1>0, <4>1
      <4>q. QED BY <2>1, <4>2, <4>3, <4>4
    <3>2. ASSUME HostTakes PROVE pc'[p].client = 0
      <4>1. PICK q, r : pc' = pc \/ pc' = [pc EXCEPT ![q].at = r]
        BY <3>2 DEF HostTakes, AnswerPrompt
      <4>2. [pc[p] EXCEPT !.at = r].client = 0
        BY <1>0, <2>1
      <4>3. pc'[p] \in {pc[p], [pc[p] EXCEPT !.at = r]}
        BY <1>0, <4>1
      <4>q. QED BY <2>1, <4>2, <4>3
    <3>q. QED
      BY <2>1, <3>1, <3>2
         DEF Next, Steering, Steer, SteerFails, SteerAnswered, HostTakesSteer, WorkerFails,
             Stopping, Lane, Timers, Host, Handle, FailTurn, WorkerSends, Stop,
             StopSends, StopAnswered, SettleFires, SettleProbe, AbortFires, AbortFallback, Project,
             HostEnds, HostSettles, vars, threads
  <2>q. QED BY <2>1, <2>2, <2>3
<1>4. EndsAreRetired'
  <2> SUFFICES ASSUME client'.exits = 0, NEW t \in Prompts \ retired'
               PROVE  ended'[t] = <<>> /\ \A l \in late' : l.turn = t => l.as = "cancelled"
    BY DEF EndsAreRetired
  <2>1. client.exits = 0 /\ ~HostExits
    BY ExitsGrow
  <2>2. \A u \in Prompts \ retired : ended[u] = <<>> /\ \A l \in late : l.turn = u => l.as = "cancelled"
    BY <2>1 DEF Recorded, EndsAreRetired
  <2>3. CASE Unended \/ Cancels
    BY <2>2, <2>3 DEF Unended, Cancels, Notes
  <2>4. CASE Projects
    BY <1>0, <2>2, <2>4 DEF Projects, Projections
  <2>5. CASE FailsNow
    BY <1>0, <2>2, <2>5 DEF FailsNow, Shows
  <2>6. ASSUME NEW u \in Prompts, Recovers(u) PROVE ended'[t] = <<>> /\ \A l \in late' : l.turn = t => l.as = "cancelled"
    <3>1. PICK l : Notes(l) /\ l.turn # t
      BY <2>6 DEF Recovers
    <3>2. t \in Prompts \ retired
      BY <2>6 DEF Recovers
    <3>q. QED BY <2>2, <3>1, <3>2 DEF Notes
  <2>7. ASSUME NEW u \in Prompts, Settled(u) \/ Fenced(u) PROVE ended'[t] = <<>> /\ \A l \in late' : l.turn = t => l.as = "cancelled"
    BY <1>0, <2>2, <2>7 DEF Settled, Fenced, Shows
  <2>q. QED BY <2>1, <2>3, <2>4, <2>5, <2>6, <2>7, EndMoves DEF Ownership
<1>5. IsFiniteSet(late')
  <2>1. IsFiniteSet(late)
    BY DEF Recorded
  <2>2. PICK l : late' = late \/ late' = late \cup {l} \/ late' = late \ {l}
    BY EndMoves DEF Ownership, Unended, Cancels, Notes, Projects, FailsNow, HostExits, Shows,
       Recovers, Settled, Fenced
  <2>3. IsFiniteSet(late \cup {l}) /\ IsFiniteSet(late \ {l})
    BY <2>1, FS_AddElement, FS_RemoveElement
  <2>q. QED BY <2>1, <2>2, <2>3
<1>q. QED BY <1>1, <1>2, <1>3, <1>4, <1>5 DEF Recorded

(* Ends of a turn are counted, and never taken back. *)

Pending(t) == {l \in late : l.turn = t /\ l.as # "cancelled"}

LEMMA FewPending ==
    ASSUME NEW L, IsFiniteSet(L), NEW t
    PROVE  LET P == {l \in L : l.turn = t /\ l.as # "cancelled"}
           IN  IsFiniteSet(P) /\ Cardinality(P) \in Nat
<1> DEFINE P == {l \in L : l.turn = t /\ l.as # "cancelled"}
<1>1. IsFiniteSet(P)
  BY FS_Subset
<1>q. QED BY <1>1, FS_CardinalityType

LEMMA EndingsCount ==
    ASSUME Typed, IsFiniteSet(late), NEW t \in Prompts
    PROVE  /\ IsFiniteSet(Pending(t)) /\ Cardinality(Pending(t)) \in Nat
           /\ Len(ended[t]) \in Nat /\ Endings(t) \in Nat
           /\ Endings(t) = Len(ended[t]) + Cardinality(Pending(t)) + (IF failing = t THEN 1 ELSE 0)
<1>1. IsFiniteSet(Pending(t)) /\ Cardinality(Pending(t)) \in Nat
  BY FewPending DEF Pending
<1>2. Len(ended[t]) \in Nat
  BY DEF Typed, SessionTyped
<1>q. QED BY <1>1, <1>2 DEF Endings, Pending

LEMMA EndingsCountNext ==
    ASSUME Typed', IsFiniteSet(late'), NEW t \in Prompts
    PROVE  /\ IsFiniteSet(Pending(t)') /\ Cardinality(Pending(t)') \in Nat
           /\ Len(ended'[t]) \in Nat /\ Endings(t)' \in Nat
           /\ Endings(t)' = Len(ended'[t]) + Cardinality(Pending(t)') + (IF failing' = t THEN 1 ELSE 0)
<1>1. IsFiniteSet(Pending(t)') /\ Cardinality(Pending(t)') \in Nat
  BY FewPending DEF Pending
<1>2. Len(ended'[t]) \in Nat
  BY DEF Typed, SessionTyped
<1>q. QED BY <1>1, <1>2 DEF Endings, Pending

LEMMA EndingsGrow ==
    ASSUME Typed, Heard, IsFiniteSet(late), Typed', IsFiniteSet(late'), [Next]_vars, ~HostExits,
           NEW t \in Prompts
    PROVE  Endings(t) <= Endings(t)'
<1>0. /\ IsFiniteSet(Pending(t)) /\ Cardinality(Pending(t)) \in Nat
      /\ Len(ended[t]) \in Nat /\ Endings(t) \in Nat
      /\ Endings(t) = Len(ended[t]) + Cardinality(Pending(t)) + (IF failing = t THEN 1 ELSE 0)
  BY EndingsCount
<1>1. /\ IsFiniteSet(Pending(t)') /\ Cardinality(Pending(t)') \in Nat
      /\ Len(ended'[t]) \in Nat /\ Endings(t)' \in Nat
      /\ Endings(t)' = Len(ended'[t]) + Cardinality(Pending(t)') + (IF failing' = t THEN 1 ELSE 0)
  BY EndingsCountNext
<1>2. ended \in [Prompts -> Seq(Terminals)]
  BY DEF Typed, SessionTyped
<1>3. ASSUME NEW u, NEW as, Shows(u, as)
      PROVE  /\ Pending(t)' = Pending(t)
             /\ Len(ended'[t]) = Len(ended[t]) + (IF u = t THEN 1 ELSE 0)
  <2>1. ended' = [ended EXCEPT ![u] = Append(@, as)] /\ late' = late
    BY <1>3 DEF Shows
  <2>2. CASE u = t
    <3>1. ended'[t] = Append(ended[t], as)
      BY <1>2, <2>1, <2>2
    <3>2. ended[t] \in Seq(Terminals)
      BY <1>2
    <3>3. Len(Append(ended[t], as)) = Len(ended[t]) + 1
      BY <3>2
    <3>q. QED BY <2>1, <2>2, <3>1, <3>3 DEF Pending
  <2>3. CASE u # t
    BY <1>0, <1>2, <2>1, <2>3 DEF Pending
  <2>q. QED BY <2>2, <2>3
<1>4. CASE Unended
  BY <1>0, <1>4 DEF Unended, Endings
<1>5. ASSUME NEW l, Notes(l) PROVE Endings(t) <= Endings(t)'
  <2>1. Pending(t) \in SUBSET (Pending(t)') /\ ended' = ended /\ failing' = failing
    BY <1>5 DEF Notes, Pending
  <2>2. Cardinality(Pending(t)) <= Cardinality(Pending(t)')
    BY <1>1, <2>1, FS_Subset
  <2>q. QED BY <1>0, <1>1, <2>1, <2>2
<1>6. CASE Projects
  <2>1. PICK l \in late :
          /\ late' = late \ {l}
          /\ ended' = IF l.as = "cancelled" THEN ended
                      ELSE [ended EXCEPT ![l.turn] = Append(@, IF l.as = "exit" THEN "failed" ELSE l.as)]
    BY <1>6 DEF Projects
  <2>2. failing' = failing
    BY <1>6 DEF Projects
  <2>3. CASE l \notin Pending(t)
    <3>1. Pending(t)' = Pending(t)
      BY <2>1, <2>3 DEF Pending
    <3>2. ended'[t] = ended[t]
      BY <1>2, <2>1, <2>3 DEF Pending
    <3>q. QED BY <1>0, <1>1, <2>2, <3>1, <3>2
  <2>4. CASE l \in Pending(t)
    <3>1. Pending(t)' = Pending(t) \ {l}
      BY <2>1 DEF Pending
    <3>2. Cardinality(Pending(t)') = Cardinality(Pending(t)) - 1
      BY <1>0, <2>4, <3>1, FS_RemoveElement
    <3>3. PICK as : ended'[t] = Append(ended[t], as)
      BY <1>2, <2>1, <2>4 DEF Pending
    <3>4. Len(ended'[t]) = Len(ended[t]) + 1
      <4>1. ended[t] \in Seq(Terminals)
        BY <1>2
      <4>q. QED BY <3>3, <4>1
    <3>q. QED BY <1>0, <1>1, <2>2, <3>2, <3>4
  <2>q. QED BY <2>3, <2>4
<1>7. CASE FailsNow
  <2>1. PICK as : Shows(failing, as) /\ failing' # t
    BY <1>7, PromptFenceAssumption DEF FailsNow, Stoppers
  <2>2. /\ Cardinality(Pending(t)') = Cardinality(Pending(t))
        /\ Len(ended'[t]) = Len(ended[t]) + (IF failing = t THEN 1 ELSE 0)
    BY <1>3, <2>1
  <2>3. CASE failing = t
    BY <1>0, <1>1, <2>1, <2>2, <2>3
  <2>4. CASE failing # t
    BY <1>0, <1>1, <2>1, <2>2, <2>4
  <2>q. QED BY <2>3, <2>4
<1>8. ASSUME NEW u \in Prompts, Settled(u) PROVE Endings(t) <= Endings(t)'
  <2>1. PICK as : Shows(u, as) /\ failing' = failing
    BY <1>8 DEF Settled
  <2>2. /\ Cardinality(Pending(t)') = Cardinality(Pending(t))
        /\ Len(ended'[t]) = Len(ended[t]) + (IF u = t THEN 1 ELSE 0)
    BY <1>3, <2>1
  <2>3. CASE u = t
    BY <1>0, <1>1, <2>1, <2>2, <2>3
  <2>4. CASE u # t
    BY <1>0, <1>1, <2>1, <2>2, <2>4
  <2>q. QED BY <2>3, <2>4
<1>9. ASSUME NEW u \in Prompts, Heads(u), Fenced(u) PROVE Endings(t) <= Endings(t)'
  <2>1. ended' = ended /\ Pending(t)' = Pending(t) /\ failing # t
    <3>1. None \notin Prompts
      BY PromptFenceAssumption DEF Stoppers
    <3>q. QED BY <1>9, <3>1 DEF Fenced, Heads, Pending
  <2>q. QED BY <1>0, <1>1, <2>1
<1>q. QED
  BY <1>4, <1>5, <1>6, <1>7, <1>8, <1>9, EndMoves DEF Cancels, Recovers

LEMMA ReturnedStays ==
    ASSUME Typed, [Next]_vars, NEW q \in Steers, steers[q].at = "returned"
    PROVE  steers'[q].at = "returned"
<1>0. steers \in [Steers -> [at : SteerSteps, turn : MaybePrompts]]
  BY DEF Typed, SteersTyped
<1>1. CASE steers' = steers
  BY <1>1
<1>2. ASSUME NEW r \in Steers, Steering(r) \/ HostTakesSteer(r) PROVE steers'[q].at = "returned"
  <2>1. PICK step : steers' = [steers EXCEPT ![r] = step]
    BY <1>2 DEF Steering, Steer, SteerFails, SteerAnswered, HostTakesSteer, SteerGoto
  <2>2. steers[r].at # "returned"
    BY <1>2 DEF Steering, Steer, SteerFails, SteerAnswered, HostTakesSteer
  <2>q. QED BY <1>0, <2>1, <2>2
<1>q. QED
  BY <1>1, <1>2
     DEF Next, Prompting, Stopping, Lane, Timers, Host, Reserve, Prepare, Release, Enter, Dispatch,
         Rejected, Unanswered, Acknowledge, StopOwnTurn, WorkerSends, WorkerFails, Handle, FailTurn,
         Stop, StopSends, StopAnswered, SettleFires, SettleProbe, AbortFires, AbortFallback, Project,
         HostTakes, HostEnds, HostSettles, HostExits, vars, threads

\* What was disturbed stays disturbed.
LEMMA UndisturbedBefore ==
    Typed /\ Ownership /\ Recorded /\ [Next]_vars /\ Undisturbed' => Undisturbed
<1> SUFFICES ASSUME Typed, Ownership, Recorded, [Next]_vars, Undisturbed' PROVE Undisturbed
  OBVIOUS
<1>1. client.exits = 0 /\ ~HostExits
  BY ExitsGrow DEF Undisturbed
<1>2. Typed' /\ IsFiniteSet(late) /\ IsFiniteSet(late')
  BY TypedStep, RecordedStep DEF Recorded
<1>3. ASSUME NEW t \in Prompts PROVE Endings(t) <= 1
  <2>1. Endings(t) <= Endings(t)' /\ Endings(t)' <= 1
    BY <1>1, <1>2, EndingsGrow DEF Ownership, Undisturbed
  <2>2. Endings(t) \in Nat
    BY <1>2, EndingsCount
  <2>3. Endings(t)' \in Nat
    BY <1>2, EndingsCountNext
  <2>q. QED BY <2>1, <2>2, <2>3
<1>4. ASSUME NEW q \in Steers PROVE steers[q].at # "returned"
  <2>1. steers[q].at = "returned" => steers'[q].at = "returned"
    BY ReturnedStays
  <2>q. QED BY <2>1 DEF Undisturbed
<1>q. QED BY <1>1, <1>3, <1>4 DEF Undisturbed

\* A turn that the event lane has fenced is ended twice by a recovery.
LEMMA SecondEnd ==
    ASSUME Typed, Recorded, Typed', Recorded', Undisturbed, NEW t \in Prompts, failing = t,
           Recovers(t)
    PROVE  ~Undisturbed'
<1>1. PICK as \in Terminals : Notes([turn |-> t, as |-> as])
  BY DEF Recovers
<1>2. Endings(t) <= 1
  BY DEF Undisturbed
<1>3. /\ Cardinality(Pending(t)) \in Nat /\ IsFiniteSet(Pending(t))
      /\ Len(ended[t]) \in Nat
      /\ Endings(t) = Len(ended[t]) + Cardinality(Pending(t)) + 1
  BY EndingsCount DEF Recorded
<1>4. /\ Cardinality(Pending(t)') \in Nat /\ IsFiniteSet(Pending(t)')
      /\ Len(ended'[t]) \in Nat /\ Endings(t)' \in Nat
      /\ Endings(t)' = Len(ended'[t]) + Cardinality(Pending(t)') + (IF failing' = t THEN 1 ELSE 0)
  BY EndingsCountNext DEF Recorded
<1>5. Pending(t)' # {}
  <2>1. [turn |-> t, as |-> as] \in Pending(t)'
    BY <1>1 DEF Notes, Pending, Terminals
  <2>q. QED BY <2>1
<1>6. Cardinality(Pending(t)') >= 1
  BY <1>4, <1>5, FS_EmptySet
<1>7. failing' = t
  BY <1>1 DEF Notes
<1>8. Endings(t)' > 1
  BY <1>4, <1>6, <1>7
<1>q. QED BY <1>4, <1>8 DEF Undisturbed

(* What the probe of a turn that seems to have ended looks at: a turn that the Host     *)
(* has run, and that the event which armed it has bound, with its admission closed.    *)

Probed ==
    \A t \in {fence.settleTimer, probes.settle} \ {None} :
        t \in host.ran /\ fence.admission # t

\* How the probe gets its turn, and what an admission becomes.
LEMMA ProbeMoves ==
    Typed /\ Heard /\ [Next]_vars =>
        /\ \A t \in {fence'.settleTimer, probes'.settle} :
              \/ t \in {None, fence.settleTimer, probes.settle}
              \/ t \in host.ran /\ fence'.admission # t
        /\ \/ fence'.admission \in {None, fence.admission}
           \/ \E p \in Prompts : (Reserve(p) \/ Enter(p)) /\ fence'.admission = p
<1> DEFINE Moves ==
        /\ \A t \in {fence'.settleTimer, probes'.settle} :
              \/ t \in {None, fence.settleTimer, probes.settle}
              \/ t \in host.ran /\ fence'.admission # t
        /\ \/ fence'.admission \in {None, fence.admission}
           \/ \E p \in Prompts : (Reserve(p) \/ Enter(p)) /\ fence'.admission = p
<1> SUFFICES ASSUME Typed, Heard, [Next]_vars PROVE Moves
  OBVIOUS
<1>0. /\ fence \in Fences /\ Released(fence) \in Fences /\ Cleared(fence) \in Fences
      /\ probes \in [settle : MaybePrompts, abort : MaybePrompts]
      /\ None \notin Prompts
  BY PromptFenceAssumption, FenceShapes DEF Typed, FenceTyped, SessionTyped, Stoppers
<1>1. /\ Released(fence).admission = None /\ Released(fence).settleTimer = fence.settleTimer
      /\ Cleared(fence).admission = fence.admission
      /\ Cleared(fence).settleTimer = fence.settleTimer
      /\ Untimed(Cleared(fence)).admission = fence.admission
      /\ Untimed(Cleared(fence)).settleTimer = None
  BY <1>0 DEF Fences, Released, Cleared, Untimed
<1>2. CASE UNCHANGED <<fence, probes>>
  BY <1>2
<1>3. ASSUME UNCHANGED probes, fence'.admission \in {None, fence.admission},
             fence'.settleTimer \in {None, fence.settleTimer}
      PROVE  Moves
  BY <1>3
<1>4. ASSUME NEW p \in Prompts, Reserve(p) \/ Enter(p) PROVE Moves
  <2>1. UNCHANGED probes
    BY <1>4 DEF Reserve, Enter
  <2>2. \/ fence' = fence
        \/ fence' = [Released(fence) EXCEPT !.admission = p]
        \/ fence' = [fence EXCEPT !.admission = p, !.aborting = None]
        \/ fence' = [Released(fence) EXCEPT !.aborting = None]
    BY <1>4 DEF Reserve, Enter
  <2>3. /\ fence'.admission \in {None, fence.admission, p}
        /\ fence'.settleTimer = fence.settleTimer
    BY <1>0, <1>1, <2>2 DEF Fences
  <2>q. QED BY <1>4, <2>1, <2>3
<1>5. ASSUME NEW p \in Prompts, Release(p) \/ Rejected(p) \/ Dispatch(p) \/ WorkerFails(p) PROVE Moves
  <2>1. UNCHANGED probes
    BY <1>5 DEF Release, Rejected, Dispatch, WorkerFails
  <2>2. \/ fence' \in {fence, Released(fence)}
        \/ fence' = [fence EXCEPT !.dispatched = TRUE]
        \/ fence' = [fence EXCEPT !.abortSent = FALSE]
    BY <1>5 DEF Release, Rejected, Dispatch, WorkerFails
  <2>3. /\ fence'.admission \in {None, fence.admission}
        /\ fence'.settleTimer = fence.settleTimer
    BY <1>0, <1>1, <2>2 DEF Fences
  <2>q. QED BY <1>3, <2>1, <2>3
<1>6. ASSUME NEW p \in Prompts, Acknowledge(p) PROVE Moves
  <2> DEFINE f == IF fence.admission = p /\ Alive(p) THEN Released(fence) ELSE fence
  <2>1. /\ f \in Fences /\ f.admission \in {None, fence.admission}
        /\ f.settleTimer = fence.settleTimer
    BY <1>0, <1>1
  <2>2. PICK a : fence' = f \/ fence' = [f EXCEPT !.turn = p, !.aborting = a]
    BY <1>6 DEF Acknowledge
  <2>3. /\ fence'.admission = f.admission /\ fence'.settleTimer = f.settleTimer
    <3> HIDE DEF f
    <3>q. QED BY <2>1, <2>2 DEF Fences
  <2>4. UNCHANGED probes
    BY <1>6 DEF Acknowledge
  <2>q. QED BY <1>3, <2>1, <2>3, <2>4
<1>7. ASSUME NEW s \in Stoppers, Bind(s), UNCHANGED probes PROVE Moves
  <2>1. fence' = fence \/ fence' = [fence EXCEPT !.aborting = fence.turn, !.abortTimer = s]
    BY <1>7 DEF Bind
  <2>2. fence'.admission = fence.admission /\ fence'.settleTimer = fence.settleTimer
    BY <1>0, <2>1 DEF Fences
  <2>q. QED BY <1>3, <1>7, <2>2
<1>8. ASSUME NEW s \in Stops, Stop(s) PROVE Moves
  <2>1. UNCHANGED probes
    BY <1>8 DEF Stop
  <2>2. CASE Cancel(s)
    <3>1. fence' = [fence EXCEPT !.cancelled = TRUE, !.abortSent = @ \/ fence.dispatched]
      BY <2>2 DEF Cancel
    <3>2. fence'.admission = fence.admission /\ fence'.settleTimer = fence.settleTimer
      BY <1>0, <3>1 DEF Fences
    <3>q. QED BY <1>3, <2>1, <3>2
  <2>3. CASE NothingToStop(s)
    BY <1>2, <2>1, <2>3 DEF NothingToStop
  <2>q. QED BY <1>7, <1>8, <2>1, <2>2, <2>3 DEF Stop, Stoppers
<1>9. ASSUME NEW p \in Prompts, StopOwnTurn(p) PROVE Moves
  BY <1>2, <1>7, <1>9 DEF StopOwnTurn, Stoppers
<1>10. ASSUME NEW s \in Stoppers, StopAnswered(s) PROVE Moves
  <2>1. \/ fence' = fence
        \/ fence' = Untimed(Cleared(fence))
        \/ fence' = [fence EXCEPT !.abortTimer = IF @ = s THEN None ELSE @]
    BY <1>10 DEF StopAnswered
  <2>2. /\ fence'.admission = fence.admission
        /\ fence'.settleTimer \in {None, fence.settleTimer}
    BY <1>0, <1>1, <2>1 DEF Fences
  <2>3. UNCHANGED probes
    BY <1>10 DEF StopAnswered
  <2>q. QED BY <1>3, <2>2, <2>3
<1>11. CASE Handle
  <2> DEFINE t == Head(events).turn
             f == Bound(fence, t)
  <2>1. t \in host.ran /\ t \in Prompts /\ UNCHANGED probes
    <3>1. events \in Seq(Records) /\ events # <<>> /\ host.ran \subseteq Prompts
      BY <1>11 DEF Handle, Typed, HostTyped
    <3>q. QED BY <1>11, <3>1 DEF Heard, Handle
  <2>2. \/ fence' = fence
        \/ fence' \in {f, [f EXCEPT !.settleTimer = t], Untimed(f), Untimed(Cleared(f))}
    BY <1>11 DEF Handle, Settles, Fails, session
  <2>3. f \in Fences /\ f.settleTimer = fence.settleTimer
        /\ f.admission = IF fence.admission = t THEN None ELSE fence.admission
    <3> DEFINE g == [fence EXCEPT !.turn = t, !.aborting = IF fence.cancelled THEN t ELSE @]
    <3>1. g \in Fences /\ g.settleTimer = fence.settleTimer /\ g.admission = fence.admission
      BY <1>0, <2>1 DEF Fences, MaybePrompts
    <3>2. /\ Released(g) \in Fences /\ Released(g).admission = None
          /\ Released(g).settleTimer = g.settleTimer
      <4> HIDE DEF g
      <4>q. QED BY <3>1, FenceShapes DEF Fences, Released
    <3>3. f = IF fence.admission = t THEN Released(g) ELSE g
      BY DEF Bound
    <3>q. QED BY <3>1, <3>2, <3>3
  <2> HIDE DEF f
  <2>4. /\ Untimed(f).admission = f.admission /\ Untimed(f).settleTimer = None
        /\ Untimed(Cleared(f)).admission = f.admission /\ Untimed(Cleared(f)).settleTimer = None
        /\ [f EXCEPT !.settleTimer = t].admission = f.admission
        /\ [f EXCEPT !.settleTimer = t].settleTimer = t
    BY <2>3 DEF Fences, Cleared, Untimed
  <2>5. /\ fence'.admission \in {None, fence.admission}
        /\ \/ fence'.settleTimer \in {None, fence.settleTimer}
           \/ fence'.settleTimer = t /\ fence'.admission # t
    <3> HIDE DEF t
    <3>q. QED BY <1>0, <2>1, <2>2, <2>3, <2>4
  <2>q. QED BY <2>1, <2>5
<1>12. CASE FailTurn
  BY <1>1, <1>3, <1>12 DEF FailTurn
<1>13. CASE SettleFires \/ AbortFires
  <2>1. \/ fence' = [fence EXCEPT !.settleTimer = None]
        \/ fence' = [fence EXCEPT !.abortTimer = None]
    BY <1>13 DEF SettleFires, AbortFires
  <2>2. /\ fence'.admission = fence.admission
        /\ fence'.settleTimer \in {None, fence.settleTimer}
    BY <1>0, <2>1 DEF Fences
  <2>3. probes'.settle \in {probes.settle, fence.settleTimer}
    BY <1>0, <1>13 DEF SettleFires, AbortFires
  <2>q. QED BY <2>2, <2>3
<1>14. CASE SettleProbe \/ AbortFallback
  <2>1. \/ fence' = fence
        \/ fence' = [Cleared(fence) EXCEPT !.abortTimer = None]
        \/ fence' = [Cleared(fence) EXCEPT !.settleTimer = None]
    BY <1>14 DEF SettleProbe, AbortFallback
  <2>2. /\ fence'.admission = fence.admission
        /\ fence'.settleTimer \in {None, fence.settleTimer}
    BY <1>0, <1>1, <2>1 DEF Fences
  <2>3. probes'.settle \in {probes.settle, None}
    BY <1>0, <1>14 DEF SettleProbe, AbortFallback
  <2>q. QED BY <2>2, <2>3
<1>15. CASE HostExits
  BY <1>3, <1>15 DEF HostExits, Unfenced
<1>16. ASSUME NEW q \in Steers, SteerAnswered(q) PROVE Moves
  <2>1. PICK t : fence' = [fence EXCEPT !.turn = t]
    BY <1>16 DEF SteerAnswered
  <2>2. fence'.admission = fence.admission /\ fence'.settleTimer = fence.settleTimer
    BY <1>0, <2>1 DEF Fences
  <2>q. QED BY <1>3, <1>16, <2>2 DEF SteerAnswered
<1>q. QED
  BY <1>2, <1>4, <1>5, <1>6, <1>8, <1>9, <1>10, <1>11, <1>12, <1>13, <1>14, <1>15, <1>16
     DEF Next, Prompting, Steering, Steer, SteerFails, HostTakesSteer, WorkerSends, Stopping, Lane,
         Timers, Host, Prepare, Unanswered, StopSends, Project, HostTakes, HostEnds, HostSettles,
         vars, session, threads

LEMMA ProbedStep == Typed /\ Ownership /\ Probed /\ [Next]_vars => Probed'
<1> SUFFICES ASSUME Typed, Ownership, Probed, [Next]_vars,
                    NEW t \in {fence'.settleTimer, probes'.settle} \ {None}
             PROVE  t \in host'.ran /\ fence'.admission # t
  BY DEF Probed
<1>1. t \in host.ran
  BY ProbeMoves DEF Ownership, Probed
<1>2. ASSUME NEW p \in Prompts, Reserve(p) \/ Enter(p) PROVE p # t
  BY <1>1, <1>2 DEF Reserve, Enter, Ownership, NotYetSent, Sent, Early
<1>3. fence'.admission # t
  BY <1>2, ProbeMoves DEF Ownership, Probed
<1>q. QED BY <1>1, <1>3, RanGrows

NotCompleted(t) ==
    /\ \A i \in DOMAIN ended[t] : ended[t][i] # "completed"
    /\ \A l \in late : l.turn = t => l.as # "completed"

(* What the Runtime watches: one turn or one admission (both are of the same prompt,   *)
(* where the answer to a queued message came before that of the prompt), and no turn   *)
(* of the Host that is neither, nor given up.                                          *)

OneAtATime == fence.turn = None \/ fence.admission \in {None, fence.turn}
Held == \A p \in Sent \ retired : fence.turn = p \/ (fence.admission = p /\ fence.dispatched)
MarksItsTurn == fence.aborting \in {None, fence.turn}

\* An admission outlives its turn only where a Stop has ended the turn.
AbortedAdmission == fence.admission \in retired => NotCompleted(fence.admission)

\* A turn that the lane has fenced and not failed yet is still bound, and no other
\* bound turn is retired.
FailsItsTurn ==
    /\ failing # None => fence.turn = failing /\ fence.admission = None
    /\ fence.turn \in retired => failing = fence.turn

Guards == OneAtATime /\ Held /\ MarksItsTurn /\ FailsItsTurn
Watch == Guards /\ AbortedAdmission
Watched == Undisturbed => Watch

\* What a step does to the turn, the admission and the mark of the Stop.
Same == UNCHANGED <<retired, failing>> /\ Sent' \subseteq Sent
Stays ==
    /\ Same /\ fence'.turn = fence.turn /\ fence'.admission = fence.admission
    /\ fence'.dispatched = fence.dispatched /\ (fence.cancelled => fence'.cancelled)
    /\ fence'.aborting \in {fence.aborting, fence.turn}
Admits(p) ==
    /\ Same /\ fence.turn = None /\ fence.admission = None /\ p \notin Sent
    /\ fence'.turn = None /\ fence'.admission = p /\ fence'.aborting = fence.aborting
HandsOff(p) ==
    /\ UNCHANGED <<retired, failing>> /\ Sent' \subseteq Sent \cup {p}
    /\ fence.turn = None /\ fence.admission = p /\ ~fence.cancelled
    /\ fence'.turn = None /\ fence'.admission = p /\ fence'.dispatched
    /\ fence'.aborting = fence.aborting
Drops(p) ==
    /\ Same /\ fence.admission = p /\ p \notin Sent \ retired /\ pc'[p].at = "over"
    /\ fence'.admission = None /\ fence'.turn = fence.turn /\ fence'.aborting = fence.aborting
BindsTurn(p) ==
    /\ Same /\ fence.turn \in {None, p} /\ fence.admission = p
    /\ fence'.turn = p /\ fence'.admission = None
    /\ fence'.aborting = IF fence.cancelled THEN p ELSE fence.aborting
    /\ p \in Sent \ retired
SteerBinds(p) ==
    /\ Same /\ fence.turn = None /\ fence.admission = p
    /\ fence'.turn = p /\ fence'.admission = p
    /\ UNCHANGED <<fence.cancelled, fence.aborting>>
    /\ p \in Sent \ retired
Leaves(t) ==
    /\ t \in {fence.turn, fence.admission} /\ t \in Sent \ retired
    /\ fence'.admission \in {None, fence.admission}
    /\ retired' = retired \cup {t} /\ failing = None /\ Sent' \subseteq Sent
EndsTurn(t) == Leaves(t) /\ fence'.turn = None /\ fence'.aborting = None /\ failing' = None
FencesTurn(t) ==
    /\ Leaves(t) /\ fence'.admission = None
    /\ fence'.turn = t /\ fence'.aborting \in {None, t} /\ failing' = t
ClearsTurn ==
    /\ failing # None /\ failing' = None /\ retired' = retired /\ Sent' \subseteq Sent
    /\ fence'.turn = None /\ fence'.aborting = None /\ fence'.admission = fence.admission

WatchedMove ==
    \/ Stays \/ ClearsTurn
    \/ \E p \in Prompts : \/ Admits(p) \/ HandsOff(p) \/ Drops(p) \/ BindsTurn(p) \/ SteerBinds(p)
                          \/ EndsTurn(p) \/ FencesTurn(p)

\* The marks of a Stop over what the sections do to a fence.
LEMMA StopMarks ==
    ASSUME NEW f \in Fences
    PROVE  /\ Released(f).aborting = f.aborting
           /\ Cleared(f).aborting = None
           /\ Untimed(f).aborting = f.aborting
           /\ \A p \in Prompts : Bound(f, p).aborting = IF f.cancelled THEN p ELSE f.aborting
<1>1. /\ Released(f).aborting = f.aborting /\ Cleared(f).aborting = None
      /\ Untimed(f).aborting = f.aborting
  BY DEF Fences, Released, Cleared, Untimed
<1>2. ASSUME NEW p \in Prompts
      PROVE  Bound(f, p).aborting = IF f.cancelled THEN p ELSE f.aborting
  <2> DEFINE g == [f EXCEPT !.turn = p, !.aborting = IF f.cancelled THEN p ELSE @]
  <2>1. g \in Fences /\ g.aborting = IF f.cancelled THEN p ELSE f.aborting
    BY DEF Fences, MaybePrompts
  <2>2. Released(g).aborting = g.aborting
    <3> HIDE DEF g
    <3>q. QED BY <2>1 DEF Fences, Released
  <2>q. QED BY <2>1, <2>2 DEF Bound
<1>q. QED BY <1>1, <1>2

LEMMA SentArePrompts == Typed => Sent \subseteq Prompts /\ host.ran \subseteq Sent
<1> SUFFICES ASSUME Typed PROVE Sent \subseteq Prompts /\ host.ran \subseteq Sent
  OBVIOUS
<1>1. wire \in Seq(Commands) /\ host.ran \subseteq Prompts
  BY DEF Typed, HostTyped
<1>2. \A i \in DOMAIN wire : wire[i] \in Commands
  BY <1>1
<1>q. QED BY <1>1, <1>2 DEF Sent, Commands

\* Every form of step keeps watch.
LEMMA GuardsKept ==
    ASSUME Typed, Recorded, Guards, WatchedMove
    PROVE  Guards'
<1>0. /\ None \notin Prompts /\ None \notin retired /\ Sent \subseteq Prompts /\ retired \subseteq Sent
      /\ fence.turn \in Sent \cup {None} /\ failing \in retired \cup {None}
  BY PromptFenceAssumption, SentArePrompts DEF Typed, SessionTyped, Stoppers, Recorded, TurnsRan
<1> USE DEF Guards, OneAtATime, Held, MarksItsTurn, FailsItsTurn
<1>1. CASE Stays
  BY <1>1 DEF Stays, Same
<1>2. ASSUME NEW p \in Prompts, Admits(p) PROVE Guards'
  BY <1>0, <1>2 DEF Admits, Same
<1>3. ASSUME NEW p \in Prompts, HandsOff(p) PROVE Guards'
  BY <1>0, <1>3 DEF HandsOff
<1>4. ASSUME NEW p \in Prompts, Drops(p) PROVE Guards'
  BY <1>0, <1>4 DEF Drops, Same
<1>5. ASSUME NEW p \in Prompts, BindsTurn(p) PROVE Guards'
  BY <1>0, <1>5 DEF BindsTurn, Same
<1>6. ASSUME NEW p \in Prompts, SteerBinds(p) PROVE Guards'
  BY <1>0, <1>6 DEF SteerBinds, Same
<1>7. ASSUME NEW t \in Prompts, EndsTurn(t) PROVE Guards'
  BY <1>0, <1>7 DEF EndsTurn, Leaves
<1>8. ASSUME NEW t \in Prompts, FencesTurn(t) PROVE Guards'
  BY <1>0, <1>8 DEF FencesTurn, Leaves
<1>9. CASE ClearsTurn
  BY <1>0, <1>9 DEF ClearsTurn
<1>q. QED BY <1>1, <1>2, <1>3, <1>4, <1>5, <1>6, <1>7, <1>8, <1>9 DEF WatchedMove

\* Every step has one of these forms while the turns are watched.
LEMMA WatchedMoves ==
    ASSUME Typed, Marked, Ownership, Recorded, Watch, Undisturbed, [Next]_vars,
           Typed', Recorded', Undisturbed'
    PROVE  WatchedMove
<1> USE FenceMarks, StopMarks
<1>0. /\ fence \in Fences /\ None \notin Prompts /\ None \notin retired
      /\ pc \in [Prompts -> [at : PromptSteps, client : Nat]]
      /\ Released(fence) \in Fences /\ Cleared(fence) \in Fences
  BY PromptFenceAssumption, FenceShapes DEF Typed, FenceTyped, SessionTyped, ThreadsTyped, Stoppers
<1>1. /\ client.exits = 0 /\ ~HostExits /\ client.up
      /\ \A p \in Prompts : pc[p].client = 0
      /\ \A p \in Prompts : pc[p].at \in Early => fence.admission = p /\ ~fence.dispatched
      /\ \A p \in Prompts : pc[p].at \in {"idle"} \cup Early => p \notin Sent
  <2>1. client.exits = 0 /\ ~HostExits
    BY ExitsGrow DEF Undisturbed
  <2>q. QED BY <2>1 DEF Recorded, FirstHost, Ownership, Owned, NotYetSent
<1>2. ASSUME NEW p \in Prompts, Dispatch(p) PROVE WatchedMove
  <2>1. HandsOff(p)
    <3>1. Sent' \subseteq Sent \cup {p}
      <4>1. ASSUME NEW q \in Prompts, Dispatch(q) PROVE q = p
        <5>1. wire \in Seq(Commands)
          BY DEF Typed, HostTyped
        <5>2. Append(wire, [cmd |-> "prompt", by |-> p, turn |-> p])
                = Append(wire, [cmd |-> "prompt", by |-> q, turn |-> q])
          BY <1>2, <4>1 DEF Dispatch
        <5>3. \A c, d : Append(wire, c) = Append(wire, d) => c = d
          BY <5>1
        <5>4. [cmd |-> "prompt", by |-> p, turn |-> p] = [cmd |-> "prompt", by |-> q, turn |-> q]
          BY <5>2, <5>3
        <5>q. QED BY <5>4
      <4>q. QED BY <4>1, SentMoves
    <3>q. QED BY <1>0, <1>2, <3>1 DEF Dispatch, MayDispatch, HandsOff, Fences
  <2>q. QED BY <2>1 DEF WatchedMove
<1>3. SUFFICES ASSUME \A p \in Prompts : ~Dispatch(p) PROVE WatchedMove
  BY <1>2
<1>4. Sent' \subseteq Sent
  BY <1>3, SentMoves
<1>5. CASE UNCHANGED <<fence, retired, failing>>
  BY <1>4, <1>5 DEF Stays, Same, WatchedMove
<1>6. ASSUME NEW p \in Prompts, Reserve(p) PROVE WatchedMove
  <2>1. CASE fence' = [Released(fence) EXCEPT !.admission = p] /\ fence.admission = None /\ fence.turn = None
    <3>1. /\ fence'.admission = p /\ fence'.turn = fence.turn /\ fence'.aborting = fence.aborting
      BY <1>0, <2>1 DEF Fences
    <3>2. Admits(p)
      BY <1>1, <1>4, <1>6, <2>1, <3>1 DEF Reserve, Admits, Same
    <3>q. QED BY <3>2 DEF WatchedMove
  <2>q. QED BY <1>5, <1>6, <2>1 DEF Reserve
<1>7. ASSUME NEW p \in Prompts, fence.admission = p, p \notin Sent, pc' = [pc EXCEPT ![p].at = "over"],
             UNCHANGED <<retired, failing>>,
             \/ fence' = Released(fence)
             \/ fence.turn = None /\ fence' = [Released(fence) EXCEPT !.aborting = None]
      PROVE  WatchedMove
  <2>1. /\ fence'.admission = None /\ fence'.turn = fence.turn /\ fence'.aborting = fence.aborting
    <3>1. fence.turn = None => fence.aborting = None
      BY DEF Watch, Guards, MarksItsTurn
    <3>q. QED BY <1>0, <1>7, <3>1 DEF Fences
  <2>2. Drops(p)
    BY <1>0, <1>4, <1>7, <2>1 DEF Drops, Same
  <2>q. QED BY <2>2 DEF WatchedMove
<1>8. ASSUME NEW p \in Prompts, Release(p) \/ Rejected(p) PROVE WatchedMove
  <2>1. p \notin Sent
    BY <1>1, <1>8 DEF Release, Rejected, Early, Recorded, Answered
  <2>q. QED BY <1>5, <1>7, <1>8, <2>1 DEF Release, Rejected, Goto
<1>9. ASSUME NEW p \in Prompts, Enter(p) PROVE WatchedMove
  <2>1. fence.admission = p /\ p \notin Sent
    BY <1>1, <1>9 DEF Enter, Early
  <2>2. CASE fence' = [fence EXCEPT !.admission = p, !.aborting = None] /\ fence.turn = None
    <3>1. Stays
      BY <1>0, <1>4, <1>9, <2>1, <2>2 DEF Enter, Stays, Same, Fences
    <3>q. QED BY <3>1 DEF WatchedMove
  <2>q. QED BY <1>5, <1>7, <1>9, <2>1, <2>2 DEF Enter, Goto
<1>10. ASSUME NEW p \in Prompts, Acknowledge(p) PROVE WatchedMove
  <2>1. p \in Sent /\ Alive(p) /\ pc'[p].at \in {"stopping", "over"}
    BY <1>0, <1>1, <1>10, SentArePrompts DEF Acknowledge, Alive, Recorded, Answered, Goto
  <2>2. CASE fence.admission = p /\ p \in retired
    <3>1. fence' = Released(fence) /\ pc'[p].at = "over"
      BY <1>0, <1>10, <2>1, <2>2 DEF Acknowledge, Binds, Goto
    <3>2. UNCHANGED <<retired, failing>>
      BY <1>10 DEF Acknowledge
    <3>3. fence'.admission = None /\ fence'.turn = fence.turn /\ fence'.aborting = fence.aborting
      BY <1>0, <3>1
    <3>4. Drops(p)
      BY <1>4, <2>2, <3>1, <3>2, <3>3 DEF Drops, Same
    <3>q. QED BY <3>4 DEF WatchedMove
  <2>3. CASE fence.admission = p /\ p \notin retired
    <3>1. fence.turn \in {None, p}
      BY <1>0, <2>3 DEF Watch, Guards, OneAtATime
    <3>2. Binds(p)
      BY <2>1, <2>3, <3>1 DEF Binds, Newer
    <3>3. fence' = [Released(fence) EXCEPT !.turn = p, !.aborting = IF fence.cancelled THEN p ELSE @]
      BY <1>10, <2>1, <2>3, <3>2 DEF Acknowledge
    <3>4. BindsTurn(p)
      BY <1>0, <1>4, <1>10, <2>1, <2>3, <3>1, <3>3 DEF Acknowledge, BindsTurn, Same, Fences
    <3>q. QED BY <3>4 DEF WatchedMove
  <2>4. CASE fence.admission # p
    <3>1. fence' = fence \/ (Binds(p) /\ fence' = [fence EXCEPT !.turn = p, !.aborting = fence.aborting])
      BY <1>10, <2>4 DEF Acknowledge
    <3>2. Binds(p) => fence.turn = p
      BY <1>0, <2>1, <2>4 DEF Binds, Watch, Guards, Held
    <3>3. fence'.turn = fence.turn /\ fence'.admission = fence.admission /\ fence'.aborting = fence.aborting
          /\ fence'.dispatched = fence.dispatched /\ fence'.cancelled = fence.cancelled
      BY <1>0, <3>1, <3>2 DEF Fences
    <3>4. Stays
      BY <1>4, <1>10, <3>3 DEF Acknowledge, Stays, Same
    <3>q. QED BY <3>4 DEF WatchedMove
  <2>q. QED BY <2>2, <2>3, <2>4
<1>11. ASSUME NEW s \in Stoppers, Bind(s), UNCHANGED <<retired, failing>> PROVE WatchedMove
  <2>1. CASE fence' = [fence EXCEPT !.aborting = fence.turn, !.abortTimer = s]
    <3>1. Stays
      BY <1>0, <1>4, <1>11, <2>1 DEF Stays, Same, Fences
    <3>q. QED BY <3>1 DEF WatchedMove
  <2>q. QED BY <1>5, <1>11, <2>1 DEF Bind
<1>12. ASSUME NEW s \in Stops, Stop(s) PROVE WatchedMove
  <2>1. CASE Cancel(s)
    <3>1. Stays
      BY <1>0, <1>4, <1>12, <2>1 DEF Stop, Cancel, Stays, Same, Fences
    <3>q. QED BY <3>1 DEF WatchedMove
  <2>q. QED BY <1>5, <1>11, <1>12, <2>1 DEF Stop, NothingToStop, Stoppers
<1>13. ASSUME NEW p \in Prompts, StopOwnTurn(p) PROVE WatchedMove
  BY <1>5, <1>11, <1>13 DEF StopOwnTurn, Stoppers
<1>14. ASSUME UNCHANGED <<retired, failing>>,
              \E f \in {[fence EXCEPT !.abortSent = FALSE], [fence EXCEPT !.settleTimer = None],
                        [fence EXCEPT !.abortTimer = None]} : fence' = f
       PROVE  WatchedMove
  <2>1. Stays
    BY <1>0, <1>4, <1>14 DEF Stays, Same, Fences
  <2>q. QED BY <2>1 DEF WatchedMove
<1>15. ASSUME NEW p \in Prompts, WorkerFails(p) PROVE WatchedMove
  BY <1>5, <1>14, <1>15 DEF WorkerFails
<1>16. CASE SettleFires \/ AbortFires
  BY <1>14, <1>16 DEF SettleFires, AbortFires
<1>17. ASSUME NEW t \in Prompts, Recovers(t), fence'.admission = fence.admission, fence'.aborting = None
       PROVE  WatchedMove
  <2>1. failing # t /\ fence.turn = t
    BY <1>17, SecondEnd DEF Recovers
  <2>2. failing = None /\ failing' = None /\ t \notin retired
    BY <1>17, <2>1 DEF Watch, Guards, FailsItsTurn, Recovers, Notes
  <2>3. t \in Sent
    BY <1>0, <2>1, SentArePrompts DEF Recorded, TurnsRan
  <2>4. EndsTurn(t)
    BY <1>4, <1>17, <2>1, <2>2, <2>3 DEF EndsTurn, Leaves, Recovers
  <2>q. QED BY <2>4 DEF WatchedMove
<1>18. ASSUME NEW s \in Stoppers, StopAnswered(s) PROVE WatchedMove
  <2>1. CASE fence' = [fence EXCEPT !.abortTimer = IF @ = s THEN None ELSE @]
             /\ UNCHANGED <<retired, failing>>
    <3>1. Stays
      BY <1>0, <1>4, <2>1 DEF Stays, Same, Fences
    <3>q. QED BY <3>1 DEF WatchedMove
  <2>2. CASE stops[s].at = "already_idle" /\ fence.turn = stops[s].target
             /\ fence' = Untimed(Cleared(fence)) /\ Retire(fence.turn, "aborted")
    <3>1. fence.turn \in Prompts
      BY <1>0, <2>2 DEF Typed, ThreadsTyped, UnderWay, MaybePrompts
    <3>2. Recovers(fence.turn)
      BY <1>0, <1>18, <2>2, <3>1 DEF StopAnswered, Recovers, Notes, Retire, Terminals
    <3>q. QED BY <1>0, <1>17, <2>2, <3>1, <3>2
  <2>q. QED BY <1>5, <1>18, <2>1, <2>2 DEF StopAnswered
<1>19. CASE SettleProbe
  <2>1. CASE fence.turn = probes.settle /\ \E as \in {"completed", "failed"} :
               Retire(fence.turn, IF fence.aborting = fence.turn THEN "aborted" ELSE as)
             /\ fence' = [Cleared(fence) EXCEPT !.abortTimer = None]
    <3>1. /\ fence.turn \in Prompts /\ fence'.turn = None
          /\ fence'.admission = fence.admission /\ fence'.aborting = None
      BY <1>0, <1>19, <2>1 DEF SettleProbe, Fences, MaybePrompts
    <3>2. Recovers(fence.turn)
      BY <1>0, <1>19, <2>1, <3>1 DEF SettleProbe, Recovers, Notes, Retire, Terminals
    <3>q. QED BY <1>17, <3>1, <3>2
  <2>q. QED BY <1>5, <1>19, <2>1 DEF SettleProbe
<1>20. CASE AbortFallback
  <2>1. CASE fence.turn = probes.abort /\ Retire(fence.turn, "aborted")
             /\ fence' = [Cleared(fence) EXCEPT !.settleTimer = None]
    <3>1. /\ fence.turn \in Prompts /\ fence'.turn = None
          /\ fence'.admission = fence.admission /\ fence'.aborting = None
      BY <1>0, <1>20, <2>1 DEF AbortFallback, Fences, MaybePrompts
    <3>2. Recovers(fence.turn)
      BY <1>0, <1>20, <2>1, <3>1 DEF AbortFallback, Recovers, Notes, Retire, Terminals
    <3>q. QED BY <1>17, <3>1, <3>2
  <2>q. QED BY <1>5, <1>20, <2>1 DEF AbortFallback
<1>21. CASE Handle
  <2> DEFINE t == Head(events).turn
             f == Bound(fence, t)
  <2>1. t \in host.ran /\ t \in Prompts /\ t \in Sent
    <3>1. events \in Seq(Records) /\ events # <<>> /\ host.ran \subseteq Prompts
      BY <1>21 DEF Handle, Typed, HostTyped
    <3>q. QED BY <3>1, SentArePrompts DEF Ownership, Heard
  <2>2. /\ f \in Fences /\ f.turn = t
        /\ f.aborting = IF fence.cancelled THEN t ELSE fence.aborting
        /\ f.admission = IF fence.admission = t THEN None ELSE fence.admission
        /\ fence.admission # t => f.cancelled = fence.cancelled /\ f.dispatched = fence.dispatched
    <3>1. f \in Fences /\ f.turn = t
      <4>1. \A p \in Prompts : Bound(fence, p) \in Fences
        BY <1>0, FenceShapes
      <4>2. \A p \in Prompts : Bound(fence, p).turn = p
        BY <1>0, BoundMarks
      <4>q. QED BY <2>1, <4>1, <4>2
    <3>2. f.aborting = IF fence.cancelled THEN t ELSE fence.aborting
      BY <1>0, <2>1
    <3>3. f.admission = IF fence.admission = t THEN None ELSE fence.admission
      BY <1>0, <2>1, BoundMarks
    <3>4. fence.admission # t => f.cancelled = fence.cancelled /\ f.dispatched = fence.dispatched
      BY <1>0, <2>1, BoundMarks
    <3>q. QED BY <3>1, <3>2, <3>3, <3>4
  <2>3. \/ UNCHANGED <<fence, retired, failing>>
        \/ /\ t \notin retired /\ UNCHANGED <<retired, failing>>
           /\ fence' \in {f, [f EXCEPT !.settleTimer = t]}
        \/ /\ t \notin retired /\ fence' = Untimed(Cleared(f)) /\ failing = None /\ failing' = failing
           /\ retired' = retired \cup {t}
        \/ /\ t \notin retired /\ fence' \in {f, Untimed(f)} /\ failing = None /\ failing' = t
           /\ retired' = retired \cup {t}
    BY <1>21 DEF Handle, Settles, Fails, session
  <2>4. ASSUME t \notin retired
        PROVE  /\ t \in {fence.turn, fence.admission} /\ f.admission = None
               /\ f.aborting \in {None, t}
               /\ fence.turn = t /\ fence.admission # t => fence.admission = None /\ ~fence.cancelled
               /\ fence.admission = t => fence.turn \in {None, t}
    <3>1. fence.turn = t \/ fence.admission = t
      BY <2>1, <2>4 DEF Watch, Guards, Held
    <3>2. fence.turn = t /\ fence.admission # t => fence.admission = None /\ ~fence.cancelled
      BY <1>0, <2>1 DEF Watch, Guards, OneAtATime, Marked, WellMarked
    <3>3. fence.admission = t => fence.turn \in {None, t}
      BY <1>0, <2>1 DEF Watch, Guards, OneAtATime
    <3>4. fence.aborting \in {None, fence.turn}
      BY DEF Watch, Guards, MarksItsTurn
    <3> HIDE DEF f, t
    <3>q. QED BY <1>0, <2>1, <2>2, <3>1, <3>2, <3>3, <3>4
  <2>5. [f EXCEPT !.settleTimer = t] \in Fences
    BY <2>1, <2>2 DEF Fences, MaybePrompts
  <2>6. Cleared(f) \in Fences /\ Untimed(f) \in Fences
    BY <2>2, FenceShapes
  <2> HIDE DEF f, t
  <2>7. CASE t \notin retired /\ UNCHANGED <<retired, failing>>
             /\ fence' \in {f, [f EXCEPT !.settleTimer = t]}
    <3>1. /\ fence'.turn = t /\ fence'.admission = f.admission /\ fence'.aborting = f.aborting
          /\ fence'.cancelled = f.cancelled /\ fence'.dispatched = f.dispatched
      BY <2>2, <2>5, <2>7 DEF Fences
    <3>2. CASE fence.turn = t /\ fence.admission # t
      <4>1. Stays
        BY <1>0, <1>4, <2>1, <2>2, <2>4, <2>7, <3>1, <3>2 DEF Stays, Same
      <4>q. QED BY <4>1 DEF WatchedMove
    <3>3. CASE fence.admission = t
      <4>1. BindsTurn(t)
        BY <1>0, <1>4, <2>1, <2>2, <2>4, <2>7, <3>1, <3>3 DEF BindsTurn, Same
      <4>q. QED BY <2>1, <4>1 DEF WatchedMove
    <3>q. QED BY <2>4, <2>7, <3>2, <3>3
  <2>8. CASE t \notin retired /\ fence' = Untimed(Cleared(f)) /\ failing = None /\ failing' = failing
             /\ retired' = retired \cup {t}
    <3>1. fence'.turn = None /\ fence'.admission = f.admission /\ fence'.aborting = None
      BY <2>2, <2>6, <2>8
    <3>2. EndsTurn(t)
      BY <1>4, <2>1, <2>4, <2>8, <3>1 DEF EndsTurn, Leaves
    <3>q. QED BY <2>1, <3>2 DEF WatchedMove
  <2>9. CASE t \notin retired /\ fence' \in {f, Untimed(f)} /\ failing = None /\ failing' = t
             /\ retired' = retired \cup {t}
    <3>1. fence'.turn = t /\ fence'.admission = f.admission /\ fence'.aborting = f.aborting
      BY <2>2, <2>9
    <3>2. FencesTurn(t)
      BY <1>4, <2>1, <2>4, <2>9, <3>1 DEF FencesTurn, Leaves
    <3>q. QED BY <2>1, <3>2 DEF WatchedMove
  <2>q. QED BY <1>5, <2>3, <2>7, <2>8, <2>9
<1>22. CASE FailTurn
  <2>1. ClearsTurn
    BY <1>0, <1>4, <1>22 DEF FailTurn, ClearsTurn
  <2>q. QED BY <2>1 DEF WatchedMove
<1>23. ASSUME NEW q \in Steers, SteerAnswered(q) PROVE WatchedMove
  <2> DEFINE t == steers[q].turn
  <2>1. t \in host.ran /\ t \in Prompts /\ t \in Sent
    BY <1>23, SentArePrompts DEF SteerAnswered, Ownership, Heard, Typed, HostTyped
  <2>2. CASE fence.turn # None
    <3>1. fence' = fence
      BY <1>0, <1>23, <2>2 DEF SteerAnswered, Fences
    <3>q. QED BY <1>5, <1>23, <3>1 DEF SteerAnswered
  <2>3. CASE fence.turn = None
    <3>1. fence' = [fence EXCEPT !.turn = t]
      BY <1>0, <1>23, <2>3 DEF SteerAnswered
    <3>2. t \notin retired
      <4>1. steers'[q].at # "returned"
        BY DEF Undisturbed
      <4>2. steers \in [Steers -> [at : SteerSteps, turn : MaybePrompts]]
        BY DEF Typed, SteersTyped
      <4>q. QED BY <1>23, <2>3, <4>1, <4>2 DEF SteerAnswered, SteerGoto
    <3>3. fence.admission = t
      BY <1>0, <2>1, <2>3, <3>2 DEF Watch, Guards, Held
    <3>4. SteerBinds(t)
      BY <1>0, <1>4, <1>23, <2>1, <2>3, <3>1, <3>2, <3>3 DEF SteerAnswered, SteerBinds, Same, Fences
    <3>q. QED BY <2>1, <3>4 DEF WatchedMove
  <2>q. QED BY <2>2, <2>3
<1>q. QED
  BY <1>1, <1>3, <1>5, <1>6, <1>8, <1>9, <1>10, <1>12, <1>13, <1>15, <1>16, <1>18, <1>19, <1>20,
     <1>21, <1>22, <1>23
     DEF Next, Prompting, Steering, Steer, SteerFails, HostTakesSteer, WorkerSends, Stopping, Lane,
         Timers, Host, Prepare, Unanswered, StopSends, Project, HostTakes, HostEnds, HostSettles,
         vars, session, threads

(* A Stop and its turn. *)

\* A turn that will never run.
Never(t) == t \notin Sent /\ pc[t].at \notin {"idle"} \cup Early

\* A turn with a Stop has ended, or carries the mark as a turn or as an admission.
Stopped(t) ==
    /\ t \in Prompts /\ NotCompleted(t)
    /\ \/ t \in retired
       \/ fence.turn = t /\ fence.aborting = t
       \/ fence.admission = t /\ fence.cancelled
       \/ Never(t)

StopsMarked ==
    Undisturbed => \A s \in Stops : stops[s].target # None => Stopped(stops[s].target)

\* A Stop takes a turn for its own where it marks it.
LEMMA TargetMoves ==
    Typed /\ [Next]_vars =>
        \A s \in Stops :
            \/ stops'[s].target \in {stops[s].target, None}
            \/ /\ stops'[s].target = fence.turn /\ fence.turn \in Prompts \ retired
               /\ fence'.turn = fence.turn /\ fence'.aborting = fence.turn
               /\ UNCHANGED <<ended, late, retired>>
            \/ /\ stops'[s].target = fence.admission /\ fence.admission \in Prompts
               /\ fence'.admission = fence.admission /\ fence'.cancelled
               /\ UNCHANGED <<ended, late, retired>>
<1> SUFFICES ASSUME Typed, [Next]_vars, NEW s \in Stops,
                    stops'[s].target \notin {stops[s].target, None}
             PROVE  \/ /\ stops'[s].target = fence.turn /\ fence.turn \in Prompts \ retired
                       /\ fence'.turn = fence.turn /\ fence'.aborting = fence.turn
                       /\ UNCHANGED <<ended, late, retired>>
                    \/ /\ stops'[s].target = fence.admission /\ fence.admission \in Prompts
                       /\ fence'.admission = fence.admission /\ fence'.cancelled
                       /\ UNCHANGED <<ended, late, retired>>
  OBVIOUS
<1>0. /\ stops \in [Stoppers -> [at : StopSteps, target : MaybePrompts]]
      /\ fence \in Fences /\ s \in Stoppers /\ s \notin Prompts
  BY PromptFenceAssumption DEF Typed, ThreadsTyped, FenceTyped, Stoppers
<1>1. CASE stops'[s] = stops[s]
  BY <1>1
<1>2. ASSUME NEW r \in Stops, Stop(r), s # r PROVE stops'[s] = stops[s]
  BY <1>0, <1>2 DEF Stop, Bind, Cancel, NothingToStop, StopGoto
<1>3. CASE Stop(s)
  <2>1. CASE Bind(s)
    <3>1. /\ fence.turn \notin retired /\ fence.turn # None
          /\ fence' = [fence EXCEPT !.aborting = fence.turn, !.abortTimer = s]
          /\ stops'[s].target = fence.turn
      BY <1>0, <2>1 DEF Bind, StopGoto
    <3>q. QED BY <1>0, <1>3, <3>1 DEF Stop, Fences, MaybePrompts
  <2>2. CASE Cancel(s)
    BY <1>0, <1>3, <2>2 DEF Stop, Cancel, StopGoto, Fences, MaybePrompts
  <2>3. CASE NothingToStop(s)
    BY <1>0, <2>3 DEF NothingToStop, StopGoto
  <2>q. QED BY <1>3, <2>1, <2>2, <2>3 DEF Stop
<1>4. ASSUME NEW r \in Stoppers, StopSends(r) \/ StopAnswered(r) PROVE FALSE
  <2>1. PICK label : stops' = [stops EXCEPT ![r] = [at |-> label, target |-> stops[r].target]]
    BY <1>4 DEF StopSends, StopAnswered, StopGoto
  <2>q. QED BY <1>0, <2>1
<1>5. ASSUME NEW p \in Prompts, StopOwnTurn(p) PROVE stops'[s] = stops[s]
  BY <1>0, <1>5 DEF StopOwnTurn, Bind, StopGoto
<1>6. ASSUME HostTakes PROVE FALSE
  <2>1. PICK r, c : stops' = stops \/ stops' = [stops EXCEPT ![c].at = r]
    BY <1>6 DEF HostTakes, AnswerStop
  <2>q. QED BY <1>0, <2>1
<1>q. QED
  BY <1>1, <1>2, <1>3, <1>4, <1>5, <1>6
     DEF Next, Prompting, Steering, Steer, SteerFails, SteerAnswered, HostTakesSteer, WorkerFails,
         Stopping, Lane, Timers, Host, Reserve, Prepare, Release, Enter, Dispatch,
         Rejected, Unanswered, Acknowledge, WorkerSends, Handle, FailTurn, SettleFires, SettleProbe,
         AbortFires, AbortFallback, Project, HostEnds, HostSettles, HostExits, vars, threads

\* What never runs stays so.
LEMMA NeverStays ==
    ASSUME Typed, [Next]_vars, NEW t \in Prompts, Never(t)
    PROVE  Never(t)'
<1>1. pc'[t].at \notin {"idle"} \cup Early
  BY PcMoves DEF Never, Reserve
<1>2. t \notin Sent'
  BY SentMoves DEF Never, Dispatch, Early
<1>q. QED BY <1>1, <1>2 DEF Never

LEMMA AppendedMember ==
    ASSUME NEW q \in Seq(Terminals), NEW x \in Terminals, NEW i \in DOMAIN Append(q, x)
    PROVE  Append(q, x)[i] = x \/ (i \in DOMAIN q /\ Append(q, x)[i] = q[i])
<1>1. Len(Append(q, x)) = Len(q) + 1 /\ Append(q, x) \in Seq(Terminals) /\ Len(q) \in Nat
  OBVIOUS
<1>2. i \in 1 .. Len(q) + 1 /\ DOMAIN q = 1 .. Len(q)
  BY <1>1
<1>q. QED BY <1>1, <1>2

LEMMA AppendedIsNotCompleted ==
    ASSUME NEW q \in Seq(Terminals), NEW as \in Terminals, as # "completed",
           \A i \in DOMAIN q : q[i] # "completed"
    PROVE  \A i \in DOMAIN Append(q, as) : Append(q, as)[i] # "completed"
<1> SUFFICES ASSUME NEW i \in DOMAIN Append(q, as) PROVE Append(q, as)[i] # "completed"
  OBVIOUS
<1>1. Append(q, as)[i] = as \/ (i \in DOMAIN q /\ Append(q, as)[i] = q[i])
  BY AppendedMember
<1>q. QED BY <1>1

\* A turn is completed by its own end, when the fence has no mark of a Stop for it.
LEMMA Completes ==
    ASSUME Typed, Heard, [Next]_vars, ~HostExits, NEW t \in Prompts, NotCompleted(t)
    PROVE  \/ NotCompleted(t)'
           \/ fence.turn = t /\ fence.aborting # t /\ probes.settle = t /\ Recovers(t)
           \/ Heads(t) /\ Bound(fence, t).aborting # t
<1>0. ended \in [Prompts -> Seq(Terminals)]
  BY DEF Typed, SessionTyped
<1>1. ASSUME NEW u \in Prompts, NEW as \in Terminals, as # "completed" \/ u # t, Shows(u, as)
      PROVE  NotCompleted(t)'
  <2>1. late' = late /\ ended' = [ended EXCEPT ![u] = Append(@, as)]
    BY <1>1 DEF Shows
  <2>2. \A i \in DOMAIN ended'[t] : ended'[t][i] # "completed"
    <3>1. ended'[t] = ended[t] \/ (as # "completed" /\ ended'[t] = Append(ended[t], as))
      BY <1>0, <1>1, <2>1
    <3>2. ended[t] \in Seq(Terminals)
      BY <1>0
    <3>q. QED BY <3>1, <3>2, AppendedIsNotCompleted DEF NotCompleted
  <2>q. QED BY <2>1, <2>2 DEF NotCompleted
<1>2. ASSUME NEW l, l.turn # t \/ l.as # "completed", Notes(l) PROVE NotCompleted(t)'
  BY <1>2 DEF Notes, NotCompleted
<1>3. CASE Unended
  BY <1>3 DEF Unended, NotCompleted
<1>4. CASE Cancels
  BY <1>2, <1>4 DEF Cancels
<1>5. CASE Projects
  <2>1. PICK l \in late :
          /\ late' = late \ {l}
          /\ ended' = IF l.as = "cancelled" THEN ended
                      ELSE [ended EXCEPT ![l.turn] = Append(@, IF l.as = "exit" THEN "failed" ELSE l.as)]
    BY <1>5 DEF Projects
  <2>2. \A i \in DOMAIN ended'[t] : ended'[t][i] # "completed"
    <3>1. PICK as \in Terminals :
            ended'[t] = ended[t] \/ (as # "completed" /\ ended'[t] = Append(ended[t], as))
      BY <1>0, <2>1 DEF NotCompleted, Typed, SessionTyped, Projections, Terminals
    <3>2. ended[t] \in Seq(Terminals)
      BY <1>0
    <3>q. QED BY <3>1, <3>2, AppendedIsNotCompleted DEF NotCompleted
  <2>q. QED BY <2>1, <2>2 DEF NotCompleted
<1>6. CASE FailsNow
  <2>1. PICK as \in {"aborted", "failed"} : Shows(failing, as)
    BY <1>6 DEF FailsNow
  <2>2. failing \in Prompts
    BY <1>6 DEF FailsNow, Typed, SessionTyped
  <2>q. QED BY <1>1, <2>1, <2>2 DEF Terminals
<1>7. ASSUME NEW u \in Prompts, Recovers(u)
      PROVE  \/ NotCompleted(t)'
             \/ fence.turn = t /\ fence.aborting # t /\ probes.settle = t /\ Recovers(t)
  <2>1. PICK as \in Terminals : /\ as = "completed" => fence.aborting # u /\ probes.settle = u
                                /\ Notes([turn |-> u, as |-> as])
    BY <1>7 DEF Recovers
  <2>2. CASE u = t /\ as = "completed"
    BY <1>7, <2>1, <2>2 DEF Recovers
  <2>3. CASE u # t \/ as # "completed"
    BY <1>2, <2>1, <2>3
  <2>q. QED BY <2>2, <2>3
<1>8. ASSUME NEW u \in Prompts, Heads(u), Settled(u)
      PROVE  NotCompleted(t)' \/ (Heads(t) /\ Bound(fence, t).aborting # t)
  BY <1>1, <1>8 DEF Settled, Terminals
<1>9. ASSUME NEW u \in Prompts, Fenced(u) PROVE NotCompleted(t)'
  BY <1>9 DEF Fenced, NotCompleted
<1>q. QED BY <1>3, <1>4, <1>5, <1>6, <1>7, <1>8, <1>9, EndMoves

\* An admission whose turn has ended is that of a turn that was not completed: the end
\* that an event or a probe reports closes the admission with the turn.
LEMMA AbortedAdmissionKept ==
    ASSUME Typed, Ownership, Recorded, Probed, Watch, client.exits = 0, [Next]_vars, ~HostExits,
           WatchedMove
    PROVE  AbortedAdmission'
<1> SUFFICES ASSUME NEW p, p = fence'.admission, p \in retired' PROVE NotCompleted(p)'
  BY DEF AbortedAdmission, NotCompleted
<1>0. /\ None \notin Prompts /\ None \notin retired' /\ Sent \subseteq Prompts
      /\ retired \subseteq Sent /\ retired' \subseteq Prompts
  BY PromptFenceAssumption, SentArePrompts, TypedStep
     DEF Typed, SessionTyped, Stoppers, Recorded, TurnsRan
<1>1. p \in Prompts /\ p # None
  BY <1>0
<1>2. ASSUME NotCompleted(p), ~Heads(p) PROVE NotCompleted(p)'
  <2>1. probes.settle = p => fence.admission # p
    BY <1>1 DEF Probed
  <2>2. probes.settle = p => p \in host.ran
    BY <1>1 DEF Probed
  <2>3. ASSUME probes.settle = p PROVE FALSE
    <3>1. p \in Sent /\ fence.admission # p
      BY <2>1, <2>2, <2>3, SentArePrompts
    <3>q. QED
      BY <1>1, <3>1 DEF WatchedMove, Stays, Admits, HandsOff, Drops, BindsTurn, SteerBinds, EndsTurn,
                        FencesTurn, Leaves, ClearsTurn
  <2>q. QED BY <1>1, <1>2, <2>3, Completes DEF Ownership
<1>3. CASE p \in retired
  <2>1. fence.admission = p
    BY <1>0, <1>1, <1>3
       DEF WatchedMove, Stays, Admits, HandsOff, Drops, BindsTurn, SteerBinds, EndsTurn,
           FencesTurn, Leaves, ClearsTurn
  <2>2. NotCompleted(p)
    BY <1>3, <2>1 DEF Watch, AbortedAdmission
  <2>q. QED BY <1>2, <1>3, <2>2 DEF Heads
<1>4. CASE p \notin retired
  <2>1. NotCompleted(p)
    BY <1>1, <1>4 DEF Recorded, EndsAreRetired, NotCompleted
  <2>2. ~Heads(p)
    <3> SUFFICES ASSUME Heads(p) PROVE FALSE
      OBVIOUS
    <3>1. p = Head(events).turn /\ Handle /\ fence \in Fences
      BY DEF Heads, Typed, FenceTyped
    <3>2. fence'.admission = Bound(fence, p).admission
      BY <1>4, <3>1, HandledFence
    <3>q. QED BY <1>1, <3>1, <3>2, BoundMarks
  <2>q. QED BY <1>2, <2>1, <2>2
<1>q. QED BY <1>3, <1>4

LEMMA StoppedStep ==
    ASSUME Typed, Marked, Ownership, Recorded, Probed, Watch, Undisturbed, [Next]_vars,
           Typed', Recorded', Undisturbed', WatchedMove, NEW t \in Prompts, Stopped(t)
    PROVE  Stopped(t)'
<1>0. /\ None \notin Prompts /\ fence \in Fences /\ host.ran \subseteq Sent /\ ~HostExits
      /\ pc \in [Prompts -> [at : PromptSteps, client : Nat]]
  BY PromptFenceAssumption, SentArePrompts, ExitsGrow
     DEF Typed, FenceTyped, ThreadsTyped, Stoppers, Undisturbed
<1>1. NotCompleted(t)'
  <2>1. ASSUME fence.turn = t, fence.aborting # t, probes.settle = t, Recovers(t) PROVE FALSE
    <3>1. t \notin retired
      BY <2>1, SecondEnd DEF Watch, Guards, FailsItsTurn
    <3>2. fence.admission # t
      BY <1>0, <2>1 DEF Probed
    <3>3. t \in Sent
      BY <1>0, <2>1 DEF Recorded, TurnsRan
    <3>q. QED BY <2>1, <3>1, <3>2, <3>3 DEF Stopped, Never
  <2>2. ASSUME Heads(t), Bound(fence, t).aborting # t PROVE FALSE
    <3>1. t \notin retired /\ t \in Sent
      BY <1>0, <2>2 DEF Heads
    <3>2. ~fence.cancelled /\ fence.aborting # t
      BY <1>0, <2>2, StopMarks
    <3>q. QED BY <3>1, <3>2 DEF Stopped, Never
  <2>q. QED BY <1>0, <2>1, <2>2, Completes DEF Stopped, Ownership
<1>2. \/ t \in retired'
      \/ fence'.turn = t /\ fence'.aborting = t
      \/ fence'.admission = t /\ fence'.cancelled
      \/ Never(t)'
  <2>1. CASE t \in retired
    BY <2>1 DEF WatchedMove, Stays, Admits, HandsOff, Drops, BindsTurn, SteerBinds, EndsTurn,
                FencesTurn, Leaves, ClearsTurn, Same
  <2>2. CASE fence.turn = t /\ fence.aborting = t /\ t \notin retired
    <3>1. fence.admission \in {None, t}
      BY <1>0, <2>2 DEF Watch, Guards, OneAtATime
    <3>q. QED
      BY <1>0, <2>2, <3>1
         DEF WatchedMove, Stays, Admits, HandsOff, Drops, BindsTurn, SteerBinds, EndsTurn, FencesTurn,
             Leaves, ClearsTurn, Watch, Guards, FailsItsTurn, Typed, SessionTyped
  <2>3. CASE fence.admission = t /\ fence.cancelled
    <3>1. fence.turn \in {None, t}
      BY <1>0, <2>3 DEF Watch, Guards, OneAtATime
    <3>2. CASE Drops(t)
      <4>1. t \in retired' \/ (t \notin Sent' /\ pc'[t].at = "over")
        BY <3>2 DEF Drops, Same
      <4>q. QED BY <4>1 DEF Never, Early
    <3>3. CASE Stays \/ ClearsTurn
      BY <1>0, <2>3, <3>1, <3>3 DEF Stays, ClearsTurn, Watch, Guards, FailsItsTurn
    <3>4. ASSUME NEW p \in Prompts, Admits(p) \/ HandsOff(p) PROVE FALSE
      BY <1>0, <2>3, <3>4 DEF Admits, HandsOff
    <3>5. ASSUME NEW p \in Prompts, Drops(p) PROVE p = t
      BY <2>3, <3>5 DEF Drops
    <3>6. ASSUME NEW p \in Prompts, BindsTurn(p) \/ SteerBinds(p)
          PROVE  (fence'.turn = t /\ fence'.aborting = t) \/ (fence'.admission = t /\ fence'.cancelled)
      BY <2>3, <3>6 DEF BindsTurn, SteerBinds
    <3>7. ASSUME NEW p \in Prompts, EndsTurn(p) \/ FencesTurn(p) PROVE t \in retired'
      BY <1>0, <2>3, <3>1, <3>7 DEF EndsTurn, FencesTurn, Leaves
    <3>q. QED BY <3>2, <3>3, <3>4, <3>5, <3>6, <3>7 DEF WatchedMove
  <2>4. CASE Never(t)
    BY <2>4, NeverStays
  <2>q. QED BY <2>1, <2>2, <2>3, <2>4 DEF Stopped
<1>q. QED BY <1>1, <1>2 DEF Stopped

(* Together. *)

WatchInv == Typed /\ Marked /\ Ownership /\ Recorded /\ Probed /\ Watched /\ StopsMarked

LEMMA WatchInit == Init => WatchInv
<1> SUFFICES ASSUME Init PROVE WatchInv
  OBVIOUS
<1>1. Watch
  BY PromptFenceAssumption
     DEF Init, Watch, Guards, OneAtATime, Held, MarksItsTurn, FailsItsTurn, AbortedAdmission, Sent,
         Unfenced, Stoppers
<1>2. StopsMarked
  BY DEF Init, StopsMarked, Stoppers
<1>3. Probed
  BY DEF Init, Probed, Unfenced
<1>q. QED
  BY <1>1, <1>2, <1>3, TypedInit, OwnershipInit, RecordedInit DEF WatchInv, Watched

LEMMA WatchStep == WatchInv /\ [Next]_vars => WatchInv'
<1> SUFFICES ASSUME WatchInv, [Next]_vars PROVE WatchInv'
  OBVIOUS
<1>1. Typed' /\ Marked' /\ Ownership' /\ Recorded' /\ Probed'
  BY TypedStep, MarkedStep, OwnershipStep, RecordedStep, ProbedStep DEF WatchInv
<1>2. ASSUME Undisturbed'
      PROVE  /\ Watch' /\ WatchedMove /\ Undisturbed /\ Watch /\ client.exits = 0
             /\ \A s \in Stops : stops[s].target # None => Stopped(stops[s].target)
  <2>1. Undisturbed
    BY <1>2, UndisturbedBefore DEF WatchInv
  <2>2. WatchedMove
    BY <1>1, <1>2, <2>1, WatchedMoves DEF WatchInv, Watched
  <2>3. client.exits = 0 /\ ~HostExits
    BY <1>2, ExitsGrow DEF WatchInv, Undisturbed
  <2>4. Guards' /\ AbortedAdmission'
    BY <2>1, <2>2, <2>3, GuardsKept, AbortedAdmissionKept DEF WatchInv, Watched, Watch
  <2>q. QED BY <2>1, <2>2, <2>3, <2>4 DEF WatchInv, Watched, StopsMarked, Watch
<1>3. Watched'
  BY <1>2 DEF Watched
<1>4. ASSUME Undisturbed', NEW s \in Stops, NEW t, t = stops'[s].target, t # None
      PROVE  Stopped(t)'
  <2>1. CASE t = stops[s].target
    <3>1. Stopped(t) /\ t \in Prompts
      BY <1>2, <1>4, <2>1 DEF Stopped
    <3>q. QED BY <1>1, <1>2, <1>4, <3>1, StoppedStep DEF WatchInv
  <2>2. CASE t \in Prompts /\ t = fence.admission /\ t \in retired /\ UNCHANGED <<ended, late, retired>>
    <3>1. NotCompleted(t)
      BY <1>2, <1>4, <2>2 DEF Watch, AbortedAdmission
    <3>2. NotCompleted(t)'
      BY <2>2, <3>1 DEF NotCompleted
    <3>q. QED BY <2>2, <3>2 DEF Stopped
  <2>3. CASE t \in Prompts \ retired /\ UNCHANGED <<ended, late, retired>>
             /\ \/ fence'.turn = t /\ fence'.aborting = t
                \/ fence'.admission = t /\ fence'.cancelled
    <3>1. ended[t] = <<>> /\ \A l \in late : l.turn = t => l.as = "cancelled"
      BY <1>2, <1>4, <2>3 DEF WatchInv, Recorded, EndsAreRetired
    <3>2. NotCompleted(t)'
      BY <2>3, <3>1 DEF NotCompleted
    <3>q. QED BY <2>3, <3>2 DEF Stopped
  <2>q. QED BY <1>4, <2>1, <2>2, <2>3, TargetMoves DEF WatchInv
<1>5. StopsMarked'
  <2>1. ASSUME Undisturbed', NEW s \in Stops, stops'[s].target # None
        PROVE  \E t : t = stops'[s].target /\ Stopped(t)'
    BY <1>4, <2>1
  <2>q. QED BY <2>1 DEF StopsMarked, Stopped, NotCompleted, Never
<1>q. QED BY <1>1, <1>3, <1>5 DEF WatchInv

\* The Runtime never loses sight of a turn that the Host works on, nor leaves the mark
\* of a Stop behind for a later turn, for every number of prompts, of queued messages and
\* of Stops, until the Host exits, a turn is ended twice or a queued message brings an
\* ended turn back.
THEOREM NothingOrphaned == Spec => []NoOrphanTurn
<1>1. WatchInv => NoOrphanTurn
  <2> SUFFICES ASSUME WatchInv, Undisturbed
               PROVE  /\ host.turn \in retired \cup {None, fence.turn, fence.admission}
                      /\ fence.aborting \in {None, fence.turn}
    BY DEF NoOrphanTurn
  <2>1. host.turn \in Sent \cup {None}
    BY SentArePrompts DEF WatchInv, Ownership, Heard
  <2>q. QED BY <2>1 DEF WatchInv, Watched, Watch, Guards, Held, MarksItsTurn
<1>q. QED BY <1>1, WatchInit, WatchStep, PTL DEF Spec

\* A turn that a Stop was answered for is never shown as completed, whatever the answers,
\* the events, the timers and other Stops do first, until the Host exits, a turn is ended
\* twice or a queued message brings an ended turn back.
THEOREM StoppedForGood == Spec => []StoppedIsNotCompleted
<1>1. WatchInv => StoppedIsNotCompleted
  BY DEF WatchInv, StopsMarked, Stopped, NotCompleted, StoppedIsNotCompleted
<1>q. QED BY <1>1, WatchInit, WatchStep, PTL DEF Spec
=============================================================================
