---------------------- MODULE JevTaskControllerProofs ----------------------
(***************************************************************************)
(* Theorems about JevTaskController for every number of events, workers,     *)
(* views, generations and model calls.                                      *)
(***************************************************************************)
EXTENDS JevTaskController, FiniteSetTheorems, TLAPS

Snapshots == Nat \X Views \X BOOLEAN
Phases == {"evaluating", "decided", "applied", "failed", "superseded"}
Answers == Choices \cup {"none", "noop"}
Generations == [on : Snapshots, observed : Observations \cup {NoObservation},
                phase : Phases, answer : Answers]
Logs == [Events -> Seq(Generations)]

\* A worker on a generation waits for the model, or has its answer.
Post == {"apply", "finish", "conflict", "error"}
Working == {"decide"} \cup Post

Typed ==
    /\ log \in Logs /\ lease \in [Events -> BOOLEAN]
    /\ commands \subseteq [event : Events, gen : Nat \ {0}, on : Snapshots]
    /\ IsFiniteSet(commands)
    /\ view \in Views /\ inDoubt \in BOOLEAN
    /\ pc \in [Workers -> {"idle", "recover", "start"} \cup Working]
    /\ event \in [Workers -> Events \cup {None}]
    /\ seen \in [Workers -> Snapshots] /\ gen \in [Workers -> Nat]
    /\ choice \in [Workers -> Answers]
    /\ \A w \in Workers : pc[w] # "idle" => event[w] \in Events

LEMMA FingerprintType == Typed => Fingerprint \in Snapshots
  BY FS_CardinalityType DEF Typed, Fingerprint, Snapshots

(* What the two writes of a row do to the log. *)

LEMMA TransitionedShape ==
    ASSUME Typed, NEW e \in Events, Started(e), NEW phase \in Phases, NEW answer \in Answers
    PROVE  LET l == Transitioned(e, phase, answer)
               n == Len(log[e])
           IN /\ l \in Logs /\ n \in Nat \ {0} /\ Len(l[e]) = n
              /\ \A d \in Events : d # e => l[d] = log[d]
              /\ \A i \in 1..n : l[e][i].on = log[e][i].on /\ (i # n => l[e][i] = log[e][i])
              /\ l[e][n].phase = phase /\ l[e][n].answer = answer
              /\ Row(e).phase = phase /\ Row(e).answer = answer => l[e] = log[e]
<1> DEFINE n == Len(log[e])
           r == [log[e][n] EXCEPT !.phase = phase, !.answer = answer]
           s == [log[e] EXCEPT ![n] = r]
           l == Transitioned(e, phase, answer)
<1>1. log[e] \in Seq(Generations) /\ n \in Nat \ {0}
  BY DEF Typed, Logs, Started
<1>2. log[e][n] \in Generations
  BY <1>1
<1>3. r \in Generations /\ r.on = log[e][n].on /\ r.phase = phase /\ r.answer = answer
      /\ (log[e][n].phase = phase /\ log[e][n].answer = answer => r = log[e][n])
  BY <1>2 DEF Generations
<1>4. l = [log EXCEPT ![e] = s]
  BY DEF Transitioned
<1> HIDE DEF r
<1>5. s \in Seq(Generations) /\ Len(s) = n /\ s[n] = r /\ \A i \in 1..n : i # n => s[i] = log[e][i]
  BY <1>1, <1>3
<1>6. r = log[e][n] => s = log[e]
  BY <1>1
<1> HIDE DEF s
<1>7. l \in Logs /\ l[e] = s /\ \A d \in Events : d # e => l[d] = log[d]
  BY <1>4, <1>5 DEF Typed, Logs
<1>q. QED BY <1>1, <1>3, <1>5, <1>6, <1>7 DEF Row

LEMMA GrownShape ==
    ASSUME Typed, NEW w \in Workers, event[w] \in Events,
           NEW o \in Observations \cup {NoObservation},
           NEW phase \in Phases, NEW answer \in Answers,
           NextGeneration(w, o, phase, answer)
    PROVE  LET e == event[w]
               n == Len(log[e])
           IN /\ log' \in Logs /\ n \in Nat /\ Len(log'[e]) = n + 1
              /\ \A d \in Events : d # e => log'[d] = log[d]
              /\ \A i \in 1..n : log'[e][i].on = log[e][i].on /\ log'[e][i].answer = log[e][i].answer
              /\ log'[e][n+1].on = seen[w]
              /\ log'[e][n+1].phase = phase /\ log'[e][n+1].answer = answer
<1> DEFINE e == event[w]
           n == Len(log[e])
           r == [on |-> seen[w], observed |-> o, phase |-> phase, answer |-> answer]
           old == IF Phase(e) \in {"evaluating", "decided"}
                  THEN Transitioned(e, "superseded", Row(e).answer) ELSE log
<1>1. log' = [old EXCEPT ![e] = Append(@, r)]
  BY DEF NextGeneration
<1>2. e \in Events /\ n \in Nat /\ log[e] \in Seq(Generations) /\ r \in Generations
  <2>1. log[e] \in Seq(Generations) /\ seen[w] \in Snapshots
    BY DEF Typed, Logs
  <2>q. QED BY <2>1 DEF Generations
<1>3. /\ old \in Logs /\ Len(old[e]) = n
      /\ \A d \in Events : d # e => old[d] = log[d]
      /\ \A i \in 1..n : old[e][i].on = log[e][i].on /\ old[e][i].answer = log[e][i].answer
  <2>1. CASE Phase(e) \in {"evaluating", "decided"}
    <3>1. Started(e)
      BY <2>1 DEF Phase
    <3>2. Row(e) \in Generations
      BY <1>2, <3>1 DEF Row, Started
    <3>3. Row(e).answer \in Answers /\ "superseded" \in Phases
      BY <3>2 DEF Generations, Phases
    <3>4. Row(e) = log[e][n]
      BY DEF Row
    <3> DEFINE l == Transitioned(e, "superseded", Row(e).answer)
    <3>5. /\ l \in Logs /\ Len(l[e]) = n
          /\ \A d \in Events : d # e => l[d] = log[d]
          /\ \A i \in 1..n : l[e][i].on = log[e][i].on /\ (i # n => l[e][i] = log[e][i])
          /\ l[e][n].answer = Row(e).answer
      BY <1>2, <3>1, <3>3, TransitionedShape
    <3>6. old = l
      BY <2>1
    <3> HIDE DEF l, old
    <3>q. QED BY <3>4, <3>5, <3>6
  <2>2. CASE Phase(e) \notin {"evaluating", "decided"}
    <3>1. old = log
      BY <2>2
    <3>q. QED BY <3>1, <1>2 DEF Typed
  <2>q. QED BY <2>1, <2>2
<1> HIDE DEF old, r
<1>4. old[e] \in Seq(Generations)
  BY <1>2, <1>3 DEF Logs
<1>5. /\ log' \in Logs /\ log'[e] = Append(old[e], r)
      /\ \A d \in Events : d # e => log'[d] = old[d]
  BY <1>1, <1>2, <1>3, <1>4 DEF Logs
<1>6. Len(log'[e]) = n + 1 /\ log'[e][n+1] = r /\ \A i \in 1..n : log'[e][i] = old[e][i]
  BY <1>2, <1>3, <1>4, <1>5
<1>7. r.on = seen[w] /\ r.phase = phase /\ r.answer = answer
  BY DEF r
<1>q. QED BY <1>2, <1>3, <1>5, <1>6, <1>7

-----------------------------------------------------------------------------
(* The inductive invariant. *)

\* A worker's generation is one of its event, on the snapshot it saw.
OnItsSnapshot ==
    \A w \in Workers : pc[w] \in Working =>
        gen[w] \in 1..Len(log[event[w]]) /\ log[event[w]][gen[w]].on = seen[w]

\* Only the worker that opened a generation asks the model for it, alone.
AsksAlone ==
    \A w \in Workers : pc[w] = "decide" =>
        /\ gen[w] = Len(log[event[w]]) => Row(event[w]).phase = "evaluating"
        /\ \A v \in Workers \ {w} :
              pc[v] \in Working /\ event[v] = event[w] => gen[v] # gen[w]

\* The workers past it share its answer, which stays the row's while the row is decided
\* or settled.
ShareTheAnswer ==
    \A w \in Workers : pc[w] \in Post =>
        /\ gen[w] = Len(log[event[w]]) =>
               /\ Row(event[w]).phase # "evaluating"
               /\ Row(event[w]).phase \in {"decided", "applied"} => choice[w] = Row(event[w]).answer
        /\ \A v \in Workers :
              pc[v] \in Post /\ event[v] = event[w] /\ gen[v] = gen[w] => choice[v] = choice[w]

\* A worker finishes a command that was committed.
FinishesACommit ==
    \A w \in Workers : pc[w] = "finish" /\ choice[w] = "command" =>
        \E c \in commands : c.event = event[w] /\ c.gen = gen[w]

\* The receipts and the commands.
Settled ==
    \A e \in Events :
        /\ Started(e) /\ Row(e).phase = "applied" => (Row(e).answer = "command" <=> Committed(e))
        /\ \A c \in commands : c.event = e =>
              /\ Started(e) /\ Row(e).phase \in {"decided", "applied"} /\ Row(e).answer = "command"
              /\ c.gen = Len(log[e]) /\ c.on = Row(e).on

WInv == OnItsSnapshot /\ AsksAlone /\ ShareTheAnswer /\ FinishesACommit
IInv == Typed /\ WInv /\ OneCommandPerEvent /\ Settled

LEMMA InitInv == Init => IInv
<1> SUFFICES ASSUME Init PROVE IInv
  OBVIOUS
<1>1. IsFiniteSet(commands) /\ commands = {}
  BY FS_EmptySet DEF Init
<1>2. Fingerprint \in Snapshots
  <2>1. Cardinality(commands) = 0
    BY <1>1, FS_EmptySet
  <2>2. view \in Views /\ inDoubt \in BOOLEAN
    BY DEF Init
  <2>q. QED BY <2>1, <2>2 DEF Fingerprint, Snapshots
<1>3. Typed
  <2>1. log \in Logs /\ lease \in [Events -> BOOLEAN]
    BY DEF Init, Logs
  <2>2. seen \in [Workers -> Snapshots]
    BY <1>2 DEF Init
  <2>q. QED BY <1>1, <2>1, <2>2 DEF Init, Typed, Answers
<1>4. WInv
  BY DEF Init, WInv, OnItsSnapshot, AsksAlone, ShareTheAnswer, FinishesACommit, Working, Post
<1>5. OneCommandPerEvent /\ Settled
  BY <1>1 DEF Init, OneCommandPerEvent, Settled, Started
<1>q. QED BY <1>3, <1>4, <1>5 DEF IInv

\* A receipt that is found is that of a settled row, or of a commit that the decided row
\* has not heard of.
LEMMA Recovery ==
    ASSUME IInv, NEW e \in Events, HasReceipt(e), RecoverReceipt(e)
    PROVE  \/ log' = log /\ Row(e).phase = "applied"
           \/ /\ log' = Transitioned(e, "applied", "command") /\ Started(e) /\ Committed(e)
              /\ Row(e).phase = "decided" /\ Row(e).answer = "command"
<1>1. Started(e) /\ Phase(e) = Row(e).phase
  BY DEF HasReceipt, Phase
<1>2. CASE Phase(e) = "applied"
  BY <1>1, <1>2 DEF RecoverReceipt
<1>3. CASE Phase(e) # "applied"
  <2>1. Committed(e)
    BY <1>3 DEF HasReceipt
  <2>2. Row(e).phase \in {"decided", "applied"} /\ Row(e).answer = "command"
    BY <2>1 DEF IInv, Settled, Committed
  <2>q. QED BY <1>1, <1>3, <2>1, <2>2 DEF RecoverReceipt
<1>q. QED BY <1>2, <1>3

LEMMA NoReceipt ==
    ASSUME IInv, NEW e \in Events, ~HasReceipt(e)
    PROVE  ~Committed(e) /\ (Started(e) => Row(e).phase # "applied")
  BY DEF IInv, Settled, Committed, HasReceipt, Phase

\* A worker that leaves, or goes on without a write.
Lone(w) ==
    \A v \in Workers \ {w} :
        /\ pc'[v] = pc[v] /\ event'[v] = event[v] /\ seen'[v] = seen[v]
        /\ gen'[v] = gen[v] /\ choice'[v] = choice[v]

LEMMA LeaveShape ==
    ASSUME Typed, NEW w \in Workers, Leave(w)
    PROVE  /\ Lone(w) /\ pc'[w] = "idle" /\ seen' = seen
           /\ pc' \in [Workers -> {"idle", "recover", "start"} \cup Working]
           /\ event' \in [Workers -> Events \cup {None}] /\ gen' \in [Workers -> Nat]
           /\ choice' \in [Workers -> Answers]
           /\ \A v \in Workers : pc'[v] # "idle" => event'[v] \in Events
  BY DEF Typed, Leave, Lone, Answers

\* What a worker does to a row that others may be working on.
Agreeable(w) ==
    \A v \in Workers \ {w} : pc[v] \in Working =>
        LET d == event[v]
            n == Len(log[d])
        IN /\ Len(log'[d]) >= n
           /\ \A i \in 1..n : log'[d][i].on = log[d][i].on
           /\ gen[v] = Len(log'[d]) =>
                \/ log'[d] = log[d]
                \/ /\ pc[v] # "decide" /\ log'[d][n].phase # "evaluating"
                   /\ log'[d][n].phase \in {"decided", "applied"} => choice[v] = log'[d][n].answer

\* What holds of a worker.
WorkerInv(w) ==
    /\ pc[w] \in Working =>
          gen[w] \in 1..Len(log[event[w]]) /\ log[event[w]][gen[w]].on = seen[w]
    /\ pc[w] = "decide" /\ gen[w] = Len(log[event[w]]) => Row(event[w]).phase = "evaluating"
    /\ pc[w] \in Post /\ gen[w] = Len(log[event[w]]) =>
          /\ Row(event[w]).phase # "evaluating"
          /\ Row(event[w]).phase \in {"decided", "applied"} => choice[w] = Row(event[w]).answer
    /\ pc[w] = "finish" /\ choice[w] = "command" =>
          \E c \in commands : c.event = event[w] /\ c.gen = gen[w]
    /\ \A v \in Workers \ {w} :
          pc[w] \in Working /\ pc[v] \in Working /\ event[v] = event[w] /\ gen[v] = gen[w] =>
              /\ pc[w] # "decide" /\ pc[v] # "decide" /\ choice[v] = choice[w]

LEMMA OthersGoOn ==
    ASSUME IInv, Typed', NEW w \in Workers, Lone(w), Agreeable(w), commands \subseteq commands',
           WorkerInv(w)'
    PROVE  WInv'
<1> USE DEF IInv, WInv, OnItsSnapshot, AsksAlone, ShareTheAnswer, FinishesACommit, Lone, WorkerInv, Post, Working, Row
<1>0. \A v \in Workers \ {w} : pc[v] \in Working => event[v] \in Events
  BY DEF Typed
<1>1. OnItsSnapshot'
  BY <1>0 DEF Agreeable
<1>2. AsksAlone'
  BY <1>0 DEF Agreeable
<1>3. ShareTheAnswer'
  <2> SUFFICES ASSUME NEW u \in Workers, pc'[u] \in Post
               PROVE  /\ gen'[u] = Len(log'[event'[u]]) =>
                            LET r == log'[event'[u]][Len(log'[event'[u]])]
                            IN /\ r.phase # "evaluating"
                               /\ r.phase \in {"decided", "applied"} => choice'[u] = r.answer
                      /\ \A v \in Workers :
                            pc'[v] \in Post /\ event'[v] = event'[u] /\ gen'[v] = gen'[u]
                                => choice'[v] = choice'[u]
    OBVIOUS
  <2>1. CASE u = w
    BY <2>1
  <2>2. CASE u # w
    <3>1. /\ pc'[u] = pc[u] /\ event'[u] = event[u] /\ gen'[u] = gen[u] /\ choice'[u] = choice[u]
          /\ event[u] \in Events /\ gen[u] <= Len(log[event[u]])
      BY <1>0, <2>2
    <3>2. log \in Logs /\ log' \in Logs /\ gen[u] \in Nat
      BY DEF Typed
    <3>3. Len(log[event[u]]) \in Nat /\ Len(log'[event[u]]) \in Nat
      BY <3>1, <3>2 DEF Logs
    <3>4. gen'[u] = Len(log'[event'[u]]) => Len(log'[event[u]]) = Len(log[event[u]])
      BY <2>2, <3>1, <3>2, <3>3 DEF Agreeable
    <3>5. gen'[u] = Len(log'[event'[u]]) =>
             LET r == log'[event'[u]][Len(log'[event'[u]])]
             IN /\ r.phase # "evaluating"
                /\ r.phase \in {"decided", "applied"} => choice'[u] = r.answer
      BY <2>2, <3>1, <3>4 DEF Agreeable
    <3>6. ASSUME NEW v \in Workers, pc'[v] \in Post, event'[v] = event'[u], gen'[v] = gen'[u]
          PROVE  choice'[v] = choice'[u]
      <4>1. CASE v = w
        BY <2>2, <3>6, <4>1
      <4>2. CASE v # w
        BY <2>2, <3>1, <3>6, <4>2
      <4>q. QED BY <4>1, <4>2
    <3>q. QED BY <3>5, <3>6
  <2>q. QED BY <2>1, <2>2
<1>4. FinishesACommit'
  BY <1>0
<1>q. QED BY <1>1, <1>2, <1>3, <1>4

(* The writes, each for a worker whose own part of the invariant is known. *)

LEMMA NoWrite ==
    ASSUME IInv, Typed', NEW w \in Workers, Lone(w), UNCHANGED <<log, commands>>, WorkerInv(w)'
    PROVE  IInv'
<1>1. Agreeable(w)
  BY DEF Agreeable, IInv, Typed, Logs
<1>2. WInv'
  BY <1>1, OthersGoOn
<1>3. OneCommandPerEvent' /\ Settled'
  BY DEF IInv, OneCommandPerEvent, Settled, Started, Row, Committed
<1>q. QED BY <1>2, <1>3 DEF IInv

LEMMA Quits ==
    ASSUME NEW w \in Workers, pc'[w] \notin Working
    PROVE  WorkerInv(w)'
  BY DEF WorkerInv, Working, Post

LEMMA RecoverStep ==
    ASSUME IInv, NEW w \in Workers, Leave(w), NEW e \in Events, HasReceipt(e), RecoverReceipt(e),
           UNCHANGED <<lease, commands, environment>>
    PROVE  IInv'
<1>1. /\ Lone(w) /\ pc'[w] = "idle" /\ WorkerInv(w)'
      /\ pc' \in [Workers -> {"idle", "recover", "start"} \cup Working]
      /\ event' \in [Workers -> Events \cup {None}] /\ gen' \in [Workers -> Nat]
      /\ seen' = seen /\ choice' \in [Workers -> Answers]
      /\ \A v \in Workers : pc'[v] # "idle" => event'[v] \in Events
  BY LeaveShape, Quits DEF IInv, Working, Post
<1>2. CASE log' = log
  <2>1. Typed'
    BY <1>1, <1>2 DEF IInv, Typed, environment
  <2>q. QED BY <1>1, <1>2, <2>1, NoWrite
<1>3. CASE /\ log' = Transitioned(e, "applied", "command") /\ Started(e) /\ Committed(e)
           /\ Row(e).phase = "decided" /\ Row(e).answer = "command"
  <2> DEFINE n == Len(log[e])
  <2>1. /\ log' \in Logs /\ n \in Nat \ {0} /\ Len(log'[e]) = n
        /\ \A d \in Events : d # e => log'[d] = log[d]
        /\ \A i \in 1..n : log'[e][i].on = log[e][i].on
        /\ log'[e][n].phase = "applied" /\ log'[e][n].answer = "command"
    <3>1. Typed /\ "applied" \in Phases /\ "command" \in Answers
      BY DEF IInv, Phases, Answers, Choices
    <3>2. Started(e) /\ log' = Transitioned(e, "applied", "command")
      BY <1>3
    <3>q. QED BY <3>1, <3>2, TransitionedShape
  <2>2. Typed'
    BY <1>1, <2>1 DEF IInv, Typed, environment
  <2>3. Agreeable(w)
    <3> SUFFICES ASSUME NEW v \in Workers \ {w}, pc[v] \in Working
                 PROVE  LET d == event[v]  m == Len(log[d]) IN
                          /\ Len(log'[d]) >= m
                          /\ \A i \in 1..m : log'[d][i].on = log[d][i].on
                          /\ gen[v] = Len(log'[d]) =>
                               \/ log'[d] = log[d]
                               \/ /\ pc[v] # "decide" /\ log'[d][m].phase # "evaluating"
                                  /\ log'[d][m].phase \in {"decided", "applied"} => choice[v] = log'[d][m].answer
      BY DEF Agreeable
    <3>1. event[v] \in Events /\ Len(log[event[v]]) \in Nat
      BY DEF IInv, Typed, Logs, Working, Post
    <3>2. CASE event[v] # e
      BY <2>1, <3>1, <3>2
    <3>3. CASE event[v] = e
      <4>1. gen[v] = n => pc[v] # "decide" /\ choice[v] = "command"
        BY <1>3, <3>3 DEF IInv, WInv, AsksAlone, ShareTheAnswer, Working, Row
      <4>q. QED BY <2>1, <3>3, <4>1
    <3>q. QED BY <3>2, <3>3
  <2>4. WInv'
    BY <1>1, <2>2, <2>3, OthersGoOn
  <2>5. Settled' /\ OneCommandPerEvent'
    BY <1>3, <2>1 DEF IInv, Settled, OneCommandPerEvent, Started, Row, Committed
  <2>q. QED BY <2>2, <2>4, <2>5 DEF IInv
<1>q. QED BY <1>2, <1>3, Recovery

LEMMA GrowStep ==
    ASSUME IInv, Typed', NEW w \in Workers, Lone(w), event[w] \in Events, ~HasReceipt(event[w]),
           NEW o \in Observations \cup {NoObservation}, NEW phase \in Phases, NEW answer \in Answers,
           NextGeneration(w, o, phase, answer), phase = "applied" => answer # "command",
           commands' = commands, WorkerInv(w)'
    PROVE  IInv'
<1> DEFINE e == event[w]
           n == Len(log[e])
<1>1. /\ n \in Nat /\ Len(log'[e]) = n + 1
      /\ \A d \in Events : d # e => log'[d] = log[d]
      /\ \A i \in 1..n : log'[e][i].on = log[e][i].on
      /\ log'[e][n+1].phase = phase /\ log'[e][n+1].answer = answer
  BY GrownShape DEF IInv
<1>2. ~Committed(e)
  BY NoReceipt
<1>3. Agreeable(w)
  <2> SUFFICES ASSUME NEW v \in Workers \ {w}, pc[v] \in Working
               PROVE  LET d == event[v]  m == Len(log[d]) IN
                          /\ Len(log'[d]) >= m
                          /\ \A i \in 1..m : log'[d][i].on = log[d][i].on
                          /\ gen[v] = Len(log'[d]) => log'[d] = log[d]
    BY DEF Agreeable
  <2>1. event[v] \in Events /\ Len(log[event[v]]) \in Nat /\ gen[v] \in 1..Len(log[event[v]])
    BY DEF IInv, Typed, Logs, Working, Post, WInv, OnItsSnapshot
  <2>2. CASE event[v] # e
    BY <1>1, <2>1, <2>2
  <2>3. CASE event[v] = e
    BY <1>1, <2>1, <2>3
  <2>q. QED BY <2>2, <2>3
<1>4. WInv'
  BY <1>3, OthersGoOn
<1>5. Settled' /\ OneCommandPerEvent'
  <2> HIDE DEF e
  <2>1. \A c \in commands : c.event # e
    BY <1>2 DEF Committed
  <2>2. OneCommandPerEvent'
    BY DEF IInv, OneCommandPerEvent
  <2>3. Settled'
    BY <1>1, <2>1 DEF IInv, Settled, Started, Row, Committed
  <2>q. QED BY <2>2, <2>3
<1>q. QED BY <1>4, <1>5 DEF IInv

\* A worker that writes its current row: nobody else asks the model for it, and those
\* who share its answer agree with what it writes.
LEMMA TransitionStep ==
    ASSUME IInv, Typed', NEW w \in Workers, Lone(w), event[w] \in Events, pc[w] \in Working,
           gen[w] = Len(log[event[w]]),
           NEW phase \in Phases \ {"evaluating"}, NEW answer \in Answers,
           log' = Transitioned(event[w], phase, answer),
           phase \in {"decided", "applied"} => pc[w] = "decide" \/ answer = choice[w],
           pc[w] = "decide" \/ phase \in {"decided", "applied"} \/ ~Committed(event[w]),
           phase = "applied" => pc[w] = "finish",
           commands' = commands, WorkerInv(w)'
    PROVE  IInv'
<1> DEFINE e == event[w]
           n == Len(log[e])
<1>0. Started(e) /\ n \in Nat \ {0}
  <2>1. n \in Nat /\ gen[w] \in 1..n
    BY DEF IInv, WInv, OnItsSnapshot, Typed, Logs
  <2>q. QED BY <2>1 DEF Started
<1>1. /\ Len(log'[e]) = n
      /\ \A d \in Events : d # e => log'[d] = log[d]
      /\ \A i \in 1..n : log'[e][i].on = log[e][i].on
      /\ log'[e][n].phase = phase /\ log'[e][n].answer = answer
  BY <1>0, TransitionedShape DEF IInv
<1>2. ASSUME NEW v \in Workers \ {w}, pc[v] \in Working, event[v] = e, gen[v] = n
      PROVE  pc[v] \in Post /\ pc[w] \in Post /\ choice[v] = choice[w]
  BY <1>2 DEF IInv, WInv, AsksAlone, ShareTheAnswer, Working
<1>3. Agreeable(w)
  <2> SUFFICES ASSUME NEW v \in Workers \ {w}, pc[v] \in Working
               PROVE  LET d == event[v]  m == Len(log[d]) IN
                        /\ Len(log'[d]) >= m
                        /\ \A i \in 1..m : log'[d][i].on = log[d][i].on
                        /\ gen[v] = Len(log'[d]) =>
                             \/ log'[d] = log[d]
                             \/ /\ pc[v] # "decide" /\ log'[d][m].phase # "evaluating"
                                /\ log'[d][m].phase \in {"decided", "applied"} => choice[v] = log'[d][m].answer
    BY DEF Agreeable
  <2>1. event[v] \in Events /\ Len(log[event[v]]) \in Nat
    BY DEF IInv, Typed, Logs, Working, Post
  <2>2. CASE event[v] # e
    BY <1>1, <2>1, <2>2
  <2>3. CASE event[v] = e
    BY <1>0, <1>1, <1>2, <2>3 DEF Post
  <2>q. QED BY <2>2, <2>3
<1>4. WInv'
  BY <1>3, OthersGoOn
<1>5. OneCommandPerEvent'
  BY DEF IInv, OneCommandPerEvent
<1>6. \A c \in commands : c.event = e =>
          /\ phase \in {"decided", "applied"} /\ answer = "command"
          /\ c.gen = n /\ c.on = log[e][n].on
  <2> SUFFICES ASSUME NEW c \in commands, c.event = e
               PROVE  /\ phase \in {"decided", "applied"} /\ answer = "command"
                      /\ c.gen = n /\ c.on = log[e][n].on
    OBVIOUS
  <2>1. /\ Row(e).phase \in {"decided", "applied"} /\ Row(e).answer = "command"
        /\ c.gen = n /\ c.on = log[e][n].on /\ Committed(e)
    BY DEF IInv, Settled, Row, Committed
  <2>2. pc[w] # "decide"
    BY <2>1 DEF IInv, WInv, AsksAlone
  <2>3. choice[w] = "command"
    BY <2>1, <2>2 DEF IInv, WInv, ShareTheAnswer, Working
  <2>q. QED BY <2>1, <2>2, <2>3
<1>7. phase = "applied" /\ answer = "command" => \E c \in commands : c.event = e
  BY DEF IInv, WInv, FinishesACommit
<1>8. Settled'
  BY <1>0, <1>1, <1>6, <1>7 DEF IInv, Settled, Started, Row, Committed
<1>q. QED BY <1>4, <1>5, <1>8 DEF IInv

LEMMA OwnInv == ASSUME WInv, NEW w \in Workers PROVE WorkerInv(w)
  BY DEF WInv, OnItsSnapshot, AsksAlone, ShareTheAnswer, FinishesACommit, WorkerInv, Working, Post

LEMMA LeaveStep ==
    ASSUME IInv, NEW w \in Workers, Leave(w), UNCHANGED <<database, environment>>
    PROVE  IInv'
<1>1. Typed'
  BY LeaveShape DEF IInv, Typed, database, environment
<1>q. QED BY <1>1, LeaveShape, Quits, NoWrite DEF IInv, Working, Post, database

LEMMA RefusedStep ==
    ASSUME IInv, NEW w \in Workers, event[w] \in Events, StartRefused(w),
           UNCHANGED <<commands, environment>>
    PROVE  IInv'
  BY RecoverStep, LeaveStep DEF StartRefused, database

LEMMA InvStep == IInv /\ [Next]_vars => IInv'
<1> SUFFICES ASSUME IInv, [Next]_vars PROVE IInv'
  OBVIOUS
<1>0. Typed /\ WInv /\ ("start" \notin Working /\ "recover" \notin Working /\ "idle" \notin Working)
  BY DEF IInv, Working, Post
<1>1. ASSUME NEW w \in Workers, NEW e \in Events, Take(w, e) PROVE IInv'
  <2>1. Typed'
    BY <1>0, <1>1, FingerprintType DEF Take, Typed, database, environment, Goto
  <2>2. Lone(w) /\ pc'[w] \notin Working
    BY <1>0, <1>1 DEF Take, Goto, Lone, Typed
  <2>q. QED BY <1>1, <2>1, <2>2, Quits, NoWrite DEF Take, database
<1>2. ASSUME NEW w \in Workers, EventReceipt(w) PROVE IInv'
  <2>1. event[w] \in Events
    BY <1>0, <1>2 DEF EventReceipt, Typed
  <2>2. CASE Goto(w, "start") /\ UNCHANGED <<log, event, seen, gen, choice>>
    <3>1. Typed' /\ Lone(w) /\ pc'[w] \notin Working
      BY <1>0, <1>2, <2>1, <2>2 DEF EventReceipt, Typed, Goto, Lone, environment
    <3>q. QED BY <1>2, <2>2, <3>1, Quits, NoWrite DEF EventReceipt
  <2>q. QED BY <1>2, <2>1, <2>2, RecoverStep, LeaveStep DEF EventReceipt, database
<1>3. ASSUME NEW w \in Workers, NEW o \in Observations, Start(w, o) PROVE IInv'
  <2> DEFINE e == event[w]
             n == Len(log[e])
  <2>1. e \in Events /\ n \in Nat
    BY <1>0, <1>3 DEF Start, Typed, Logs
  <2>2. CASE StartRefused(w)
    BY <1>3, <2>1, <2>2, RefusedStep DEF Start
  <2>3. CASE /\ Reusable(w, o)
             /\ gen' = [gen EXCEPT ![w] = n] /\ choice' = [choice EXCEPT ![w] = Row(e).answer]
             /\ Goto(w, "apply") /\ UNCHANGED <<log, lease, event, seen>>
    <3>1. Started(e) /\ Row(e) = log[e][n] /\ n \in 1..n /\ Row(e).phase = "decided" /\ Row(e).on = seen[w]
      BY <2>1, <2>3 DEF Reusable, Phase, Started, Row, Typed, Logs
    <3>2. Row(e).answer \in Answers
      <4>1. log[e][n] \in Generations
        BY <1>0, <2>1, <3>1 DEF Typed, Logs
      <4>q. QED BY <3>1, <4>1 DEF Generations
    <3>3. Typed' /\ Lone(w)
      BY <1>0, <1>3, <2>1, <2>3, <3>2 DEF Start, Typed, Goto, Lone, Working, Post, environment
    <3>4. WorkerInv(w)'
      <4>1. pc'[w] = "apply" /\ gen'[w] = n /\ choice'[w] = Row(e).answer
            /\ event' = event /\ seen' = seen /\ log' = log
        BY <1>0, <2>3 DEF Goto, Typed
      <4>2. ASSUME NEW v \in Workers \ {w}, pc[v] \in Working, event[v] = e, gen[v] = n
            PROVE  pc[v] # "decide" /\ choice[v] = Row(e).answer
        BY <1>0, <3>1, <4>2 DEF WInv, AsksAlone, ShareTheAnswer, Working
      <4>q. QED BY <3>1, <3>3, <4>1, <4>2 DEF WorkerInv, Working, Post, Row, Lone
    <3>q. QED BY <1>3, <2>3, <3>3, <3>4, NoWrite DEF Start
  <2>4. CASE /\ ~HasReceipt(e) /\ NextGeneration(w, o, "evaluating", "none")
             /\ lease' = [lease EXCEPT ![e] = TRUE] /\ gen' = [gen EXCEPT ![w] = n + 1]
             /\ Goto(w, "decide") /\ UNCHANGED <<event, seen, choice>>
    <3>1. "evaluating" \in Phases /\ "none" \in Answers
      BY DEF Phases, Answers
    <3>2. /\ log' \in Logs /\ Len(log'[e]) = n + 1
          /\ log'[e][n+1].on = seen[w] /\ log'[e][n+1].phase = "evaluating"
      BY <1>0, <2>1, <2>4, <3>1, GrownShape
    <3>3. Typed' /\ Lone(w)
      BY <1>0, <1>3, <2>1, <2>4, <3>2 DEF Start, Typed, Goto, Lone, Working, environment
    <3>4. WorkerInv(w)'
      <4>1. pc'[w] = "decide" /\ gen'[w] = n + 1 /\ event' = event /\ seen' = seen
        BY <1>0, <2>4 DEF Goto, Typed
      <4>2. ASSUME NEW v \in Workers \ {w}, pc[v] \in Working, event[v] = e
            PROVE  gen[v] # n + 1
        BY <1>0, <2>1, <4>2 DEF WInv, OnItsSnapshot
      <4>q. QED BY <2>1, <3>2, <3>3, <4>1, <4>2 DEF WorkerInv, Working, Post, Row, Lone
    <3>q. QED BY <1>3, <2>1, <2>4, <3>1, <3>3, <3>4, GrowStep DEF Start
  <2>q. QED BY <1>3, <2>2, <2>3, <2>4, LeaveStep DEF Start, StartAllowed, database
<1>4. ASSUME NEW w \in Workers, RecordNoop(w) PROVE IInv'
  <2>1. event[w] \in Events
    BY <1>0, <1>4 DEF RecordNoop, Typed
  <2>2. CASE /\ ~HasReceipt(event[w]) /\ NextGeneration(w, NoObservation, "applied", "noop")
             /\ Leave(w) /\ UNCHANGED lease
    <3>1. "applied" \in Phases /\ "noop" \in Answers
      BY DEF Phases, Answers
    <3>2. log' \in Logs
      BY <1>0, <2>1, <2>2, <3>1, GrownShape
    <3>3. Typed' /\ Lone(w) /\ pc'[w] \notin Working
      BY <1>0, <1>4, <2>2, <3>2, LeaveShape DEF RecordNoop, Typed, environment
    <3>q. QED BY <1>4, <2>1, <2>2, <3>1, <3>3, Quits, GrowStep DEF RecordNoop
  <2>q. QED BY <1>4, <2>1, <2>2, RefusedStep DEF RecordNoop, StartAllowed
<1>5. ASSUME NEW w \in Workers, Decide(w) PROVE IInv'
  <2>1. event[w] \in Events /\ pc[w] = "decide"
    BY <1>0, <1>5 DEF Decide, Typed
  <2>2. PICK c \in Choices : /\ Transition(w, "decided", c)
                             /\ IF Current(w)
                                THEN /\ choice' = [choice EXCEPT ![w] = c]
                                     /\ Goto(w, "apply") /\ UNCHANGED <<event, seen, gen>>
                                ELSE Leave(w)
    BY <1>5 DEF Decide
  <2>3. CASE Current(w)
    <3> DEFINE e == event[w]
               n == Len(log[e])
    <3>1. /\ log' = Transitioned(e, "decided", c) /\ choice' = [choice EXCEPT ![w] = c]
          /\ Goto(w, "apply") /\ UNCHANGED <<event, seen, gen>> /\ gen[w] = n
      BY <2>2, <2>3 DEF Transition, Current
    <3>2. "decided" \in Phases \ {"evaluating"} /\ c \in Answers
      BY DEF Phases, Answers
    <3>3. Started(e)
      BY <1>0, <2>1, <3>1 DEF WInv, OnItsSnapshot, Working, Started
    <3>4. /\ log' \in Logs /\ Len(log'[e]) = n /\ log'[e][n].on = log[e][n].on /\ n \in Nat \ {0}
          /\ log'[e][n].phase = "decided" /\ log'[e][n].answer = c
      BY <1>0, <2>1, <3>1, <3>2, <3>3, TransitionedShape
    <3>5. Typed' /\ Lone(w)
      BY <1>0, <1>5, <2>1, <3>1, <3>2, <3>4 DEF Decide, Typed, Goto, Lone, Working, Post, environment
    <3>6. WorkerInv(w)'
      <4>1. pc'[w] = "apply" /\ gen'[w] = n /\ choice'[w] = c /\ event' = event /\ seen' = seen
        BY <1>0, <3>1 DEF Goto, Typed
      <4>2. ASSUME NEW v \in Workers \ {w}, pc[v] \in Working, event[v] = e
            PROVE  gen[v] # n
        BY <1>0, <2>1, <3>1, <4>2 DEF WInv, AsksAlone, Working
      <4>3. log[e][n].on = seen[w]
        BY <1>0, <2>1, <3>1 DEF WInv, OnItsSnapshot, Working
      <4>q. QED BY <3>1, <3>4, <3>5, <4>1, <4>2, <4>3 DEF WorkerInv, Working, Post, Row, Lone
    <3>q. QED BY <1>5, <2>1, <3>1, <3>2, <3>5, <3>6, TransitionStep DEF Decide, Working
  <2>4. CASE ~Current(w)
    BY <1>5, <2>2, <2>4, LeaveStep DEF Decide, Transition, database
  <2>q. QED BY <2>3, <2>4
<1>6. ASSUME NEW w \in Workers, DecisionUnavailable(w) PROVE IInv'
  <2>1. event[w] \in Events /\ pc[w] = "decide" /\ pc[w] \in Working
    BY <1>0, <1>6 DEF DecisionUnavailable, Typed, Working
  <2>2. CASE Current(w)
    <3>1. log' = Transitioned(event[w], "failed", "none") /\ gen[w] = Len(log[event[w]])
      BY <1>6, <2>2 DEF DecisionUnavailable, Transition, Current
    <3>2. "failed" \in Phases \ {"evaluating"} /\ "none" \in Answers
      BY DEF Phases, Answers
    <3>3. Started(event[w])
      BY <1>0, <2>1, <3>1 DEF WInv, OnItsSnapshot, Started
    <3>4. log' \in Logs
      BY <1>0, <2>1, <3>1, <3>2, <3>3, TransitionedShape
    <3>5. Typed' /\ Lone(w) /\ pc'[w] \notin Working
      BY <1>0, <1>6, <3>4, LeaveShape DEF DecisionUnavailable, Typed, environment
    <3>q. QED BY <1>6, <2>1, <3>1, <3>2, <3>5, Quits, TransitionStep DEF DecisionUnavailable
  <2>3. CASE ~Current(w)
    BY <1>6, <2>3, LeaveStep DEF DecisionUnavailable, Transition, database
  <2>q. QED BY <2>2, <2>3
<1>7. ASSUME NEW w \in Workers, ApplyWait(w) \/ ApplyFails(w) PROVE IInv'
  <2>1. /\ pc[w] = "apply" /\ UNCHANGED <<log, commands, lease, view, inDoubt, event, seen, gen, choice>>
        /\ \E l \in Post : /\ l = "finish" => choice[w] # "command"
                           /\ pc' = [pc EXCEPT ![w] = l]
    BY <1>7 DEF ApplyWait, ApplyFails, Goto, database, environment, Post
  <2>2. Typed' /\ Lone(w)
    BY <1>0, <2>1 DEF Typed, Lone, Working
  <2>3. WorkerInv(w)'
    BY <1>0, <2>1, OwnInv DEF WorkerInv, Typed, Working, Post, Row
  <2>q. QED BY <2>1, <2>2, <2>3, NoWrite
<1>8. ASSUME NEW w \in Workers, ApplyCommand(w) PROVE IInv'
  <2> DEFINE e == event[w]
             n == Len(log[e])
             c == [event |-> e, gen |-> gen[w], on |-> Fingerprint]
  <2>0. /\ pc[w] = "apply" /\ choice[w] = "command" /\ e \in Events /\ pc[w] \in Working
        /\ UNCHANGED <<log, lease, view, inDoubt, event, seen, gen, choice>>
    BY <1>0, <1>8 DEF ApplyCommand, Typed, environment, Working, Post
  <2>1. PICK l \in Post : pc' = [pc EXCEPT ![w] = l]
    BY <1>8 DEF ApplyCommand, Goto, Post
  <2>2. Lone(w) /\ pc'[w] \in Post
    BY <1>0, <2>0, <2>1 DEF Lone, Typed
  <2>3. gen[w] \in 1..n /\ log[e][gen[w]].on = seen[w]
    BY <1>0, <2>0 DEF WInv, OnItsSnapshot
  <2>4. ASSUME commands \subseteq commands',
               pc'[w] = "finish" => \E d \in commands' : d.event = e /\ d.gen = gen[w]
        PROVE  WorkerInv(w)'
    BY <1>0, <2>0, <2>2, <2>4, OwnInv DEF WorkerInv, Working, Post, Row, Lone
  <2>5. CASE commands' = commands
    <3>1. pc'[w] = "finish" => Replayed(w)
      <4>1. CASE Goto(w, "conflict") \/ Goto(w, "error")
        BY <1>0, <4>1 DEF Goto, Typed
      <4>2. CASE commands' = commands \cup {c}
        <5>1. c \in commands /\ c.event = e /\ c.gen = gen[w]
          BY <2>5, <4>2
        <5> HIDE DEF c
        <5>q. QED BY <5>1 DEF Replayed
      <4>q. QED BY <1>8, <4>1, <4>2 DEF ApplyCommand
    <3>2. Typed'
      BY <1>0, <2>0, <2>1, <2>5 DEF Typed, Working
    <3>q. QED BY <2>0, <2>2, <2>4, <2>5, <3>1, <3>2, NoWrite DEF Replayed
  <2>6. CASE ~Replayed(w) /\ Unchanged(w) /\ Fence(w) /\ commands' = commands \cup {c}
    <3>1. c \in [event : Events, gen : Nat \ {0}, on : Snapshots] /\ c.event = e /\ c.gen = n /\ c.on = seen[w]
      BY <1>0, <2>0, <2>3, <2>6, FingerprintType DEF Fence, Current, Unchanged
    <3>2. Started(e) /\ Row(e).phase = "decided" /\ Row(e).answer = "command" /\ Row(e).on = seen[w]
      <4>1. Started(e) /\ Row(e).phase = "decided" /\ gen[w] = n
        BY <2>6 DEF Fence, Current, Phase
      <4>2. choice[w] = Row(e).answer
        BY <1>0, <2>0, <4>1 DEF WInv, ShareTheAnswer, Post
      <4>q. QED BY <2>0, <2>3, <4>1, <4>2 DEF Row
    <3>3. \A d \in commands : d.event # e
      <4> SUFFICES ASSUME NEW d \in commands, d.event = e PROVE FALSE
        OBVIOUS
      <4>1. d.gen = n
        BY <2>0 DEF IInv, Settled
      <4>q. QED BY <2>6, <4>1 DEF Replayed, Fence, Current
    <3> HIDE DEF c
    <3>4. Typed'
      <4>1. IsFiniteSet(commands')
        BY <1>0, <2>6, FS_AddElement DEF Typed
      <4>q. QED BY <1>0, <2>0, <2>1, <2>6, <3>1, <4>1 DEF Typed, Working
    <3>5. WorkerInv(w)'
      <4>1. c.event = e /\ c.gen = gen[w]
        BY <2>6, <3>1 DEF Fence, Current
      <4>q. QED BY <2>4, <2>6, <4>1
    <3>6. Agreeable(w)
      BY <1>0, <2>0 DEF Agreeable, Typed, Logs, Working, Post
    <3>7. WInv'
      BY <2>2, <2>6, <3>4, <3>5, <3>6, OthersGoOn
    <3>8. OneCommandPerEvent'
      BY <2>6, <3>1, <3>3 DEF IInv, OneCommandPerEvent
    <3>9. Settled'
      BY <2>0, <2>6, <3>1, <3>2, <3>3 DEF IInv, Settled, Started, Row, Committed
    <3>q. QED BY <3>4, <3>7, <3>8, <3>9 DEF IInv
  <2>q. QED BY <1>8, <2>5, <2>6 DEF ApplyCommand
<1>9. ASSUME NEW w \in Workers, HandleException(w) PROVE IInv'
  <2> DEFINE e == event[w]
             phase == IF pc[w] = "conflict" THEN "superseded" ELSE "failed"
  <2>1. e \in Events /\ pc[w] \in Post /\ pc[w] # "decide" /\ pc[w] \in Working
    BY <1>0, <1>9 DEF HandleException, Typed, Working, Post
  <2>2. CASE ~HasReceipt(e) /\ Current(w) /\ log' = Transitioned(e, phase, "none")
    <3>1. phase \in Phases \ {"evaluating"} /\ phase \notin {"decided", "applied"} /\ "none" \in Answers
      BY DEF Phases, Answers
    <3>2. Started(e) /\ gen[w] = Len(log[e])
      BY <1>0, <2>1, <2>2 DEF WInv, OnItsSnapshot, Started, Current
    <3>3. log' \in Logs
      BY <1>0, <2>1, <2>2, <3>1, <3>2, TransitionedShape
    <3>4. Typed' /\ Lone(w) /\ pc'[w] \notin Working
      BY <1>0, <1>9, <3>3, LeaveShape DEF HandleException, Typed, environment
    <3>5. ~Committed(e)
      BY <2>1, <2>2, NoReceipt
    <3> HIDE DEF phase
    <3>q. QED BY <1>9, <2>1, <2>2, <3>1, <3>2, <3>4, <3>5, Quits, TransitionStep DEF HandleException
  <2>3. CASE ~HasReceipt(e) /\ log' = log
    BY <1>9, <2>3, LeaveStep DEF HandleException, database
  <2>q. QED BY <1>9, <2>1, <2>2, <2>3, RecoverStep DEF HandleException, Transition
<1>10. ASSUME NEW w \in Workers, Finish(w) PROVE IInv'
  <2>1. event[w] \in Events /\ pc[w] = "finish" /\ pc[w] \in Working
    BY <1>0, <1>10 DEF Finish, Typed, Working, Post
  <2>2. CASE Current(w)
    <3>1. log' = Transitioned(event[w], "applied", choice[w]) /\ gen[w] = Len(log[event[w]])
      BY <1>10, <2>2 DEF Finish, Transition, Current
    <3>2. "applied" \in Phases \ {"evaluating"} /\ choice[w] \in Answers
      BY <1>0 DEF Phases, Typed
    <3>3. Started(event[w])
      BY <1>0, <2>1, <3>1 DEF WInv, OnItsSnapshot, Started
    <3>4. log' \in Logs
      BY <1>0, <2>1, <3>1, <3>2, <3>3, TransitionedShape
    <3>5. Typed' /\ Lone(w) /\ pc'[w] \notin Working
      BY <1>0, <1>10, <3>4, LeaveShape DEF Finish, Typed, environment
    <3>q. QED BY <1>10, <2>1, <3>1, <3>2, <3>5, Quits, TransitionStep DEF Finish
  <2>3. CASE ~Current(w)
    BY <1>10, <2>3, LeaveStep DEF Finish, Transition, database
  <2>q. QED BY <2>2, <2>3
<1>11. ASSUME NEW w \in Workers, Crash(w) PROVE IInv'
  BY <1>11, LeaveStep DEF Crash
<1>12. CASE Environment \/ UNCHANGED vars
  <2>1. UNCHANGED <<log, commands, pc, event, seen, gen, choice>>
    BY <1>12 DEF Environment, RoomChanges, DoubtChanges, LeaseExpires, database, environment, worker, vars
  <2>2. lease' \in [Events -> BOOLEAN] /\ view' \in Views /\ inDoubt' \in BOOLEAN
    BY <1>0, <1>12 DEF Environment, RoomChanges, DoubtChanges, LeaseExpires, database, environment, vars, Typed
  <2>3. Typed'
    BY <1>0, <2>1, <2>2 DEF Typed
  <2>4. WInv' /\ OneCommandPerEvent' /\ Settled'
    BY <2>1 DEF IInv, WInv, OnItsSnapshot, AsksAlone, ShareTheAnswer, FinishesACommit,
                OneCommandPerEvent, Settled, Started, Row, Committed
  <2>q. QED BY <2>3, <2>4 DEF IInv
<1>q. QED
  BY <1>1, <1>2, <1>3, <1>4, <1>5, <1>6, <1>7, <1>8, <1>9, <1>10, <1>11, <1>12 DEF Next, Handle

LEMMA Invariance == Spec => []IInv
  BY InitInv, InvStep, PTL DEF Spec

\* An event commits at most one owner command, over all its generations, hosts and
\* crashes.
THEOREM CommitsOnce == Spec => []OneCommandPerEvent
<1>1. IInv => OneCommandPerEvent
  BY DEF IInv
<1>q. QED BY <1>1, Invariance, PTL

\* A command changes the snapshot that its generation observed, and is what that
\* generation chose.
THEOREM NoStaleChoice == Spec => []CommandsOnTheirSnapshot
<1>1. IInv => CommandsOnTheirSnapshot
  <2> SUFFICES ASSUME IInv, NEW c \in commands
               PROVE  /\ c.gen <= Len(log[c.event])
                      /\ log[c.event][c.gen].on = c.on /\ log[c.event][c.gen].answer = "command"
    BY DEF CommandsOnTheirSnapshot
  <2>1. c.event \in Events /\ Len(log[c.event]) \in Nat
    BY DEF IInv, Typed, Logs
  <2>q. QED BY <2>1 DEF IInv, Settled, Row
<1>q. QED BY <1>1, Invariance, PTL

\* The receipt of a settled event says "command" exactly when one was committed, and the
\* generation of a commit is the last one and is not given up.
THEOREM ReceiptsAreTrue == Spec => []TruthfulReceipt
<1>1. IInv => TruthfulReceipt
  BY DEF IInv, Settled, TruthfulReceipt, Phase, Committed
<1>q. QED BY <1>1, Invariance, PTL

\* No late worker rewrites the receipt of a settled event or opens a generation for it.
THEOREM SettlesOnce == Spec => SettledIsFinal
<1>1. IInv /\ [Next]_vars => [\A e \in Events : Phase(e) = "applied" => log'[e] = log[e]]_vars
  <2> SUFFICES ASSUME IInv, Next, NEW e \in Events, Phase(e) = "applied" PROVE log'[e] = log[e]
    OBVIOUS
  <2>0. Started(e) /\ Row(e).phase = "applied" /\ HasReceipt(e) /\ Typed /\ WInv
    BY DEF Phase, HasReceipt, IInv
  <2>1. ASSUME NEW d \in Events, HasReceipt(d), RecoverReceipt(d) PROVE log'[e] = log[e]
    <3>1. CASE log' = Transitioned(d, "applied", "command") /\ Started(d) /\ Row(d).phase = "decided"
      <4>1. d # e
        BY <2>0, <3>1
      <4>q. QED BY <2>0, <3>1, <4>1, TransitionedShape DEF Phases, Answers, Choices
    <3>q. QED BY <2>1, <3>1, Recovery
  <2>2. ASSUME NEW w \in Workers, event[w] \in Events, ~HasReceipt(event[w]),
               NEW o \in Observations \cup {NoObservation}, NEW phase \in Phases, NEW answer \in Answers,
               NextGeneration(w, o, phase, answer)
        PROVE  log'[e] = log[e]
    BY <2>0, <2>2, GrownShape
  <2>3. ASSUME NEW w \in Workers, pc[w] \in Working, NEW phase \in Phases, NEW answer \in Answers,
               Transition(w, phase, answer),
               event[w] = e /\ gen[w] = Len(log[e]) => phase = "applied" /\ answer = Row(e).answer
        PROVE  log'[e] = log[e]
    <3>1. CASE ~Current(w)
      BY <2>3, <3>1 DEF Transition
    <3>2. CASE Current(w)
      <4>1. event[w] \in Events /\ Started(event[w]) /\ gen[w] = Len(log[event[w]])
            /\ log' = Transitioned(event[w], phase, answer)
        BY <2>0, <2>3, <3>2 DEF Transition, Current, WInv, OnItsSnapshot, Typed, Started, Working, Post
      <4>q. QED BY <2>0, <2>3, <4>1, TransitionedShape
    <3>q. QED BY <3>1, <3>2
  <2>4. ASSUME NEW w \in Workers, EventReceipt(w) PROVE log'[e] = log[e]
    BY <2>0, <2>1, <2>4 DEF EventReceipt, Typed
  <2>5. ASSUME NEW w \in Workers, pc[w] = "start", StartRefused(w) PROVE log'[e] = log[e]
    BY <2>0, <2>1, <2>5 DEF StartRefused, Typed
  <2>6. ASSUME NEW w \in Workers, NEW o \in Observations, Start(w, o) PROVE log'[e] = log[e]
    <3>1. event[w] \in Events /\ "evaluating" \in Phases /\ "none" \in Answers
      BY <2>0, <2>6 DEF Start, Typed, Phases, Answers
    <3>q. QED BY <2>2, <2>5, <2>6, <3>1 DEF Start, StartAllowed
  <2>7. ASSUME NEW w \in Workers, RecordNoop(w) PROVE log'[e] = log[e]
    <3>1. event[w] \in Events /\ "applied" \in Phases /\ "noop" \in Answers
      BY <2>0, <2>7 DEF RecordNoop, Typed, Phases, Answers
    <3>q. QED BY <2>2, <2>5, <2>7, <3>1 DEF RecordNoop, StartAllowed
  <2>8. ASSUME NEW w \in Workers, Decide(w) \/ DecisionUnavailable(w) PROVE log'[e] = log[e]
    <3>1. pc[w] = "decide" /\ pc[w] \in Working
      BY <2>8 DEF Decide, DecisionUnavailable, Working
    <3>2. ~(event[w] = e /\ gen[w] = Len(log[e]))
      BY <2>0, <3>1 DEF WInv, AsksAlone
    <3>3. \E phase \in Phases, answer \in Answers : Transition(w, phase, answer)
      BY <2>8 DEF Decide, DecisionUnavailable, Phases, Answers
    <3>q. QED BY <2>3, <3>1, <3>2, <3>3
  <2>9. ASSUME NEW w \in Workers, HandleException(w) PROVE log'[e] = log[e]
    <3>1. event[w] \in Events /\ pc[w] \in Working
      BY <2>0, <2>9 DEF HandleException, Typed, Working, Post
    <3>2. CASE event[w] # e /\ \E phase \in Phases, answer \in Answers : Transition(w, phase, answer)
      BY <2>3, <3>1, <3>2
    <3>q. QED BY <2>0, <2>1, <2>9, <3>1, <3>2 DEF HandleException, Phases, Answers
  <2>10. ASSUME NEW w \in Workers, Finish(w) PROVE log'[e] = log[e]
    <3>1. pc[w] \in Working /\ choice[w] \in Answers /\ "applied" \in Phases /\ Transition(w, "applied", choice[w])
      BY <2>0, <2>10 DEF Finish, Typed, Working, Post, Phases
    <3>2. event[w] = e /\ gen[w] = Len(log[e]) => choice[w] = Row(e).answer
      BY <2>0, <2>10 DEF Finish, WInv, ShareTheAnswer, Post
    <3>q. QED BY <2>3, <3>1, <3>2
  <2>q. QED
    BY <2>4, <2>6, <2>7, <2>8, <2>9, <2>10
       DEF Next, Handle, Take, ApplyWait, ApplyCommand, ApplyFails, Crash, Environment, RoomChanges,
           DoubtChanges, LeaseExpires, database
<1>q. QED BY <1>1, Invariance, PTL DEF Spec, SettledIsFinal
=============================================================================
