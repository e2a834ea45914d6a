------------------------- MODULE JevTaskGraphProofs -------------------------
(***************************************************************************)
(* Proofs about the task graph of one Jev Root, for any number of tasks,   *)
(* versions, edges, patches and attempts.                                  *)
(*                                                                         *)
(* The first part is about what follows a node (JevTaskRevisions.affected):*)
(* a set that is closed under the edges.  The second part is the inductive *)
(* invariant and the five safety properties that rest on it.               *)
(***************************************************************************)
EXTENDS JevTaskGraph, WellFoundedInduction, FiniteSetTheorems, TLAPS

\* A nonempty set of naturals has a least element: what the arguments below use
\* in place of induction.
LEMMA Least == ASSUME NEW T, T \subseteq Nat, T # {} PROVE \E x \in T : \A y \in T : x <= y
<1> DEFINE R == {p \in Nat \X Nat : p[1] < p[2]}
<1>1. IsWellFoundedOn(R, Nat)
  BY NatLessThanWellFounded DEF OpToRel
<1>2. \A x, y \in Nat : y < x => <<y, x>> \in R
  <2> TAKE x, y \in Nat
  <2>1. <<y, x>> \in Nat \X Nat /\ <<y, x>>[1] = y /\ <<y, x>>[2] = x
    OBVIOUS
  <2>q. QED BY <2>1
<1> HIDE DEF R
<1>3. PICK x \in T : \A y \in T : <<y, x>> \notin R
  BY <1>1, WFMin
<1>4. \A y \in T : x <= y
  <2> TAKE y \in T
  <2>1. x \in Nat /\ y \in Nat
    OBVIOUS
  <2>2. ~ (y < x)
    BY <1>2, <1>3, <2>1
  <2>q. QED BY <2>1, <2>2
<1>q. QED BY <1>4

\* The recursive function of Followers exists, so it unfolds (TaskGraph, affected).
LEMMA Reached ==
    ASSUME NEW V, IsFiniteSet(V), NEW E, NEW t
    PROVE  \E g : /\ Followers(V, E, t) = g[Cardinality(V)]
                  /\ g = [n \in 0..Cardinality(V) |-> IF n = 0 THEN {t}
                       ELSE g[n-1] \cup {v \in V : \E e \in E : e[1] \in g[n-1] /\ e[2] = v}]
<1> DEFINE Near(S) == S \cup {v \in V : \E e \in E : e[1] \in S /\ e[2] = v}
           Def(g, n) == IF n = 0 THEN {t} ELSE Near(g[n-1])
           P(k) == \E g : g = [n \in 0..k |-> Def(g, n)]
           Bad == {k \in Nat : ~ P(k)}
<1>1. P(0)
  <2> DEFINE g == [n \in 0..0 |-> {t}]
  <2>1. g = [n \in 0..0 |-> IF n = 0 THEN {t} ELSE Near(g[n-1])]
    OBVIOUS
  <2>q. QED BY <2>1
<1>2. \A k \in Nat \ {0} : P(k-1) => P(k)
  <2> HIDE DEF Near
  <2> SUFFICES ASSUME NEW k \in Nat \ {0}, NEW g, g = [n \in 0..(k-1) |-> Def(g, n)]
               PROVE \E h : h = [n \in 0..k |-> Def(h, n)]
    BY Zenon
  <2> DEFINE h == [n \in 0..k |-> Def(g, n)]
  <2>1. \A n \in 0..(k-1) : h[n] = g[n]
    <3>1. \A n \in 0..(k-1) : g[n] = Def(g, n)
      <4> HIDE DEF Def
      <4>q. QED OBVIOUS
    <3>2. \A n \in 0..(k-1) : h[n] = Def(g, n)
      <4> HIDE DEF Def
      <4>q. QED OBVIOUS
    <3>q. QED BY <3>1, <3>2
  <2>2. \A n \in 0..k : Def(g, n) = Def(h, n)
    <3> SUFFICES ASSUME NEW n \in 0..k, n # 0 PROVE Near(g[n-1]) = Near(h[n-1])
      OBVIOUS
    <3>1. n - 1 \in 0..(k-1)
      OBVIOUS
    <3> HIDE DEF h
    <3>q. QED BY <2>1, <3>1
  <2>3. h = [n \in 0..k |-> Def(h, n)]
    <3>1. [n \in 0..k |-> Def(g, n)] = [n \in 0..k |-> Def(h, n)]
      <4> HIDE DEF Def, h
      <4>q. QED BY <2>2
    <3>q. QED BY <3>1
  <2>q. QED BY <2>3
<1>3. Bad = {}
  <2> HIDE DEF P
  <2> SUFFICES ASSUME Bad # {} PROVE FALSE
    OBVIOUS
  <2>1. PICK x \in Bad : \A y \in Bad : x <= y
    BY Least
  <2>2. x # 0 /\ x - 1 \in Nat /\ x - 1 \notin Bad
    BY <1>1, <2>1
  <2>q. QED BY <1>2, <2>1, <2>2
<1> DEFINE N == Cardinality(V)
           r == CHOOSE g : g = [n \in 0..N |-> Def(g, n)]
<1>4. P(N)
  <2> HIDE DEF P
  <2>q. QED BY <1>3, FS_CardinalityType
<1>5. r = [n \in 0..N |-> Def(r, n)]
  <2> DEFINE Body(g) == [n \in 0..N |-> Def(g, n)]
  <2>1. \E g : g = Body(g)
    BY <1>4
  <2> HIDE DEF Body
  <2>2. (CHOOSE g : g = Body(g)) = Body(CHOOSE g : g = Body(g))
    BY <2>1
  <2>q. QED BY <2>2 DEF Body
<1>6. Followers(V, E, t) = r[N]
  BY DEF Followers
<1>q. QED BY <1>5, <1>6

\* What follows a node is a set of nodes that is closed under the edges.
LEMMA FollowersClosed ==
    ASSUME NEW V, IsFiniteSet(V), NEW E, NEW t \in V
    PROVE  /\ Followers(V, E, t) \subseteq V
           /\ t \in Followers(V, E, t)
           /\ \A e \in E : e[1] \in Followers(V, E, t) /\ e[2] \in V => e[2] \in Followers(V, E, t)
<1> DEFINE N == Cardinality(V)
           Near(S) == S \cup {v \in V : \E e \in E : e[1] \in S /\ e[2] = v}
<1>1. N \in Nat
  BY FS_CardinalityType
<1>2. PICK g : /\ Followers(V, E, t) = g[N]
               /\ g = [n \in 0..N |-> IF n = 0 THEN {t} ELSE Near(g[n-1])]
  BY Reached
<1>3. g[0] = {t} /\ \A n \in 1..N : g[n] = Near(g[n-1])
  <2> DEFINE Def(n) == IF n = 0 THEN {t} ELSE Near(g[n-1])
  <2>1. \A n \in 0..N : g[n] = Def(n)
    <3>1. g = [n \in 0..N |-> Def(n)]
      BY <1>2
    <3> HIDE DEF Def, N
    <3>q. QED BY <3>1
  <2> HIDE DEF Near, N
  <2>q. QED BY <1>1, <2>1
<1> HIDE DEF N
<1> DEFINE Good(n) == /\ g[n] \subseteq V /\ t \in g[n]
                      /\ Near(g[n]) = g[n] \/ Cardinality(g[n]) > n
           Bad == {n \in 0..N : ~ Good(n)}
<1>4. Good(0)
  BY <1>3, FS_Singleton
<1>5. ASSUME NEW n \in 1..N, Good(n-1) PROVE Good(n)
  <2>1. g[n] = Near(g[n-1])
    BY <1>3
  <2>2. g[n] \subseteq V /\ t \in g[n] /\ g[n-1] \subseteq g[n]
    BY <1>5, <2>1
  <2>3. CASE Near(g[n-1]) = g[n-1]
    <3>1. g[n] = g[n-1]
      BY <2>1, <2>3
    <3>q. QED BY <2>2, <2>3, <3>1
  <2>4. CASE Near(g[n-1]) # g[n-1]
    <3> HIDE DEF Near
    <3>1. Cardinality(g[n-1]) > n - 1
      BY <1>5, <2>4
    <3>2. g[n-1] # g[n] /\ IsFiniteSet(g[n])
      BY <2>1, <2>2, <2>4, FS_Subset
    <3>3. /\ Cardinality(g[n-1]) <= Cardinality(g[n])
          /\ Cardinality(g[n-1]) # Cardinality(g[n])
      BY <2>2, <3>2, FS_Subset
    <3>4. Cardinality(g[n]) \in Nat /\ Cardinality(g[n-1]) \in Nat
      BY <2>2, <3>2, FS_CardinalityType, FS_Subset
    <3>q. QED BY <2>2, <3>1, <3>3, <3>4
  <2>q. QED BY <2>3, <2>4
<1>6. Bad = {}
  <2> HIDE DEF Good
  <2> SUFFICES ASSUME Bad # {} PROVE FALSE
    OBVIOUS
  <2>1. PICK x \in Bad : \A y \in Bad : x <= y
    <3>1. Bad \subseteq Nat
      BY <1>1
    <3> HIDE DEF Bad
    <3>q. QED BY <3>1, Least
  <2>2. x \in 1..N /\ x - 1 \in 0..N /\ x - 1 \notin Bad
    BY <1>1, <1>4, <2>1
  <2>q. QED BY <1>5, <2>1, <2>2
<1>7. Good(N)
  <2> HIDE DEF Good
  <2>q. QED BY <1>1, <1>6
<1>8. Near(g[N]) = g[N]
  <2>1. Cardinality(g[N]) <= N
    BY <1>7, FS_Subset DEF N
  <2>2. Cardinality(g[N]) \in Nat
    BY <1>7, FS_Subset, FS_CardinalityType
  <2>q. QED BY <1>1, <1>7, <2>1, <2>2
<1>q. QED BY <1>2, <1>7, <1>8

-----------------------------------------------------------------------------
(***************************************************************************)
(* The inductive invariant.                                                *)
(***************************************************************************)
WorkItem == [state : {"absent", "active", "review", "done", "failed", "cancelled"},
             attempt : {"none", "prepared", "sending", "unsent", "running", "drained", "returned"},
             before : {"none", "returned"}, returns : Nat, refused : Nat, terminal : BOOLEAN]

Created == {t \in Tasks : task[t].state # "absent"}
Working == {"prepared", "sending", "running"}

\* The fields of a report: its subject may be anything.
ReportFields == report = [state |-> report.state, tries |-> report.tries, subject |-> report.subject]

Typed ==
    /\ phase \in {"plan", "execute"}
    /\ root \in {"active", "done", "failed", "cancelled"}
    /\ stop \in {"no", "fenced", "cancelled", "withdrawn"}
    /\ task \in [Tasks -> WorkItem]
    /\ \A t \in Tasks : task[t].state = "absent" => task[t].attempt = "none"
    /\ superseded \subseteq Created
    /\ ReportFields

\* Before its plan a graph is empty.
Unplanned == phase = "plan" => Created = {} /\ edges = {} /\ ~Pending

\* Edges join what has been created, and the newest version of a name is the
\* current one.
Wired == \A e \in edges : {e[1], e[2]} \subseteq Created \cup {Root}
Newest == \A n \in Names : \A i, j \in 1..MaxVersions :
              <<n, i>> \in Current /\ j > i => <<n, j>> \notin Created

\* A revision fences all that follows its target, and waits for what works.
Fenced ==
    Pending =>
        /\ revision.affected \subseteq Current
        /\ \A t \in revision.affected : t[2] < MaxVersions
        /\ \A e \in CurrentEdges : e[1] \in revision.affected => e[2] \in revision.affected
        /\ \A t \in revision.affected : task[t].attempt \in Working => t \in revision.required

\* After its final a Root is silent.
Final == root \in {"done", "failed"} => report.state = "none" /\ stop = "no"

Stopped ==
    /\ stop = "fenced" => root = "active"
    /\ stop \in {"cancelled", "withdrawn"} =>
           root = "cancelled" /\ \A t \in Tasks : task[t].state \notin Open
    /\ root = "cancelled" => ~Pending
    /\ stop # "no" => ~Pending
    /\ StopLeavesNothingPrepared

IInv == /\ Typed /\ Unplanned /\ Wired /\ Newest /\ Fenced /\ Final /\ Stopped
        /\ NoOrphanedExecution /\ CurrentInputs /\ WorkRestsOnAccepted /\ FinalIsTruthful


\* A new Root satisfies the invariant (JevRoomApplication.create).
LEMMA Initially == Init => IInv
<1> SUFFICES ASSUME Init PROVE IInv
  OBVIOUS
<1> USE GraphAssumption
<1>1. task \in [Tasks -> WorkItem] /\ \A t \in Tasks : task[t].state = "absent" /\ task[t].attempt = "none"
  BY DEF Init, New, WorkItem
<1>2. Typed /\ Created = {}
  BY <1>1 DEF Init, Typed, Created, ReportFields, NoReport
<1>3. ~Pending
  BY DEF Init, Pending
<1>4. Current = {}
  BY <1>2 DEF Current, Created
<1>5. Unplanned /\ Wired /\ Newest /\ Fenced /\ Final /\ Stopped
  BY <1>2, <1>3, <1>4 DEF Init, Unplanned, Wired, Newest, Fenced, Final, Stopped, StopLeavesNothingPrepared
<1>6. NoOrphanedExecution /\ CurrentInputs /\ WorkRestsOnAccepted /\ FinalIsTruthful
  BY <1>4 DEF Init, NoOrphanedExecution, CurrentInputs, WorkRestsOnAccepted, FinalIsTruthful
<1>q. QED
  BY <1>2, <1>5, <1>6 DEF IInv

\* A command or an execution changes one task that exists.  What each of them
\* keeps: it reopens nothing and prepares nothing once the Root is closed, begins
\* work only on a current task outside the fence of a revision, leaves done alone,
\* and begins or accepts only what is justified.
LEMMA OneTask ==
    ASSUME IInv, NEW t \in Tasks, NEW r \in WorkItem,
           task' = [task EXCEPT ![t] = r], TaskOnly,
           task[t].state # "absent", r.state # "absent",
           root # "active" => /\ task[t].attempt \in Holding /\ r.state = task[t].state
                              /\ r.attempt # "prepared",
           r.attempt \in Working => \/ task[t].attempt \in Working
                                    \/ t \in Current /\ ~Target(t),
           task[t].state = "done" => r.state = "done",
           r.attempt # "none" \/ r.state = "done" =>
               \/ task[t].attempt # "none" \/ task[t].state = "done"
               \/ Justified(t)
    PROVE  IInv'
<1> USE DEF IInv
<1>1. /\ \A u \in Tasks : u # t => task'[u] = task[u]
      /\ task'[t] = r /\ task \in [Tasks -> WorkItem]
  BY DEF Typed
<1>2. UNCHANGED <<phase, root, superseded, edges, patches, revision, report, stop>>
  BY DEF TaskOnly, plan
<1>3. Created' = Created /\ Current' = Current /\ Nodes' = Nodes /\ CurrentEdges' = CurrentEdges
  <2>1. Created' = Created
    BY <1>1 DEF Created
  <2>2. Current = Created \ superseded /\ Current' = Created' \ superseded'
    BY DEF Current, Created
  <2>q. QED BY <1>2, <2>1, <2>2 DEF Nodes, CurrentEdges
<1>4. Pending' = Pending
  BY <1>2 DEF Pending
<1>5. Typed'
  BY <1>1, <1>2, <1>3 DEF Typed, ReportFields
<1>6. Unplanned' /\ Wired' /\ Newest'
  BY <1>2, <1>3, <1>4 DEF Unplanned, Wired, Newest
<1>7. Fenced'
  <2>1. Pending => \A u \in revision.affected : task'[u].attempt \in Working => u \in revision.required
    BY <1>1 DEF Fenced, Target, Current
  <2>q. QED BY <1>2, <1>3, <1>4, <2>1 DEF Fenced
<1>8. Final'
  BY <1>2 DEF Final
<1>9. Stopped'
  <2>1. stop \in {"cancelled", "withdrawn"} => root = "cancelled"
    BY DEF Stopped
  <2>2. stop \in {"cancelled", "withdrawn"} => \A u \in Tasks : task'[u].state \notin Open
    BY <1>1, <2>1 DEF Stopped
  <2>3. StopLeavesNothingPrepared'
    BY <1>1, <1>2, <2>1, <2>2 DEF Stopped, StopLeavesNothingPrepared
  <2>q. QED BY <1>2, <1>4, <2>1, <2>2, <2>3 DEF Stopped
<1>10. NoOrphanedExecution'
  <2>1. superseded \subseteq Tasks
    BY DEF Typed, Created
  <2>q. QED BY <1>1, <1>2, <2>1 DEF NoOrphanedExecution, Current, Working
<1>11. CurrentInputs'
  BY <1>2 DEF CurrentInputs
<1>12. WorkRestsOnAccepted'
  <2>1. \A u : Requires(u)' = Requires(u)
    BY <1>2, <1>3 DEF Requires
  <2>2. Root \notin Tasks /\ \A p \in Nodes : p = Root \/ p \in Tasks
    BY GraphAssumption DEF Tasks, Nodes, Current
  <2>3. SUFFICES ASSUME NEW u \in Current, task'[u].attempt # "none" \/ task'[u].state = "done",
                        NEW p \in Requires(u)
                 PROVE  State(p)' = "done"
    BY <1>3, <2>1 DEF WorkRestsOnAccepted
  <2>4. p \in Nodes /\ u \in Tasks
    BY DEF Requires, Current
  <2>5. State(p) = "done"
    BY <1>1, <2>3, <2>4 DEF WorkRestsOnAccepted, Justified
  <2>q. QED BY <1>1, <1>2, <2>2, <2>4, <2>5 DEF State
<1>13. FinalIsTruthful'
  <2>1. root \in {"done", "failed"} => FALSE
    BY DEF FinalIsTruthful, Slots
  <2>q. QED BY <1>2, <2>1 DEF FinalIsTruthful
<1>q. QED
  BY <1>5, <1>6, <1>7, <1>8, <1>9, <1>10, <1>11, <1>12, <1>13

\* The execution of an attempt and the owner's commands keep the invariant, and
\* so do Refuse, FailDispatch and Drain under Stop and during a revision.
LEMMA TaskSteps ==
    ASSUME IInv, NEW t \in Tasks, OwnerCommand(t) \/ Execution(t) \/ CloseExhausted(t)
    PROVE  IInv'
<1> DEFINE w == task[t]
<1>1. /\ w \in WorkItem /\ task \in [Tasks -> WorkItem]
      /\ w.state = "absent" => w.attempt = "none" /\ t \notin Current
  BY DEF IInv, Typed, Current
<1> DEFINE Allowed(r) ==
        /\ r \in WorkItem /\ task' = [task EXCEPT ![t] = r] /\ TaskOnly
        /\ w.state # "absent" /\ r.state # "absent"
        /\ root # "active" => w.attempt \in Holding /\ r.state = w.state /\ r.attempt # "prepared"
        /\ r.attempt \in Working => w.attempt \in Working \/ (t \in Current /\ ~Target(t))
        /\ w.state = "done" => r.state = "done"
        /\ r.attempt # "none" \/ r.state = "done" =>
               w.attempt # "none" \/ w.state = "done" \/ Justified(t)
<1>2. ASSUME NEW r, Allowed(r) PROVE IInv'
  BY <1>2, OneTask
<1> HIDE DEF w
<1> USE DEF WorkItem, Commandable, Holding, Working, Settled
<1>3. CASE Claim(t)
  <2> DEFINE r == [w EXCEPT !.attempt = "prepared", !.before = w.attempt]
  <2>1. Allowed(r)
    BY <1>1, <1>3 DEF Claim, w
  <2> HIDE DEF r, Allowed
  <2>q. QED BY <1>2, <2>1
<1>4. CASE Accept(t)
  <2> DEFINE r == [w EXCEPT !.state = "done"]
  <2>1. Allowed(r)
    BY <1>1, <1>4 DEF Accept, Become, w
  <2> HIDE DEF r, Allowed
  <2>q. QED BY <1>2, <2>1
<1>5. CASE Return(t)
  <2> DEFINE r == [w EXCEPT !.state = "active", !.attempt = "returned", !.returns = @ + 1]
  <2>1. Allowed(r)
    BY <1>1, <1>5 DEF Return, w
  <2> HIDE DEF r, Allowed
  <2>q. QED BY <1>2, <2>1
<1>6. CASE Retry(t)
  <2> DEFINE r == [w EXCEPT !.state = "active", !.attempt = "none", !.returns = @ + 1]
  <2>1. Allowed(r)
    BY <1>1, <1>6 DEF Retry, w
  <2> HIDE DEF r, Allowed
  <2>q. QED BY <1>2, <2>1
<1>7. CASE Deliver(t)
  <2> DEFINE r == [w EXCEPT !.attempt = "sending"]
  <2>1. Allowed(r)
    BY <1>1, <1>7 DEF Deliver, Attempt, w
  <2> HIDE DEF r, Allowed
  <2>q. QED BY <1>2, <2>1
<1>8. CASE Admit(t)
  <2> DEFINE r == [w EXCEPT !.attempt = "running", !.before = "none"]
  <2>1. r \in WorkItem /\ r.attempt = "running" /\ r.state = w.state
    BY <1>1
  <2>2. task' = [task EXCEPT ![t] = r] /\ TaskOnly /\ w.attempt = "sending"
    BY <1>1, <1>8 DEF Admit, w
  <2> HIDE DEF r
  <2>3. Allowed(r)
    BY <1>1, <2>1, <2>2
  <2> HIDE DEF Allowed
  <2>q. QED BY <1>2, <2>3
<1>9. CASE Refuse(t)
  <2> DEFINE r == Unsent(w)
  <2>1. r \in WorkItem /\ r.attempt = "unsent" /\ r.state = w.state
    <3>1. CASE w.refused < MaxRejections
      <4>1. r = [w EXCEPT !.attempt = "unsent", !.refused = w.refused + 1]
        BY <3>1 DEF Unsent
      <4>2. w.refused + 1 \in Nat
        BY <1>1
      <4>q. QED BY <1>1, <4>1, <4>2
    <3>2. CASE ~(w.refused < MaxRejections)
      <4>1. r = [w EXCEPT !.attempt = "unsent", !.refused = w.refused]
        BY <3>2 DEF Unsent
      <4>q. QED BY <1>1, <4>1
    <3>q. QED BY <3>1, <3>2
  <2>2. task' = [task EXCEPT ![t] = r] /\ TaskOnly /\ w.attempt = "sending"
    BY <1>9 DEF Refuse, w
  <2> HIDE DEF r
  <2>3. Allowed(r)
    BY <1>1, <2>1, <2>2
  <2> HIDE DEF Allowed
  <2>q. QED BY <1>2, <2>3
<1>10. CASE FailDispatch(t)
  <2> DEFINE r == [w EXCEPT !.attempt = w.before, !.before = "none"]
  <2>1. Allowed(r)
    BY <1>1, <1>10 DEF FailDispatch, w
  <2> HIDE DEF r, Allowed
  <2>q. QED BY <1>2, <2>1
<1>11. CASE Drain(t)
  <2> DEFINE r == [w EXCEPT !.attempt = "drained"]
  <2>1. Allowed(r)
    BY <1>1, <1>11 DEF Drain, Attempt, w
  <2> HIDE DEF r, Allowed
  <2>q. QED BY <1>2, <2>1
<1>12. CASE Submit(t)
  <2> DEFINE r == [w EXCEPT !.state = "review"]
  <2>1. Allowed(r)
    BY <1>1, <1>12 DEF Submit, Live, Become, w
  <2> HIDE DEF r, Allowed
  <2>q. QED BY <1>2, <2>1
<1>13. CASE Escalate(t)
  <2> DEFINE r == [w EXCEPT !.state = "failed"]
  <2>1. Allowed(r)
    BY <1>1, <1>13 DEF Escalate, Live, Become, w
  <2> HIDE DEF r, Allowed
  <2>q. QED BY <1>2, <2>1
<1>14. CASE CloseExhausted(t)
  <2> DEFINE r == [w EXCEPT !.state = "failed", !.terminal = TRUE]
  <2>1. Allowed(r)
    BY <1>1, <1>14 DEF CloseExhausted, Exhausted, w
  <2> HIDE DEF r, Allowed
  <2>q. QED BY <1>2, <2>1
<1>q. QED
  BY <1>3, <1>4, <1>5, <1>6, <1>7, <1>8, <1>9, <1>10, <1>11, <1>12, <1>13, <1>14
  DEF OwnerCommand, Execution

\* What keeps the tasks, the plan and the revision, and changes neither stop nor
\* the phase, is a step of the report.
LEMMA ReportSteps == IInv /\ Reporting => IInv'
<1> SUFFICES ASSUME IInv, Reporting PROVE IInv'
  OBVIOUS
<1> USE DEF IInv
<1>1. /\ UNCHANGED <<phase, task, superseded, edges, patches, revision, stop>>
      /\ report' = [state |-> report'.state, tries |-> report'.tries, subject |-> report'.subject]
  BY DEF Reporting, PrepareReport, DeliverReport, AdmitReport, RefuseReport, ReleaseReport,
         SubmitReport, SettleReport, SettleEmpty, SaveFinal, ToReport, ReportOnly, plan, Typed, ReportFields
<1>2. \/ root' = root /\ report'.state # "prepared" /\ report.state # "none"
      \/ root' = root /\ root = "active" /\ stop = "no"
      \/ /\ root' \in {"done", "failed"} /\ report'.state = "none" /\ CanSaveFinal /\ stop = "no"
         /\ root' = "done" => AllDone /\ report.subject = Subject /\ report'.subject = report.subject
         /\ report.state # "none"
  BY DEF Reporting, PrepareReport, DeliverReport, AdmitReport, RefuseReport, ReleaseReport,
         SubmitReport, SettleReport, SettleEmpty, SaveFinal, ToReport, ReportOnly, CoversTheGraph,
         Typed, ReportFields
<1>3. /\ Created' = Created /\ Current' = Current /\ Nodes' = Nodes
      /\ CurrentEdges' = CurrentEdges /\ Pending' = Pending
  BY <1>1 DEF Created, Current, Nodes, CurrentEdges, Pending
<1>4. Typed' /\ Unplanned' /\ Wired' /\ Newest' /\ Fenced'
  BY <1>1, <1>2, <1>3 DEF Typed, ReportFields, Unplanned, Wired, Newest, Fenced
<1>5. Final'
  BY <1>1, <1>2 DEF Final
<1>6. Stopped'
  BY <1>1, <1>2, <1>3 DEF Stopped, StopLeavesNothingPrepared, Final
<1>7. NoOrphanedExecution' /\ CurrentInputs'
  BY <1>1 DEF NoOrphanedExecution, CurrentInputs
<1>8. WorkRestsOnAccepted'
  <2>1. \A u : Requires(u)' = Requires(u)
    BY <1>1, <1>3 DEF Requires
  <2>2. root = "done" => root' = "done"
    BY <1>2 DEF Final
  <2>q. QED BY <1>1, <1>3, <2>1, <2>2 DEF WorkRestsOnAccepted, State
<1>9. FinalIsTruthful'
  <2>1. Subject' = Subject /\ Slots' = Slots
    BY <1>1, <1>3 DEF Subject, Slots
  <2>2. root \in {"done", "failed"} => FALSE
    BY <1>2 DEF Final
  <2>3. root' \in {"done", "failed"} =>
           /\ CanSaveFinal
           /\ root' = "done" => AllDone /\ report'.subject = Subject
    BY <1>2, <2>2
  <2>q. QED BY <1>1, <1>3, <2>1, <2>3 DEF FinalIsTruthful, CanSaveFinal, AllDone
<1>q. QED
  BY <1>4, <1>5, <1>6, <1>7, <1>8, <1>9

\* Planned work has not begun and takes no input that was replaced (apply_plan).
LEMMA PlanStep ==
    ASSUME IInv, NEW S \in SUBSET Names, NEW D \in SUBSET (S \X S), ApplyPlan(S, D)
    PROVE  IInv'
<1> DEFINE V == {<<n, 1>> : n \in S}
           E == {<<<<d[1], 1>>, <<d[2], 1>>, "requires">> : d \in D}
<1>1. /\ phase = "plan" /\ root = "active" /\ stop = "no"
      /\ phase' = "execute" /\ edges' = E
      /\ task' = [t \in Tasks |-> IF t \in V THEN New ELSE task[t]]
      /\ UNCHANGED <<root, superseded, patches, revision, report, stop>>
  BY DEF ApplyPlan
<1>2. /\ Created = {} /\ superseded = {} /\ ~Pending /\ ~Pending'
      /\ report.state = report'.state
  BY <1>1 DEF IInv, Unplanned, Typed, Pending
<1>3. V \subseteq Tasks
  BY GraphAssumption DEF Tasks
<1>4. \A e \in E : e[1] \in V /\ e[2] \in V
  OBVIOUS
<1> HIDE DEF V, E
<1>5. New \in WorkItem /\ New.state = "active" /\ New.attempt = "none"
  BY DEF New, WorkItem
<1>6. Created' = V
  BY <1>1, <1>2, <1>3, <1>5 DEF Created, IInv, Typed
<1>7. Current' = V /\ \A t \in V : t[2] = 1
  <2>1. Current' = Created' \ superseded'
    BY DEF Current, Created
  <2>q. QED BY <1>1, <1>2, <1>6, <2>1 DEF V
<1>8. \A t \in Tasks : task'[t].attempt = "none" /\ (task'[t].state = "active" \/ task'[t].state = "absent")
  BY <1>1, <1>2, <1>5 DEF IInv, Typed, Created
<1>9. Typed'
  BY <1>1, <1>2, <1>3, <1>5, <1>6, <1>8 DEF IInv, Typed, ReportFields
<1>10. Unplanned' /\ Wired' /\ Fenced' /\ Final'
  BY <1>1, <1>2, <1>4, <1>6, <1>7, <1>8 DEF IInv, Unplanned, Wired, Fenced, Final
<1>11. Newest'
  BY <1>6, <1>7 DEF Newest
<1>12. Stopped'
  BY <1>1, <1>2 DEF IInv, Stopped, StopLeavesNothingPrepared
<1>13. NoOrphanedExecution' /\ CurrentInputs' /\ FinalIsTruthful'
  BY <1>1, <1>2 DEF NoOrphanedExecution, CurrentInputs, FinalIsTruthful
<1>14. WorkRestsOnAccepted'
  BY <1>3, <1>7, <1>8 DEF WorkRestsOnAccepted
<1>q. QED
  BY <1>9, <1>10, <1>11, <1>12, <1>13, <1>14 DEF IInv

\* An edge command does not touch the requirements of work that has begun
\* (GraphLedger.change_edges).
LEMMA EdgeStep ==
    ASSUME IInv, NEW add, NEW remove, ChangeEdges(add, remove), \A e \in add : e[1] # e[2]
    PROVE  IInv'
<1> USE DEF IInv
<1>1. /\ root = "active" /\ ~Pending
      /\ edges' = (edges \ remove) \cup add
      /\ UNCHANGED <<phase, root, task, superseded, revision, report, stop>>
      /\ \A e \in add : {e[1], e[2]} \subseteq Nodes /\ (e[3] = "requires" => e[2] \in Unstarted)
  BY DEF ChangeEdges, EdgesOpen
<1>2. Created' = Created /\ Current' = Current /\ Nodes' = Nodes /\ Pending' = Pending
  BY <1>1 DEF Created, Current, Nodes, Pending
<1>3. /\ Current = Created \ superseded /\ Nodes = Current \cup {Root}
      /\ superseded \subseteq Tasks /\ Root \notin Tasks
  BY GraphAssumption DEF Current, Nodes, Created, Typed, Tasks
<1>4. Typed' /\ Fenced' /\ Final' /\ Newest' /\ FinalIsTruthful'
  BY <1>1, <1>2 DEF Typed, ReportFields, Fenced, Final, Newest, FinalIsTruthful
<1>5. Wired'
  BY <1>1, <1>2, <1>3 DEF Wired
<1>6. Unplanned'
  <2>1. phase = "plan" => Nodes = {Root} /\ edges = {}
    BY <1>3 DEF Unplanned
  <2>2. phase # "plan"
    <3>1. SUFFICES ASSUME phase = "plan" PROVE FALSE
      OBVIOUS
    <3>2. edges = {} /\ Nodes = {Root} /\ remove \subseteq edges /\ add \cup remove # {}
      BY <2>1, <3>1 DEF ChangeEdges
    <3>3. PICK e \in add : e[1] = Root /\ e[2] = Root
      BY <1>1, <3>2
    <3>q. QED BY <3>3
  <2>q. QED BY <1>1, <2>2 DEF Unplanned
<1>7. Stopped'
  BY <1>1, <1>2 DEF Stopped, StopLeavesNothingPrepared
<1>8. NoOrphanedExecution'
  BY <1>1 DEF NoOrphanedExecution
<1>9. CurrentInputs'
  BY <1>1, <1>3 DEF CurrentInputs
<1>10. WorkRestsOnAccepted'
  <2>1. SUFFICES ASSUME NEW t \in Current, task[t].attempt # "none" \/ task[t].state = "done",
                        NEW p \in Nodes, <<p, t, "requires">> \in edges'
                 PROVE  State(p) = "done"
    BY <1>1, <1>2 DEF WorkRestsOnAccepted, Requires, State
  <2>2. t \notin Unstarted
    BY <1>3, <2>1 DEF Unstarted, Created
  <2>3. <<p, t, "requires">> \notin add
    <3>1. SUFFICES ASSUME <<p, t, "requires">> \in add PROVE FALSE
      OBVIOUS
    <3>2. <<p, t, "requires">>[3] = "requires" /\ <<p, t, "requires">>[2] = t
      OBVIOUS
    <3>q. QED BY <1>1, <2>2, <3>1, <3>2
  <2>4. p \in Requires(t)
    BY <1>1, <2>1, <2>3 DEF Requires
  <2>q. QED BY <2>1, <2>4 DEF WorkRestsOnAccepted
<1>q. QED
  BY <1>4, <1>5, <1>6, <1>7, <1>8, <1>9, <1>10

\* A request fences what follows its target, and records what must drain
\* (JevTaskRevisions.request).
LEMMA RequestStep ==
    ASSUME IInv, NEW t \in Tasks, RequestRevision(t)
    PROVE  IInv'
<1> USE DEF IInv
<1> DEFINE A == Affected(t)
           required == MustDrain(A)
<1>1. /\ phase = "execute" /\ root = "active" /\ stop = "no" /\ ~Pending
      /\ t \in Current /\ Root \notin A /\ \A a \in A : a[2] < MaxVersions
      /\ revision' = [affected |-> A, required |-> required]
      /\ task' = [u \in Tasks |-> IF u \in required THEN Withdrawn(task[u]) ELSE task[u]]
      /\ report' = [report EXCEPT !.state = IF @ = "prepared" THEN "unsent" ELSE @]
      /\ UNCHANGED <<phase, root, superseded, edges, patches, stop>>
  BY DEF RequestRevision, Revisable, plan
<1>2. /\ Current = Created \ superseded /\ Nodes = Current \cup {Root}
      /\ superseded \subseteq Tasks /\ Current \subseteq Tasks /\ Root \notin Tasks
  BY GraphAssumption DEF Current, Nodes, Created, Typed, Tasks
<1>3. A \subseteq Current /\ \A e \in CurrentEdges : e[1] \in A => e[2] \in A
  <2>1. IsFiniteSet(Nodes)
    <3>1. IsFiniteSet(1..MaxVersions)
      BY GraphAssumption, FS_Interval
    <3>2. IsFiniteSet(Tasks)
      BY <3>1, GraphAssumption, FS_Product DEF Tasks
    <3>3. IsFiniteSet(Current)
      BY <1>2, <3>2, FS_Subset
    <3>q. QED BY <1>2, <3>3, FS_AddElement
  <2>2. /\ A \subseteq Nodes
        /\ \A e \in CurrentEdges : e[1] \in A /\ e[2] \in Nodes => e[2] \in A
    BY <1>1, <1>2, <2>1, FollowersClosed DEF Affected
  <2>3. \A e \in CurrentEdges : e[2] \in Nodes
    BY DEF CurrentEdges
  <2> HIDE DEF A
  <2>q. QED BY <1>1, <1>2, <2>2, <2>3
<1>4. \A u \in Tasks :
         \/ task'[u] = task[u]
         \/ task[u].attempt = "prepared" /\ u \in required
            /\ task'[u] \in WorkItem /\ task'[u].attempt = "unsent" /\ task'[u].state = task[u].state
  <2> HIDE DEF required
  <2>1. TAKE u \in Tasks
  <2> DEFINE w == task[u]
  <2>2. w \in WorkItem
    BY DEF Typed
  <2> HIDE DEF w
  <2>3. Unsent(w) \in WorkItem /\ Unsent(w).attempt = "unsent" /\ Unsent(w).state = w.state
    <3>1. w.refused + 1 \in Nat
      BY <2>2 DEF WorkItem
    <3>2. Unsent(w) \in {[w EXCEPT !.attempt = "unsent", !.refused = w.refused + 1],
                         [w EXCEPT !.attempt = "unsent", !.refused = w.refused]}
      BY DEF Unsent
    <3>q. QED BY <2>2, <3>1, <3>2 DEF WorkItem
  <2>4. task'[u] = IF u \in required /\ w.attempt = "prepared" THEN Unsent(w) ELSE w
    BY <1>1 DEF Withdrawn, w
  <2>q. QED BY <2>3, <2>4 DEF w
<1>5. \A u \in A : task[u].attempt \in Working => u \in required
  BY <1>2, <1>3 DEF MustDrain, Working
<1> HIDE DEF A, required
<1>6. /\ \A u \in Tasks : task'[u].state = task[u].state
      /\ \A u \in Tasks : \/ task'[u].attempt = task[u].attempt
                          \/ task'[u].attempt = "unsent" /\ task[u].attempt = "prepared"
      /\ task' \in [Tasks -> WorkItem]
  <2>1. \A u \in Tasks : task'[u] \in WorkItem
    BY <1>4 DEF Typed
  <2>2. task' = [u \in Tasks |-> task'[u]]
    BY <1>1
  <2>3. task' \in [Tasks -> WorkItem]
    BY <2>1, <2>2
  <2>4. \A u \in Tasks : task'[u].state = task[u].state
    BY <1>4
  <2>5. \A u \in Tasks : \/ task'[u].attempt = task[u].attempt
                         \/ task'[u].attempt = "unsent" /\ task[u].attempt = "prepared"
    BY <1>4
  <2>q. QED BY <2>3, <2>4, <2>5
<1>7. Created' = Created /\ Current' = Current /\ Nodes' = Nodes /\ CurrentEdges' = CurrentEdges
  <2>1. Created' = Created
    BY <1>6 DEF Created
  <2>2. Current' = Created' \ superseded'
    BY DEF Current, Created
  <2>q. QED BY <1>1, <1>2, <2>1, <2>2 DEF Nodes, CurrentEdges
<1>8. Typed'
  <2>1. ReportFields'
    BY <1>1 DEF Typed, ReportFields
  <2>q. QED BY <1>1, <1>6, <1>7, <2>1 DEF Typed
<1>9. Unplanned' /\ Wired' /\ Newest' /\ Final'
  BY <1>1, <1>7 DEF Unplanned, Wired, Newest, Final
<1>10. Fenced'
  BY <1>1, <1>2, <1>3, <1>5, <1>6, <1>7 DEF Fenced, Working
<1>11. Stopped'
  BY <1>1 DEF Stopped, StopLeavesNothingPrepared
<1>12. NoOrphanedExecution'
  BY <1>1, <1>2, <1>6 DEF NoOrphanedExecution
<1>13. CurrentInputs' /\ FinalIsTruthful'
  BY <1>1 DEF CurrentInputs, FinalIsTruthful
<1>14. WorkRestsOnAccepted'
  <2>1. \A u : Requires(u)' = Requires(u)
    BY <1>1, <1>7 DEF Requires
  <2>2. \A p \in Nodes : State(p)' = State(p)
    BY <1>1, <1>2, <1>6 DEF State
  <2>3. \A u : Requires(u) \subseteq Nodes
    BY DEF Requires
  <2>4. \A u \in Current : task'[u].attempt # "none" => task[u].attempt # "none"
    BY <1>2, <1>6
  <2>q. QED BY <1>2, <1>6, <1>7, <2>1, <2>2, <2>3, <2>4 DEF WorkRestsOnAccepted
<1>q. QED
  BY <1>8, <1>9, <1>10, <1>11, <1>12, <1>13, <1>14

\* Successors take the place of what a revision replaced: no edge leaves what it
\* replaced but to what is replaced as well (JevTaskRevisions._apply).
LEMMA ApplyStep == IInv /\ ApplyRevision => IInv'
<1> SUFFICES ASSUME IInv, ApplyRevision PROVE IInv'
  OBVIOUS
<1> DEFINE A == revision.affected
           Version(v) == IF v \in A THEN <<v[1], v[2] + 1>> ELSE v
           copies == {<<Version(e[1]), Version(e[2]), e[3]>> :
                          e \in {x \in CurrentEdges : x[1] \in A \/ x[2] \in A}}
           Heirs == {t \in Tasks : \E a \in A : t = Version(a)}
<1>1. /\ Pending /\ stop = "no" /\ root = "active"
      /\ \A v \in revision.required : Drained(v)
      /\ task' = [t \in Tasks |-> IF t \in A THEN Retired(task[t])
                                  ELSE IF \E a \in A : t = Version(a) THEN New ELSE task[t]]
      /\ superseded' = superseded \cup A
      /\ edges' = edges \cup copies
      /\ revision' = NoRevision
      /\ UNCHANGED <<phase, root, report, stop>>
  BY DEF ApplyRevision
<1>2. /\ A \subseteq Current
      /\ \A t \in A : t[2] < MaxVersions
      /\ \A e \in CurrentEdges : e[1] \in A => e[2] \in A
      /\ \A t \in A : task[t].attempt \in Working => t \in revision.required
  BY <1>1 DEF IInv, Fenced
<1>3. /\ Current = Created \ superseded /\ Nodes = Current \cup {Root}
      /\ superseded \subseteq Tasks /\ Created \subseteq Tasks /\ Root \notin Tasks
      /\ superseded \subseteq Created
  BY GraphAssumption DEF IInv, Current, Nodes, Created, Typed, Tasks
<1>4. \A a \in A : Version(a) \in Tasks \ Created /\ Version(a) = <<a[1], a[2] + 1>>
  <2>1. TAKE a \in A
  <2>2. PICK n \in Names, i \in 1..MaxVersions : a = <<n, i>>
    BY <1>2, <1>3 DEF Tasks
  <2>3. i < MaxVersions /\ <<n, i>> \in Current /\ a[1] = n /\ a[2] = i
    BY <1>2, <2>2
  <2>4. i + 1 \in 1..MaxVersions /\ i + 1 > i
    BY <2>2, <2>3, GraphAssumption
  <2>5. <<n, i + 1>> \notin Created /\ <<n, i + 1>> \in Tasks
    BY <2>3, <2>4 DEF IInv, Newest, Tasks
  <2>q. QED BY <2>2, <2>3, <2>5
<1>5. Heirs \cap Created = {} /\ \A a \in A : Version(a) \in Heirs
  BY <1>4
<1>6. /\ \A t \in Tasks \ (A \cup Heirs) : task'[t] = task[t]
      /\ \A t \in Heirs : task'[t] = New
      /\ \A t \in A : task'[t] = Retired(task[t])
  BY <1>1, <1>2, <1>3, <1>5
<1>7. \A v \in Tasks \cup {Root} : v \notin A => Version(v) = v
  OBVIOUS
<1>8. \A t \in A : /\ Retired(task[t]) \in WorkItem
                   /\ Retired(task[t]).state \notin {"absent"} \cup Open
                   /\ Retired(task[t]).attempt = task[t].attempt
  <2>1. TAKE t \in A
  <2> DEFINE w == task[t]
  <2>2. w \in WorkItem /\ w.state # "absent"
    BY <1>2, <1>3 DEF IInv, Typed, Created
  <2> HIDE DEF w
  <2>3. /\ Retired(w) \in WorkItem /\ Retired(w).state \notin {"absent"} \cup Open
        /\ Retired(w).attempt = w.attempt
    BY <2>2 DEF Retired, WorkItem, Open
  <2>q. QED BY <2>3 DEF w
<1>9. \A c \in copies : \E e \in CurrentEdges :
         /\ c[1] = Version(e[1]) /\ c[2] = Version(e[2]) /\ e[2] \in A
         /\ e \in edges /\ e[1] \in Nodes /\ e[2] \in Nodes
  <2>1. TAKE c \in copies
  <2>2. PICK e \in CurrentEdges : /\ c = <<Version(e[1]), Version(e[2]), e[3]>>
                                  /\ e[1] \in A \/ e[2] \in A
    BY <2>1
  <2>3. e \in edges /\ e[1] \in Nodes /\ e[2] \in Nodes
    BY DEF CurrentEdges
  <2> HIDE DEF Version, A
  <2>q. QED BY <1>2, <2>2, <2>3
<1> HIDE DEF Version, Heirs, A, copies
<1>10. New \in WorkItem /\ New.state = "active" /\ New.attempt = "none"
  BY DEF New, WorkItem
<1>11. A \subseteq Created /\ A \subseteq Tasks /\ Heirs \subseteq Tasks /\ A \cap Heirs = {}
  BY <1>2, <1>3, <1>5 DEF Heirs
<1>12. Created' = Created \cup Heirs
  BY <1>6, <1>8, <1>10, <1>11, <1>3 DEF Created
<1>13. Current' = (Current \ A) \cup Heirs
  <2>1. Current' = Created' \ superseded'
    BY DEF Current, Created
  <2>q. QED BY <1>1, <1>3, <1>5, <1>11, <1>12, <2>1
<1>14. Typed'
  <2>1. \A t \in Tasks : task'[t] \in WorkItem
    BY <1>6, <1>8, <1>10 DEF IInv, Typed
  <2>2. task' = [t \in Tasks |-> task'[t]]
    BY <1>1
  <2>3. task' \in [Tasks -> WorkItem]
    BY <2>1, <2>2
  <2>4. \A t \in Tasks : task'[t].state = "absent" => task'[t].attempt = "none"
    BY <1>6, <1>8, <1>10 DEF IInv, Typed
  <2>5. superseded' \subseteq Created'
    BY <1>1, <1>3, <1>11, <1>12
  <2>q. QED BY <1>1, <2>3, <2>4, <2>5 DEF IInv, Typed, ReportFields
<1>15. ~Pending'
  BY <1>1 DEF Pending
<1>16. Unplanned' /\ Fenced' /\ Final' /\ Stopped' /\ FinalIsTruthful'
  BY <1>1, <1>15
  DEF IInv, Unplanned, Fenced, Final, Stopped, StopLeavesNothingPrepared, FinalIsTruthful
<1>17. \A v \in Nodes : Version(v) \in Created' \cup {Root}
  BY <1>3, <1>5, <1>7, <1>12
<1>18. Wired'
  <2>1. SUFFICES ASSUME NEW e \in edges' PROVE {e[1], e[2]} \subseteq Created' \cup {Root}
    BY DEF Wired
  <2>2. CASE e \in edges
    BY <1>12, <2>2 DEF IInv, Wired
  <2>3. CASE e \in copies
    BY <1>9, <1>17, <2>3
  <2>q. QED BY <1>1, <2>1, <2>2, <2>3
<1>19. Newest'
  <2>1. SUFFICES ASSUME NEW n \in Names, NEW i \in 1..MaxVersions, NEW j \in 1..MaxVersions,
                        <<n, i>> \in Current', j > i, <<n, j>> \in Created'
                 PROVE  FALSE
    BY DEF Newest
  <2>2. \A k \in 1..MaxVersions : <<n, k>> \in Heirs => k - 1 \in 1..MaxVersions /\ <<n, k - 1>> \in A
    <3>1. SUFFICES ASSUME NEW k \in 1..MaxVersions, <<n, k>> \in Heirs
                   PROVE  k - 1 \in 1..MaxVersions /\ <<n, k - 1>> \in A
      OBVIOUS
    <3>2. PICK a \in A : <<n, k>> = <<a[1], a[2] + 1>>
      BY <1>4, <3>1 DEF Heirs
    <3>3. PICK m \in Names, l \in 1..MaxVersions : a = <<m, l>>
      BY <1>11 DEF Tasks
    <3>4. n = m /\ k = l + 1
      BY <3>2, <3>3
    <3>5. k - 1 = l
      BY <3>4
    <3>q. QED BY <3>3, <3>4, <3>5
  <2>3. <<n, j>> \notin Heirs => <<n, j>> \in Created
    BY <1>12, <2>1
  <2>4. <<n, j>> \in Heirs => j - 1 \in 1..MaxVersions /\ <<n, j - 1>> \in A
    BY <2>2
  <2>5. \A k \in 1..MaxVersions : <<n, k>> \in Current =>
            \A l \in 1..MaxVersions : l > k => <<n, l>> \notin Created
    BY DEF IInv, Newest
  <2>6. CASE <<n, i>> \in Current \ A
    BY <1>11, <2>1, <2>3, <2>4, <2>5, <2>6
  <2>7. CASE <<n, i>> \in Heirs
    <3>1. i - 1 \in 1..MaxVersions /\ <<n, i - 1>> \in Current
      BY <1>2, <2>2, <2>7
    <3>2. j > i - 1 /\ j - 1 > i - 1
      BY <2>1
    <3>3. <<n, j>> \notin Created
      BY <2>5, <3>1, <3>2
    <3>4. j - 1 \in 1..MaxVersions /\ <<n, j - 1>> \in A
      BY <2>3, <2>4, <3>3
    <3>q. QED BY <1>11, <2>5, <3>1, <3>2, <3>4
  <2>q. QED BY <1>13, <2>1, <2>6, <2>7
<1>20. NoOrphanedExecution'
  <2>1. \A t \in superseded : t \notin A /\ t \notin Heirs
    BY <1>2, <1>3, <1>5
  <2>2. \A t \in superseded : task'[t] = task[t]
    BY <1>3, <1>6, <2>1
  <2>3. \A t \in A : task'[t].attempt = task[t].attempt /\ task[t].attempt \notin Working
    <3>1. TAKE t \in A
    <3>2. SUFFICES ASSUME task[t].attempt \in Working PROVE FALSE
      BY <1>6, <1>8
    <3>3. Drained(t) /\ t # Root
      BY <1>1, <1>2, <1>3, <1>11, <3>2
    <3>q. QED BY <3>2, <3>3 DEF Drained, Settled, Working
  <2>q. QED BY <1>1, <2>2, <2>3 DEF IInv, NoOrphanedExecution, Working
<1>21. \A v \in Nodes : Version(v) \notin superseded' /\ v \notin superseded
  <2>1. TAKE v \in Nodes
  <2>2. v \notin superseded
    BY <1>3
  <2>3. CASE v \in A
    <3>1. Version(v) \in Heirs
      BY <1>5, <2>3
    <3>q. QED BY <1>1, <1>3, <1>5, <1>11, <2>2, <3>1
  <2>4. CASE v \notin A
    BY <1>1, <1>3, <1>7, <2>2, <2>4
  <2>q. QED BY <2>3, <2>4
<1>22. CurrentInputs'
  <2>1. SUFFICES ASSUME NEW e \in edges', e[1] \in superseded' PROVE e[2] \in superseded'
    BY DEF CurrentInputs
  <2>2. e \in edges
    BY <1>1, <1>9, <1>21, <2>1
  <2>3. CASE e[1] \in superseded
    BY <1>1, <2>2, <2>3 DEF IInv, CurrentInputs
  <2>4. CASE e[1] \in A /\ e[2] \in Nodes
    BY <1>1, <1>2, <1>3, <2>2, <2>4 DEF CurrentEdges
  <2>5. CASE e[2] \notin Nodes
    BY <1>1, <1>3, <2>2, <2>5 DEF IInv, Wired
  <2>q. QED BY <1>1, <2>1, <2>3, <2>4, <2>5
<1>23. WorkRestsOnAccepted'
  <2>1. SUFFICES ASSUME NEW t \in Current', task'[t].attempt # "none" \/ task'[t].state = "done",
                        NEW p \in Nodes', <<p, t, "requires">> \in edges'
                 PROVE  State(p)' = "done"
    BY DEF WorkRestsOnAccepted, Requires
  <2> DEFINE e == <<p, t, "requires">>
  <2>2. e[1] = p /\ e[2] = t
    OBVIOUS
  <2>3. t \in Current \ A /\ task'[t] = task[t]
    BY <1>3, <1>6, <1>10, <1>13, <1>5, <2>1
  <2>4. e \in edges
    <3>1. SUFFICES ASSUME e \in copies PROVE FALSE
      BY <1>1, <2>1
    <3>2. PICK x \in CurrentEdges : t = Version(x[2]) /\ x[2] \in A
      BY <1>9, <2>2, <3>1
    <3>q. QED BY <1>3, <1>5, <2>3, <3>2
  <2> HIDE DEF e
  <2>5. p \in Nodes
    <3>1. Nodes' = Current' \cup {Root}
      BY DEF Nodes
    <3>2. p \in Created \cup {Root}
      BY <2>2, <2>4 DEF IInv, Wired
    <3>q. QED BY <1>3, <1>5, <1>13, <2>1, <3>1, <3>2
  <2>6. State(p) = "done"
    BY <2>1, <2>3, <2>4, <2>5 DEF IInv, WorkRestsOnAccepted, Requires, e
  <2>7. p \notin A
    <3>1. SUFFICES ASSUME p \in A PROVE FALSE
      OBVIOUS
    <3>2. e \in CurrentEdges
      BY <1>3, <2>2, <2>3, <2>4, <2>5 DEF CurrentEdges
    <3>q. QED BY <1>2, <2>2, <2>3, <3>1, <3>2
  <2>8. p # Root => task'[p] = task[p]
    BY <1>3, <1>5, <1>6, <2>5, <2>7
  <2>q. QED BY <1>1, <2>6, <2>8 DEF State
<1>q. QED
  BY <1>14, <1>16, <1>18, <1>19, <1>20, <1>22, <1>23 DEF IInv

\* Stop closes what is open, and withdraws what is prepared once nothing more can
\* be (JevRoomApplication.stop, in its three transactions).
LEMMA StopSteps == IInv /\ Stopping => IInv'
<1> SUFFICES ASSUME IInv, Stopping PROVE IInv'
  OBVIOUS
<1> USE DEF IInv
<1>1. Root \notin Tasks /\ Current \subseteq Tasks /\ superseded \subseteq Tasks
  BY GraphAssumption DEF Tasks, Current, Typed, Created
<1>2. CASE FenceStop
  <2>1. /\ stop = "no" /\ root = "active" /\ stop' = "fenced" /\ ~Pending'
        /\ UNCHANGED <<phase, root, task, superseded, edges, patches, report>>
    BY <1>2 DEF FenceStop, plan, Pending
  <2>2. Created' = Created /\ Current' = Current /\ Nodes' = Nodes
    BY <2>1 DEF Created, Current, Nodes
  <2>3. Typed' /\ Unplanned' /\ Wired' /\ Newest' /\ Fenced' /\ Final' /\ Stopped'
    BY <2>1, <2>2 DEF Typed, ReportFields, Unplanned, Wired, Newest, Fenced, Final, Stopped,
                      StopLeavesNothingPrepared
  <2>4. NoOrphanedExecution' /\ CurrentInputs' /\ FinalIsTruthful'
    BY <2>1 DEF NoOrphanedExecution, CurrentInputs, FinalIsTruthful
  <2>5. WorkRestsOnAccepted'
    BY <2>1, <2>2 DEF WorkRestsOnAccepted, Requires, State
  <2>q. QED BY <2>3, <2>4, <2>5
<1>3. ASSUME UNCHANGED <<phase, superseded, edges, revision>>,
             ReportFields', task' \in [Tasks -> WorkItem],
             root' = "cancelled", ~Pending, stop' \in {"cancelled", "withdrawn"},
             root \in {"active", "cancelled"},
             \A t \in Tasks :
                 /\ task'[t].state \notin Open
                 /\ task'[t].state = "absent" <=> task[t].state = "absent"
                 /\ task'[t].state = "done" <=> task[t].state = "done"
                 /\ \/ task'[t].attempt = task[t].attempt
                    \/ task'[t].attempt = "unsent" /\ task[t].attempt = "prepared",
             stop' = "withdrawn" => /\ \A t \in Tasks : task'[t].attempt # "prepared"
                                    /\ report'.state # "prepared"
      PROVE  IInv'
  <2>1. Created' = Created
    BY <1>3 DEF Created
  <2>2. Current' = Current /\ Nodes' = Nodes
    <3>1. Current = Created \ superseded /\ Current' = Created' \ superseded'
      BY DEF Current, Created
    <3>q. QED BY <1>3, <2>1, <3>1 DEF Nodes
  <2>3. ~Pending'
    BY <1>3 DEF Pending
  <2>4. Typed'
    BY <1>3, <2>1 DEF Typed
  <2>5. Unplanned' /\ Wired' /\ Newest' /\ Fenced' /\ Final' /\ FinalIsTruthful'
    BY <1>3, <2>1, <2>2, <2>3 DEF Unplanned, Wired, Newest, Fenced, Final, FinalIsTruthful
  <2>6. Stopped'
    BY <1>3, <2>3 DEF Stopped, StopLeavesNothingPrepared
  <2>7. NoOrphanedExecution' /\ CurrentInputs'
    BY <1>1, <1>3 DEF NoOrphanedExecution, CurrentInputs
  <2>8. WorkRestsOnAccepted'
    <3>1. \A u : Requires(u)' = Requires(u)
      BY <1>3, <2>2 DEF Requires
    <3>2. \A p \in Nodes : State(p) = "done" => State(p)' = "done"
      BY <1>1, <1>3 DEF State, Nodes
    <3>3. \A u \in Current : \A p \in Requires(u) : p \in Nodes
      BY DEF Requires
    <3>4. \A u \in Current : task'[u].attempt # "none" => task[u].attempt # "none"
      BY <1>1, <1>3
    <3>q. QED BY <1>1, <1>3, <2>2, <3>1, <3>2, <3>3, <3>4 DEF WorkRestsOnAccepted
  <2>q. QED BY <2>4, <2>5, <2>6, <2>7, <2>8
<1>4. CASE CancelRoot
  <2>1. /\ stop = "fenced" /\ stop' = "cancelled" /\ root' = "cancelled"
        /\ task' = [t \in Tasks |-> Retired(task[t])]
        /\ UNCHANGED <<phase, superseded, edges, revision, report>>
    BY <1>4 DEF CancelRoot, plan
  <2>2. \A w \in WorkItem :
           /\ Retired(w) \in WorkItem /\ Retired(w).state \notin Open
           /\ Retired(w).state = "absent" <=> w.state = "absent"
           /\ Retired(w).state = "done" <=> w.state = "done"
           /\ Retired(w).attempt = w.attempt
    BY DEF Retired, WorkItem, Open
  <2>3. \A t \in Tasks : task[t] \in WorkItem /\ task'[t] = Retired(task[t])
    BY <2>1 DEF Typed
  <2>4. task' \in [Tasks -> WorkItem]
    BY <2>1, <2>2, <2>3
  <2>5. ReportFields' /\ ~Pending /\ root = "active"
    BY <2>1 DEF Typed, ReportFields, Stopped
  <2>q. QED BY <1>3, <2>1, <2>2, <2>3, <2>4, <2>5
<1>5. CASE WithdrawPrepared
  <2>1. /\ stop = "cancelled" /\ stop' = "withdrawn" /\ root' = root
        /\ task' = [t \in Tasks |-> Withdrawn(task[t])]
        /\ report' = [report EXCEPT !.state = IF @ = "prepared" THEN "unsent" ELSE @]
        /\ UNCHANGED <<phase, superseded, edges, revision>>
    BY <1>5 DEF WithdrawPrepared, plan
  <2>2. \A w \in WorkItem :
           /\ Withdrawn(w) \in WorkItem /\ Withdrawn(w).state = w.state
           /\ Withdrawn(w).attempt # "prepared"
           /\ \/ Withdrawn(w).attempt = w.attempt
              \/ Withdrawn(w).attempt = "unsent" /\ w.attempt = "prepared"
    <3>1. TAKE w \in WorkItem
    <3>2. w.refused + 1 \in Nat
      BY DEF WorkItem
    <3>3. Withdrawn(w) \in {[w EXCEPT !.attempt = "unsent", !.refused = w.refused + 1],
                            [w EXCEPT !.attempt = "unsent", !.refused = w.refused]}
          \/ (Withdrawn(w) = w /\ w.attempt # "prepared")
      BY DEF Unsent, Withdrawn
    <3>4. w.attempt # "prepared" => Withdrawn(w) = w
      BY DEF Withdrawn
    <3>q. QED BY <3>2, <3>3, <3>4 DEF WorkItem
  <2>3. \A t \in Tasks : task[t] \in WorkItem /\ task'[t] = Withdrawn(task[t])
    BY <2>1 DEF Typed
  <2>4. task' \in [Tasks -> WorkItem]
    BY <2>1, <2>2, <2>3
  <2>5. ReportFields' /\ report'.state # "prepared"
    BY <2>1 DEF Typed, ReportFields
  <2>6. root = "cancelled" /\ ~Pending /\ \A t \in Tasks : task[t].state \notin Open
    BY <2>1 DEF Stopped
  <2>q. QED BY <1>3, <2>1, <2>2, <2>3, <2>4, <2>5, <2>6
<1>q. QED
  BY <1>2, <1>4, <1>5 DEF Stopping

-----------------------------------------------------------------------------
\* Every behaviour of a graph satisfies the invariant.
LEMMA Invariance == Spec => []IInv
<1>1. IInv /\ [Next]_vars => IInv'
  <2>1. SUFFICES ASSUME IInv, [Next]_vars PROVE IInv'
    OBVIOUS
  <2>2. CASE UNCHANGED vars
    <3>1. UNCHANGED <<phase, root, task, superseded, edges, patches, revision, report, stop>>
      BY <2>2 DEF vars, plan
    <3>2. Created' = Created /\ Current' = Current /\ Nodes' = Nodes /\ CurrentEdges' = CurrentEdges
      BY <3>1 DEF Created, Current, Nodes, CurrentEdges
    <3>3. Typed' /\ Unplanned' /\ Wired' /\ Newest' /\ Fenced' /\ Final' /\ Stopped'
      BY <2>1, <3>1, <3>2 DEF IInv, Typed, ReportFields, Unplanned, Wired, Newest, Fenced, Final, Stopped,
                        StopLeavesNothingPrepared, Pending
    <3>4. NoOrphanedExecution' /\ CurrentInputs'
      BY <2>1, <3>1 DEF IInv, NoOrphanedExecution, CurrentInputs
    <3>5. WorkRestsOnAccepted'
      BY <2>1, <3>1, <3>2 DEF IInv, WorkRestsOnAccepted, Requires, State
    <3>6. FinalIsTruthful'
      BY <2>1, <3>1, <3>2 DEF IInv, FinalIsTruthful, Subject, Slots, Pending
    <3>q. QED BY <3>3, <3>4, <3>5, <3>6 DEF IInv
  <2>3. CASE Next
    <3>1. ASSUME NEW S \in SUBSET Names, NEW D \in SUBSET (S \X S), ApplyPlan(S, D) PROVE IInv'
      BY <2>1, <3>1, PlanStep
    <3>2. ASSUME NEW add \in OneOf(Edges \ edges), NEW remove \in OneOf(CurrentEdges),
                 ChangeEdges(add, remove)
          PROVE  IInv'
      <4>1. \A e \in add : e[1] # e[2]
        BY DEF OneOf, Edges
      <4>q. QED BY <2>1, <3>2, <4>1, EdgeStep
    <3>3. ASSUME NEW t \in Tasks, OwnerCommand(t) \/ Execution(t) \/ CloseExhausted(t) PROVE IInv'
      BY <2>1, <3>3, TaskSteps
    <3>4. ASSUME NEW t \in Tasks, RequestRevision(t) PROVE IInv'
      BY <2>1, <3>4, RequestStep
    <3>q. QED
      BY <2>1, <2>3, <3>1, <3>2, <3>3, <3>4, ApplyStep, ReportSteps, StopSteps DEF Next
  <2>q. QED BY <2>1, <2>2, <2>3
<1>q. QED
  BY <1>1, Initially, PTL DEF Spec

\* A task that has begun, or is done, rests on accepted prerequisites, whatever
\* edges and revisions came since.
THEOREM RestsOnAccepted == Spec => []WorkRestsOnAccepted
<1>1. IInv => WorkRestsOnAccepted
  BY DEF IInv
<1>q. QED BY <1>1, Invariance, PTL

\* No current task takes input from a version that a revision replaced.
THEOREM InputsAreCurrent == Spec => []CurrentInputs
<1>1. IInv => CurrentInputs
  BY DEF IInv
<1>q. QED BY <1>1, Invariance, PTL

\* A version is replaced only after its attempt has drained or was never sent.
THEOREM NothingOrphaned == Spec => []NoOrphanedExecution
<1>1. IInv => NoOrphanedExecution
  BY DEF IInv
<1>q. QED BY <1>1, Invariance, PTL

\* A final covers the graph that it ends, and nothing goes on behind it.
THEOREM TruthfulFinal == Spec => []FinalIsTruthful
<1>1. IInv => FinalIsTruthful
  BY DEF IInv
<1>q. QED BY <1>1, Invariance, PTL

\* Once Stop has withdrawn, nothing can be sent any more.
THEOREM StopIsClean == Spec => []StopLeavesNothingPrepared
<1>1. IInv => StopLeavesNothingPrepared
  BY DEF IInv, Stopped
<1>q. QED BY <1>1, Invariance, PTL
=============================================================================
