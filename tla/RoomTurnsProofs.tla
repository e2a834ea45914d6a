-------------------------- MODULE RoomTurnsProofs --------------------------
(***************************************************************************)
(* Proofs about the Room turns of one Session, for any number of prompts,  *)
(* threads, Roots and runtime events.                                      *)
(***************************************************************************)
EXTENDS RoomTurns, WellFoundedInduction, TLAPS

USE RoomTurnsAssumption DEF Dispatches, Prompts

-----------------------------------------------------------------------------
(***************************************************************************)
(* The registry, and what each section of its lock does to it.             *)
(***************************************************************************)
Registry ==
    [pending : Dispatches \cup {None}, bound : [Prompts -> Roots \cup {None}],
     notice : Notices \cup {None}, private : SUBSET Prompts,
     cancelled : SUBSET Roots, cancelledRoot : Roots \cup {None},
     cancelledTurn : [Prompts -> Roots \cup {None}], claimed : SUBSET Roots,
     buffer : [Prompts -> Seq(Event)], priority : Prompts \cup {None}]

\* A turn is bound to its own Root, and only a cancelled Root marks what it stops.
WellFormed(reg) ==
    /\ reg \in Registry
    /\ \A p \in Prompts : reg.bound[p] \in {None, Root(p)}
    /\ reg.claimed \subseteq reg.cancelled
    /\ \A p \in Prompts : reg.cancelledTurn[p] \in reg.cancelled \cup {None}
    /\ reg.cancelledRoot \in reg.cancelled \cup {None}

\* What every section keeps but accept, claim and the lane's buffering: cancelled
\* Roots and claims stay, turns are unbound and buffers emptied, never the reverse.
Keeps(reg, new) ==
    /\ WellFormed(new)
    /\ reg.cancelled \subseteq new.cancelled /\ reg.claimed = new.claimed
    /\ \A p \in Prompts : new.bound[p] \in {reg.bound[p], None}
    /\ \A p \in Prompts : new.buffer[p] \in {reg.buffer[p], <<>>}

\* The Root of a prompt is a Root if the prompt is a dispatch.
LEMMA RootType ==
    /\ \A p \in Dispatches : Root(p) \in Roots
    /\ \A p \in Prompts : Root(p) \in Roots \cup {None} /\ Root(p) # p /\ p # None
BY DEF Root

\* No turn has an event kept for it.
LEMMA EmptyBuffer ==
    NoBuffer \in [Prompts -> Seq(Event)] /\ \A p \in Prompts : NoBuffer[p] = <<>>
BY DEF NoBuffer

\* Sections of the lock follow each other.
LEMMA KeepsOn ==
    ASSUME NEW a, NEW b, NEW c, Keeps(a, b), Keeps(b, c) PROVE Keeps(a, c)
BY DEF Keeps

\* What release_priority keeps.
LEMMA ReleasedKeeps ==
    ASSUME NEW reg, WellFormed(reg), NEW p
    PROVE  /\ Keeps(reg, Released(reg, p)) /\ Released(reg, p).pending = reg.pending
           /\ Released(reg, p).bound = reg.bound /\ Released(reg, p).buffer = reg.buffer
           /\ Released(reg, p).cancelled = reg.cancelled
BY DEF Released, Keeps, WellFormed, Registry

\* What begin keeps.
LEMMA BegunKeeps ==
    ASSUME NEW reg, WellFormed(reg), NEW p \in Dispatches
    PROVE  Keeps(reg, Begun(reg, p)) /\ Begun(reg, p).pending = p
<1> DEFINE new == Begun(reg, p)
<1> DEFINE turns == [t \in Prompts |-> None]
<1>1. new = [reg EXCEPT !.pending = p, !.buffer = NoBuffer, !.cancelledRoot = None,
                        !.cancelledTurn = turns]
  BY DEF Begun
<1>2. turns \in [Prompts -> Roots \cup {None}] /\ \A t \in Prompts : turns[t] = None
  OBVIOUS
<1> HIDE DEF new, turns
<1>3. new \in Registry /\ new.pending = p /\ new.buffer = NoBuffer
  BY <1>1, <1>2, EmptyBuffer DEF WellFormed, Registry
<1>4. /\ new.bound = reg.bound /\ new.cancelled = reg.cancelled /\ new.claimed = reg.claimed
      /\ new.cancelledRoot = None /\ \A t \in Prompts : new.cancelledTurn[t] = None
  BY <1>1, <1>2 DEF WellFormed, Registry
<1>5. Keeps(reg, new) /\ new.pending = p
  BY <1>3, <1>4, EmptyBuffer DEF Keeps, WellFormed
<1>q. QED BY <1>5 DEF new

\* What cancel keeps.
LEMMA CancelledKeeps ==
    ASSUME NEW reg, WellFormed(reg), NEW root \in Roots
    PROVE  /\ Keeps(reg, Cancelled(reg, root))
           /\ Cancelled(reg, root).pending \in {reg.pending, None}
           /\ reg.pending # None /\ Root(reg.pending) = root => Cancelled(reg, root).pending = None
<1> DEFINE new == Cancelled(reg, root)
           stopped == root \in reg.cancelled
           own == reg.pending # None /\ Root(reg.pending) = root
           turns == [t \in Prompts |-> IF stopped /\ reg.bound[t] = root THEN root ELSE reg.cancelledTurn[t]]
           bound == [t \in Prompts |-> IF reg.bound[t] = root THEN None ELSE reg.bound[t]]
           mark == IF stopped THEN root ELSE reg.cancelledRoot
           pending == IF own THEN None ELSE reg.pending
           buffer == IF own THEN NoBuffer ELSE reg.buffer
<1>1. new = [reg EXCEPT !.cancelledRoot = mark, !.pending = pending, !.buffer = buffer,
                        !.cancelledTurn = turns, !.bound = bound]
  BY DEF Cancelled
<1>2. /\ turns \in [Prompts -> Roots \cup {None}] /\ bound \in [Prompts -> Roots \cup {None}]
      /\ \A t \in Prompts : bound[t] \in {reg.bound[t], None}
      /\ \A t \in Prompts : turns[t] \in reg.cancelled \cup {None}
  BY DEF WellFormed, Registry
<1>3. /\ mark \in reg.cancelled \cup {None} /\ pending \in {reg.pending, None}
      /\ buffer \in [Prompts -> Seq(Event)] /\ \A t \in Prompts : buffer[t] \in {reg.buffer[t], <<>>}
      /\ mark \in Roots \cup {None} /\ pending \in Dispatches \cup {None}
      /\ own => pending = None
  BY EmptyBuffer DEF WellFormed, Registry
<1> HIDE DEF new, turns, bound, mark, pending, buffer
<1>4. /\ new \in Registry /\ new.bound = bound /\ new.cancelledTurn = turns
      /\ new.cancelled = reg.cancelled /\ new.claimed = reg.claimed
      /\ new.cancelledRoot = mark /\ new.pending = pending /\ new.buffer = buffer
  BY <1>1, <1>2, <1>3 DEF WellFormed, Registry
<1>5. Keeps(reg, new)
  BY <1>2, <1>3, <1>4 DEF Keeps, WellFormed
<1>q. QED BY <1>3, <1>4, <1>5 DEF new

\* What finish keeps.
LEMMA FinishedKeeps ==
    ASSUME NEW reg, WellFormed(reg), NEW turn \in Prompts, NEW root
    PROVE  /\ Keeps(reg, Finished(reg, turn, root))
           /\ Finished(reg, turn, root).pending \in {reg.pending, None}
           /\ Finished(reg, turn, root).buffer = NoBuffer
<1> DEFINE new == Finished(reg, turn, root)
           pending == IF reg.pending # None /\ Root(reg.pending) = root THEN None ELSE reg.pending
           bound == [reg.bound EXCEPT ![turn] = None]
<1>1. new = [reg EXCEPT !.bound = bound, !.pending = pending, !.buffer = NoBuffer]
  BY DEF Finished
<1>2. /\ bound \in [Prompts -> Roots \cup {None}]
      /\ \A t \in Prompts : bound[t] \in {reg.bound[t], None}
      /\ pending \in {reg.pending, None} /\ pending \in Dispatches \cup {None}
  BY DEF WellFormed, Registry
<1> HIDE DEF new, bound, pending
<1>3. /\ new \in Registry /\ new.bound = bound /\ new.cancelledTurn = reg.cancelledTurn
      /\ new.cancelled = reg.cancelled /\ new.claimed = reg.claimed
      /\ new.cancelledRoot = reg.cancelledRoot /\ new.pending = pending /\ new.buffer = NoBuffer
  BY <1>1, <1>2, EmptyBuffer DEF WellFormed, Registry
<1>4. Keeps(reg, new)
  BY <1>2, <1>3, EmptyBuffer DEF Keeps, WellFormed
<1>q. QED BY <1>2, <1>3, <1>4 DEF new

\* finish_private_intercom_event
LEMMA TakenKeeps ==
    ASSUME NEW reg, WellFormed(reg), NEW e \in Event
    PROVE  /\ Keeps(reg, TakenPrivately(reg, e))
           /\ TakenPrivately(reg, e).pending = reg.pending
           /\ TakenPrivately(reg, e).bound = reg.bound
           /\ TakenPrivately(reg, e).buffer = reg.buffer
<1> DEFINE new == TakenPrivately(reg, e)
           notice == IF e.turn \in reg.private THEN reg.notice ELSE None
           private == IF Terminal(e) THEN reg.private \ {e.turn} ELSE reg.private \cup {e.turn}
<1>1. new = [reg EXCEPT !.notice = notice, !.private = private]
  BY DEF TakenPrivately
<1>2. notice \in Notices \cup {None} /\ private \in SUBSET Prompts
  BY DEF WellFormed, Registry, Event
<1> HIDE DEF new, notice, private
<1>3. /\ new \in Registry /\ new.bound = reg.bound /\ new.cancelledTurn = reg.cancelledTurn
      /\ new.cancelled = reg.cancelled /\ new.claimed = reg.claimed
      /\ new.cancelledRoot = reg.cancelledRoot /\ new.pending = reg.pending /\ new.buffer = reg.buffer
  BY <1>1, <1>2 DEF WellFormed, Registry
<1>4. Keeps(reg, new)
  BY <1>3 DEF Keeps, WellFormed
<1>q. QED BY <1>3, <1>4 DEF new

\* turn_for_event, which remembers what it resolved of a cancelled Root
LEMMA ResolvedKeeps ==
    ASSUME NEW reg, WellFormed(reg), NEW e \in Event
    PROVE  /\ Keeps(reg, Resolved(reg, e))
           /\ Resolved(reg, e).pending = reg.pending
           /\ Resolved(reg, e).bound = reg.bound
           /\ Resolved(reg, e).buffer = reg.buffer
<1> DEFINE new == Resolved(reg, e)
           turns == [reg.cancelledTurn EXCEPT ![e.turn] = reg.cancelledRoot]
<1>1. new = reg \/ new = [reg EXCEPT !.cancelledTurn = turns]
  BY DEF Resolved
<1>2. /\ turns \in [Prompts -> Roots \cup {None}]
      /\ \A t \in Prompts : turns[t] \in reg.cancelled \cup {None}
  BY DEF WellFormed, Registry, Event
<1> HIDE DEF new, turns
<1>3. /\ new \in Registry /\ new.bound = reg.bound
      /\ \A t \in Prompts : new.cancelledTurn[t] \in reg.cancelled \cup {None}
      /\ new.cancelled = reg.cancelled /\ new.claimed = reg.claimed
      /\ new.cancelledRoot = reg.cancelledRoot /\ new.pending = reg.pending /\ new.buffer = reg.buffer
  <2>1. CASE new = reg
    BY <2>1 DEF WellFormed
  <2>2. CASE new = [reg EXCEPT !.cancelledTurn = turns]
    BY <1>2, <2>2 DEF WellFormed, Registry
  <2>q. QED BY <1>1, <2>1, <2>2
<1>4. Keeps(reg, new)
  BY <1>3 DEF Keeps, WellFormed
<1>q. QED BY <1>3, <1>4 DEF new

\* claim_cancelled_terminal, and mark_cancelled_terminal by Stop
LEMMA ClaimedKeeps ==
    ASSUME NEW reg, WellFormed(reg), NEW root \in reg.cancelled \cup {None}
    PROVE  /\ WellFormed(Claimed(reg, root))
           /\ Claimed(reg, root).claimed = reg.claimed \cup ({root} \ {None})
           /\ Claimed(reg, root).cancelled = reg.cancelled
           /\ Claimed(reg, root).pending = reg.pending
           /\ Claimed(reg, root).bound = reg.bound
           /\ Claimed(reg, root).buffer = reg.buffer
<1>1. root = None => Claimed(reg, root) = reg
  BY DEF Claimed
<1>2. root # None => Claimed(reg, root) = [reg EXCEPT !.claimed = reg.claimed \cup {root}]
  BY DEF Claimed
<1>3. reg.claimed \cup {root} \subseteq reg.cancelled \cup {None} /\ reg.cancelled \subseteq Roots
  BY DEF WellFormed, Registry
<1> DEFINE new == Claimed(reg, root)
<1>4. CASE root = None
  <2>1. new = reg /\ reg.claimed = reg.claimed \cup ({root} \ {None})
    BY <1>1, <1>4
  <2>q. QED BY <2>1
<1>5. CASE root # None
  <2> DEFINE claimed == reg.claimed \cup {root}
  <2>1. new = [reg EXCEPT !.claimed = claimed] /\ claimed \subseteq reg.cancelled
        /\ claimed = reg.claimed \cup ({root} \ {None})
    BY <1>2, <1>3, <1>5 DEF WellFormed
  <2> HIDE DEF new, claimed
  <2>2. /\ new \in Registry /\ new.claimed = claimed /\ new.cancelled = reg.cancelled
        /\ new.pending = reg.pending /\ new.bound = reg.bound /\ new.buffer = reg.buffer
        /\ new.cancelledTurn = reg.cancelledTurn /\ new.cancelledRoot = reg.cancelledRoot
    BY <1>3, <2>1 DEF WellFormed, Registry
  <2>q. QED BY <2>1, <2>2 DEF WellFormed, new
<1>q. QED BY <1>4, <1>5

\* An abort terminal is claimed once, and for a cancelled Root.
LEMMA ClaimRootType ==
    ASSUME NEW reg, WellFormed(reg), NEW e \in Event
    PROVE  ClaimRoot(reg, e) \in (reg.cancelled \ reg.claimed) \cup {None}
BY DEF ClaimRoot

\* An event of no cancelled Root resolves to its own turn, or to the Root that the
\* turn is bound to.
LEMMA ResolvesToItsOwn ==
    ASSUME NEW reg, WellFormed(reg), NEW e \in Event, ~IsCancelled(reg, Registered(reg, e))
    PROVE  \/ Registered(reg, e) = e.turn
           \/ Registered(reg, e) = Root(e.turn) /\ reg.bound[e.turn] # None
BY DEF Registered, IsCancelled, WellFormed, Event

-----------------------------------------------------------------------------
(***************************************************************************)
(* What becomes public.                                                    *)
(***************************************************************************)
Line == [n : Nat, root : Roots \cup Prompts \cup {None}]
Publics == [said : [Prompts -> Seq(Line)], aborts : [Roots -> Nat]]

\* A claim adds an abort to its Root, any other publication a line to its turn.
WithAbort(rm, root) == [rm EXCEPT !.aborts[root] = @ + 1]
WithLine(rm, e, root) == [rm EXCEPT !.said[e.turn] = Append(@, [n |-> e.n, root |-> root])]
Extended(said, e, root) == [said EXCEPT ![e.turn] = Append(@, [n |-> e.n, root |-> root])]

\* One more abort terminal of a Root, and nothing else.
LEMMA AbortAdds ==
    ASSUME NEW rm \in Publics, NEW root \in Roots
    PROVE  /\ WithAbort(rm, root) \in Publics
           /\ WithAbort(rm, root).said = rm.said
           /\ WithAbort(rm, root).aborts = [rm.aborts EXCEPT ![root] = rm.aborts[root] + 1]
<1> DEFINE aborts == [rm.aborts EXCEPT ![root] = rm.aborts[root] + 1]
<1>1. WithAbort(rm, root) = [rm EXCEPT !.aborts = aborts]
  BY DEF WithAbort, Publics
<1>2. aborts \in [Roots -> Nat]
  BY DEF Publics
<1> HIDE DEF aborts
<1>3. /\ WithAbort(rm, root) \in Publics
      /\ WithAbort(rm, root).said = rm.said
      /\ WithAbort(rm, root).aborts = aborts
  BY <1>1, <1>2 DEF Publics
<1>q. QED BY <1>3 DEF aborts

\* One more line of a turn, and nothing else.
LEMMA LineAdds ==
    ASSUME NEW rm \in Publics, NEW e \in Event, NEW root \in Roots \cup Prompts \cup {None}
    PROVE  /\ WithLine(rm, e, root) \in Publics
           /\ WithLine(rm, e, root).aborts = rm.aborts
           /\ WithLine(rm, e, root).said = Extended(rm.said, e, root)
<1> DEFINE line == [n |-> e.n, root |-> root]
           said == [rm.said EXCEPT ![e.turn] = Append(rm.said[e.turn], line)]
<1>1. WithLine(rm, e, root) = [rm EXCEPT !.said = said] /\ said = Extended(rm.said, e, root)
  BY DEF WithLine, Publics, Extended
<1>2. line \in Line /\ rm.said \in [Prompts -> Seq(Line)] /\ e.turn \in Prompts
  BY DEF Line, Publics, Event
<1>3. Append(rm.said[e.turn], line) \in Seq(Line)
  <2> HIDE DEF line
  <2>q. QED BY <1>2
<1>4. said \in [Prompts -> Seq(Line)]
  BY <1>2, <1>3
<1> HIDE DEF said
<1>5. /\ WithLine(rm, e, root) \in Publics
      /\ WithLine(rm, e, root).aborts = rm.aborts
      /\ WithLine(rm, e, root).said = said
  BY <1>1, <1>4 DEF Publics
<1>q. QED BY <1>1, <1>5

\* An event that is mirrored at once (_mirror_event_to_room), when nothing is pending.
LEMMA MirroredStep ==
    ASSUME NEW reg, WellFormed(reg), reg.pending = None, reg.buffer = NoBuffer,
           NEW rm \in Publics, NEW e \in Event, NEW new,
           new = Mirrored([reg |-> reg, rm |-> rm], e)
    PROVE  /\ WellFormed(new.reg) /\ new.reg.pending = None /\ new.reg.buffer = NoBuffer
           /\ reg.cancelled \subseteq new.reg.cancelled /\ reg.claimed \subseteq new.reg.claimed
           /\ \A p \in Prompts : new.reg.bound[p] \in {reg.bound[p], None}
           /\ new.rm \in Publics
           /\ \A r \in Roots :
                 \/ new.rm.aborts[r] = rm.aborts[r]
                 \/ /\ new.rm.aborts[r] = rm.aborts[r] + 1
                    /\ r \in new.reg.claimed \ reg.claimed
           /\ \/ new.rm.said = rm.said
              \/ \E root \in {e.turn, Root(e.turn)} :
                    new.rm.said = Extended(rm.said, e, root)
           /\ new = [reg |-> new.reg, rm |-> new.rm]
<1> DEFINE claim == ClaimRoot(reg, e)
           mid == Claimed(reg, claim)
           root == IF claim # None THEN claim ELSE Registered(mid, e)
<1>1. claim \in (reg.cancelled \ reg.claimed) \cup {None} /\ claim \in Roots \cup {None}
  BY ClaimRootType DEF WellFormed, Registry
<1>2. /\ WellFormed(mid) /\ mid.claimed = reg.claimed \cup ({claim} \ {None})
      /\ mid.cancelled = reg.cancelled /\ mid.pending = None
      /\ mid.bound = reg.bound /\ mid.buffer = NoBuffer
  BY <1>1, ClaimedKeeps
<1>3. e.turn \in Prompts
  BY DEF Event
<1>a. new = IF claim = None /\ ~Allows(mid, e) THEN [reg |-> Kept(mid, e), rm |-> rm]
            ELSE IF Private(mid, e) THEN [reg |-> TakenPrivately(mid, e), rm |-> rm]
            ELSE IF claim = None /\ IsCancelled(mid, root) THEN [reg |-> Resolved(mid, e), rm |-> rm]
            ELSE [reg |-> IF Terminal(e) THEN Finished(mid, e.turn, root) ELSE mid,
                  rm |-> Published(rm, e, root, claim # None)]
  <2> DEFINE state == [reg |-> reg, rm |-> rm]
  <2>1. \A x : [state EXCEPT !.reg = x] = [reg |-> x, rm |-> rm]
    OBVIOUS
  <2>2. state.reg = reg /\ state.rm = rm /\ new = Mirrored(state, e)
    OBVIOUS
  <2> HIDE DEF state
  <2>q. QED BY <2>1, <2>2 DEF Mirrored
<1> HIDE DEF claim, mid, root
<1>4. CASE claim = None /\ ~Allows(mid, e)
  <2>1. Kept(mid, e) = mid
    BY <1>2 DEF Kept
  <2>2. new = [reg |-> mid, rm |-> rm]
    BY <1>4, <1>a, <2>1
  <2>q. QED BY <1>2, <2>2
<1>5. CASE ~(claim = None /\ ~Allows(mid, e)) /\ Private(mid, e)
  <2>1. new = [reg |-> TakenPrivately(mid, e), rm |-> rm]
    BY <1>5, <1>a
  <2>q. QED BY <1>2, <2>1, TakenKeeps DEF Keeps
<1>6. CASE /\ ~(claim = None /\ ~Allows(mid, e)) /\ ~Private(mid, e)
           /\ claim = None /\ IsCancelled(mid, root)
  <2>1. new = [reg |-> Resolved(mid, e), rm |-> rm]
    BY <1>6, <1>a
  <2>q. QED BY <1>2, <2>1, ResolvedKeeps DEF Keeps
<1>7. CASE /\ ~(claim = None /\ ~Allows(mid, e)) /\ ~Private(mid, e)
           /\ ~(claim = None /\ IsCancelled(mid, root))
  <2> DEFINE last == IF Terminal(e) THEN Finished(mid, e.turn, root) ELSE mid
             public == Published(rm, e, root, claim # None)
  <2>1. new = [reg |-> last, rm |-> public]
    BY <1>7, <1>a
  <2>2. /\ WellFormed(last) /\ last.pending = None /\ last.buffer = NoBuffer
        /\ mid.cancelled \subseteq last.cancelled /\ mid.claimed = last.claimed
        /\ \A p \in Prompts : last.bound[p] \in {mid.bound[p], None}
    BY <1>2, <1>3, FinishedKeeps DEF Keeps
  <2> HIDE DEF last
  <2>3. CASE claim # None
    <3>1. root = claim /\ public = WithAbort(rm, claim)
      BY <2>3 DEF Published, WithAbort, root
    <3>2. /\ public \in Publics /\ public.said = rm.said
          /\ public.aborts = [rm.aborts EXCEPT ![claim] = rm.aborts[claim] + 1]
      <4>1. claim \in Roots
        BY <1>1, <2>3
      <4> HIDE DEF public
      <4>q. QED BY <3>1, <4>1, AbortAdds
    <3>3. claim \in mid.claimed \ reg.claimed
      BY <1>1, <1>2, <2>3
    <3>4. \A r \in Roots : \/ public.aborts[r] = rm.aborts[r]
                           \/ /\ public.aborts[r] = rm.aborts[r] + 1
                              /\ r \in mid.claimed \ reg.claimed
      BY <3>2, <3>3 DEF Publics
    <3> HIDE DEF public
    <3>5. new.reg = last /\ new.rm = public /\ new = [reg |-> new.reg, rm |-> new.rm]
      BY <2>1
    <3>q. QED BY <1>2, <2>2, <3>2, <3>4, <3>5
  <2>4. CASE claim = None
    <3>1. /\ ~IsCancelled(mid, root) /\ root = Registered(mid, e)
      BY <1>7, <2>4 DEF root
    <3>2. root \in {e.turn, Root(e.turn)}
      BY <1>2, <3>1, ResolvesToItsOwn
    <3>3. root \in Roots \cup Prompts \cup {None}
      BY <1>3, <3>2, RootType
    <3>4. public = WithLine(rm, e, root)
      BY <2>4 DEF Published, WithLine
    <3>5. /\ public \in Publics /\ public.aborts = rm.aborts
          /\ public.said = Extended(rm.said, e, root)
      <4> HIDE DEF public
      <4>q. QED BY <3>3, <3>4, LineAdds
    <3> HIDE DEF public
    <3>6. new.reg = last /\ new.rm = public /\ new = [reg |-> new.reg, rm |-> new.rm]
      BY <2>1
    <3>q. QED BY <1>2, <2>2, <3>2, <3>5, <3>6
  <2>q. QED BY <2>3, <2>4
<1>q. QED BY <1>4, <1>5, <1>6, <1>7

-----------------------------------------------------------------------------
(***************************************************************************)
(* accept: the events kept for the turn, one after the other.              *)
(***************************************************************************)
\* A nonempty set of naturals has a least element: used in place of induction.
LEMMA Least == ASSUME NEW T, T \subseteq Nat, T # {} PROVE \E x \in T : \A y \in T : x <= y
<1> DEFINE R == {p \in Nat \X Nat : p[1] < p[2]}
<1>1. IsWellFoundedOn(R, Nat)
  BY NatLessThanWellFounded DEF OpToRel
<1>2. \A x, y \in Nat : y < x => <<y, x>> \in R
  <2> TAKE x, y \in Nat
  <2>1. <<y, x>> \in Nat \X Nat /\ <<y, x>>[1] = y /\ <<y, x>>[2] = x
    OBVIOUS
  <2>q. QED BY <2>1
<1> HIDE DEF R
<1>3. PICK x \in T : \A y \in T : <<y, x>> \notin R
  BY <1>1, WFMin
<1>4. \A y \in T : x <= y
  <2> TAKE y \in T
  <2>1. x \in Nat /\ y \in Nat
    OBVIOUS
  <2>2. ~ (y < x)
    BY <1>2, <1>3, <2>1
  <2>q. QED BY <2>1, <2>2
<1>q. QED BY <1>4

\* The registry and the Room when the turn has just been bound.
Start(reg, p) ==
    [reg |-> [reg EXCEPT !.pending = None, !.bound[p] = Root(p), !.buffer = NoBuffer],
     rm |-> room]

\* The recursive function of Accepted exists, so it unfolds.
LEMMA Unfolded ==
    ASSUME NEW reg, NEW p, NEW kept, kept = reg.buffer[p], Len(kept) \in Nat
    PROVE  \E f : /\ Accepted(reg, p) = f[Len(kept)] /\ f[0] = Start(reg, p)
                  /\ \A n \in 1..Len(kept) : f[n] = Mirrored(f[n - 1], kept[n])
<1> DEFINE Def(g, n) == IF n = 0 THEN Start(reg, p) ELSE Mirrored(g[n - 1], kept[n])
           P(k) == \E g : g = [n \in 0..k |-> Def(g, n)]
           Bad == {k \in Nat : ~ P(k)}
<1>1. P(0)
  <2> DEFINE g == [n \in 0..0 |-> Start(reg, p)]
  <2>1. g = [n \in 0..0 |-> IF n = 0 THEN Start(reg, p) ELSE Mirrored(g[n - 1], kept[n])]
    OBVIOUS
  <2>q. QED BY <2>1
<1>2. \A k \in Nat \ {0} : P(k - 1) => P(k)
  <2> SUFFICES ASSUME NEW k \in Nat \ {0}, NEW g, g = [n \in 0..(k - 1) |-> Def(g, n)]
               PROVE \E h : h = [n \in 0..k |-> Def(h, n)]
    BY Zenon
  <2> DEFINE h == [n \in 0..k |-> Def(g, n)]
  <2>1. \A n \in 0..(k - 1) : h[n] = g[n]
    <3>1. \A n \in 0..(k - 1) : g[n] = Def(g, n)
      <4> HIDE DEF Def
      <4>q. QED OBVIOUS
    <3>2. \A n \in 0..(k - 1) : h[n] = Def(g, n)
      <4> HIDE DEF Def
      <4>q. QED OBVIOUS
    <3>q. QED BY <3>1, <3>2
  <2>2. \A n \in 0..k : Def(g, n) = Def(h, n)
    <3> SUFFICES ASSUME NEW n \in 0..k, n # 0
                 PROVE Mirrored(g[n - 1], kept[n]) = Mirrored(h[n - 1], kept[n])
      OBVIOUS
    <3>1. n - 1 \in 0..(k - 1)
      OBVIOUS
    <3> HIDE DEF h
    <3>q. QED BY <2>1, <3>1
  <2>3. h = [n \in 0..k |-> Def(h, n)]
    <3>1. [n \in 0..k |-> Def(g, n)] = [n \in 0..k |-> Def(h, n)]
      <4> HIDE DEF Def, h
      <4>q. QED BY <2>2
    <3>q. QED BY <3>1
  <2>q. QED BY <2>3
<1>3. Bad = {}
  <2> HIDE DEF P
  <2> SUFFICES ASSUME Bad # {} PROVE FALSE
    OBVIOUS
  <2>1. PICK x \in Bad : \A y \in Bad : x <= y
    BY Least
  <2>2. x # 0 /\ x - 1 \in Nat /\ x - 1 \notin Bad
    BY <1>1, <2>1
  <2>q. QED BY <1>2, <2>1, <2>2
<1> DEFINE N == Len(kept)
           f == CHOOSE g : g = [n \in 0..N |-> Def(g, n)]
<1>4. P(N)
  <2> HIDE DEF P
  <2>q. QED BY <1>3
<1>5. f = [n \in 0..N |-> Def(f, n)]
  <2> DEFINE Body(g) == [n \in 0..N |-> Def(g, n)]
  <2>1. \E g : g = Body(g)
    BY <1>4
  <2> HIDE DEF Body
  <2>2. (CHOOSE g : g = Body(g)) = Body(CHOOSE g : g = Body(g))
    BY <2>1
  <2>q. QED BY <2>2 DEF Body
<1>6. Accepted(reg, p) = f[N]
  BY DEF Accepted, Start
<1>7. \A n \in 0..N : f[n] = Def(f, n)
  <2> HIDE DEF Def, f, N
  <2>q. QED BY <1>5
<1>8. f[0] = Start(reg, p) /\ \A n \in 1..N : f[n] = Mirrored(f[n - 1], kept[n])
  <2> HIDE DEF f
  <2>q. QED BY <1>7
<1>q. QED BY <1>6, <1>8

\* What the first m of the kept events add to what the turn has said.
Grown(old, new, p, events, m) ==
    /\ Len(old) <= Len(new)
    /\ \A i \in 1..Len(old) : new[i] = old[i]
    /\ \A i \in (Len(old) + 1)..Len(new) :
           /\ new[i].root \in {p, Root(p)}
           /\ \E k \in 1..m : new[i].n = events[k].n
    /\ \A i, j \in (Len(old) + 1)..Len(new) : i < j => new[i].n < new[j].n

\* One more event adds one line, or none.
LEMMA GrowsOn ==
    ASSUME NEW old \in Seq(Line), NEW new \in Seq(Line), NEW p \in Prompts,
           NEW events \in Seq(Event), NEW m \in 1..Len(events),
           Grown(old, new, p, events, m - 1),
           \A i, j \in 1..Len(events) : i < j => events[i].n < events[j].n
    PROVE  /\ Grown(old, new, p, events, m)
           /\ \A root \in {p, Root(p)} :
                 Grown(old, Append(new, [n |-> events[m].n, root |-> root]), p, events, m)
<1>1. m - 1 \in Nat /\ 1..(m - 1) \subseteq 1..m /\ m \in 1..m /\ Len(old) \in Nat /\ Len(new) \in Nat
  OBVIOUS
<1>2. Grown(old, new, p, events, m)
  BY <1>1 DEF Grown
<1>3. ASSUME NEW root \in {p, Root(p)}
      PROVE Grown(old, Append(new, [n |-> events[m].n, root |-> root]), p, events, m)
  <2> DEFINE line == [n |-> events[m].n, root |-> root]
             next == Append(new, line)
  <2>1. line \in Line /\ line.n = events[m].n /\ line.root = root
    <3>1. events[m] \in Event
      OBVIOUS
    <3>2. events[m].n \in Nat
      BY <3>1 DEF Event
    <3>3. root \in Roots \cup Prompts \cup {None}
      BY RootType
    <3>q. QED BY <3>2, <3>3 DEF Line
  <2> HIDE DEF line
  <2>2. /\ Len(next) = Len(new) + 1 /\ next[Len(new) + 1] = line
        /\ \A i \in 1..Len(new) : next[i] = new[i]
    BY <1>1, <2>1
  <2> HIDE DEF next
  <2>3. \A i \in (Len(old) + 1)..Len(new) :
           \E k \in 1..(m - 1) : new[i].n = events[k].n
    BY DEF Grown
  <2>4. \A k \in 1..(m - 1) : events[k].n < events[m].n
    BY <1>1
  <2>5. \A i \in (Len(old) + 1)..Len(new) : new[i].n < line.n
    BY <2>1, <2>3, <2>4
  <2>6. \A i \in (Len(old) + 1)..Len(next) : i \in (Len(old) + 1)..Len(new) \/ i = Len(new) + 1
    BY <1>1, <2>2
  <2>7. Len(old) <= Len(next) /\ \A i \in 1..Len(old) : next[i] = old[i]
    BY <1>1, <2>2 DEF Grown
  <2>8. \A i \in (Len(old) + 1)..Len(next) :
           /\ next[i].root \in {p, Root(p)}
           /\ \E k \in 1..m : next[i].n = events[k].n
    <3> TAKE i \in (Len(old) + 1)..Len(next)
    <3>1. CASE i \in (Len(old) + 1)..Len(new)
      <4>1. next[i] = new[i]
        BY <1>1, <2>2, <3>1
      <4>q. QED BY <1>1, <3>1, <4>1 DEF Grown
    <3>2. CASE i = Len(new) + 1
      BY <1>1, <2>1, <2>2, <3>2
    <3>q. QED BY <2>6, <3>1, <3>2
  <2>9. \A i, j \in (Len(old) + 1)..Len(next) : i < j => next[i].n < next[j].n
    <3> TAKE i, j \in (Len(old) + 1)..Len(next)
    <3> HAVE i < j
    <3>1. i \in (Len(old) + 1)..Len(new) /\ next[i] = new[i]
      BY <1>1, <2>2
    <3>2. CASE j = Len(new) + 1
      BY <2>2, <2>5, <3>1, <3>2
    <3>3. CASE j \in (Len(old) + 1)..Len(new)
      <4>1. next[j] = new[j]
        BY <1>1, <2>2, <3>3
      <4>q. QED BY <3>1, <3>3, <4>1 DEF Grown
    <3>q. QED BY <2>6, <3>2, <3>3
  <2>q. QED BY <2>7, <2>8, <2>9 DEF Grown, next, line
<1>q. QED BY <1>2, <1>3

\* The whole of accept: no line of another turn, those of the turn in order, each
\* from a kept event, and an abort only with its claim.
LEMMA Flushed ==
    ASSUME NEW reg, WellFormed(reg), NEW p \in Dispatches, room \in Publics,
           NEW kept, kept = reg.buffer[p], \A i \in 1..Len(kept) : kept[i].turn = p,
           \A i, j \in 1..Len(kept) : i < j => kept[i].n < kept[j].n,
           NEW new, new = Accepted(reg, p)
    PROVE  /\ WellFormed(new.reg) /\ new.reg.pending = None /\ new.reg.buffer = NoBuffer
           /\ reg.cancelled \subseteq new.reg.cancelled /\ reg.claimed \subseteq new.reg.claimed
           /\ \A t \in Prompts : t # p => new.reg.bound[t] \in {reg.bound[t], None}
           /\ new.rm \in Publics
           /\ \A r \in Roots :
                 \/ new.rm.aborts[r] = room.aborts[r]
                 \/ /\ new.rm.aborts[r] = room.aborts[r] + 1
                    /\ r \in new.reg.claimed \ reg.claimed
           /\ \A t \in Prompts : t # p => new.rm.said[t] = room.said[t]
           /\ Grown(room.said[p], new.rm.said[p], p, kept, Len(kept))
<1> DEFINE N == Len(kept)
           Good(s, m) ==
              /\ WellFormed(s.reg) /\ s.reg.pending = None /\ s.reg.buffer = NoBuffer
              /\ reg.cancelled \subseteq s.reg.cancelled /\ reg.claimed \subseteq s.reg.claimed
              /\ \A t \in Prompts : t # p => s.reg.bound[t] \in {reg.bound[t], None}
              /\ s.rm \in Publics /\ s = [reg |-> s.reg, rm |-> s.rm]
              /\ \A r \in Roots :
                    \/ s.rm.aborts[r] = room.aborts[r]
                    \/ /\ s.rm.aborts[r] = room.aborts[r] + 1
                       /\ r \in s.reg.claimed \ reg.claimed
              /\ \A t \in Prompts : t # p => s.rm.said[t] = room.said[t]
              /\ Grown(room.said[p], s.rm.said[p], p, kept, m)
<1>1. kept \in Seq(Event) /\ N \in Nat /\ p \in Prompts /\ room.said[p] \in Seq(Line)
  BY DEF WellFormed, Registry, Publics
<1>2. PICK f : /\ new = f[N] /\ f[0] = Start(reg, p)
               /\ \A n \in 1..N : f[n] = Mirrored(f[n - 1], kept[n])
  BY <1>1, Unfolded
<1>3. Good(f[0], 0)
  <2> DEFINE bound == [reg.bound EXCEPT ![p] = Root(p)]
             bare == [reg EXCEPT !.pending = None, !.bound = bound, !.buffer = NoBuffer]
  <2>1. f[0] = [reg |-> bare, rm |-> room]
    BY <1>2 DEF Start
  <2>2. /\ bound \in [Prompts -> Roots \cup {None}]
        /\ \A t \in Prompts : bound[t] \in {None, Root(t)}
        /\ \A t \in Prompts : t # p => bound[t] = reg.bound[t]
    BY <1>1, RootType DEF WellFormed, Registry
  <2> HIDE DEF bound
  <2>3. /\ bare \in Registry /\ bare.bound = bound /\ bare.pending = None /\ bare.buffer = NoBuffer
        /\ bare.cancelled = reg.cancelled /\ bare.claimed = reg.claimed
        /\ bare.cancelledTurn = reg.cancelledTurn /\ bare.cancelledRoot = reg.cancelledRoot
    BY <2>2, EmptyBuffer DEF WellFormed, Registry
  <2> HIDE DEF bare
  <2>4. WellFormed(bare)
    BY <2>2, <2>3 DEF WellFormed
  <2>5. Grown(room.said[p], room.said[p], p, kept, 0)
    BY <1>1 DEF Grown
  <2>6. f[0].reg = bare /\ f[0].rm = room
    BY <2>1
  <2>q. QED BY <2>1, <2>2, <2>3, <2>4, <2>5, <2>6
<1>4. ASSUME NEW m \in 1..N, Good(f[m - 1], m - 1) PROVE Good(f[m], m)
  <2> DEFINE s == f[m - 1]
             u == f[m]
             e == kept[m]
  <2>1. e \in Event /\ e.turn = p /\ u = Mirrored([reg |-> s.reg, rm |-> s.rm], e)
    BY <1>1, <1>2, <1>4
  <2>2. /\ WellFormed(s.reg) /\ s.reg.pending = None /\ s.reg.buffer = NoBuffer
        /\ s.rm \in Publics
    BY <1>4
  <2> HIDE DEF s, u, e
  <2>3. /\ WellFormed(u.reg) /\ u.reg.pending = None /\ u.reg.buffer = NoBuffer
        /\ s.reg.cancelled \subseteq u.reg.cancelled /\ s.reg.claimed \subseteq u.reg.claimed
        /\ \A t \in Prompts : u.reg.bound[t] \in {s.reg.bound[t], None}
        /\ u.rm \in Publics /\ u = [reg |-> u.reg, rm |-> u.rm]
        /\ \A r \in Roots :
              \/ u.rm.aborts[r] = s.rm.aborts[r]
              \/ /\ u.rm.aborts[r] = s.rm.aborts[r] + 1
                 /\ r \in u.reg.claimed \ s.reg.claimed
        /\ \/ u.rm.said = s.rm.said
           \/ \E root \in {p, Root(p)} : u.rm.said = Extended(s.rm.said, e, root)
    BY <2>1, <2>2, MirroredStep
  <2>4. Good(s, m - 1)
    BY <1>4 DEF s
  <2>5. /\ \A r \in Roots : \/ u.rm.aborts[r] = room.aborts[r]
                            \/ /\ u.rm.aborts[r] = room.aborts[r] + 1
                               /\ r \in u.reg.claimed \ reg.claimed
        /\ reg.cancelled \subseteq u.reg.cancelled /\ reg.claimed \subseteq u.reg.claimed
        /\ \A t \in Prompts : t # p => u.reg.bound[t] \in {reg.bound[t], None}
    BY <2>3, <2>4
  <2>6. s.rm.said[p] \in Seq(Line) /\ Grown(room.said[p], s.rm.said[p], p, kept, m - 1)
    BY <1>1, <2>2, <2>4 DEF Publics
  <2>7. /\ Grown(room.said[p], s.rm.said[p], p, kept, m)
        /\ \A root \in {p, Root(p)} :
              Grown(room.said[p], Append(s.rm.said[p], [n |-> kept[m].n, root |-> root]), p, kept, m)
    BY <1>1, <2>6, GrowsOn
  <2>8. \A root \in {p, Root(p)} :
           /\ Extended(s.rm.said, e, root)[p] = Append(s.rm.said[p], [n |-> kept[m].n, root |-> root])
           /\ \A t \in Prompts : t # p => Extended(s.rm.said, e, root)[t] = s.rm.said[t]
    <3>1. s.rm.said \in [Prompts -> Seq(Line)] /\ e.n = kept[m].n
      BY <2>2 DEF Publics, e
    <3>q. QED BY <1>1, <2>1, <3>1 DEF Extended
  <2>9. /\ \A t \in Prompts : t # p => u.rm.said[t] = room.said[t]
        /\ Grown(room.said[p], u.rm.said[p], p, kept, m)
    <3>1. CASE u.rm.said = s.rm.said
      BY <2>4, <2>7, <3>1
    <3>2. ASSUME NEW root \in {p, Root(p)}, u.rm.said = Extended(s.rm.said, e, root)
          PROVE /\ \A t \in Prompts : t # p => u.rm.said[t] = room.said[t]
                /\ Grown(room.said[p], u.rm.said[p], p, kept, m)
      <4>1. u.rm.said[p] = Append(s.rm.said[p], [n |-> kept[m].n, root |-> root])
        BY <2>8, <3>2
      <4>2. Grown(room.said[p], u.rm.said[p], p, kept, m)
        BY <2>7, <4>1
      <4>3. \A t \in Prompts : t # p => u.rm.said[t] = s.rm.said[t]
        BY <2>8, <3>2
      <4>q. QED BY <2>4, <4>2, <4>3
    <3>q. QED BY <2>3, <3>1, <3>2
  <2>q. QED BY <2>3, <2>5, <2>9 DEF u
<1>5. {m \in 0..N : ~Good(f[m], m)} = {}
  <2> DEFINE Bad == {m \in 0..N : ~Good(f[m], m)}
  <2> SUFFICES ASSUME Bad # {} PROVE FALSE
    OBVIOUS
  <2> HIDE DEF Good
  <2>1. PICK x \in Bad : \A y \in Bad : x <= y
    <3>1. Bad \subseteq Nat
      BY <1>1
    <3> HIDE DEF Bad
    <3>q. QED BY <3>1, Least
  <2>2. x \in 1..N /\ x - 1 \in 0..N /\ x - 1 \notin Bad
    BY <1>1, <1>3, <2>1
  <2>q. QED BY <1>4, <2>1, <2>2
<1>6. Good(f[N], N)
  <2> HIDE DEF Good
  <2>q. QED BY <1>1, <1>5
<1>q. QED BY <1>2, <1>6

-----------------------------------------------------------------------------
(***************************************************************************)
(* The inductive invariant.                                                *)
(***************************************************************************)
Cursor == [at : {"ready", "allow", "private", "resolve", "publish", "finish"},
           root : Roots \cup Prompts \cup {None}, claimed : BOOLEAN]
Request == [at : {"none", "abort", "drain", "terminal", "terminated", "pending"},
            reservation : Prompts \cup {None}, turn : Prompts \cup {None}]

Types ==
    /\ WellFormed(registry) /\ pc \in [Prompts -> Labels]
    /\ running \in Prompts \cup {None} /\ admission \in Prompts \cup {None}
    /\ emitted \in [Prompts -> Nat] /\ queue \in Seq(Event) /\ cursor \in Cursor
    /\ room \in Publics
    /\ stop \in [Roots -> Request]

\* A pending turn has a thread, and only an accepted one is bound.
Waiting == {"begun", "prepared", "reserved", "sent", "lost", "rejected", "unknown"}
Awaited == registry.pending # None => pc[registry.pending] \in Waiting
Binds == \A t \in Prompts : registry.bound[t] # None => pc[t] = "accepted"

\* Which prompts reach the labels of user dispatches and wakes, and of prepared ones.
Roles == \A p \in Prompts :
    /\ pc[p] \in {"held", "announced"} => p \in UserDispatches \cup Wakes
    /\ pc[p] \in {"prepared", "unknown"} => p \in PreparedDispatches

\* The Root of a Stop under way is cancelled.
Stops == \A r \in Roots : stop[r].at \in {"abort", "drain"} => r \in registry.cancelled

\* The Root of a public line: the turn itself, or its Root once it was accepted.
Sound(t, root) == root = t \/ (root = Root(t) /\ pc[t] = "accepted")

Pointed ==
    /\ cursor.at # "ready" => queue # <<>>
    /\ cursor.claimed => /\ cursor.root \in registry.claimed
                         /\ cursor.at \in {"private", "publish", "finish"}
    /\ cursor.at \in {"publish", "finish"} /\ ~cursor.claimed => Sound(queue[1].turn, cursor.root)
Spoken == \A t \in Prompts : \A i \in 1..Len(room.said[t]) :
    Sound(t, room.said[t][i].root) /\ room.said[t][i].n <= emitted[t]

\* Events are queued and kept in the order of Pi, what is kept before what is queued,
\* and the lines under a turn's own Root before both.
Ordered ==
    /\ \A k \in 1..Len(queue) : queue[k].n <= emitted[queue[k].turn]
    /\ \A k, l \in 1..Len(queue) :
           k < l /\ queue[k].turn = queue[l].turn => queue[k].n < queue[l].n
Buffered == \A t \in Prompts :
    /\ \A i \in 1..Len(registry.buffer[t]) :
           registry.buffer[t][i].turn = t /\ registry.buffer[t][i].n <= emitted[t]
    /\ \A i, j \in 1..Len(registry.buffer[t]) :
           i < j => registry.buffer[t][i].n < registry.buffer[t][j].n
    /\ \A i \in 1..Len(registry.buffer[t]), k \in 1..Len(queue) :
           queue[k].turn = t => registry.buffer[t][i].n < queue[k].n
Ahead == \A t \in Prompts :
    /\ \A i, j \in 1..Len(room.said[t]) :
           i < j /\ Own(t, i) /\ Own(t, j) => room.said[t][i].n < room.said[t][j].n
    /\ \A i \in 1..Len(room.said[t]), k \in 1..Len(queue) :
           Own(t, i) /\ queue[k].turn = t =>
               room.said[t][i].n < queue[k].n \/ (k = 1 /\ cursor.at = "finish")

\* A Root whose abort is public is claimed, and the lane does not carry its claim.
Carried(r) == cursor.claimed /\ cursor.root = r /\ cursor.at \in {"private", "publish"}
Aborts == \A r \in Roots :
    /\ room.aborts[r] <= 1
    /\ room.aborts[r] = 1 => r \in registry.claimed /\ ~Carried(r)

Trail == Binds /\ Pointed /\ Spoken /\ Ordered /\ Buffered /\ Ahead /\ Aborts
IInv == Types /\ Awaited /\ Roles /\ Stops /\ Trail

\* The initial state satisfies the invariant.
LEMMA Initially == Init => IInv
<1> SUFFICES ASSUME Init PROVE IInv
  OBVIOUS
<1>1. registry \in Registry
  <2>1. [p \in Prompts |-> <<>>] \in [Prompts -> Seq(Event)]
    OBVIOUS
  <2>q. QED BY <2>1 DEF Init, Registry
<1>2. WellFormed(registry)
  BY <1>1 DEF Init, WellFormed
<1>3. room \in Publics /\ \A t \in Prompts : Len(room.said[t]) = 0
  <2>1. [p \in Prompts |-> <<>>] \in [Prompts -> Seq(Line)]
    OBVIOUS
  <2>q. QED BY <2>1 DEF Init, Publics
<1>4. Types
  BY <1>2, <1>3 DEF Init, Types, Labels, Cursor, Request, Ready, NoStop
<1>5. Len(queue) = 0 /\ \A t \in Prompts : Len(registry.buffer[t]) = 0
  BY DEF Init
<1>6. Awaited /\ Roles /\ Stops /\ Trail
  BY <1>3, <1>5 DEF Init, Awaited, Roles, Stops, NoStop, Trail, Binds, Pointed, Spoken, Ordered, Buffered, Ahead, Aborts, Ready
<1>q. QED BY <1>4, <1>6 DEF IInv

\* A thread that is not yet accepted may go on, and sections of the registry lock
\* that keep turns and buffers disturb nothing of the trail.
LEMMA TrailKept ==
    ASSUME Types, Trail, Keeps(registry, registry'), UNCHANGED <<lane, room, emitted>>,
           \A t \in Prompts : pc[t] = "accepted" => pc'[t] = "accepted"
    PROVE  Trail'
<1> USE DEF lane
<1>1. \A t \in Prompts : \A root : Sound(t, root) => Sound(t, root)'
  BY DEF Sound
<1>2. Binds'
  BY DEF Keeps, Binds, Trail
<1>3. Pointed'
  <2>1. registry'.claimed = registry.claimed /\ Pointed
    BY DEF Keeps, Trail
  <2>2. cursor.at # "ready" => queue[1].turn \in Prompts
    <3>1. queue # <<>> => queue[1] \in Event
      BY DEF Types
    <3>q. QED BY <2>1, <3>1 DEF Pointed, Event
  <2>q. QED BY <1>1, <2>1, <2>2 DEF Pointed
<1>4. Spoken' /\ Ordered' /\ Ahead'
  BY <1>1 DEF Trail, Spoken, Ordered, Ahead, Own
<1>5. Buffered'
  <2> SUFFICES ASSUME NEW t \in Prompts
               PROVE  LET b == registry.buffer[t]' IN
                      /\ \A i \in 1..Len(b) : b[i].turn = t /\ b[i].n <= emitted[t]
                      /\ \A i, j \in 1..Len(b) : i < j => b[i].n < b[j].n
                      /\ \A i \in 1..Len(b), k \in 1..Len(queue) :
                             queue[k].turn = t => b[i].n < queue[k].n
    BY DEF Buffered
  <2>1. registry'.buffer[t] \in {registry.buffer[t], <<>>}
    BY DEF Keeps
  <2>2. CASE registry'.buffer[t] = registry.buffer[t]
    BY <2>2 DEF Trail, Buffered
  <2>3. CASE registry'.buffer[t] = <<>>
    BY <2>3
  <2>q. QED BY <2>1, <2>2, <2>3
<1>6. Aborts'
  BY DEF Keeps, Trail, Aborts, Carried
<1>q. QED BY <1>2, <1>3, <1>4, <1>5, <1>6 DEF Trail

-----------------------------------------------------------------------------
(***************************************************************************)
(* The threads, but for an acceptance.                                     *)
(***************************************************************************)
\* A section that changes nothing.
LEMMA SameKeeps == ASSUME NEW reg, WellFormed(reg) PROVE Keeps(reg, reg)
BY DEF Keeps

\* What hold_priority keeps.
LEMMA PriorityKeeps ==
    ASSUME NEW reg, WellFormed(reg), NEW q \in Prompts \cup {None}
    PROVE  /\ Keeps(reg, [reg EXCEPT !.priority = q])
           /\ [reg EXCEPT !.priority = q].pending = reg.pending
BY DEF Keeps, WellFormed, Registry

\* begin, on a Root that is cancelled
LEMMA RefusedKeeps ==
    ASSUME NEW reg, WellFormed(reg), NEW root \in reg.cancelled
    PROVE  /\ Keeps(reg, [reg EXCEPT !.cancelledRoot = root])
           /\ [reg EXCEPT !.cancelledRoot = root].pending = reg.pending
<1>1. root \in Roots
  BY DEF WellFormed, Registry
<1>q. QED BY <1>1 DEF Keeps, WellFormed, Registry

\* A step of one thread that keeps the registry keeps the invariant, if the turn that
\* is pending then has a thread that waits for it.
LEMMA ThreadKept ==
    ASSUME IInv, NEW p \in Prompts, NEW l \in Labels, Step(p, l), pc[p] # "accepted",
           l \in {"held", "announced"} => p \in UserDispatches \cup Wakes,
           l \in {"prepared", "unknown"} => p \in PreparedDispatches,
           Keeps(registry, registry'), UNCHANGED <<lane, room, emitted, stop>>,
           running' \in Prompts \cup {None}, admission' \in Prompts \cup {None},
           \/ registry'.pending = None
           \/ registry'.pending = p /\ l \in Waiting
           \/ registry'.pending = registry.pending /\ registry.pending # p
    PROVE  IInv'
<1>1. /\ pc' \in [Prompts -> Labels] /\ pc'[p] = l
      /\ \A t \in Prompts : t # p => pc'[t] = pc[t]
  BY DEF Step, IInv, Types
<1>2. Types'
  BY <1>1 DEF IInv, Types, Keeps, lane
<1>3. Awaited'
  <2>1. registry.pending # None => registry.pending \in Prompts
    BY DEF IInv, Types, WellFormed, Registry
  <2>q. QED BY <1>1, <2>1 DEF IInv, Awaited
<1>4. Roles' /\ Stops'
  BY <1>1 DEF IInv, Roles, Stops, Keeps
<1>5. Trail'
  <2>1. \A t \in Prompts : pc[t] = "accepted" => pc'[t] = "accepted"
    BY <1>1
  <2>q. QED BY <2>1, TrailKept DEF IInv
<1>q. QED BY <1>2, <1>3, <1>4, <1>5 DEF IInv

\* What is pending when a thread takes a step.
LEMMA PendingType ==
    ASSUME IInv
    PROVE  /\ registry.pending \in Dispatches \cup {None}
           /\ \A p \in Prompts : registry.pending = p => pc[p] \in Waiting
           /\ WellFormed(registry) /\ Keeps(registry, registry)
BY SameKeeps DEF IInv, Types, Awaited, WellFormed, Registry

\* Hold, CheckIdle, Begin and Fail.
LEMMA DispatchSteps ==
    ASSUME IInv, NEW p \in Prompts, Hold(p) \/ CheckIdle(p) \/ Begin(p) \/ Fail(p)
    PROVE  IInv'
<1> USE PendingType DEF Waiting, pi, lane
<1>0. running \in Prompts \cup {None} /\ admission \in Prompts \cup {None}
  BY DEF IInv, Types
<1>1. CASE Hold(p)
  <2>1. /\ p \in UserDispatches \cup Wakes /\ pc[p] = "idle" /\ Step(p, "held")
        /\ registry' = [registry EXCEPT !.priority = p]
        /\ UNCHANGED <<lane, room, emitted, stop>> /\ running' = running /\ admission' = admission
    BY <1>1 DEF Hold
  <2>2. Keeps(registry, registry') /\ registry'.pending = registry.pending
    BY <2>1, PriorityKeeps
  <2>q. QED BY <1>0, <2>1, <2>2, ThreadKept DEF Labels
<1>2. CASE CheckIdle(p)
  <2>1. /\ pc[p] = "held"
        /\ \/ Step(p, "announced") /\ registry' = registry
           \/ Step(p, "idle") /\ registry' = Released(registry, p)
        /\ UNCHANGED <<lane, room, emitted, stop>> /\ running' = running /\ admission' = admission
    BY <1>2 DEF CheckIdle
  <2>2. p \in UserDispatches \cup Wakes
    BY <2>1 DEF IInv, Roles
  <2>3. Keeps(registry, registry') /\ registry'.pending = registry.pending
    BY <2>1, ReleasedKeeps
  <2>4. ASSUME NEW l \in {"announced", "idle"}, Step(p, l) PROVE IInv'
    BY <1>0, <2>1, <2>2, <2>3, <2>4, ThreadKept DEF Labels
  <2>q. QED BY <2>1, <2>4
<1>3. CASE Begin(p)
  <2> DEFINE refused == [registry EXCEPT !.cancelledRoot = Root(p)]
  <2>1. /\ pc[p] = "announced"
        /\ \/ /\ Root(p) \in registry.cancelled
              /\ \/ registry' = Released(refused, p) /\ Step(p, "failed")
                 \/ registry' = refused /\ Step(p, "rejected")
           \/ registry' = Begun(registry, p) /\ Step(p, "begun")
        /\ UNCHANGED <<lane, room, emitted, stop>> /\ running' = running /\ admission' = admission
    BY <1>3 DEF Begin
  <2>2. p \in Dispatches /\ registry.pending # p
    BY <2>1 DEF IInv, Roles
  <2>3. CASE Root(p) \in registry.cancelled /\ registry' = Released(refused, p) /\ Step(p, "failed")
    <3>1. Keeps(registry, refused) /\ refused.pending = registry.pending
      BY <2>3, RefusedKeeps
    <3> HIDE DEF refused
    <3>2. Keeps(refused, registry') /\ registry'.pending = refused.pending
      BY <2>3, <3>1, ReleasedKeeps DEF Keeps
    <3>3. Keeps(registry, registry')
      BY <3>1, <3>2, KeepsOn
    <3>q. QED BY <1>0, <2>1, <2>2, <2>3, <3>1, <3>2, <3>3, ThreadKept DEF Labels
  <2>4. CASE Root(p) \in registry.cancelled /\ registry' = refused /\ Step(p, "rejected")
    <3>1. Keeps(registry, registry') /\ registry'.pending = registry.pending
      BY <2>4, RefusedKeeps
    <3>q. QED BY <1>0, <2>1, <2>2, <2>4, <3>1, ThreadKept DEF Labels
  <2>5. CASE registry' = Begun(registry, p) /\ Step(p, "begun")
    <3>1. Keeps(registry, registry') /\ registry'.pending = p
      BY <2>2, <2>5, BegunKeeps
    <3>q. QED BY <1>0, <2>1, <2>2, <2>5, <3>1, ThreadKept DEF Labels
  <2>q. QED BY <2>1, <2>3, <2>4, <2>5
<1>4. CASE Fail(p)
  <2> DEFINE cancelled == Cancelled(registry, Root(p))
  <2>1. /\ p \in Dispatches /\ pc[p] # "accepted" /\ Step(p, "failed")
        /\ registry' = Released(cancelled, p)
        /\ UNCHANGED <<lane, room, emitted, stop>> /\ running' = running /\ admission' = admission
    BY <1>4 DEF Fail
  <2>2. /\ Keeps(registry, cancelled) /\ cancelled.pending \in {registry.pending, None}
        /\ registry.pending = p => cancelled.pending = None
    BY <2>1, RootType, CancelledKeeps
  <2> HIDE DEF cancelled
  <2>3. Keeps(cancelled, registry') /\ registry'.pending = cancelled.pending
    BY <2>1, <2>2, ReleasedKeeps DEF Keeps
  <2>4. Keeps(registry, registry')
    BY <2>2, <2>3, KeepsOn
  <2>q. QED BY <1>0, <2>1, <2>2, <2>3, <2>4, ThreadKept DEF Labels
<1>q. QED BY <1>1, <1>2, <1>3, <1>4

\* Reserve, Send and Recheck, which leave the registry alone.
LEMMA PiSteps ==
    ASSUME IInv, NEW p \in Prompts, Reserve(p) \/ Send(p) \/ Recheck(p)
    PROVE  IInv'
<1> USE PendingType DEF Waiting, pi, lane
<1>0. running \in Prompts \cup {None} /\ admission \in Prompts \cup {None}
  BY DEF IInv, Types
<1>1. /\ pc[p] \in {"begun", "reserved", "prepared"}
      /\ Step(p, "reserved") \/ Step(p, "rejected") \/ Step(p, "sent") \/ Step(p, "lost")
      /\ UNCHANGED <<registry, lane, room, emitted, stop>>
      /\ running' \in {running, p} /\ admission' \in {admission, p, None}
  BY DEF Reserve, Send, Recheck
<1>2. Keeps(registry, registry') /\ registry'.pending = registry.pending
  BY <1>1
<1>3. ASSUME NEW l \in {"reserved", "rejected", "sent", "lost"}, Step(p, l) PROVE IInv'
  BY <1>0, <1>1, <1>2, <1>3, ThreadKept DEF Labels
<1>q. QED BY <1>1, <1>3

\* Prepare and ReleaseRegistry.
LEMMA PreparedSteps ==
    ASSUME IInv, NEW p \in Prompts, Prepare(p) \/ ReleaseRegistry(p)
    PROVE  IInv'
<1> USE PendingType DEF Waiting, pi, lane
<1>0. running \in Prompts \cup {None} /\ admission \in Prompts \cup {None}
  BY DEF IInv, Types
<1>1. CASE Prepare(p)
  <2> DEFINE begun == Begun(registry, p)
  <2>1. /\ p \in PreparedDispatches /\ pc[p] = "idle"
        /\ registry' = [begun EXCEPT !.priority = p]
        /\ Step(p, "prepared") \/ Step(p, "rejected")
        /\ UNCHANGED <<lane, room, emitted, stop>> /\ running' = running
        /\ admission' \in {admission, p}
    BY <1>1 DEF Prepare
  <2>2. Keeps(registry, begun) /\ begun.pending = p
    BY <2>1, BegunKeeps
  <2> HIDE DEF begun
  <2>3. Keeps(begun, registry') /\ registry'.pending = p
    BY <2>1, <2>2, PriorityKeeps DEF Keeps
  <2>4. Keeps(registry, registry')
    BY <2>2, <2>3, KeepsOn
  <2>5. ASSUME NEW l \in {"prepared", "rejected"}, Step(p, l) PROVE IInv'
    BY <1>0, <2>1, <2>3, <2>4, <2>5, ThreadKept DEF Labels
  <2>q. QED BY <2>1, <2>5
<1>2. CASE ReleaseRegistry(p)
  <2> DEFINE cancelled == Cancelled(registry, Root(p))
  <2>1. /\ p \in PreparedDispatches /\ pc[p] \in {"rejected", "lost"}
        /\ UNCHANGED <<lane, room, emitted, stop>> /\ running' = running /\ admission' = admission
        /\ Step(p, IF pc[p] = "lost" THEN "unknown" ELSE "failed")
        /\ registry' = IF ~Active(registry, p) THEN registry
                       ELSE IF pc[p] = "lost" THEN Released(registry, p)
                       ELSE Released(cancelled, p)
    BY <1>2 DEF ReleaseRegistry
  <2>2. CASE pc[p] = "lost"
    <3>1. Keeps(registry, registry') /\ registry'.pending = registry.pending
      BY <2>1, <2>2, ReleasedKeeps
    <3>2. Step(p, "unknown")
      BY <2>1, <2>2
    <3>3. \/ registry'.pending = None
          \/ registry'.pending = p
          \/ registry'.pending = registry.pending /\ registry.pending # p
      BY <3>1
    <3>q. QED BY <1>0, <2>1, <3>1, <3>2, <3>3, ThreadKept DEF Labels
  <2>3. CASE pc[p] = "rejected"
    <3>1. Step(p, "failed")
      BY <2>1, <2>3
    <3>2. CASE ~Active(registry, p)
      <4>1. registry' = registry /\ registry.pending # p
        BY <2>1, <3>2 DEF Active
      <4>q. QED BY <1>0, <2>1, <3>1, <4>1, ThreadKept DEF Labels
    <3>3. CASE Active(registry, p)
      <4>1. registry' = Released(cancelled, p)
        BY <2>1, <2>3, <3>3
      <4>2. /\ Keeps(registry, cancelled) /\ cancelled.pending \in {registry.pending, None}
            /\ registry.pending = p => cancelled.pending = None
        BY <2>1, RootType, CancelledKeeps
      <4> HIDE DEF cancelled
      <4>3. Keeps(cancelled, registry') /\ registry'.pending = cancelled.pending
        BY <4>1, <4>2, ReleasedKeeps DEF Keeps
      <4>4. Keeps(registry, registry')
        BY <4>2, <4>3, KeepsOn
      <4>q. QED BY <1>0, <2>1, <3>1, <4>2, <4>3, <4>4, ThreadKept DEF Labels
    <3>q. QED BY <3>2, <3>3
  <2>q. QED BY <2>1, <2>2, <2>3
<1>q. QED BY <1>1, <1>2

\* The other prompts, which are never pending.
LEMMA OtherSteps ==
    ASSUME IInv, NEW p \in Prompts,
           \/ DirectCheck(p) \/ DirectHold(p) \/ DirectRelease(p)
           \/ NoticeCheck(p) \/ BeginPrivate(p) \/ EndPrivate(p)
    PROVE  IInv'
<1> USE PendingType DEF Waiting, pi, lane
<1>0. running \in Prompts \cup {None} /\ admission \in Prompts \cup {None}
  BY DEF IInv, Types
<1>1. /\ p \in Directs \cup Notices /\ pc[p] # "accepted"
      /\ UNCHANGED <<lane, room, emitted, stop>> /\ running' = running /\ admission' = admission
      /\ Step(p, "checked") \/ Step(p, "begun") \/ Step(p, "over")
  BY DEF DirectCheck, DirectHold, DirectRelease, NoticeCheck, BeginPrivate, EndPrivate
<1>2. p \notin Dispatches /\ registry.pending # p
  BY <1>1
<1>3. Keeps(registry, registry') /\ registry'.pending = registry.pending
  <2>1. CASE DirectCheck(p) \/ NoticeCheck(p)
    BY <2>1 DEF DirectCheck, NoticeCheck
  <2>2. CASE DirectHold(p)
    BY <2>2, PriorityKeeps DEF DirectHold
  <2>3. CASE DirectRelease(p)
    BY <2>3, ReleasedKeeps DEF DirectRelease
  <2>4. CASE BeginPrivate(p)
    <3>1. p \in Notices /\ registry' = [registry EXCEPT !.notice = p]
      BY <2>4 DEF BeginPrivate
    <3>q. QED BY <3>1 DEF Keeps, WellFormed, Registry
  <2>5. CASE EndPrivate(p)
    <3> DEFINE turns == IF pc[p] = "sent" THEN registry.private \cup {p} ELSE registry.private
    <3>1. \/ registry' = registry
          \/ registry' = [registry EXCEPT !.notice = None, !.private = turns]
      BY <2>5 DEF EndPrivate
    <3>2. turns \in SUBSET Prompts
      BY DEF WellFormed, Registry
    <3> HIDE DEF turns
    <3>3. CASE registry' = [registry EXCEPT !.notice = None, !.private = turns]
      BY <3>2, <3>3 DEF Keeps, WellFormed, Registry
    <3>q. QED BY <3>1, <3>3
  <2>q. QED BY <2>1, <2>2, <2>3, <2>4, <2>5
<1>4. ASSUME NEW l \in {"checked", "begun", "over"}, Step(p, l) PROVE IInv'
  BY <1>0, <1>1, <1>2, <1>3, <1>4, ThreadKept DEF Labels
<1>q. QED BY <1>1, <1>4

-----------------------------------------------------------------------------
(***************************************************************************)
(* Pi, Stop and acceptance.                                                *)
(***************************************************************************)
\* Pi publishes the next event of its turn.
LEMMA EventQueued ==
    ASSUME IInv, running # None, NEW e \in Event, e.turn = running, e.n = emitted[running] + 1,
           emitted' = [emitted EXCEPT ![running] = e.n], queue' = Append(queue, e),
           running' \in Prompts \cup {None}, UNCHANGED <<registry, pc, admission, cursor, room, stop>>
    PROVE  IInv'
<1>1. /\ running \in Prompts /\ emitted \in [Prompts -> Nat] /\ queue \in Seq(Event)
      /\ registry.buffer \in [Prompts -> Seq(Event)] /\ room.said \in [Prompts -> Seq(Line)]
  BY DEF IInv, Types, WellFormed, Registry, Publics
<1>2. /\ queue' \in Seq(Event) /\ Len(queue') = Len(queue) + 1 /\ Len(queue) \in Nat
      /\ queue'[Len(queue) + 1] = e /\ \A k \in 1..Len(queue) : queue'[k] = queue[k]
  BY <1>1
<1>3. /\ emitted' \in [Prompts -> Nat] /\ emitted'[running] = emitted[running] + 1
      /\ \A t \in Prompts : emitted[t] <= emitted'[t]
  BY <1>1
<1>4. \A k \in 1..Len(queue) : queue[k] \in Event /\ queue[k].turn \in Prompts /\ queue[k].n \in Nat
  <2>1. \A k \in 1..Len(queue) : queue[k] \in Event
    BY <1>1
  <2>q. QED BY <2>1 DEF Event
<1>5. \A k \in 1..Len(queue') : k \in 1..Len(queue) \/ (k = Len(queue) + 1 /\ queue'[k] = e)
  BY <1>2
<1>6. Types'
  BY <1>2, <1>3 DEF IInv, Types
<1>7. Awaited' /\ Roles' /\ Stops' /\ Binds' /\ Aborts'
  BY DEF IInv, Awaited, Roles, Stops, Trail, Binds, Aborts, Carried
<1>8. \A t \in Prompts : \A i \in 1..Len(room.said[t]) : room.said[t][i].n \in Nat
  <2>1. \A t \in Prompts : \A i \in 1..Len(room.said[t]) : room.said[t][i] \in Line
    BY <1>1
  <2>q. QED BY <2>1 DEF Line
<1>9. \A t \in Prompts : \A i \in 1..Len(registry.buffer[t]) : registry.buffer[t][i].n \in Nat
  <2>1. \A t \in Prompts : \A i \in 1..Len(registry.buffer[t]) : registry.buffer[t][i] \in Event
    BY <1>1
  <2>q. QED BY <2>1 DEF Event
<1> USE DEF IInv, Trail
<1>10. Pointed'
  <2>1. queue # <<>> => 1 \in 1..Len(queue)
    BY <1>1
  <2>2. queue' # <<>>
    BY <1>2
  <2>q. QED BY <1>2, <2>1, <2>2 DEF Pointed, Sound
<1>11. Spoken'
  <2> SUFFICES ASSUME NEW t \in Prompts, NEW i \in 1..Len(room.said[t])
               PROVE  Sound(t, room.said[t][i].root) /\ room.said[t][i].n <= emitted'[t]
    BY DEF Spoken, Sound
  <2>1. Sound(t, room.said[t][i].root) /\ room.said[t][i].n <= emitted[t]
    BY DEF Spoken
  <2>q. QED BY <1>1, <1>3, <1>8, <2>1
<1>12. Ordered'
  <2>1. \A k \in 1..Len(queue) : queue[k].n <= emitted[queue[k].turn]
    BY DEF Ordered
  <2>2. \A k \in 1..Len(queue') : queue'[k].n <= emitted'[queue'[k].turn]
    BY <1>1, <1>2, <1>3, <1>4, <1>5, <2>1
  <2>3. \A k, l \in 1..Len(queue') :
           k < l /\ queue'[k].turn = queue'[l].turn => queue'[k].n < queue'[l].n
    <3> TAKE k, l \in 1..Len(queue')
    <3> HAVE k < l /\ queue'[k].turn = queue'[l].turn
    <3>1. k \in 1..Len(queue) /\ queue'[k] = queue[k]
      BY <1>2
    <3>2. CASE l \in 1..Len(queue)
      BY <1>2, <3>1, <3>2 DEF Ordered
    <3>3. CASE l = Len(queue) + 1
      BY <1>1, <1>2, <1>4, <2>1, <3>1, <3>3
    <3>q. QED BY <1>5, <3>2, <3>3
  <2>q. QED BY <2>2, <2>3 DEF Ordered
<1>13. Buffered'
  <2> SUFFICES ASSUME NEW t \in Prompts
               PROVE  LET b == registry.buffer[t] IN
                      /\ \A i \in 1..Len(b) : b[i].turn = t /\ b[i].n <= emitted'[t]
                      /\ \A i, j \in 1..Len(b) : i < j => b[i].n < b[j].n
                      /\ \A i \in 1..Len(b), k \in 1..Len(queue') :
                             queue'[k].turn = t => b[i].n < queue'[k].n
    BY DEF Buffered
  <2>1. \A i \in 1..Len(registry.buffer[t]) : registry.buffer[t][i].n <= emitted[t]
    BY DEF Buffered
  <2>2. ASSUME NEW i \in 1..Len(registry.buffer[t]), NEW k \in 1..Len(queue'), queue'[k].turn = t
        PROVE  registry.buffer[t][i].n < queue'[k].n
    <3>1. CASE k \in 1..Len(queue)
      BY <1>2, <2>2, <3>1 DEF Buffered
    <3>2. CASE k = Len(queue) + 1
      BY <1>1, <1>2, <1>9, <2>1, <2>2, <3>2
    <3>q. QED BY <1>5, <3>1, <3>2
  <2>3. \A i \in 1..Len(registry.buffer[t]) :
           registry.buffer[t][i].turn = t /\ registry.buffer[t][i].n <= emitted'[t]
    BY <1>1, <1>3, <1>9, <2>1 DEF Buffered
  <2>q. QED BY <2>2, <2>3 DEF Buffered
<1>14. Ahead'
  <2> SUFFICES ASSUME NEW t \in Prompts, NEW i \in 1..Len(room.said[t]), NEW k \in 1..Len(queue'),
                      Own(t, i), queue'[k].turn = t
               PROVE  room.said[t][i].n < queue'[k].n \/ (k = 1 /\ cursor.at = "finish")
    <3>1. \A t \in Prompts : \A i, j \in 1..Len(room.said[t]) :
             i < j /\ Own(t, i) /\ Own(t, j) => room.said[t][i].n < room.said[t][j].n
      BY DEF Ahead
    <3>2. \A t, i : Own(t, i)' <=> Own(t, i)
      BY DEF Own
    <3>q. QED BY <3>1, <3>2 DEF Ahead
  <2>1. CASE k \in 1..Len(queue)
    BY <1>2, <2>1 DEF Ahead
  <2>2. CASE k = Len(queue) + 1
    <3>1. room.said[t][i].n <= emitted[t]
      BY DEF Spoken
    <3>q. QED BY <1>1, <1>2, <1>8, <2>2, <3>1
  <2>q. QED BY <1>5, <2>1, <2>2
<1>q. QED BY <1>6, <1>7, <1>10, <1>11, <1>12, <1>13, <1>14

\* Emit and EndTurn.
LEMMA TurnSteps == ASSUME IInv, Emit \/ EndTurn PROVE IInv'
<1>1. running \in Prompts /\ emitted \in [Prompts -> Nat]
  <2>1. running # None
    BY DEF Emit, EndTurn
  <2>q. QED BY <2>1 DEF IInv, Types
<1>2. ASSUME NEW kind \in Kinds, queue' = Append(queue, [turn |-> running, n |-> emitted[running] + 1, kind |-> kind]),
             emitted' = [emitted EXCEPT ![running] = emitted[running] + 1],
             running' \in {running, None}, UNCHANGED <<registry, pc, admission, cursor, room, stop>>
      PROVE  IInv'
  <2> DEFINE e == [turn |-> running, n |-> emitted[running] + 1, kind |-> kind]
  <2>1. e \in Event /\ e.turn = running /\ e.n = emitted[running] + 1
    BY <1>1 DEF Event
  <2> HIDE DEF e
  <2>2. queue' = Append(queue, e) /\ emitted' = [emitted EXCEPT ![running] = e.n] /\ running # None
    BY <1>1, <1>2, <2>1 DEF e
  <2>q. QED BY <1>1, <1>2, <2>1, <2>2, EventQueued
<1>3. CASE Emit
  BY <1>2, <1>3 DEF Emit, Kinds
<1>4. CASE EndTurn
  BY <1>2, <1>4 DEF EndTurn, Kinds
<1>q. QED BY <1>3, <1>4

\* The request of one Root changes.
LEMMA StopSet ==
    ASSUME Stops, stop \in [Roots -> Request], NEW root \in Roots, NEW s \in Request,
           stop' = [stop EXCEPT ![root] = s], s.at \in {"abort", "drain"} => root \in registry'.cancelled,
           registry.cancelled \subseteq registry'.cancelled
    PROVE  stop' \in [Roots -> Request] /\ Stops'
<1>1. stop' \in [Roots -> Request] /\ stop'[root] = s /\ \A r \in Roots : r # root => stop'[r] = stop[r]
  OBVIOUS
<1>q. QED BY <1>1 DEF Stops

\* A Stop that does not close: the registry keeps its turns and claims.
LEMMA StopKept ==
    ASSUME IInv, NEW root \in Roots, StopRecord(root) \/ StopAbort(root) \/ StopGivesUp(root)
    PROVE  IInv'
<1>1. UNCHANGED <<pc, running, admission, emitted, lane, room>>
  BY DEF StopRecord, StopAbort, StopGivesUp, pi
<1>2. WellFormed(registry)
  BY DEF IInv, Types
<1>3. Keeps(registry, registry') /\ registry'.pending = registry.pending
  <2>1. CASE StopRecord(root)
    <3> DEFINE cancelled == registry.cancelled \cup {root}
    <3>1. registry' = [registry EXCEPT !.cancelled = cancelled]
      BY <2>1 DEF StopRecord
    <3>2. cancelled \in SUBSET Roots /\ registry.cancelled \subseteq cancelled
      BY <1>2 DEF WellFormed, Registry
    <3> HIDE DEF cancelled
    <3>q. QED BY <1>2, <3>1, <3>2 DEF Keeps, WellFormed, Registry
  <2>2. CASE StopAbort(root) \/ StopGivesUp(root)
    BY <1>2, <2>2 DEF StopAbort, StopGivesUp, Keeps
  <2>q. QED BY <2>1, <2>2
<1>4. Trail'
  BY <1>1, <1>3, TrailKept DEF IInv
<1>5. Awaited' /\ Roles'
  BY <1>1, <1>3 DEF IInv, Awaited, Roles
<1>6. \E s \in Request : /\ stop' = [stop EXCEPT ![root] = s]
                         /\ s.at \in {"abort", "drain"} => root \in registry'.cancelled
  <2>1. CASE StopRecord(root)
    <3> DEFINE s == IF Targeted(root)
                    THEN [at |-> "abort", reservation |-> registry.priority, turn |-> None]
                    ELSE [NoStop EXCEPT !.at = "terminal"]
    <3>1. root \in registry'.cancelled
      BY <1>2, <2>1 DEF StopRecord, WellFormed, Registry
    <3>2. s \in Request
      BY <1>2 DEF Request, NoStop, WellFormed, Registry
    <3>3. stop' = [stop EXCEPT ![root] = s]
      BY <2>1 DEF StopRecord
    <3>q. QED BY <3>1, <3>2, <3>3
  <2>2. CASE StopAbort(root)
    <3> DEFINE s == [stop[root] EXCEPT !.at = "drain", !.turn = running]
    <3>1. stop[root] \in Request /\ stop[root].at = "abort" /\ running \in Prompts \cup {None}
      BY <2>2 DEF StopAbort, IInv, Types
    <3>2. s \in Request
      BY <3>1 DEF Request
    <3>3. stop' = [stop EXCEPT ![root] = s]
      BY <2>2 DEF StopAbort, IInv, Types
    <3>4. root \in registry'.cancelled
      BY <1>3, <3>1 DEF IInv, Stops, Keeps
    <3>q. QED BY <3>2, <3>3, <3>4
  <2>3. CASE StopGivesUp(root)
    <3> DEFINE s == [NoStop EXCEPT !.at = "pending"]
    <3>1. s \in Request /\ s.at = "pending"
      BY DEF Request, NoStop
    <3>2. stop' = [stop EXCEPT ![root] = s]
      BY <2>3 DEF StopGivesUp, StopEnds
    <3>q. QED BY <3>1, <3>2
  <2>q. QED BY <2>1, <2>2, <2>3
<1>7. stop' \in [Roots -> Request] /\ Stops'
  <2>1. PICK s \in Request : /\ stop' = [stop EXCEPT ![root] = s]
                             /\ s.at \in {"abort", "drain"} => root \in registry'.cancelled
    BY <1>6
  <2>2. Stops /\ stop \in [Roots -> Request] /\ registry.cancelled \subseteq registry'.cancelled
    BY <1>3 DEF IInv, Types, Keeps
  <2>q. QED BY <2>1, <2>2, StopSet
<1>8. Types'
  BY <1>1, <1>3, <1>7 DEF IInv, Types, Keeps, lane
<1>q. QED BY <1>4, <1>5, <1>7, <1>8 DEF IInv

\* A Stop closes: Room's own abort terminal, if nobody has claimed it, and the turns
\* and the reservation are given back.
LEMMA StopCloses ==
    ASSUME IInv, NEW root \in Roots, StopClose(root)
    PROVE  IInv'
<1>1. PICK proven \in BOOLEAN :
         LET reg == IF proven THEN Claimed(registry, root) ELSE registry IN
         /\ registry' = Released(Cancelled(reg, root), stop[root].reservation)
         /\ room' = IF proven /\ root \notin registry.claimed
                    THEN [room EXCEPT !.aborts[root] = @ + 1] ELSE room
         /\ StopEnds(root, IF proven THEN "terminated" ELSE "pending")
  BY DEF StopClose
<1> DEFINE reg == IF proven THEN Claimed(registry, root) ELSE registry
           mid == Cancelled(reg, root)
<1>2. WellFormed(registry) /\ room \in Publics /\ root \in registry.cancelled
  BY DEF StopClose, IInv, Types, Stops
<1>3. UNCHANGED <<pc, running, admission, emitted, lane>>
  BY DEF StopClose, pi
<1>4. /\ WellFormed(reg) /\ registry.claimed \subseteq reg.claimed
      /\ proven => root \in reg.claimed
      /\ reg.cancelled = registry.cancelled /\ reg.pending = registry.pending
      /\ reg.bound = registry.bound /\ reg.buffer = registry.buffer
  <2>1. root # None
    OBVIOUS
  <2>q. QED BY <1>2, <2>1, ClaimedKeeps
<1> HIDE DEF reg
<1>5. Keeps(reg, mid) /\ mid.pending \in {reg.pending, None}
  BY <1>4, CancelledKeeps
<1>6. registry' = Released(mid, stop[root].reservation)
  BY <1>1 DEF reg
<1> HIDE DEF mid
<1>7. Keeps(mid, registry') /\ registry'.pending = mid.pending
  BY <1>5, <1>6, ReleasedKeeps DEF Keeps
<1>8. Keeps(reg, registry') /\ registry'.pending \in {registry.pending, None}
  BY <1>4, <1>5, <1>7, KeepsOn
<1>9. /\ room' \in Publics /\ room'.said = room.said
      /\ \A r \in Roots :
            \/ room'.aborts[r] = room.aborts[r]
            \/ r = root /\ root \notin registry.claimed /\ proven /\ room'.aborts[r] = room.aborts[r] + 1
  <2>1. CASE proven /\ root \notin registry.claimed
    <3>1. room' = WithAbort(room, root)
      BY <1>1, <2>1 DEF WithAbort
    <3>2. /\ room' \in Publics /\ room'.said = room.said
          /\ room'.aborts = [room.aborts EXCEPT ![root] = room.aborts[root] + 1]
      BY <1>2, <3>1, AbortAdds
    <3>q. QED BY <1>2, <2>1, <3>2 DEF Publics
  <2>2. CASE ~(proven /\ root \notin registry.claimed)
    <3>1. room' = room
      BY <1>1, <2>2
    <3>q. QED BY <1>2, <3>1
  <2>q. QED BY <2>1, <2>2
<1>10. stop' \in [Roots -> Request] /\ Stops'
  <2> DEFINE s == [NoStop EXCEPT !.at = IF proven THEN "terminated" ELSE "pending"]
  <2>1. s \in Request /\ s.at \notin {"abort", "drain"}
    BY DEF Request, NoStop
  <2>2. stop' = [stop EXCEPT ![root] = s]
    BY <1>1 DEF StopEnds
  <2> HIDE DEF s
  <2>3. Stops /\ stop \in [Roots -> Request] /\ registry.cancelled \subseteq registry'.cancelled
    BY <1>4, <1>8 DEF IInv, Types, Keeps
  <2>q. QED BY <2>1, <2>2, <2>3, StopSet
<1>11. Types'
  BY <1>3, <1>8, <1>9, <1>10 DEF IInv, Types, Keeps, lane
<1>12. Awaited' /\ Roles'
  BY <1>3, <1>8 DEF IInv, Awaited, Roles
<1> USE DEF lane
<1>13. Trail'
  <2> USE DEF IInv, Trail
  <2>1. /\ registry'.claimed = reg.claimed
        /\ \A t \in Prompts : registry'.bound[t] \in {registry.bound[t], None}
        /\ \A t \in Prompts : registry'.buffer[t] \in {registry.buffer[t], <<>>}
    BY <1>4, <1>8 DEF Keeps
  <2>2. \A t, r : Sound(t, r)' <=> Sound(t, r)
    BY <1>3 DEF Sound
  <2>3. Binds'
    BY <1>3, <2>1 DEF Binds
  <2>4. Pointed'
    BY <1>3, <1>4, <2>1, <2>2 DEF Pointed, Sound
  <2>5. Spoken' /\ Ordered' /\ Ahead'
    BY <1>3, <1>9, <2>2 DEF Spoken, Ordered, Ahead, Own
  <2>6. Buffered'
    <3> SUFFICES ASSUME NEW t \in Prompts
                 PROVE  LET b == registry.buffer[t]' IN
                        /\ \A i \in 1..Len(b) : b[i].turn = t /\ b[i].n <= emitted[t]
                        /\ \A i, j \in 1..Len(b) : i < j => b[i].n < b[j].n
                        /\ \A i \in 1..Len(b), k \in 1..Len(queue) :
                               queue[k].turn = t => b[i].n < queue[k].n
      BY <1>3 DEF Buffered
    <3>1. CASE registry'.buffer[t] = registry.buffer[t]
      BY <3>1 DEF Buffered
    <3>2. CASE registry'.buffer[t] = <<>>
      BY <3>2
    <3>q. QED BY <2>1, <3>1, <3>2
  <2>7. Aborts'
    <3> SUFFICES ASSUME NEW r \in Roots
                 PROVE  /\ room'.aborts[r] <= 1
                        /\ room'.aborts[r] = 1 => r \in registry'.claimed /\ ~Carried(r)
      BY <1>3 DEF Aborts, Carried
    <3>1. /\ room.aborts[r] \in Nat /\ room.aborts[r] <= 1
          /\ room.aborts[r] = 1 => r \in registry.claimed /\ ~Carried(r)
      BY <1>2 DEF Aborts, Publics
    <3>2. CASE room'.aborts[r] = room.aborts[r]
      BY <1>4, <2>1, <3>1, <3>2
    <3>3. CASE r = root /\ root \notin registry.claimed /\ proven /\ room'.aborts[r] = room.aborts[r] + 1
      <4>1. room.aborts[r] = 0 /\ r \in registry'.claimed
        BY <1>4, <2>1, <3>1, <3>3
      <4>2. ~Carried(r)
        BY <3>3 DEF Pointed, Carried
      <4>q. QED BY <3>3, <4>1, <4>2
    <3>q. QED BY <1>9, <3>2, <3>3
  <2>q. QED BY <2>3, <2>4, <2>5, <2>6, <2>7
<1>q. QED BY <1>10, <1>11, <1>12, <1>13 DEF IInv

\* The answer of a dispatch binds its turn and flushes what was kept for it.
LEMMA AcceptKept ==
    ASSUME IInv, NEW p \in Dispatches, NEW reg, Keeps(registry, reg), AcceptTurn(reg, p),
           Step(p, "accepted"), pc[p] # "accepted",
           UNCHANGED <<lane, running, admission, emitted, stop>>
    PROVE  IInv'
<1> USE DEF lane
<1> DEFINE kept == reg.buffer[p]
           old == room.said[p]
           added == room'.said[p]
<1>1. /\ WellFormed(registry) /\ WellFormed(reg) /\ room \in Publics /\ p \in Prompts
      /\ queue \in Seq(Event) /\ emitted \in [Prompts -> Nat] /\ pc \in [Prompts -> Labels]
  BY DEF IInv, Types, Keeps
<1>2. /\ kept \in Seq(Event)
      /\ \A i \in 1..Len(kept) : kept[i].turn = p /\ kept[i].n <= emitted[p]
      /\ \A i, j \in 1..Len(kept) : i < j => kept[i].n < kept[j].n
      /\ \A i \in 1..Len(kept), k \in 1..Len(queue) : queue[k].turn = p => kept[i].n < queue[k].n
  <2>1. kept \in Seq(Event)
    BY <1>1 DEF WellFormed, Registry
  <2>2. kept \in {registry.buffer[p], <<>>}
    BY <1>1 DEF Keeps
  <2>3. CASE kept = registry.buffer[p]
    <3> HIDE DEF kept
    <3>q. QED BY <1>1, <2>1, <2>3 DEF IInv, Trail, Buffered
  <2>4. CASE kept = <<>>
    <3> HIDE DEF kept
    <3>q. QED BY <2>1, <2>4
  <2>q. QED BY <2>2, <2>3, <2>4
<1>3. /\ WellFormed(registry') /\ registry'.pending = None /\ registry'.buffer = NoBuffer
      /\ registry.cancelled \subseteq registry'.cancelled /\ registry.claimed \subseteq registry'.claimed
      /\ \A t \in Prompts : t # p => registry'.bound[t] \in {registry.bound[t], None}
      /\ room' \in Publics
      /\ \A r \in Roots : \/ room'.aborts[r] = room.aborts[r]
                          \/ /\ room'.aborts[r] = room.aborts[r] + 1
                             /\ r \in registry'.claimed \ registry.claimed
      /\ \A t \in Prompts : t # p => room'.said[t] = room.said[t]
      /\ Grown(old, added, p, kept, Len(kept))
  <2> DEFINE new == Accepted(reg, p)
  <2>1. registry' = new.reg /\ room' = new.rm
    BY DEF AcceptTurn
  <2>a. new = Accepted(reg, p) /\ kept = reg.buffer[p]
    OBVIOUS
  <2> HIDE DEF new, kept
  <2>2. /\ WellFormed(new.reg) /\ new.reg.pending = None /\ new.reg.buffer = NoBuffer
        /\ reg.cancelled \subseteq new.reg.cancelled /\ reg.claimed \subseteq new.reg.claimed
        /\ \A t \in Prompts : t # p => new.reg.bound[t] \in {reg.bound[t], None}
        /\ new.rm \in Publics
        /\ \A r \in Roots : \/ new.rm.aborts[r] = room.aborts[r]
                            \/ /\ new.rm.aborts[r] = room.aborts[r] + 1
                               /\ r \in new.reg.claimed \ reg.claimed
        /\ \A t \in Prompts : t # p => new.rm.said[t] = room.said[t]
        /\ Grown(room.said[p], new.rm.said[p], p, kept, Len(kept))
    <3>1. /\ \A i \in 1..Len(kept) : kept[i].turn = p
          /\ \A i, j \in 1..Len(kept) : i < j => kept[i].n < kept[j].n
      BY <1>2
    <3>2. WellFormed(reg) /\ room \in Publics /\ p \in Dispatches
      BY <1>1
    <3>q. QED BY <2>a, <3>1, <3>2, Flushed
  <2>3. /\ registry.cancelled \subseteq reg.cancelled /\ registry.claimed = reg.claimed
        /\ \A t \in Prompts : reg.bound[t] \in {registry.bound[t], None}
    BY DEF Keeps
  <2>q. QED BY <2>1, <2>2, <2>3
<1>4. /\ pc' \in [Prompts -> Labels] /\ pc'[p] = "accepted"
      /\ \A t \in Prompts : t # p => pc'[t] = pc[t]
  BY <1>1 DEF Step, Labels
<1> HIDE DEF kept
<1>5. Types'
  BY <1>3, <1>4 DEF IInv, Types
<1>6. Awaited' /\ Roles' /\ Stops'
  BY <1>3, <1>4 DEF IInv, Awaited, Roles, Stops
<1> USE DEF IInv, Trail
<1>7. \A t \in Prompts : \A r : Sound(t, r) => Sound(t, r)'
  BY <1>4 DEF Sound
<1>8. Binds'
  BY <1>3, <1>4 DEF Binds
<1>9. Pointed'
  <2>1. cursor.at # "ready" => queue[1].turn \in Prompts
    <3>1. queue # <<>> => queue[1] \in Event
      BY <1>1
    <3>q. QED BY <3>1 DEF Pointed, Event
  <2>q. QED BY <1>3, <1>7, <2>1 DEF Pointed
<1>10. old \in Seq(Line) /\ added \in Seq(Line) /\ Len(old) \in Nat /\ Len(added) \in Nat
  BY <1>1, <1>3 DEF Publics
<1>11. \A i \in 1..Len(added) : i \in 1..Len(old) \/ i \in (Len(old) + 1)..Len(added)
  BY <1>10
<1>12. Spoken'
  <2> SUFFICES ASSUME NEW t \in Prompts, NEW i \in 1..Len(room'.said[t])
               PROVE  /\ \/ room'.said[t][i].root = t
                         \/ room'.said[t][i].root = Root(t) /\ pc'[t] = "accepted"
                      /\ room'.said[t][i].n <= emitted[t]
    BY DEF Spoken, Sound
  <2>1. CASE t # p
    BY <1>3, <1>4, <2>1 DEF Spoken, Sound
  <2>2. CASE t = p /\ i \in 1..Len(old)
    <3>1. room'.said[t][i] = old[i]
      BY <1>3, <2>2 DEF Grown
    <3>q. QED BY <1>1, <1>4, <2>2, <3>1 DEF Spoken, Sound
  <2>3. CASE t = p /\ i \in (Len(old) + 1)..Len(added)
    <3>1. /\ added[i].root \in {p, Root(p)}
          /\ \E k \in 1..Len(kept) : added[i].n = kept[k].n
      BY <1>3, <2>3 DEF Grown
    <3>q. QED BY <1>2, <1>4, <2>3, <3>1
  <2>q. QED BY <1>11, <2>1, <2>2, <2>3
<1>13. Ordered'
  BY DEF Ordered
<1>14. Buffered'
  <2>1. \A t \in Prompts : registry'.buffer[t] = <<>>
    BY <1>3, EmptyBuffer
  <2>q. QED BY <2>1 DEF Buffered
<1>15. Ahead'
  <2>1. \A i \in 1..Len(added) : Own(p, i)' => i \in (Len(old) + 1)..Len(added)
    <3> SUFFICES ASSUME NEW i \in 1..Len(old), Own(p, i)' PROVE FALSE
      BY <1>11
    <3>1. added[i] = old[i] /\ added[i].root = Root(p)
      BY <1>3 DEF Own, Grown
    <3>2. Sound(p, old[i].root)
      BY <1>1 DEF Spoken
    <3>q. QED BY <1>1, <3>1, <3>2, RootType DEF Sound
  <2>2. /\ \A i, j \in 1..Len(added) :
              i < j /\ Own(p, i)' /\ Own(p, j)' => added[i].n < added[j].n
        /\ \A i \in 1..Len(added), k \in 1..Len(queue) :
              Own(p, i)' /\ queue[k].turn = p => added[i].n < queue[k].n
    <3>1. /\ \A i \in (Len(old) + 1)..Len(added) : \E k \in 1..Len(kept) : added[i].n = kept[k].n
          /\ \A i, j \in (Len(old) + 1)..Len(added) : i < j => added[i].n < added[j].n
      BY <1>3 DEF Grown
    <3>q. QED BY <1>2, <2>1, <3>1
  <2>3. \A t \in Prompts : t # p =>
          /\ room'.said[t] = room.said[t]
          /\ \A i : Own(t, i)' <=> Own(t, i)
    BY <1>3 DEF Own
  <2> SUFFICES ASSUME NEW t \in Prompts
               PROVE /\ \A i, j \in 1..Len(room'.said[t]) :
                          i < j /\ Own(t, i)' /\ Own(t, j)' => room'.said[t][i].n < room'.said[t][j].n
                     /\ \A i \in 1..Len(room'.said[t]), k \in 1..Len(queue) :
                          Own(t, i)' /\ queue[k].turn = t =>
                              room'.said[t][i].n < queue[k].n \/ (k = 1 /\ cursor.at = "finish")
    BY DEF Ahead
  <2>4. CASE t = p
    BY <2>2, <2>4
  <2>5. CASE t # p
    BY <2>3, <2>5 DEF Ahead
  <2>q. QED BY <2>4, <2>5
<1>16. Aborts'
  <2> SUFFICES ASSUME NEW r \in Roots
               PROVE  /\ room'.aborts[r] <= 1
                      /\ room'.aborts[r] = 1 => r \in registry'.claimed /\ ~Carried(r)
    BY DEF Aborts, Carried
  <2>1. /\ room.aborts[r] \in Nat /\ room.aborts[r] <= 1
        /\ room.aborts[r] = 1 => r \in registry.claimed /\ ~Carried(r)
    BY <1>1 DEF Aborts, Publics
  <2>2. CASE room'.aborts[r] = room.aborts[r]
    BY <1>3, <2>1, <2>2
  <2>3. CASE room'.aborts[r] = room.aborts[r] + 1 /\ r \in registry'.claimed \ registry.claimed
    <3>1. room.aborts[r] = 0 /\ ~Carried(r)
      BY <2>1, <2>3 DEF Pointed, Carried
    <3>q. QED BY <2>3, <3>1
  <2>q. QED BY <1>3, <2>2, <2>3
<1>q. QED BY <1>5, <1>6, <1>8, <1>9, <1>12, <1>13, <1>14, <1>15, <1>16

\* Accept, which binds the turn, or finds nothing that it could bind.
LEMMA AcceptStep == ASSUME IInv, NEW p \in Prompts, Accept(p) PROVE IInv'
<1> USE PendingType DEF Waiting, pi, lane
<1> DEFINE released == Released(registry, p)
           binds == Acceptable(registry, p) /\ (p \in Wakes \/ Active(registry, p))
<1>1. /\ p \in Dispatches /\ pc[p] = "sent"
      /\ UNCHANGED <<running, admission, lane, emitted, stop>>
      /\ Step(p, IF binds THEN "accepted" ELSE "detached")
      /\ IF binds THEN AcceptTurn(released, p)
         ELSE room' = room /\ registry' \in {registry, released}
  BY DEF Accept
<1>2. /\ Keeps(registry, released) /\ released.pending = registry.pending
      /\ running \in Prompts \cup {None} /\ admission \in Prompts \cup {None}
  BY ReleasedKeeps DEF IInv, Types
<1>3. registry.pending = p => binds
  BY RootType DEF Acceptable, Active
<1> HIDE DEF released, binds
<1>4. CASE binds
  <2>1. AcceptTurn(released, p) /\ Step(p, "accepted")
    BY <1>1, <1>4
  <2>q. QED BY <1>1, <1>2, <2>1, AcceptKept
<1>5. CASE ~binds
  <2>1. Step(p, "detached") /\ room' = room /\ registry.pending # p
    BY <1>1, <1>3, <1>5
  <2>2. Keeps(registry, registry') /\ registry'.pending = registry.pending
    BY <1>1, <1>2, <1>5
  <2>q. QED BY <1>1, <1>2, <2>1, <2>2, ThreadKept DEF Labels
<1>q. QED BY <1>4, <1>5

\* Repair, which does the same on the proof of the runtime, or settles.
LEMMA RepairStep == ASSUME IInv, NEW p \in Prompts, Repair(p) PROVE IInv'
<1> USE PendingType DEF Waiting, pi, lane
<1> DEFINE free == registry.pending = None /\ ~\E t \in Prompts \ {p} : registry.bound[t] # None
           base == IF free THEN Begun(registry, p) ELSE registry
           reg == [base EXCEPT !.priority = None]
           bare == [registry EXCEPT !.priority = None]
           cancelled == Cancelled(bare, Root(p))
<1>1. /\ pc[p] = "unknown" /\ (free \/ registry.pending = p)
      /\ UNCHANGED <<running, admission, lane, emitted, stop>>
      /\ \/ AcceptTurn(reg, p) /\ Step(p, "accepted")
         \/ /\ Step(p, "settled") /\ room' = room
            /\ registry' = IF free THEN registry ELSE cancelled
  BY DEF Repair
<1>2. p \in Dispatches /\ running \in Prompts \cup {None} /\ admission \in Prompts \cup {None}
  BY <1>1 DEF IInv, Roles, Types
<1>3. CASE AcceptTurn(reg, p) /\ Step(p, "accepted")
  <2>1. Keeps(registry, base)
    BY <1>2, BegunKeeps
  <2> HIDE DEF base
  <2>2. Keeps(base, reg)
    BY <2>1, PriorityKeeps DEF Keeps
  <2> HIDE DEF reg
  <2>3. Keeps(registry, reg)
    BY <2>1, <2>2, KeepsOn
  <2>q. QED BY <1>1, <1>2, <1>3, <2>3, AcceptKept
<1>4. CASE /\ Step(p, "settled") /\ room' = room
           /\ registry' = IF free THEN registry ELSE cancelled
  <2>1. CASE free
    <3>1. registry' = registry /\ registry.pending = None
      BY <1>4, <2>1
    <3>q. QED BY <1>1, <1>2, <1>4, <3>1, ThreadKept DEF Labels
  <2>2. CASE ~free
    <3>1. registry' = cancelled /\ registry.pending = p
      BY <1>1, <1>4, <2>2
    <3>2. Keeps(registry, bare) /\ bare.pending = p
      BY <3>1, PriorityKeeps
    <3> HIDE DEF bare
    <3>3. Keeps(bare, cancelled) /\ cancelled.pending = None
      BY <1>2, <3>2, RootType, CancelledKeeps DEF Keeps
    <3> HIDE DEF cancelled
    <3>4. Keeps(registry, registry') /\ registry'.pending = None
      BY <3>1, <3>2, <3>3, KeepsOn
    <3>q. QED BY <1>1, <1>2, <1>4, <3>4, ThreadKept DEF Labels
  <2>q. QED BY <2>1, <2>2
<1>q. QED BY <1>1, <1>3, <1>4

-----------------------------------------------------------------------------
(***************************************************************************)
(* The projection lane.                                                    *)
(***************************************************************************)
\* The lane works on the first event.
LEMMA HeadType ==
    ASSUME Types, queue # <<>>
    PROVE  /\ queue[1] \in Event /\ queue[1].turn \in Prompts /\ queue[1].n \in Nat
           /\ Head1 = queue[1] /\ Len(queue) \in Nat /\ 1 \in 1..Len(queue)
<1>1. queue \in Seq(Event) /\ Len(queue) \in Nat /\ 1 \in 1..Len(queue)
  BY DEF Types
<1>2. queue[1] \in Event /\ Head1 = queue[1]
  BY <1>1 DEF Head1
<1>q. QED BY <1>1, <1>2 DEF Event

\* It drops the first event.
LEMMA Dropped ==
    ASSUME Types, queue # <<>>, queue' = Tail(queue)
    PROVE  /\ queue' \in Seq(Event) /\ Len(queue') \in Nat /\ Len(queue') = Len(queue) - 1
           /\ \A k \in 1..Len(queue') : k + 1 \in 1..Len(queue) /\ queue'[k] = queue[k + 1]
BY DEF Types

\* What it leaves alone while it keeps the registry's turns.
LEMMA TypesKept ==
    ASSUME IInv, Keeps(registry, registry') \/ registry' = registry,
           queue' \in Seq(Event), cursor' \in Cursor, room' \in Publics,
           UNCHANGED <<pc, running, admission, emitted, stop>>,
           registry'.pending \in {registry.pending, None}
    PROVE  Types' /\ Awaited' /\ Roles' /\ Stops' /\ Binds'
<1>1. WellFormed(registry) /\ Binds /\ Stops
  BY DEF IInv, Types, Trail
<1>2. /\ WellFormed(registry') /\ registry.cancelled \subseteq registry'.cancelled
      /\ \A t \in Prompts : registry'.bound[t] \in {registry.bound[t], None}
  BY <1>1 DEF Keeps
<1>3. Types'
  BY <1>2 DEF IInv, Types
<1>4. Awaited' /\ Roles' /\ Stops' /\ Binds'
  BY <1>1, <1>2 DEF IInv, Awaited, Roles, Stops, Binds
<1>q. QED BY <1>3, <1>4

\* The order of a queue without its first event.
LEMMA OrderedOn ==
    ASSUME Types, Ordered, queue # <<>>, queue' = Tail(queue), emitted' = emitted
    PROVE  Ordered'
<1>1. \A k \in 1..Len(queue') : k \in Nat /\ k + 1 \in 1..Len(queue) /\ queue'[k] = queue[k + 1]
  BY Dropped
<1>2. \A k \in 1..Len(queue') : queue'[k].n <= emitted'[queue'[k].turn]
  BY <1>1 DEF Ordered
<1>3. \A k, l \in 1..Len(queue') :
         k < l /\ queue'[k].turn = queue'[l].turn => queue'[k].n < queue'[l].n
  <2> TAKE k, l \in 1..Len(queue')
  <2> HAVE k < l /\ queue'[k].turn = queue'[l].turn
  <2>1. k + 1 < l + 1
    BY <1>1
  <2>q. QED BY <1>1, <2>1 DEF Ordered
<1>q. QED BY <1>2, <1>3 DEF Ordered

\* The first event is done with: dropped, with nothing published.
LEMMA DropKept ==
    ASSUME IInv, queue # <<>>, Drop, Keeps(registry, registry'),
           registry'.pending \in {registry.pending, None},
           UNCHANGED <<pc, running, admission, emitted, room, stop>>
    PROVE  IInv'
<1>1. Types /\ Trail /\ queue' = Tail(queue) /\ cursor' = Ready
  BY DEF IInv, Drop
<1>2. /\ queue' \in Seq(Event)
      /\ \A k \in 1..Len(queue') : k \in Nat /\ k + 1 \in 1..Len(queue) /\ queue'[k] = queue[k + 1]
  BY <1>1, Dropped
<1>3. Types' /\ Awaited' /\ Roles' /\ Stops' /\ Binds'
  BY <1>1, <1>2, TypesKept DEF Types, Cursor, Ready
<1>4. Ordered'
  BY <1>1, OrderedOn DEF Trail
<1>5. Pointed' /\ Spoken'
  BY <1>1 DEF Trail, Pointed, Spoken, Sound, Ready
<1>6. Buffered'
  <2> SUFFICES ASSUME NEW t \in Prompts
               PROVE  LET b == registry.buffer[t]' IN
                      /\ \A i \in 1..Len(b) : b[i].turn = t /\ b[i].n <= emitted[t]
                      /\ \A i, j \in 1..Len(b) : i < j => b[i].n < b[j].n
                      /\ \A i \in 1..Len(b), k \in 1..Len(queue') :
                             queue'[k].turn = t => b[i].n < queue'[k].n
    BY DEF Buffered
  <2>1. registry'.buffer[t] \in {registry.buffer[t], <<>>}
    BY DEF Keeps
  <2>2. CASE registry'.buffer[t] = registry.buffer[t]
    BY <1>1, <1>2, <2>2 DEF Trail, Buffered
  <2>3. CASE registry'.buffer[t] = <<>>
    BY <2>3
  <2>q. QED BY <2>1, <2>2, <2>3
<1>7. Ahead'
  <2>1. \A t \in Prompts : \A i, j \in 1..Len(room.said[t]) :
           i < j /\ Own(t, i) /\ Own(t, j) => room.said[t][i].n < room.said[t][j].n
    BY <1>1 DEF Trail, Ahead
  <2>2. \A t, i : Own(t, i)' <=> Own(t, i)
    BY DEF Own
  <2>3. ASSUME NEW t \in Prompts, NEW i \in 1..Len(room.said[t]), NEW k \in 1..Len(queue'),
               Own(t, i), queue'[k].turn = t
        PROVE  room.said[t][i].n < queue'[k].n
    <3>1. /\ k + 1 \in 1..Len(queue) /\ k + 1 # 1 /\ queue'[k] = queue[k + 1]
      BY <1>2
    <3>q. QED BY <1>1, <2>3, <3>1 DEF Trail, Ahead
  <2>q. QED BY <2>1, <2>2, <2>3 DEF Ahead
<1>8. Aborts'
  BY <1>1 DEF Trail, Aborts, Carried, Ready, Keeps
<1>q. QED BY <1>3, <1>4, <1>5, <1>6, <1>7, <1>8 DEF IInv, Trail

\* The lane goes on to the next section with the same event.
LEMMA GotoKept ==
    ASSUME IInv, queue # <<>>, cursor' \in Cursor, queue' = queue,
           cursor.at # "finish", cursor'.at # "finish",
           Keeps(registry, registry'), registry'.pending = registry.pending,
           UNCHANGED <<pc, running, admission, emitted, room, stop>>,
           Pointed', \A r \in Roots : Carried(r)' => Carried(r)
    PROVE  IInv'
<1>1. Types' /\ Awaited' /\ Roles' /\ Stops' /\ Binds'
  BY TypesKept DEF IInv, Types
<1>2. Ordered' /\ Spoken' /\ Ahead'
  BY DEF IInv, Trail, Ordered, Spoken, Sound, Ahead, Own
<1>3. Buffered'
  <2> SUFFICES ASSUME NEW t \in Prompts
               PROVE  LET b == registry.buffer[t]' IN
                      /\ \A i \in 1..Len(b) : b[i].turn = t /\ b[i].n <= emitted[t]
                      /\ \A i, j \in 1..Len(b) : i < j => b[i].n < b[j].n
                      /\ \A i \in 1..Len(b), k \in 1..Len(queue) :
                             queue[k].turn = t => b[i].n < queue[k].n
    BY DEF Buffered
  <2>1. registry'.buffer[t] \in {registry.buffer[t], <<>>}
    BY DEF Keeps
  <2>2. CASE registry'.buffer[t] = registry.buffer[t]
    BY <2>2 DEF IInv, Trail, Buffered
  <2>3. CASE registry'.buffer[t] = <<>>
    BY <2>3
  <2>q. QED BY <2>1, <2>2, <2>3
<1>4. Aborts'
  <2>1. registry'.claimed = registry.claimed /\ Aborts
    BY DEF Keeps, IInv, Trail
  <2>q. QED BY <2>1 DEF Aborts
<1>q. QED BY <1>1, <1>2, <1>3, <1>4 DEF IInv, Trail

\* LaneClaim: the abort terminal of a cancelled Root is claimed, once.
LEMMA ClaimStep == ASSUME IInv, LaneClaim PROVE IInv'
<1> DEFINE root == ClaimRoot(registry, Head1)
<1>1. /\ queue # <<>> /\ cursor.at = "ready" /\ queue' = queue
      /\ registry' = Claimed(registry, root)
      /\ UNCHANGED <<pc, running, admission, emitted, room, stop>>
      /\ cursor' = IF root # None THEN [at |-> "private", root |-> root, claimed |-> TRUE]
                   ELSE [at |-> "allow", root |-> None, claimed |-> FALSE]
  BY DEF LaneClaim, Goto, pi
<1>2. WellFormed(registry) /\ Types /\ Head1 \in Event
  BY <1>1, HeadType DEF IInv, Types
<1>3. root \in (registry.cancelled \ registry.claimed) \cup {None} /\ root \in Roots \cup {None}
  BY <1>2, ClaimRootType DEF WellFormed, Registry
<1> HIDE DEF root
<1>4. /\ WellFormed(registry') /\ registry'.claimed = registry.claimed \cup ({root} \ {None})
      /\ registry'.cancelled = registry.cancelled /\ registry'.pending = registry.pending
      /\ registry'.bound = registry.bound /\ registry'.buffer = registry.buffer
  BY <1>1, <1>2, <1>3, ClaimedKeeps
<1>5. cursor' \in Cursor
  BY <1>1, <1>3 DEF Cursor
<1>6. Types' /\ Awaited' /\ Roles' /\ Stops'
  BY <1>1, <1>4, <1>5 DEF IInv, Types, Awaited, Roles, Stops
<1> USE DEF IInv, Trail
<1>7. Binds' /\ Ordered' /\ Buffered'
  BY <1>1, <1>4 DEF Binds, Ordered, Buffered
<1>8. Spoken' /\ Ahead'
  BY <1>1 DEF Spoken, Sound, Ahead, Own
<1>9. Pointed'
  BY <1>1, <1>4 DEF Pointed
<1>10. Aborts'
  <2> SUFFICES ASSUME NEW r \in Roots, room.aborts[r] = 1
               PROVE  r \in registry'.claimed /\ ~Carried(r)'
    BY <1>1 DEF Aborts
  <2>1. r \in registry.claimed
    BY DEF Aborts
  <2>2. r # root
    BY <1>3, <2>1
  <2>q. QED BY <1>1, <1>4, <2>1, <2>2 DEF Carried
<1>q. QED BY <1>6, <1>7, <1>8, <1>9, <1>10

\* LaneAllow: an event of a pending Root is kept, the last of its turn.
LEMMA AllowStep == ASSUME IInv, LaneAllow PROVE IInv'
<1>1. /\ queue # <<>> /\ cursor.at \in {"allow", "ready"}
      /\ UNCHANGED <<pc, running, admission, emitted, room, stop>>
      /\ \/ Goto("private", None, FALSE) /\ registry' = registry
         \/ Drop /\ registry' = Kept(registry, Head1)
  BY DEF LaneAllow, pi
<1>2. /\ WellFormed(registry) /\ Types /\ Keeps(registry, registry)
      /\ Head1 \in Event /\ Head1 = queue[1] /\ Head1.turn \in Prompts /\ Head1.n \in Nat
      /\ 1 \in 1..Len(queue)
  BY <1>1, HeadType, PendingType DEF IInv
<1>3. CASE Goto("private", None, FALSE) /\ registry' = registry
  <2>1. queue' = queue /\ cursor' = [at |-> "private", root |-> None, claimed |-> FALSE]
    BY <1>3 DEF Goto
  <2>2. Pointed'
    BY <1>1, <2>1 DEF Pointed
  <2>3. cursor' \in Cursor /\ \A r \in Roots : ~Carried(r)'
    BY <2>1 DEF Cursor, Carried
  <2>q. QED BY <1>1, <1>2, <1>3, <2>1, <2>2, <2>3, GotoKept
<1>4. CASE Drop /\ registry' = registry
  BY <1>1, <1>2, <1>4, DropKept
<1>5. CASE Drop /\ registry' = Kept(registry, Head1) /\ registry' # registry
  <2> DEFINE t == Head1.turn
             buffer == [registry.buffer EXCEPT ![t] = Append(registry.buffer[t], Head1)]
  <2>1. registry' = [registry EXCEPT !.buffer = buffer]
    BY <1>5 DEF Kept
  <2>2. /\ registry.buffer \in [Prompts -> Seq(Event)]
        /\ buffer \in [Prompts -> Seq(Event)]
        /\ buffer[t] = Append(registry.buffer[t], Head1)
        /\ \A u \in Prompts : u # t => buffer[u] = registry.buffer[u]
    BY <1>2 DEF WellFormed, Registry
  <2> HIDE DEF buffer
  <2>3. /\ WellFormed(registry') /\ registry'.buffer = buffer /\ registry'.claimed = registry.claimed
        /\ registry'.pending = registry.pending /\ registry'.bound = registry.bound
        /\ registry'.cancelled = registry.cancelled
    BY <1>2, <2>1, <2>2 DEF WellFormed, Registry
  <2>4. /\ queue' = Tail(queue) /\ cursor' = Ready /\ queue' \in Seq(Event)
        /\ \A k \in 1..Len(queue') : k \in Nat /\ k + 1 \in 1..Len(queue) /\ queue'[k] = queue[k + 1]
    BY <1>1, <1>2, <1>5, Dropped DEF Drop
  <2>5. Types' /\ Awaited' /\ Roles' /\ Stops' /\ Binds'
    BY <1>1, <2>3, <2>4 DEF IInv, Types, Awaited, Roles, Stops, Trail, Binds, Cursor, Ready
  <2>6. Ordered'
    BY <1>1, <1>2, <2>4, OrderedOn DEF IInv, Trail
  <2>7. Pointed' /\ Spoken' /\ Aborts'
    BY <1>1, <2>3, <2>4 DEF IInv, Trail, Pointed, Spoken, Sound, Aborts, Carried, Ready
  <2>8. Ahead'
    <3>1. \A u \in Prompts : \A i, j \in 1..Len(room.said[u]) :
             i < j /\ Own(u, i) /\ Own(u, j) => room.said[u][i].n < room.said[u][j].n
      BY DEF IInv, Trail, Ahead
    <3>2. \A u, i : Own(u, i)' <=> Own(u, i)
      BY <1>1 DEF Own
    <3>3. ASSUME NEW u \in Prompts, NEW i \in 1..Len(room.said[u]), NEW k \in 1..Len(queue'),
                 Own(u, i), queue'[k].turn = u
          PROVE  room.said[u][i].n < queue'[k].n
      <4>1. /\ k + 1 \in 1..Len(queue) /\ k + 1 # 1 /\ queue'[k] = queue[k + 1]
        BY <2>4
      <4>q. QED BY <3>3, <4>1 DEF IInv, Trail, Ahead
    <3>q. QED BY <1>1, <3>1, <3>2, <3>3 DEF Ahead
  <2>9. Buffered'
    <3>1. Buffered /\ Ordered
      BY DEF IInv, Trail
    <3> SUFFICES ASSUME NEW u \in Prompts
                 PROVE  LET b == buffer[u] IN
                        /\ \A i \in 1..Len(b) : b[i].turn = u /\ b[i].n <= emitted[u]
                        /\ \A i, j \in 1..Len(b) : i < j => b[i].n < b[j].n
                        /\ \A i \in 1..Len(b), k \in 1..Len(queue') :
                               queue'[k].turn = u => b[i].n < queue'[k].n
      BY <1>1, <2>3 DEF Buffered
    <3>2. CASE u # t
      <4>1. /\ \A i \in 1..Len(registry.buffer[u]) :
                   registry.buffer[u][i].turn = u /\ registry.buffer[u][i].n <= emitted[u]
            /\ \A i, j \in 1..Len(registry.buffer[u]) :
                   i < j => registry.buffer[u][i].n < registry.buffer[u][j].n
            /\ \A i \in 1..Len(registry.buffer[u]), k \in 1..Len(queue) :
                   queue[k].turn = u => registry.buffer[u][i].n < queue[k].n
        BY <3>1 DEF Buffered
      <4>2. buffer[u] = registry.buffer[u]
        BY <2>2, <3>2
      <4>3. \A i \in 1..Len(registry.buffer[u]), k \in 1..Len(queue') :
               queue'[k].turn = u => registry.buffer[u][i].n < queue'[k].n
        BY <2>4, <4>1
      <4>q. QED BY <4>1, <4>2, <4>3
    <3>3. CASE u = t
      <4> DEFINE b == registry.buffer[t]
                 c == buffer[t]
      <4>1. /\ b \in Seq(Event) /\ Len(b) \in Nat /\ c \in Seq(Event) /\ Len(c) = Len(b) + 1
            /\ c[Len(b) + 1] = Head1 /\ \A i \in 1..Len(b) : c[i] = b[i]
        BY <1>2, <2>2
      <4>2. /\ \A i \in 1..Len(b) : b[i].turn = t /\ b[i].n <= emitted[t] /\ b[i].n < Head1.n
            /\ \A i, j \in 1..Len(b) : i < j => b[i].n < b[j].n
            /\ \A i \in 1..Len(b), k \in 1..Len(queue) : queue[k].turn = t => b[i].n < queue[k].n
        BY <1>2, <3>1 DEF Buffered
      <4>3. /\ Head1.n <= emitted[t]
            /\ \A k \in 1..Len(queue) : 1 < k /\ queue[k].turn = t => Head1.n < queue[k].n
        BY <1>2, <3>1 DEF Ordered
      <4> HIDE DEF b, c
      <4>4. \A i \in 1..Len(c) : i \in 1..Len(b) \/ (i = Len(b) + 1 /\ c[i] = Head1)
        BY <4>1
      <4>5. \A i \in 1..Len(c) : c[i].turn = t /\ c[i].n <= emitted[t]
        BY <4>1, <4>2, <4>3, <4>4
      <4>6. ASSUME NEW i \in 1..Len(c), NEW j \in 1..Len(c), i < j PROVE c[i].n < c[j].n
        <5>1. i \in 1..Len(b) /\ c[i] = b[i]
          BY <4>1, <4>6
        <5>2. CASE j \in 1..Len(b)
          BY <4>1, <4>2, <4>6, <5>1, <5>2
        <5>3. CASE j = Len(b) + 1
          BY <4>1, <4>2, <5>1, <5>3
        <5>q. QED BY <4>4, <5>2, <5>3
      <4>7. ASSUME NEW i \in 1..Len(c), NEW k \in 1..Len(queue'), queue'[k].turn = t
            PROVE  c[i].n < queue'[k].n
        <5>1. k + 1 \in 1..Len(queue) /\ 1 < k + 1 /\ queue[k + 1].turn = t /\ queue'[k] = queue[k + 1]
          BY <2>4, <4>7
        <5>2. CASE i \in 1..Len(b)
          BY <4>1, <4>2, <5>1, <5>2
        <5>3. CASE c[i] = Head1
          BY <4>3, <5>1, <5>3
        <5>q. QED BY <4>4, <5>2, <5>3
      <4>q. QED BY <3>3, <4>5, <4>6, <4>7 DEF c
    <3>q. QED BY <3>2, <3>3
  <2>q. QED BY <2>5, <2>6, <2>7, <2>8, <2>9 DEF IInv, Trail
<1>q. QED BY <1>1, <1>3, <1>4, <1>5

\* LanePrivate: an event of a private turn is taken, another goes on to its Root.
LEMMA PrivateStep == ASSUME IInv, LanePrivate PROVE IInv'
<1>1. /\ cursor.at = "private"
      /\ UNCHANGED <<pc, running, admission, emitted, room, stop>>
      /\ \/ Drop /\ registry' = TakenPrivately(registry, Head1)
         \/ /\ Goto(IF cursor.claimed THEN "publish" ELSE "resolve", cursor.root, cursor.claimed)
            /\ registry' = registry
  BY DEF LanePrivate, pi
<1>2. /\ queue # <<>> /\ Types /\ Pointed /\ WellFormed(registry) /\ Keeps(registry, registry)
      /\ cursor \in Cursor
  BY <1>1, PendingType DEF IInv, Trail, Pointed, Types
<1>3. CASE Drop /\ registry' = TakenPrivately(registry, Head1)
  <2>1. Keeps(registry, registry') /\ registry'.pending = registry.pending
    BY <1>2, <1>3, HeadType, TakenKeeps
  <2>q. QED BY <1>1, <1>2, <1>3, <2>1, DropKept
<1>4. CASE /\ Goto(IF cursor.claimed THEN "publish" ELSE "resolve", cursor.root, cursor.claimed)
           /\ registry' = registry
  <2> DEFINE at == IF cursor.claimed THEN "publish" ELSE "resolve"
  <2>1. queue' = queue /\ cursor' = [at |-> at, root |-> cursor.root, claimed |-> cursor.claimed]
    BY <1>4 DEF Goto
  <2>2. Pointed'
    BY <1>1, <1>2, <1>4, <2>1 DEF Pointed
  <2>3. cursor' \in Cursor /\ \A r \in Roots : Carried(r)' => Carried(r)
    BY <1>1, <1>2, <2>1 DEF Cursor, Carried
  <2>4. cursor'.at # "finish"
    BY <2>1
  <2>q. QED BY <1>1, <1>2, <1>4, <2>1, <2>2, <2>3, <2>4, GotoKept
<1>q. QED BY <1>1, <1>3, <1>4

\* LaneResolve: the event's Root is its turn's, or none that is public.
LEMMA ResolveStep == ASSUME IInv, LaneResolve PROVE IInv'
<1> DEFINE root == Registered(registry, Head1)
<1>1. /\ cursor.at = "resolve" /\ registry' = Resolved(registry, Head1)
      /\ UNCHANGED <<pc, running, admission, emitted, room, stop>>
      /\ \/ Drop
         \/ ~IsCancelled(registry, root) /\ Goto("publish", root, FALSE)
  BY DEF LaneResolve, pi
<1>2. queue # <<>> /\ Types /\ Binds /\ WellFormed(registry)
  BY <1>1 DEF IInv, Trail, Pointed, Types
<1>3. Head1 \in Event /\ Head1 = queue[1] /\ Head1.turn \in Prompts
  BY <1>2, HeadType
<1>4. Keeps(registry, registry') /\ registry'.pending = registry.pending
  BY <1>1, <1>2, <1>3, ResolvedKeeps
<1>5. CASE Drop
  BY <1>1, <1>2, <1>4, <1>5, DropKept
<1>6. CASE ~IsCancelled(registry, root) /\ Goto("publish", root, FALSE)
  <2>1. queue' = queue /\ cursor' = [at |-> "publish", root |-> root, claimed |-> FALSE]
    BY <1>6 DEF Goto
  <2>2. root = Head1.turn \/ (root = Root(Head1.turn) /\ registry.bound[Head1.turn] # None)
    BY <1>2, <1>3, <1>6, ResolvesToItsOwn
  <2> HIDE DEF root
  <2>3. Sound(queue[1].turn, root) /\ root \in Roots \cup Prompts \cup {None}
    BY <1>2, <1>3, <2>2, RootType DEF Sound, Binds
  <2>4. Pointed'
    BY <1>1, <1>2, <2>1, <2>3 DEF Pointed, Sound
  <2>5. cursor' \in Cursor /\ \A r \in Roots : ~Carried(r)'
    BY <2>1, <2>3 DEF Cursor, Carried
  <2>6. cursor'.at # "finish"
    BY <2>1
  <2>q. QED BY <1>1, <1>2, <1>4, <2>1, <2>4, <2>5, <2>6, GotoKept
<1>q. QED BY <1>1, <1>5, <1>6

\* LaneFinish: the turn is over.
LEMMA FinishStep == ASSUME IInv, LaneFinish PROVE IInv'
<1>1. /\ cursor.at = "finish" /\ registry' = Finished(registry, Head1.turn, cursor.root) /\ Drop
      /\ UNCHANGED <<pc, running, admission, emitted, room, stop>>
  BY DEF LaneFinish, pi
<1>2. queue # <<>> /\ Types /\ WellFormed(registry)
  BY <1>1 DEF IInv, Trail, Pointed, Types
<1>3. Keeps(registry, registry') /\ registry'.pending \in {registry.pending, None}
  BY <1>1, <1>2, HeadType, FinishedKeeps
<1>q. QED BY <1>1, <1>2, <1>3, DropKept

\* LanePublish: one line of the event's turn, or the one abort terminal of its Root.
LEMMA PublishStep == ASSUME IInv, LanePublish PROVE IInv'
<1> DEFINE root == cursor.root
<1>1. /\ cursor.at = "publish" /\ registry' = registry
      /\ UNCHANGED <<pc, running, admission, emitted, stop>>
      /\ cursor.claimed => room' = WithAbort(room, root)
      /\ ~cursor.claimed => room' = WithLine(room, Head1, root)
      /\ \/ Goto("finish", root, cursor.claimed)
         \/ Drop
  BY DEF LanePublish, pi, Published, WithAbort, WithLine
<1>2. /\ Types /\ queue # <<>> /\ Pointed /\ cursor \in Cursor /\ WellFormed(registry)
      /\ room \in Publics /\ root \in Roots \cup Prompts \cup {None} /\ cursor.claimed \in BOOLEAN
      /\ queue \in Seq(Event) /\ emitted \in [Prompts -> Nat]
  BY <1>1 DEF IInv, Trail, Pointed, Types, Cursor
<1>3. /\ Head1 \in Event /\ Head1 = queue[1] /\ Head1.turn \in Prompts /\ Head1.n \in Nat
      /\ 1 \in 1..Len(queue) /\ Len(queue) \in Nat
  BY <1>2, HeadType
<1>4. /\ queue' \in Seq(Event) /\ cursor' \in Cursor /\ cursor'.at \in {"ready", "finish"}
      /\ cursor'.at = "finish" =>
            queue' = queue /\ cursor'.root = root /\ cursor'.claimed = cursor.claimed
      /\ cursor'.at = "ready" => cursor'.claimed = FALSE
      /\ \A k \in 1..Len(queue') :
            \/ k = 1 /\ cursor'.at = "finish" /\ queue'[k] = queue[1]
            \/ \E l \in 1..Len(queue) : 1 < l /\ queue'[k] = queue[l]
  <2>1. CASE Goto("finish", root, cursor.claimed)
    BY <1>2, <1>3, <2>1 DEF Goto, Cursor
  <2>2. CASE Drop
    <3>1. queue' = Tail(queue) /\ cursor' = Ready
      BY <2>2 DEF Drop
    <3>2. /\ queue' \in Seq(Event)
          /\ \A k \in 1..Len(queue') : k + 1 \in 1..Len(queue) /\ 1 < k + 1 /\ queue'[k] = queue[k + 1]
      BY <1>2, <3>1, Dropped
    <3>q. QED BY <3>1, <3>2 DEF Ready, Cursor
  <2>q. QED BY <1>1, <2>1, <2>2
<1>5. Ordered'
  <2>1. CASE queue' = queue
    BY <1>1, <2>1 DEF IInv, Trail, Ordered
  <2>2. CASE queue' = Tail(queue)
    BY <1>1, <1>2, <2>2, OrderedOn DEF IInv, Trail
  <2>q. QED BY <1>1, <2>1, <2>2 DEF Goto, Drop
<1>6. Pointed'
  BY <1>1, <1>2, <1>4 DEF Pointed, Sound
<1>7. Buffered'
  <2> SUFFICES ASSUME NEW t \in Prompts
               PROVE  LET b == registry.buffer[t] IN
                      /\ \A i \in 1..Len(b) : b[i].turn = t /\ b[i].n <= emitted[t]
                      /\ \A i, j \in 1..Len(b) : i < j => b[i].n < b[j].n
                      /\ \A i \in 1..Len(b), k \in 1..Len(queue') :
                             queue'[k].turn = t => b[i].n < queue'[k].n
    BY <1>1 DEF Buffered
  <2>1. /\ \A i \in 1..Len(registry.buffer[t]) :
               registry.buffer[t][i].turn = t /\ registry.buffer[t][i].n <= emitted[t]
        /\ \A i, j \in 1..Len(registry.buffer[t]) :
               i < j => registry.buffer[t][i].n < registry.buffer[t][j].n
        /\ \A i \in 1..Len(registry.buffer[t]), k \in 1..Len(queue) :
               queue[k].turn = t => registry.buffer[t][i].n < queue[k].n
    BY DEF IInv, Trail, Buffered
  <2>2. \A k \in 1..Len(queue') : \E l \in 1..Len(queue) : queue'[k] = queue[l]
    BY <1>3, <1>4
  <2>q. QED BY <2>1, <2>2
<1>8. CASE cursor.claimed
  <2>1. root \in registry.claimed /\ root \in Roots /\ room.aborts[root] = 0
    <3>1. root \in registry.claimed /\ Carried(root)
      BY <1>1, <1>2, <1>8 DEF Pointed, Carried
    <3>2. root \in Roots
      BY <1>2, <3>1 DEF WellFormed, Registry
    <3>3. room.aborts[root] \in Nat /\ room.aborts[root] <= 1 /\ room.aborts[root] # 1
      BY <1>2, <3>1, <3>2 DEF IInv, Trail, Aborts, Publics
    <3>q. QED BY <3>1, <3>2, <3>3
  <2>2. /\ room' \in Publics /\ room'.said = room.said
        /\ room'.aborts = [room.aborts EXCEPT ![root] = room.aborts[root] + 1]
    <3>1. room' = WithAbort(room, root)
      BY <1>1, <1>8
    <3>q. QED BY <1>2, <2>1, <3>1, AbortAdds
  <2>3. Types' /\ Awaited' /\ Roles' /\ Stops' /\ Binds'
    BY <1>1, <1>4, <2>2, TypesKept
  <2>4. Spoken'
    BY <1>1, <2>2 DEF IInv, Trail, Spoken, Sound
  <2>5. Ahead'
    <3>1. \A u, i : Own(u, i)' <=> Own(u, i)
      BY <2>2 DEF Own
    <3>2. \A u \in Prompts : \A i, j \in 1..Len(room.said[u]) :
             i < j /\ Own(u, i) /\ Own(u, j) => room.said[u][i].n < room.said[u][j].n
      BY DEF IInv, Trail, Ahead
    <3>3. ASSUME NEW u \in Prompts, NEW i \in 1..Len(room.said[u]), NEW k \in 1..Len(queue'),
                 Own(u, i), queue'[k].turn = u
          PROVE  room.said[u][i].n < queue'[k].n \/ (k = 1 /\ cursor'.at = "finish")
      BY <1>1, <1>3, <1>4, <3>3 DEF IInv, Trail, Ahead
    <3>q. QED BY <2>2, <3>1, <3>2, <3>3 DEF Ahead
  <2>6. Aborts'
    <3>1. \A r \in Roots : ~Carried(r)'
      BY <1>4 DEF Carried
    <3>2. \A r \in Roots : r # root => room'.aborts[r] = room.aborts[r]
      BY <1>2, <2>2 DEF Publics
    <3>3. room'.aborts[root] = 1
      BY <1>2, <2>1, <2>2 DEF Publics
    <3>q. QED BY <1>1, <2>1, <3>1, <3>2, <3>3 DEF IInv, Trail, Aborts
  <2>q. QED BY <1>5, <1>6, <1>7, <2>3, <2>4, <2>5, <2>6 DEF IInv, Trail
<1>9. CASE ~cursor.claimed
  <2>0. PICK t \in Prompts : t = Head1.turn
    BY <1>3
  <2> DEFINE line == [n |-> Head1.n, root |-> root]
             old == room.said[t]
             new == room'.said[t]
  <2>1. /\ room' \in Publics /\ room'.aborts = room.aborts
        /\ room'.said = Extended(room.said, Head1, root)
    <3>1. room' = WithLine(room, Head1, root)
      BY <1>1, <1>9
    <3>2. /\ WithLine(room, Head1, root) \in Publics
          /\ WithLine(room, Head1, root).aborts = room.aborts
          /\ WithLine(room, Head1, root).said = Extended(room.said, Head1, root)
      <4>1. room \in Publics /\ Head1 \in Event /\ root \in Roots \cup Prompts \cup {None}
        BY <1>2, <1>3
      <4> HIDE DEF root
      <4>q. QED BY <4>1, LineAdds
    <3>q. QED BY <3>1, <3>2
  <2>2. line \in Line /\ line.n = Head1.n /\ line.root = root
    BY <1>2, <1>3 DEF Line
  <2>3. new = Append(old, line) /\ \A u \in Prompts : u # t => room'.said[u] = room.said[u]
    BY <2>0, <1>2, <1>3, <2>1 DEF Extended, Publics
  <2>4. t \in Prompts /\ old \in Seq(Line)
    BY <1>2, <1>3, <2>0 DEF Publics
  <2> HIDE DEF line, old, new
  <2>5. /\ Len(old) \in Nat /\ Len(new) = Len(old) + 1 /\ new[Len(old) + 1] = line
        /\ \A i \in 1..Len(old) : new[i] = old[i]
    BY <2>2, <2>3, <2>4
  <2>6. \A i \in 1..Len(new) : i \in 1..Len(old) \/ i = Len(old) + 1
    BY <2>5
  <2>7. Types' /\ Awaited' /\ Roles' /\ Stops' /\ Binds'
    BY <1>1, <1>4, <2>1, TypesKept
  <2>8. Aborts'
    <3>1. \A r \in Roots : ~Carried(r)'
      BY <1>4 DEF Carried
    <3>q. QED BY <1>1, <2>1, <3>1 DEF IInv, Trail, Aborts
  <2>9. Spoken'
    <3>1. Sound(t, root) /\ Head1.n <= emitted[t]
      BY <1>1, <1>2, <1>3, <1>9, <2>0 DEF Pointed, IInv, Trail, Ordered
    <3>2. \A i \in 1..Len(old) : Sound(t, old[i].root) /\ old[i].n <= emitted[t]
      BY <2>4 DEF IInv, Trail, Spoken, old
    <3>3. \A i \in 1..Len(new) : Sound(t, new[i].root) /\ new[i].n <= emitted[t]
      BY <2>2, <2>5, <2>6, <3>1, <3>2
    <3>4. \A u \in Prompts : \A i \in 1..Len(room'.said[u]) :
             Sound(u, room'.said[u][i].root) /\ room'.said[u][i].n <= emitted[u]
      <4> TAKE u \in Prompts
      <4>1. CASE u = t
        BY <3>3, <4>1 DEF new
      <4>2. CASE u # t
        BY <2>3, <4>2 DEF IInv, Trail, Spoken
      <4>q. QED BY <4>1, <4>2
    <3>q. QED BY <1>1, <3>4 DEF Spoken, Sound
  <2>10. Ahead'
    <3>1. /\ \A i, j \in 1..Len(old) :
                i < j /\ old[i].root = Root(t) /\ old[j].root = Root(t) => old[i].n < old[j].n
          /\ \A i \in 1..Len(old), k \in 1..Len(queue) :
                old[i].root = Root(t) /\ queue[k].turn = t => old[i].n < queue[k].n
      BY <1>1, <2>4 DEF IInv, Trail, Ahead, Own, old
    <3>2. \A i \in 1..Len(old) : old[i].root = Root(t) => old[i].n < Head1.n
      BY <1>3, <2>0, <3>1
    <3>3. \A k \in 1..Len(queue) : 1 < k /\ queue[k].turn = t => Head1.n < queue[k].n
      BY <1>3, <2>0 DEF IInv, Trail, Ordered
    <3>4. ASSUME NEW i \in 1..Len(new), NEW j \in 1..Len(new),
                 i < j, new[i].root = Root(t), new[j].root = Root(t)
          PROVE  new[i].n < new[j].n
      <4>1. i \in 1..Len(old) /\ new[i] = old[i]
        BY <2>5, <3>4
      <4>2. CASE j \in 1..Len(old)
        BY <2>5, <3>1, <3>4, <4>1, <4>2
      <4>3. CASE j = Len(old) + 1
        BY <2>2, <2>5, <3>2, <3>4, <4>1, <4>3
      <4>q. QED BY <2>6, <4>2, <4>3
    <3>5. ASSUME NEW i \in 1..Len(new), NEW k \in 1..Len(queue'),
                 new[i].root = Root(t), queue'[k].turn = t
          PROVE  new[i].n < queue'[k].n \/ (k = 1 /\ cursor'.at = "finish")
      <4> SUFFICES ASSUME NEW l \in 1..Len(queue), 1 < l, queue'[k] = queue[l]
                   PROVE  new[i].n < queue[l].n
        BY <1>4
      <4>1. CASE i \in 1..Len(old)
        BY <2>5, <3>1, <3>5, <4>1
      <4>2. CASE i = Len(old) + 1
        BY <2>2, <2>5, <3>3, <3>5, <4>2
      <4>q. QED BY <2>6, <4>1, <4>2
    <3>6. ASSUME NEW u \in Prompts, u # t
          PROVE  /\ \A i, j \in 1..Len(room'.said[u]) :
                       i < j /\ Own(u, i)' /\ Own(u, j)' => room'.said[u][i].n < room'.said[u][j].n
                 /\ \A i \in 1..Len(room'.said[u]), k \in 1..Len(queue') :
                       Own(u, i)' /\ queue'[k].turn = u =>
                          room'.said[u][i].n < queue'[k].n \/ (k = 1 /\ cursor'.at = "finish")
      <4>1. room'.said[u] = room.said[u]
        BY <2>3, <3>6
      <4>2. \A i : Own(u, i)' <=> Own(u, i)
        BY <4>1 DEF Own
      <4>3. /\ \A i, j \in 1..Len(room.said[u]) :
                  i < j /\ Own(u, i) /\ Own(u, j) => room.said[u][i].n < room.said[u][j].n
            /\ \A i \in 1..Len(room.said[u]), k \in 1..Len(queue) :
                  Own(u, i) /\ queue[k].turn = u => room.said[u][i].n < queue[k].n
        BY <1>1 DEF IInv, Trail, Ahead
      <4>q. QED BY <1>4, <4>1, <4>2, <4>3
    <3>7. /\ \A i, j \in 1..Len(room'.said[t]) :
                i < j /\ Own(t, i)' /\ Own(t, j)' => room'.said[t][i].n < room'.said[t][j].n
          /\ \A i \in 1..Len(room'.said[t]), k \in 1..Len(queue') :
                Own(t, i)' /\ queue'[k].turn = t =>
                   room'.said[t][i].n < queue'[k].n \/ (k = 1 /\ cursor'.at = "finish")
      <4>1. \A i : Own(t, i)' <=> new[i].root = Root(t)
        BY <1>1, <1>3 DEF Own, new
      <4>2. new = room'.said[t]
        BY DEF new
      <4>q. QED BY <3>4, <3>5, <4>1, <4>2
    <3>q. QED BY <3>6, <3>7 DEF Ahead
  <2>q. QED BY <1>5, <1>6, <1>7, <2>7, <2>8, <2>9, <2>10 DEF IInv, Trail
<1>q. QED BY <1>2, <1>8, <1>9

-----------------------------------------------------------------------------
(***************************************************************************)
(* Every step.                                                             *)
(***************************************************************************)
\* Each action of the threads, the lane, Pi and the Stops preserves the invariant.
LEMMA Invariance == IInv /\ [Next]_vars => IInv'
<1> SUFFICES ASSUME IInv, [Next]_vars PROVE IInv'
  OBVIOUS
<1>1. CASE Lane
  BY <1>1, ClaimStep, AllowStep, PrivateStep, ResolveStep, PublishStep, FinishStep DEF Lane
<1>2. CASE Emit \/ EndTurn
  BY <1>2, TurnSteps
<1>3. ASSUME NEW p \in Prompts, Starts(p) PROVE IInv'
  BY <1>3, DispatchSteps, PreparedSteps, OtherSteps DEF Starts
<1>4. ASSUME NEW p \in Prompts, Thread(p) PROVE IInv'
  <2>1. CASE CheckIdle(p) \/ Begin(p) \/ Fail(p)
    BY <2>1, DispatchSteps
  <2>2. CASE Reserve(p) \/ Send(p) \/ Recheck(p)
    BY <2>2, PiSteps
  <2>3. CASE Accept(p)
    BY <2>3, AcceptStep
  <2>4. CASE Repair(p)
    BY <2>4, RepairStep
  <2>5. CASE ReleaseRegistry(p)
    BY <2>5, PreparedSteps
  <2>6. CASE DirectHold(p) \/ DirectRelease(p) \/ BeginPrivate(p) \/ EndPrivate(p)
    BY <2>6, OtherSteps
  <2>q. QED BY <1>4, <2>1, <2>2, <2>3, <2>4, <2>5, <2>6 DEF Thread, Dispatching
<1>5. ASSUME NEW root \in Roots, StopRecord(root) \/ StopGoesOn(root) PROVE IInv'
  BY <1>5, StopKept, StopCloses DEF StopGoesOn
<1>6. CASE UNCHANGED vars
  <2>1. UNCHANGED <<registry, pc, running, admission, emitted, lane, room, stop>>
    BY <1>6 DEF vars, pi
  <2>2. Keeps(registry, registry')
    BY <2>1, PendingType
  <2>3. Trail'
    BY <2>1, <2>2, TrailKept DEF IInv
  <2>4. Types' /\ Awaited' /\ Roles' /\ Stops'
    BY <2>1 DEF IInv, Types, Awaited, Roles, Stops, lane
  <2>q. QED BY <2>3, <2>4 DEF IInv
<1>q. QED BY <1>1, <1>2, <1>3, <1>4, <1>5, <1>6 DEF Next

\* The inductive invariant holds in every reachable state.
LEMMA Inductive == Spec => []IInv
BY Initially, Invariance, PTL DEF Spec

-----------------------------------------------------------------------------
(***************************************************************************)
(* What follows for the program.                                           *)
(***************************************************************************)
\* The registry's maps stay well formed, turns are bound to their own Roots only, a
\* pending turn always has a thread that will accept or cancel it, and a terminal is
\* claimed only for a cancelled Root.
THEOREM TypeCorrect == Spec => []TypeOK
<1>1. IInv => TypeOK
  BY DEF IInv, Types, Awaited, Waiting, TypeOK, WellFormed, Registry
<1>q. QED BY <1>1, Inductive, PTL

\* The public lines of every turn stand under its own Root, or under no Room Root at
\* all, and those under its Root are in Pi's order: _mirror_event_to_room with the
\* flush of accept(), however the lane lags and however often a Root is stopped.
THEOREM PublicFaithful == Spec => []PublicIsFaithful
<1>1. IInv => PublicIsFaithful
  <2> SUFFICES ASSUME IInv, NEW t \in Prompts
               PROVE  /\ \A i \in DOMAIN room.said[t] : room.said[t][i].root \in {Root(t), t}
                      /\ \A i, j \in DOMAIN room.said[t] :
                             i < j /\ Own(t, i) /\ Own(t, j)
                                => room.said[t][i].n < room.said[t][j].n
    BY DEF PublicIsFaithful
  <2>1. room.said[t] \in Seq(Line)
    BY DEF IInv, Types, Publics
  <2>2. DOMAIN room.said[t] = 1..Len(room.said[t])
    BY <2>1
  <2>q. QED BY <2>2 DEF IInv, Trail, Spoken, Sound, Ahead
<1>q. QED BY <1>1, Inductive, PTL

\* A Root shows at most one abort terminal of Room's own: claim_cancelled_terminal by
\* the lane and mark_cancelled_terminal by any number of Stops exclude each other.
THEOREM AbortedOnce == Spec => []OneAbort
<1>1. IInv => OneAbort
  BY DEF IInv, Trail, Aborts, OneAbort
<1>q. QED BY <1>1, Inductive, PTL

-----------------------------------------------------------------------------
(***************************************************************************)
(* One dispatch at a time: as long as nobody writes to the Session itself,  *)
(* its reservation, its pending turn and its registered turns exclude each  *)
(* other, so that a Stop finds the turn that it is meant for.               *)
(***************************************************************************)
\* No direct message has taken the reservation, which it does without looking.
Alone == \A d \in Directs : pc[d] \in {"idle", "checked"}

\* A dispatch is under way, it is pending or registered, no turn is registered.
Flight == {"held", "announced", "begun", "prepared", "reserved", "sent", "lost", "rejected"}
Owns(q) == registry.pending = q \/ registry.bound[q] # None
Free == \A x \in Prompts : registry.bound[x] = None

\* The reservation, the pending turn and the registered ones; a dispatch that is under
\* way holds the reservation, unless a Stop of its Root has given it back.
Reserved ==
    /\ registry.priority # None =>
          /\ registry.priority \in Dispatches /\ Free
          /\ registry.pending \in {None, registry.priority}
    /\ registry.pending # None => Free
    /\ \A p \in Dispatches :
          pc[p] \in Flight => registry.priority = p \/ Root(p) \in registry.cancelled

\* No other dispatch of its Root is under way while one is pending or registered.
Single == \A p, q \in Dispatches :
    Owns(q) /\ p # q /\ Root(p) = Root(q) => pc[p] \notin Flight

\* The reservation that a Stop will give back is one of its own Root.
Observed == \A r \in Roots :
    /\ stop[r].reservation # None =>
          stop[r].reservation \in Dispatches /\ Root(stop[r].reservation) = r
    /\ stop[r].at # "none" => r \in registry.cancelled

\* What the lane carries for a Root that is not cancelled is of a registered turn.
Located ==
    cursor.at \in {"private", "publish", "finish"} /\ cursor.root \in Roots =>
        registry.bound[Head1.turn] = cursor.root \/ cursor.root \in registry.cancelled

\* One prompt at a time has the Pi runtime.
Admitted ==
    /\ \A p \in Prompts : pc[p] \in {"prepared", "reserved"} => admission = p
    /\ admission # None => running = None

\* A prepared dispatch has a way of its own.
Placed == \A p \in PreparedDispatches : pc[p] \notin {"begun", "checked"}

\* A turn publishes from its start to its terminal event, which is the last.
Early == {"idle", "checked", "held", "announced", "begun", "prepared", "reserved", "rejected"}
Ended(e) == Terminal(e) => running # e.turn /\ e.n = emitted[e.turn]
Counted ==
    /\ \A p \in Prompts : pc[p] \in Early => running # p /\ emitted[p] = 0
    /\ \A k \in 1..Len(queue) : 1 <= queue[k].n /\ Ended(queue[k])
    /\ \A p \in Prompts : \A i \in 1..Len(registry.buffer[p]) :
          1 <= registry.buffer[p][i].n /\ Ended(registry.buffer[p][i])

\* A prepared dispatch that runs, or will run: its Session is known to work for it, no
\* Stop of its Root has been answered, and none can miss it.
Live(t) == running = t \/ (pc[t] \in {"prepared", "reserved"} /\ ~fenced)
Works(t) ==
    LET r == Root(t) IN
    /\ Owns(t)
    /\ stop[r].at \notin {"terminal", "terminated"}
    /\ stop[r].at = "drain" => running = t /\ stop[r].turn = t
    /\ registry.cancelledRoot # r
    /\ \A x \in Prompts : registry.cancelledTurn[x] # r
    /\ registry.pending = t =>
          ~(cursor.at \in {"private", "publish", "finish"} /\ cursor.root = r)
Working == \A t \in PreparedDispatches : Live(t) => Works(t)

Guard == Reserved /\ Single /\ Observed /\ Located /\ Working

\* The lane ends a turn with its terminal event only.
Closing == cursor.at = "finish" => Terminal(Head1)
Alike == Admitted /\ Placed /\ Counted /\ Closing

(* What the operators do to the parts of the registry that matter here. *)
Core(reg) == <<reg.priority, reg.pending, reg.bound, reg.cancelled, reg.cancelledRoot, reg.cancelledTurn>>

\* The release of a reservation touches nothing else.
LEMMA ReleasedCore ==
    ASSUME NEW reg, WellFormed(reg), NEW p, NEW new, new = Released(reg, p)
    PROVE  /\ new.priority = IF reg.priority = p THEN None ELSE reg.priority
           /\ new.pending = reg.pending /\ new.bound = reg.bound /\ new.cancelled = reg.cancelled
           /\ new.cancelledRoot = reg.cancelledRoot /\ new.cancelledTurn = reg.cancelledTurn
           /\ new.notice = reg.notice /\ new.private = reg.private /\ new.buffer = reg.buffer
BY DEF Released, WellFormed, Registry

\* What begin sets, and what it keeps.
LEMMA BegunCore ==
    ASSUME NEW reg, WellFormed(reg), NEW p \in Prompts, NEW new, new = Begun(reg, p)
    PROVE  /\ new.priority = reg.priority /\ new.pending = p /\ new.bound = reg.bound
           /\ new.cancelled = reg.cancelled /\ new.cancelledRoot = None
           /\ \A x \in Prompts : new.cancelledTurn[x] = None
           /\ new.notice = reg.notice /\ new.private = reg.private
           /\ \A x \in Prompts : new.buffer[x] = <<>>
BY DEF Begun, NoBuffer, WellFormed, Registry

\* What cancel ends: the pending dispatch and the registered turns of its Root.
LEMMA CancelledCore ==
    ASSUME NEW reg, WellFormed(reg), NEW root \in Roots, NEW new, new = Cancelled(reg, root)
    PROVE  /\ new.priority = reg.priority /\ new.cancelled = reg.cancelled
           /\ new.pending = IF reg.pending # None /\ Root(reg.pending) = root THEN None ELSE reg.pending
           /\ \A x \in Prompts : new.bound[x] = IF reg.bound[x] = root THEN None ELSE reg.bound[x]
           /\ new.cancelledRoot = IF root \in reg.cancelled THEN root ELSE reg.cancelledRoot
           /\ \A x \in Prompts : new.cancelledTurn[x] =
                 IF root \in reg.cancelled /\ reg.bound[x] = root THEN root ELSE reg.cancelledTurn[x]
           /\ new.notice = reg.notice /\ new.private = reg.private
BY DEF Cancelled, WellFormed, Registry

\* What finish ends: the turn, and a pending dispatch of its Root.
LEMMA FinishedCore ==
    ASSUME NEW reg, WellFormed(reg), NEW turn \in Prompts, NEW root, NEW new, new = Finished(reg, turn, root)
    PROVE  /\ new.priority = reg.priority /\ new.cancelled = reg.cancelled
           /\ new.pending = IF reg.pending # None /\ Root(reg.pending) = root THEN None ELSE reg.pending
           /\ \A x \in Prompts : new.bound[x] = IF x = turn THEN None ELSE reg.bound[x]
           /\ new.cancelledRoot = reg.cancelledRoot /\ new.cancelledTurn = reg.cancelledTurn
           /\ new.notice = reg.notice /\ new.private = reg.private
           /\ new.buffer = NoBuffer
BY DEF Finished, WellFormed, Registry

\* A private notice touches neither the dispatches nor their turns.
LEMMA TakenCore ==
    ASSUME NEW reg, WellFormed(reg), NEW e \in Event, NEW new, new = TakenPrivately(reg, e)
    PROVE  Core(new) = Core(reg) /\ new.buffer = reg.buffer
BY DEF TakenPrivately, WellFormed, Registry, Core

\* turn_for_event binds nothing.
LEMMA ResolvedCore ==
    ASSUME NEW reg, WellFormed(reg), NEW e \in Event, NEW new, new = Resolved(reg, e)
    PROVE  /\ new.priority = reg.priority /\ new.cancelled = reg.cancelled
           /\ new.pending = reg.pending /\ new.bound = reg.bound
           /\ new.cancelledRoot = reg.cancelledRoot
           /\ \A x \in Prompts : new.cancelledTurn[x] \in {reg.cancelledTurn[x], reg.cancelledRoot}
           /\ new.notice = reg.notice /\ new.private = reg.private /\ new.buffer = reg.buffer
BY DEF Resolved, WellFormed, Registry, Event

\* A claim touches neither the dispatches nor their turns.
LEMMA ClaimedCore ==
    ASSUME NEW reg, WellFormed(reg), NEW root, NEW new, new = Claimed(reg, root)
    PROVE  /\ Core(new) = Core(reg)
           /\ new.notice = reg.notice /\ new.private = reg.private /\ new.buffer = reg.buffer
BY DEF Claimed, WellFormed, Registry, Core

\* An event that is kept goes to the end of the buffer of its turn.
LEMMA KeptCore ==
    ASSUME NEW reg, WellFormed(reg), NEW e \in Event, NEW new, new = Kept(reg, e)
    PROVE  /\ Core(new) = Core(reg) /\ new.notice = reg.notice /\ new.private = reg.private
           /\ \A x \in Prompts : new.buffer[x] =
                 IF /\ reg.cancelledTurn[e.turn] = None /\ reg.cancelledRoot = None
                    /\ reg.pending # None /\ x = e.turn
                 THEN Append(reg.buffer[x], e) ELSE reg.buffer[x]
BY DEF Kept, WellFormed, Registry, Core, Event

\* An event that is mirrored when nothing is pending unbinds a turn only if it is
\* terminal.
Follows(reg, new) ==
    /\ WellFormed(new) /\ new.pending = None /\ new.buffer = NoBuffer
    /\ new.priority = reg.priority /\ new.cancelled = reg.cancelled
    /\ new.cancelledRoot = reg.cancelledRoot
    /\ \A x \in Prompts : new.cancelledTurn[x] \in {reg.cancelledTurn[x], reg.cancelledRoot}
    /\ \A x \in Prompts : new.bound[x] \in {reg.bound[x], None}

\* What an event that is mirrored at once leaves of the registry.
LEMMA MirroredCore ==
    ASSUME NEW reg, WellFormed(reg), reg.pending = None, reg.buffer = NoBuffer,
           NEW rm \in Publics, NEW e \in Event, NEW new,
           new = Mirrored([reg |-> reg, rm |-> rm], e)
    PROVE  /\ Follows(reg, new.reg)
           /\ ~Terminal(e) => \A x \in Prompts : new.reg.bound[x] = reg.bound[x]
<1> DEFINE claim == ClaimRoot(reg, e)
           mid == Claimed(reg, claim)
           root == IF claim # None THEN claim ELSE Registered(mid, e)
<1>1. claim \in (reg.cancelled \ reg.claimed) \cup {None} /\ claim \in Roots \cup {None}
  BY ClaimRootType DEF WellFormed, Registry
<1>2. WellFormed(mid) /\ Core(mid) = Core(reg) /\ mid.buffer = reg.buffer
  BY <1>1, ClaimedKeeps, ClaimedCore
<1>3. e.turn \in Prompts
  BY DEF Event
<1>4. \/ new.reg = Kept(mid, e)
      \/ new.reg = TakenPrivately(mid, e)
      \/ new.reg = Resolved(mid, e)
      \/ new.reg = (IF Terminal(e) THEN Finished(mid, e.turn, root) ELSE mid)
  <2> DEFINE state == [reg |-> reg, rm |-> rm]
  <2>1. \A x : [state EXCEPT !.reg = x].reg = x
    OBVIOUS
  <2>2. state.reg = reg /\ state.rm = rm /\ new = Mirrored(state, e)
    OBVIOUS
  <2> HIDE DEF state
  <2>q. QED BY <2>1, <2>2 DEF Mirrored
<1> HIDE DEF claim, mid, root
<1> USE DEF Core, Follows
<1>5. CASE new.reg = Kept(mid, e)
  <2>1. Kept(mid, e) = mid
    BY <1>2 DEF Kept
  <2>q. QED BY <1>2, <1>5, <2>1
<1>6. CASE new.reg = TakenPrivately(mid, e)
  BY <1>2, <1>6, TakenKeeps, TakenCore DEF Keeps
<1>7. CASE new.reg = Resolved(mid, e)
  BY <1>2, <1>7, ResolvedKeeps, ResolvedCore DEF Keeps
<1>8. CASE new.reg = (IF Terminal(e) THEN Finished(mid, e.turn, root) ELSE mid)
  BY <1>2, <1>3, <1>8, FinishedKeeps, FinishedCore DEF Keeps
<1>q. QED BY <1>4, <1>5, <1>6, <1>7, <1>8

\* The whole of accept.
LEMMA AcceptedCore ==
    ASSUME NEW reg, WellFormed(reg), NEW p \in Dispatches, room \in Publics,
           NEW new, new = Accepted(reg, p).reg
    PROVE  /\ WellFormed(new) /\ new.pending = None /\ new.buffer = NoBuffer
           /\ new.priority = reg.priority /\ new.cancelled = reg.cancelled
           /\ new.cancelledRoot = reg.cancelledRoot
           /\ \A x \in Prompts : new.cancelledTurn[x] \in {reg.cancelledTurn[x], reg.cancelledRoot}
           /\ \A x \in Prompts : x # p => new.bound[x] \in {reg.bound[x], None}
           /\ (\A i \in 1..Len(reg.buffer[p]) : ~Terminal(reg.buffer[p][i])) => new.bound[p] = Root(p)
<1> DEFINE kept == reg.buffer[p]
           N == Len(kept)
           base == Start(reg, p).reg
           Good(s, m) ==
              /\ Follows(base, s.reg) /\ s.rm \in Publics /\ s = [reg |-> s.reg, rm |-> s.rm]
              /\ (\A i \in 1..m : ~Terminal(kept[i])) => s.reg.bound[p] = Root(p)
<1>1. kept \in Seq(Event) /\ N \in Nat /\ p \in Prompts
  BY DEF WellFormed, Registry
<1>2. PICK f : /\ Accepted(reg, p) = f[N] /\ f[0] = Start(reg, p)
               /\ \A n \in 1..N : f[n] = Mirrored(f[n - 1], kept[n])
  <2> DEFINE q == kept
  <2>1. q = reg.buffer[p] /\ Len(q) \in Nat
    BY <1>1
  <2> HIDE DEF q
  <2>q. QED BY <2>1, Unfolded
<1>3. /\ WellFormed(base) /\ base.pending = None /\ base.buffer = NoBuffer
      /\ base.priority = reg.priority /\ base.cancelled = reg.cancelled
      /\ base.cancelledRoot = reg.cancelledRoot /\ base.cancelledTurn = reg.cancelledTurn
      /\ \A x \in Prompts : base.bound[x] = IF x = p THEN Root(p) ELSE reg.bound[x]
      /\ Start(reg, p) = [reg |-> base, rm |-> room]
  <2> DEFINE bound == [reg.bound EXCEPT ![p] = Root(p)]
             bare == [reg EXCEPT !.pending = None, !.bound = bound, !.buffer = NoBuffer]
  <2>1. Start(reg, p) = [reg |-> bare, rm |-> room]
    BY DEF Start
  <2>2. /\ bound \in [Prompts -> Roots \cup {None}]
        /\ \A t \in Prompts : bound[t] \in {None, Root(t)}
        /\ \A t \in Prompts : bound[t] = IF t = p THEN Root(p) ELSE reg.bound[t]
    BY <1>1, RootType DEF WellFormed, Registry
  <2> HIDE DEF bound
  <2>3. /\ bare \in Registry /\ bare.bound = bound /\ bare.pending = None /\ bare.buffer = NoBuffer
        /\ bare.cancelled = reg.cancelled /\ bare.claimed = reg.claimed /\ bare.priority = reg.priority
        /\ bare.cancelledTurn = reg.cancelledTurn /\ bare.cancelledRoot = reg.cancelledRoot
    BY <2>2, EmptyBuffer DEF WellFormed, Registry
  <2> HIDE DEF bare
  <2>4. WellFormed(bare)
    BY <2>2, <2>3 DEF WellFormed
  <2>5. base = bare
    BY <2>1
  <2> HIDE DEF base
  <2>q. QED BY <2>1, <2>2, <2>3, <2>4, <2>5
<1> HIDE DEF base
<1>4. Good(f[0], 0)
  BY <1>1, <1>2, <1>3 DEF Follows
<1>5. ASSUME NEW m \in 1..N, Good(f[m - 1], m - 1) PROVE Good(f[m], m)
  <2> DEFINE s == f[m - 1]
             u == f[m]
             e == kept[m]
  <2>1. e \in Event /\ u = Mirrored([reg |-> s.reg, rm |-> s.rm], e)
    BY <1>1, <1>2, <1>5
  <2>2. Good(s, m - 1)
    BY <1>5
  <2>3. WellFormed(s.reg) /\ s.reg.pending = None /\ s.reg.buffer = NoBuffer /\ s.rm \in Publics
    BY <2>2 DEF Follows
  <2>4. m \in 1..m /\ 1..(m - 1) \subseteq 1..m
    BY <1>1
  <2>a. e = kept[m]
    OBVIOUS
  <2> HIDE DEF s, u, e
  <2>5. /\ Follows(s.reg, u.reg) /\ u.rm \in Publics /\ u = [reg |-> u.reg, rm |-> u.rm]
        /\ ~Terminal(e) => \A x \in Prompts : u.reg.bound[x] = s.reg.bound[x]
    BY <2>1, <2>3, MirroredStep, MirroredCore
  <2>6. Follows(base, u.reg)
    BY <2>2, <2>5 DEF Follows
  <2>7. (\A i \in 1..m : ~Terminal(kept[i])) => u.reg.bound[p] = Root(p)
    BY <1>1, <2>2, <2>4, <2>5, <2>a
  <2>q. QED BY <2>5, <2>6, <2>7 DEF u
<1>6. {m \in 0..N : ~Good(f[m], m)} = {}
  <2> DEFINE Bad == {m \in 0..N : ~Good(f[m], m)}
  <2> SUFFICES ASSUME Bad # {} PROVE FALSE
    OBVIOUS
  <2> HIDE DEF Good
  <2>1. PICK x \in Bad : \A y \in Bad : x <= y
    <3>1. Bad \subseteq Nat
      BY <1>1
    <3> HIDE DEF Bad
    <3>q. QED BY <3>1, Least
  <2>2. x \in 1..N /\ x - 1 \in 0..N /\ x - 1 \notin Bad
    BY <1>1, <1>4, <2>1
  <2>q. QED BY <1>5, <2>1, <2>2
<1>7. Good(f[N], N)
  <2> HIDE DEF Good
  <2>q. QED BY <1>1, <1>6
<1>q. QED BY <1>1, <1>2, <1>3, <1>7 DEF Follows

(* The Pi runtime and its events. *)

\* What the steps do to the threads and to the runtime.
Onward(p, l) ==
    /\ Step(p, l)
    /\ l \in Early => pc[p] \in Early
    /\ l \notin {"prepared", "reserved"} /\ UNCHANGED <<running, admission, emitted>>

\* So moves every thread.
LEMMA ThreadMoves ==
    ASSUME IInv, NEW p \in Prompts, Starts(p) \/ Thread(p)
    PROVE  \/ \E l \in Labels : Onward(p, l)
           \/ /\ pc[p] \in {"idle", "begun"} /\ running = None /\ admission = None
              /\ admission' = p /\ UNCHANGED <<running, emitted>>
              /\ Step(p, "prepared") \/ Step(p, "reserved")
           \/ /\ pc[p] \in {"prepared", "reserved"} /\ Step(p, "rejected")
              /\ admission' = None /\ UNCHANGED <<running, emitted>>
           \/ pc[p] = "prepared" /\ Step(p, "reserved") /\ UNCHANGED <<running, admission, emitted>>
           \/ /\ pc[p] = "reserved" /\ admission' = None /\ running' = p /\ emitted' = emitted
              /\ Step(p, "sent") \/ Step(p, "lost")
<1>1. CASE Reserve(p) \/ Send(p) \/ Prepare(p) \/ Recheck(p)
  BY <1>1 DEF Reserve, Send, Prepare, Recheck, PiIdle, Onward, Early, Labels, pi
<1>2. CASE Hold(p) \/ DirectCheck(p) \/ NoticeCheck(p) \/ CheckIdle(p) \/ Begin(p) \/ DirectHold(p) \/ BeginPrivate(p)
  BY <1>2 DEF Hold, DirectCheck, NoticeCheck, CheckIdle, Begin, DirectHold, BeginPrivate, Onward, Early, Labels, pi
<1>3. CASE Accept(p) \/ Fail(p) \/ ReleaseRegistry(p) \/ Repair(p) \/ DirectRelease(p) \/ EndPrivate(p)
  BY <1>3 DEF Accept, Fail, ReleaseRegistry, Repair, DirectRelease, EndPrivate, Onward, Early, Labels, pi
<1>q. QED BY <1>1, <1>2, <1>3 DEF Starts, Thread, Dispatching

\* No step breaks the admission of one prompt at a time.
LEMMA AdmittedStep == ASSUME IInv, Admitted, [Next]_vars PROVE Admitted'
<1>1. ASSUME NEW p \in Prompts, Starts(p) \/ Thread(p) PROVE Admitted'
  <2>1. /\ pc \in [Prompts -> Labels] /\ None \notin Prompts
    BY DEF IInv, Types
  <2> USE DEF Admitted, Step
  <2>2. ASSUME NEW l \in Labels, Onward(p, l) PROVE Admitted'
    BY <2>1, <2>2 DEF Onward
  <2>3. CASE /\ pc[p] \in {"idle", "begun"} /\ running = None /\ admission = None
             /\ admission' = p /\ UNCHANGED <<running, emitted>>
             /\ Step(p, "prepared") \/ Step(p, "reserved")
    BY <2>1, <2>3
  <2>4. CASE /\ pc[p] \in {"prepared", "reserved"} /\ Step(p, "rejected")
             /\ admission' = None /\ UNCHANGED <<running, emitted>>
    BY <2>1, <2>4
  <2>5. CASE pc[p] = "prepared" /\ Step(p, "reserved") /\ UNCHANGED <<running, admission, emitted>>
    BY <2>1, <2>5
  <2>6. CASE /\ pc[p] = "reserved" /\ admission' = None /\ running' = p /\ emitted' = emitted
             /\ Step(p, "sent") \/ Step(p, "lost")
    BY <2>1, <2>6
  <2>q. QED BY <1>1, <2>2, <2>3, <2>4, <2>5, <2>6, ThreadMoves
<1>2. CASE EndTurn \/ Emit
  BY <1>2 DEF EndTurn, Emit, Admitted
<1>3. CASE UNCHANGED vars
  BY <1>3 DEF vars, pi, Admitted
<1>4. CASE Lane
  BY <1>4 DEF Lane, LaneClaim, LaneAllow, LanePrivate, LaneResolve, LanePublish, LaneFinish, pi, Admitted
<1>5. ASSUME NEW r \in Roots, StopRecord(r) \/ StopGoesOn(r) PROVE Admitted'
  BY <1>5 DEF StopRecord, StopGoesOn, StopAbort, StopClose, StopGivesUp, pi, Admitted
<1>q. QED BY <1>1, <1>2, <1>3, <1>4, <1>5 DEF Next

\* The registry of a dispatch that is repaired just before it is bound.
Repaired(p) ==
    [(IF registry.pending = None THEN Begun(registry, p) ELSE registry) EXCEPT !.priority = None]
\* What repair finds before it binds the turn.
LEMMA RepairedCore ==
    ASSUME WellFormed(registry), NEW p \in Dispatches
    PROVE  LET new == Repaired(p) IN
           /\ WellFormed(new) /\ new.priority = None /\ new.bound = registry.bound
           /\ new.cancelled = registry.cancelled
           /\ new.pending = IF registry.pending = None THEN p ELSE registry.pending
           /\ new.cancelledRoot \in {registry.cancelledRoot, None}
           /\ \A x \in Prompts : new.cancelledTurn[x] \in {registry.cancelledTurn[x], None}
           /\ \A x \in Prompts : new.buffer[x] \in {registry.buffer[x], <<>>}
           /\ registry.pending # None => new.buffer = registry.buffer
           /\ new.notice = registry.notice /\ new.private = registry.private
<1> DEFINE base == IF registry.pending = None THEN Begun(registry, p) ELSE registry
<1>1. /\ WellFormed(base) /\ base.bound = registry.bound
      /\ base.cancelled = registry.cancelled
      /\ base.pending = IF registry.pending = None THEN p ELSE registry.pending
      /\ base.cancelledRoot \in {registry.cancelledRoot, None}
      /\ \A x \in Prompts : base.cancelledTurn[x] \in {registry.cancelledTurn[x], None}
      /\ \A x \in Prompts : base.buffer[x] \in {registry.buffer[x], <<>>}
      /\ registry.pending # None => base.buffer = registry.buffer
      /\ base.notice = registry.notice /\ base.private = registry.private
  BY BegunKeeps, BegunCore DEF Keeps
<1> HIDE DEF base
<1>2. Repaired(p) = [base EXCEPT !.priority = None]
  BY DEF Repaired, base
<1>3. WellFormed(Repaired(p))
  BY <1>1, <1>2, PriorityKeeps DEF Keeps
<1>q. QED BY <1>1, <1>2, <1>3 DEF WellFormed, Registry

\* What Repair does.
LEMMA RepairMoves ==
    ASSUME IInv, NEW p \in Prompts, Repair(p)
    PROVE  /\ p \in PreparedDispatches /\ pc[p] = "unknown" /\ registry.pending \in {None, p}
           /\ \A t \in Prompts \ {p} : registry.bound[t] = None
           /\ registry.notice = None /\ registry.private = {}
           /\ registry.pending = None => registry.priority = None
           /\ UNCHANGED <<pi, lane, stop>>
           /\ \/ /\ running = p /\ ~IsCancelled(registry, Root(p))
                 /\ AcceptTurn(Repaired(p), p) /\ Step(p, "accepted")
              \/ /\ running # p /\ Step(p, "settled") /\ room' = room
                 /\ \/ registry.pending = None /\ registry' = registry
                    \/ /\ registry.pending = p
                       /\ registry' = Cancelled([registry EXCEPT !.priority = None], Root(p))
<1>1. p \in PreparedDispatches
  BY DEF Repair, IInv, Roles
<1>2. p # None
  OBVIOUS
<1>q. QED BY <1>1, <1>2 DEF Repair, Repaired

\* What is kept for a turn is only emptied, but for the event that the lane keeps, and
\* a cancelled Root stays cancelled.
LEMMA BufferMoves ==
    ASSUME IInv, IInv', [Next]_vars, NEW t \in Prompts
    PROVE  /\ registry.cancelled \subseteq registry'.cancelled
           /\ \/ registry'.buffer[t] \in {registry.buffer[t], <<>>}
              \/ /\ queue # <<>> /\ queue' = Tail(queue) /\ Head1.turn = t
                 /\ registry'.buffer[t] = Append(registry.buffer[t], Head1)
                 /\ UNCHANGED <<running, emitted, pc>>
<1> DEFINE stays == registry.cancelled \subseteq registry'.cancelled
<1>0. /\ WellFormed(registry) /\ (queue # <<>> => Head1 \in Event) /\ room \in Publics
      /\ NoBuffer[t] = <<>>
      /\ cursor.at # "ready" => queue # <<>>
  BY HeadType, EmptyBuffer DEF IInv, Types, Trail, Pointed
<1>1. ASSUME NEW p \in Dispatches, NEW reg, WellFormed(reg), AcceptTurn(reg, p)
      PROVE  registry'.buffer[t] = <<>> /\ registry'.cancelled = reg.cancelled
  <2>1. registry' = Accepted(reg, p).reg
    BY <1>1 DEF AcceptTurn
  <2>2. registry'.buffer = NoBuffer /\ registry'.cancelled = reg.cancelled
    BY <1>0, <1>1, <2>1, AcceptedCore
  <2>q. QED BY <1>0, <2>2
<1>2. ASSUME NEW p \in Prompts, Hold(p) \/ CheckIdle(p) \/ Begin(p) \/ Prepare(p)
      PROVE stays /\ registry'.buffer[t] \in {registry.buffer[t], <<>>}
  <2>1. CASE Hold(p) \/ CheckIdle(p)
    <3>1. \/ registry' = [registry EXCEPT !.priority = p]
          \/ registry' = registry \/ registry' = Released(registry, p)
      BY <2>1 DEF Hold, CheckIdle
    <3>2. CASE registry' = Released(registry, p)
      BY <1>0, <3>2, ReleasedCore
    <3>q. QED BY <1>0, <3>1, <3>2 DEF WellFormed, Registry
  <2>2. CASE Begin(p)
    <3>1. LET refused == [registry EXCEPT !.cancelledRoot = Root(p)] IN
          \/ /\ Root(p) \in registry.cancelled
             /\ registry' = Released(refused, p) \/ registry' = refused
          \/ registry' = Begun(registry, p)
      BY <2>2 DEF Begin
    <3> DEFINE refused == [registry EXCEPT !.cancelledRoot = Root(p)]
    <3>2. CASE Root(p) \in registry.cancelled /\ registry' \in {Released(refused, p), refused}
      <4>1. WellFormed(refused) /\ refused.buffer = registry.buffer /\ registry.cancelled \subseteq refused.cancelled
        BY <1>0, <3>2, RefusedKeeps DEF Keeps, WellFormed, Registry
      <4> HIDE DEF refused
      <4>q. QED BY <3>2, <4>1, ReleasedCore
    <3>3. CASE registry' = Begun(registry, p)
      BY <1>0, <3>3, BegunCore
    <3>q. QED BY <3>1, <3>2, <3>3
  <2>3. CASE Prepare(p)
    <3>1. registry' = [Begun(registry, p) EXCEPT !.priority = p]
      BY <2>3 DEF Prepare
    <3>2. /\ WellFormed(Begun(registry, p)) /\ Begun(registry, p).buffer[t] = <<>>
          /\ Begun(registry, p).cancelled = registry.cancelled
      BY <1>0, <2>3, BegunCore, BegunKeeps DEF Prepare, Keeps
    <3>q. QED BY <3>1, <3>2 DEF WellFormed, Registry
  <2>q. QED BY <1>2, <2>1, <2>2, <2>3
<1>3. ASSUME NEW p \in Prompts, Fail(p) \/ ReleaseRegistry(p)
      PROVE stays /\ registry'.buffer[t] \in {registry.buffer[t], <<>>}
  <2> DEFINE cancelled == Cancelled(registry, Root(p))
  <2>1. p \in Dispatches /\ registry' \in {registry, Released(registry, p), Released(cancelled, p)}
    BY <1>3 DEF Fail, ReleaseRegistry
  <2>2. /\ WellFormed(cancelled) /\ cancelled.buffer[t] \in {registry.buffer[t], <<>>}
        /\ registry.cancelled \subseteq cancelled.cancelled
    BY <1>0, <2>1, CancelledKeeps, RootType DEF Keeps
  <2> HIDE DEF cancelled
  <2>3. CASE registry' = Released(registry, p)
    BY <1>0, <2>3, ReleasedCore
  <2>4. CASE registry' = Released(cancelled, p)
    BY <2>2, <2>4, ReleasedCore
  <2>q. QED BY <2>1, <2>3, <2>4
<1>4. ASSUME NEW p \in Prompts, Accept(p) PROVE stays /\ registry'.buffer[t] \in {registry.buffer[t], <<>>}
  BY <1>0, <1>1, <1>4, ReleasedCore, ReleasedKeeps DEF Accept, Keeps
<1>5. ASSUME NEW p \in Prompts, Repair(p) PROVE stays /\ registry'.buffer[t] \in {registry.buffer[t], <<>>}
  <2>1. /\ WellFormed([registry EXCEPT !.priority = None])
        /\ [registry EXCEPT !.priority = None].buffer = registry.buffer
        /\ [registry EXCEPT !.priority = None].cancelled = registry.cancelled
    BY <1>0, PriorityKeeps DEF Keeps, WellFormed, Registry
  <2>2. p \in Dispatches /\ WellFormed(Repaired(p)) /\ Repaired(p).cancelled = registry.cancelled
    BY <1>0, <1>5, RepairMoves, RepairedCore
  <2>3. CASE AcceptTurn(Repaired(p), p)
    BY <1>1, <2>2, <2>3
  <2>4. CASE registry' = Cancelled([registry EXCEPT !.priority = None], Root(p))
    BY <2>1, <2>2, <2>4, CancelledKeeps, RootType DEF Keeps
  <2>5. CASE registry' = registry
    BY <2>5
  <2>q. QED BY <1>5, <2>3, <2>4, <2>5, RepairMoves
<1>6. ASSUME NEW p \in Prompts, \/ Reserve(p) \/ Send(p) \/ Recheck(p) \/ DirectCheck(p) \/ DirectHold(p)
                                \/ DirectRelease(p) \/ NoticeCheck(p) \/ BeginPrivate(p) \/ EndPrivate(p)
      PROVE stays /\ registry'.buffer[t] = registry.buffer[t]
  <2>1. CASE DirectRelease(p)
    BY <1>0, <2>1, ReleasedCore DEF DirectRelease
  <2>2. CASE Reserve(p) \/ Send(p) \/ Recheck(p) \/ DirectCheck(p) \/ NoticeCheck(p)
    BY <2>2 DEF Reserve, Send, Recheck, DirectCheck, NoticeCheck
  <2>3. CASE DirectHold(p)
    <3>1. registry' = [registry EXCEPT !.priority = p]
      BY <2>3 DEF DirectHold
    <3>q. QED BY <1>0, <3>1 DEF WellFormed, Registry
  <2>4. CASE BeginPrivate(p) \/ EndPrivate(p)
    <3>1. \/ registry' = registry
          \/ \E notice, private : registry' = [registry EXCEPT !.notice = notice, !.private = private]
          \/ registry' = [registry EXCEPT !.notice = p]
      BY <2>4 DEF BeginPrivate, EndPrivate
    <3>2. ASSUME NEW notice, NEW private, registry' = [registry EXCEPT !.notice = notice, !.private = private]
          PROVE  stays /\ registry'.buffer[t] = registry.buffer[t]
      BY <1>0, <3>2 DEF WellFormed, Registry
    <3>3. CASE registry' = [registry EXCEPT !.notice = p]
      BY <1>0, <3>3 DEF WellFormed, Registry
    <3>q. QED BY <3>1, <3>2, <3>3
  <2>q. QED BY <1>6, <2>1, <2>2, <2>3, <2>4
<1>7. CASE EndTurn \/ Emit \/ UNCHANGED vars
  BY <1>7 DEF EndTurn, Emit, vars
<1>8. ASSUME NEW r \in Roots, StopRecord(r) \/ StopAbort(r) \/ StopGivesUp(r)
      PROVE  stays /\ registry'.buffer[t] = registry.buffer[t]
  <2>1. CASE StopAbort(r) \/ StopGivesUp(r)
    BY <2>1 DEF StopAbort, StopGivesUp
  <2>2. CASE StopRecord(r)
    <3> DEFINE all == registry.cancelled \cup {r}
    <3>1. registry' = [registry EXCEPT !.cancelled = all] /\ registry.cancelled \subseteq all
      BY <2>2 DEF StopRecord
    <3> HIDE DEF all
    <3>q. QED BY <1>0, <3>1 DEF WellFormed, Registry
  <2>q. QED BY <1>8, <2>1, <2>2
<1>9. ASSUME NEW r \in Roots, StopClose(r) PROVE stays /\ registry'.buffer[t] \in {registry.buffer[t], <<>>}
  <2>1. PICK reg : /\ reg \in {Claimed(registry, r), registry}
                   /\ registry' = Released(Cancelled(reg, r), stop[r].reservation)
    BY <1>9 DEF StopClose
  <2>2. WellFormed(reg) /\ reg.buffer = registry.buffer /\ reg.cancelled = registry.cancelled
    BY <1>0, <1>9, <2>1, ClaimedKeeps DEF StopClose, IInv, Stops
  <2>3. /\ WellFormed(Cancelled(reg, r)) /\ Cancelled(reg, r).buffer[t] \in {reg.buffer[t], <<>>}
        /\ reg.cancelled \subseteq Cancelled(reg, r).cancelled
    BY <2>2, CancelledKeeps DEF Keeps
  <2>q. QED BY <2>1, <2>2, <2>3, ReleasedCore
<1>10. CASE LaneClaim \/ LanePrivate \/ LaneResolve \/ LanePublish \/ LaneFinish
  <2>1. CASE LaneClaim
    BY <1>0, <2>1, ClaimedCore DEF LaneClaim, Core
  <2>2. CASE LanePrivate
    BY <1>0, <2>2, TakenCore DEF LanePrivate, Core
  <2>3. CASE LaneResolve
    BY <1>0, <2>3, ResolvedCore DEF LaneResolve
  <2>4. CASE LanePublish
    BY <2>4 DEF LanePublish
  <2>5. CASE LaneFinish
    <3>1. Head1.turn \in Prompts /\ registry' = Finished(registry, Head1.turn, cursor.root)
      BY <1>0, <2>5 DEF LaneFinish, Event
    <3>q. QED BY <1>0, <3>1, FinishedCore
  <2>q. QED BY <1>10, <2>1, <2>2, <2>3, <2>4, <2>5
<1>11. CASE LaneAllow
  <2>1. /\ queue # <<>> /\ UNCHANGED <<running, emitted, pc>>
        /\ \/ registry' = registry
           \/ registry' = Kept(registry, Head1) /\ queue' = Tail(queue)
    BY <1>11 DEF LaneAllow, Drop, pi
  <2>2. CASE registry' = Kept(registry, Head1) /\ queue' = Tail(queue)
    <3>1. Head1 \in Event
      BY <1>0, <2>1
    <3>2. \/ registry'.buffer[t] = registry.buffer[t]
          \/ registry'.buffer[t] = Append(registry.buffer[t], Head1) /\ Head1.turn = t
      BY <1>0, <2>2, <3>1 DEF Kept, WellFormed, Registry, Event
    <3>3. stays
      BY <1>0, <2>2, <3>1, KeptCore DEF Core
    <3>q. QED BY <2>1, <2>2, <3>2, <3>3
  <2>q. QED BY <2>1, <2>2
<1>q. QED BY <1>2, <1>3, <1>4, <1>5, <1>6, <1>7, <1>8, <1>9, <1>10, <1>11
             DEF Next, Starts, Thread, Dispatching, StopGoesOn, Lane

\* The queue loses its first event, or Pi publishes one.
Publishes(kind) ==
    /\ running # None
    /\ emitted' = [emitted EXCEPT ![running] = emitted[running] + 1]
    /\ queue' = Append(queue, [turn |-> running, n |-> emitted[running] + 1, kind |-> kind])
    /\ running' = IF kind = "delta" THEN running ELSE None
    /\ UNCHANGED <<pc, registry, cursor, room, stop>>

\* So moves the lane.
LEMMA QueueMoves ==
    ASSUME IInv, [Next]_vars
    PROVE  \/ UNCHANGED <<queue, emitted>> /\ running' = running
           \/ UNCHANGED <<queue, emitted>> /\ \E p \in Prompts : pc[p] = "reserved" /\ running' = p
           \/ queue # <<>> /\ queue' = Tail(queue) /\ UNCHANGED <<emitted, running, pc>>
           \/ \E kind \in Kinds : Publishes(kind)
<1>1. CASE Lane
  <2>1. cursor.at # "ready" => queue # <<>>
    BY DEF IInv, Trail, Pointed
  <2>2. CASE LaneClaim \/ LaneAllow
    BY <2>2 DEF LaneClaim, LaneAllow, Drop, Goto, pi
  <2>3. CASE LanePrivate \/ LaneResolve \/ LanePublish \/ LaneFinish
    BY <2>1, <2>3 DEF LanePrivate, LaneResolve, LanePublish, LaneFinish, Drop, Goto, pi
  <2>q. QED BY <1>1, <2>2, <2>3 DEF Lane
<1>2. CASE Emit
  BY <1>2 DEF Emit, Publishes, Kinds
<1>3. CASE EndTurn
  BY <1>3 DEF EndTurn, Publishes, Kinds
<1>4. ASSUME NEW p \in Prompts, Starts(p) \/ Thread(p)
      PROVE  /\ UNCHANGED <<queue, emitted>>
             /\ running' = running \/ (pc[p] = "reserved" /\ running' = p)
  BY <1>4 DEF Starts, Thread, Dispatching, Hold, CheckIdle, Begin, Prepare, Fail, ReleaseRegistry, Accept, Repair,
              Reserve, Send, Recheck, DirectCheck, DirectHold, DirectRelease, NoticeCheck, BeginPrivate, EndPrivate,
              pi, lane
<1>5. ASSUME NEW r \in Roots, StopRecord(r) \/ StopGoesOn(r) PROVE UNCHANGED <<queue, emitted, running>>
  BY <1>5 DEF StopRecord, StopGoesOn, StopAbort, StopClose, StopGivesUp, pi, lane
<1>q. QED BY <1>1, <1>2, <1>3, <1>4, <1>5 DEF Next, vars, pi, lane

\* A terminal event stays the last of its turn.
LEMMA EndedStays ==
    ASSUME IInv, Counted, [Next]_vars, NEW e \in Event, 1 <= e.n, e.n <= emitted[e.turn], Ended(e)
    PROVE  Ended(e)' /\ e.n <= emitted'[e.turn]
<1>0. emitted \in [Prompts -> Nat] /\ e.turn \in Prompts /\ None \notin Prompts /\ e.n \in Nat
  BY DEF IInv, Types, Event
<1>1. CASE UNCHANGED <<queue, emitted>> /\ running' = running
  BY <1>1 DEF Ended
<1>2. ASSUME NEW p \in Prompts, pc[p] = "reserved", running' = p, UNCHANGED <<queue, emitted>>
      PROVE  Ended(e)' /\ e.n <= emitted'[e.turn]
  <2>1. emitted[p] = 0
    BY <1>2 DEF Counted, Early
  <2>q. QED BY <1>0, <1>2, <2>1 DEF Ended
<1>3. CASE UNCHANGED <<emitted, running, pc>>
  BY <1>3 DEF Ended
<1>4. ASSUME NEW kind \in Kinds, Publishes(kind) PROVE Ended(e)' /\ e.n <= emitted'[e.turn]
  <2>1. CASE running = e.turn
    BY <1>0, <1>4, <2>1 DEF Ended, Publishes, Terminal
  <2>2. CASE running # e.turn
    BY <1>0, <1>4, <2>2 DEF Ended, Publishes
  <2>q. QED BY <2>1, <2>2
<1>q. QED BY <1>1, <1>2, <1>3, <1>4, QueueMoves

\* No step makes a turn publish after its terminal event.
LEMMA CountedStep == ASSUME IInv, IInv', Counted, [Next]_vars PROVE Counted'
<1>0. /\ emitted \in [Prompts -> Nat] /\ queue \in Seq(Event) /\ pc \in [Prompts -> Labels]
      /\ WellFormed(registry) /\ running \in Prompts \cup {None} /\ None \notin Prompts
  BY DEF IInv, Types
<1>1. \A p \in Prompts : pc'[p] \in Early => running' # p /\ emitted'[p] = 0
  <2> SUFFICES ASSUME NEW p \in Prompts, pc'[p] \in Early PROVE running' # p /\ emitted'[p] = 0
    OBVIOUS
  <2>1. pc[p] \in Early /\ (running' = p => running = p)
    <3>1. ASSUME NEW q \in Prompts, Starts(q) \/ Thread(q) PROVE pc[p] \in Early /\ (running' = p => running = p)
      BY <1>0, <3>1, ThreadMoves DEF Onward, Step, Early
    <3>2. CASE Lane \/ UNCHANGED vars
      BY <3>2 DEF Lane, LaneClaim, LaneAllow, LanePrivate, LaneResolve, LanePublish, LaneFinish, vars, pi
    <3>3. ASSUME NEW r \in Roots, StopRecord(r) \/ StopGoesOn(r) PROVE UNCHANGED <<pc, running>>
      BY <3>3 DEF StopRecord, StopGoesOn, StopAbort, StopClose, StopGivesUp, pi
    <3>4. CASE Emit \/ EndTurn
      BY <1>0, <3>4 DEF Emit, EndTurn
    <3>q. QED BY <3>1, <3>2, <3>3, <3>4 DEF Next
  <2>2. running # p /\ emitted[p] = 0
    BY <2>1 DEF Counted
  <2>q. QED BY <1>0, <2>1, <2>2, QueueMoves DEF Publishes
<1>2. ASSUME NEW k \in 1..Len(queue'), NEW e, e = queue'[k] PROVE 1 <= e.n /\ Ended(e)'
  <2>1. ASSUME NEW l \in 1..Len(queue), e = queue[l] PROVE 1 <= e.n /\ Ended(e)'
    <3>1. e \in Event /\ 1 <= e.n /\ e.n <= emitted[e.turn] /\ Ended(e)
      BY <1>0, <2>1 DEF Counted, IInv, Trail, Ordered
    <3>q. QED BY <3>1, EndedStays
  <2>2. CASE queue' = queue
    BY <1>2, <2>1, <2>2
  <2>3. CASE queue # <<>> /\ queue' = Tail(queue)
    <3>1. k + 1 \in 1..Len(queue) /\ queue'[k] = queue[k + 1]
      BY <1>0, <2>3, Dropped DEF IInv
    <3>q. QED BY <1>2, <2>1, <3>1
  <2>4. ASSUME NEW kind \in Kinds, Publishes(kind) PROVE 1 <= e.n /\ Ended(e)'
    <3> DEFINE last == [turn |-> running, n |-> emitted[running] + 1, kind |-> kind]
    <3>1. running \in Prompts /\ emitted[running] \in Nat /\ last \in Event
      BY <1>0, <2>4 DEF Publishes, Event
    <3>2. queue' = Append(queue, last)
      BY <2>4 DEF Publishes
    <3>3. CASE k \in 1..Len(queue)
      <4>1. queue'[k] = queue[k]
        <5> HIDE DEF last
        <5>q. QED BY <1>0, <3>1, <3>2, <3>3
      <4>q. QED BY <1>2, <2>1, <3>3, <4>1
    <3>4. CASE k \notin 1..Len(queue)
      <4>1. e = last
        <5> HIDE DEF last
        <5>q. QED BY <1>0, <1>2, <3>1, <3>2, <3>4
      <4>q. QED BY <1>0, <2>4, <3>1, <4>1 DEF Publishes, Ended, Terminal
    <3>q. QED BY <3>3, <3>4
  <2>q. QED BY <2>2, <2>3, <2>4, QueueMoves
<1>3. ASSUME NEW p \in Prompts, NEW i \in 1..Len(registry'.buffer[p]), NEW e, e = registry'.buffer[p][i]
      PROVE  1 <= e.n /\ Ended(e)'
  <2>1. registry.buffer[p] \in Seq(Event)
    BY <1>0 DEF WellFormed, Registry
  <2>2. ASSUME NEW l \in 1..Len(registry.buffer[p]), e = registry.buffer[p][l] PROVE 1 <= e.n /\ Ended(e)'
    <3>1. e \in Event /\ 1 <= e.n /\ e.n <= emitted[e.turn] /\ Ended(e)
      BY <2>1, <2>2 DEF Counted, IInv, Trail, Buffered
    <3>q. QED BY <3>1, EndedStays
  <2>3. CASE registry'.buffer[p] = registry.buffer[p]
    BY <1>3, <2>2, <2>3
  <2>4. CASE registry'.buffer[p] = <<>>
    BY <1>3, <2>4
  <2>5. CASE queue # <<>> /\ registry'.buffer[p] = Append(registry.buffer[p], Head1)
    <3>1. /\ Head1 \in Event /\ 1 <= Head1.n /\ Head1.n <= emitted[Head1.turn] /\ Ended(Head1)
      BY <1>0, <2>5, HeadType DEF Counted, IInv, Trail, Ordered
    <3>2. e = Head1 \/ \E l \in 1..Len(registry.buffer[p]) : e = registry.buffer[p][l]
      BY <1>3, <2>1, <2>5, <3>1
    <3>3. CASE e = Head1
      BY <3>1, <3>3, EndedStays
    <3>q. QED BY <2>2, <3>2, <3>3
  <2>q. QED BY <2>3, <2>4, <2>5, BufferMoves
<1>q. QED
  <2>1. \A k \in 1..Len(queue') : 1 <= queue'[k].n /\ Ended(queue[k])'
    BY <1>2 DEF Ended
  <2>2. \A p \in Prompts : \A i \in 1..Len(registry'.buffer[p]) :
            1 <= registry'.buffer[p][i].n /\ Ended(registry.buffer[p][i])'
    BY <1>3 DEF Ended
  <2>q. QED BY <1>1, <2>1, <2>2 DEF Counted

\* No step takes a prepared dispatch the way of a user dispatch.
LEMMA PlacedStep == ASSUME IInv, Placed, [Next]_vars PROVE Placed'
<1>0. pc \in [Prompts -> Labels]
  BY DEF IInv, Types
<1>1. ASSUME NEW p \in Prompts, Begin(p) \/ DirectHold(p) \/ BeginPrivate(p) PROVE Placed'
  BY <1>0, <1>1 DEF Begin, DirectHold, BeginPrivate, Step, Placed, IInv, Roles
<1>2. ASSUME NEW p \in Prompts, DirectCheck(p) \/ NoticeCheck(p) PROVE Placed'
  BY <1>0, <1>2 DEF DirectCheck, NoticeCheck, Step, Placed
<1>3. ASSUME NEW p \in Prompts,
             \/ Hold(p) \/ CheckIdle(p) \/ Prepare(p) \/ Fail(p) \/ ReleaseRegistry(p) \/ Accept(p) \/ Repair(p)
             \/ Reserve(p) \/ Send(p) \/ Recheck(p) \/ DirectRelease(p) \/ EndPrivate(p)
      PROVE  Placed'
  <2>1. PICK l : Step(p, l) /\ l \notin {"begun", "checked"}
    BY <1>3 DEF Hold, CheckIdle, Prepare, Fail, ReleaseRegistry, Accept, Repair, Reserve, Send, Recheck,
                DirectRelease, EndPrivate
  <2>q. QED BY <1>0, <2>1 DEF Step, Placed
<1>4. CASE Lane \/ Emit \/ EndTurn \/ UNCHANGED vars
  BY <1>4 DEF Lane, LaneClaim, LaneAllow, LanePrivate, LaneResolve, LanePublish, LaneFinish, Emit, EndTurn, vars,
              Placed
<1>5. ASSUME NEW r \in Roots, StopRecord(r) \/ StopGoesOn(r) PROVE Placed'
  BY <1>5 DEF StopRecord, StopGoesOn, StopAbort, StopClose, StopGivesUp, Placed
<1>q. QED BY <1>1, <1>2, <1>3, <1>4, <1>5 DEF Next, Starts, Thread, Dispatching

(* The steps that leave the reservation, the pending turn and the registered ones. *)
Held == IInv /\ IInv' /\ Alike /\ Guard /\ Alone

\* A private notice, its end included, touches neither the dispatches nor their turns.
LEMMA NoticeCore ==
    ASSUME NEW reg, WellFormed(reg), NEW notice, NEW private, NEW new,
           new = [reg EXCEPT !.notice = notice, !.private = private]
    PROVE  Core(new) = Core(reg)
BY DEF WellFormed, Registry, Core

\* A section of the lock that keeps what the guard speaks of keeps the guard on it.
LEMMA CoreKept ==
    ASSUME Held, registry'.priority = registry.priority, registry'.pending = registry.pending,
           registry'.bound = registry.bound, registry'.cancelled = registry.cancelled,
           \A p \in Dispatches : pc'[p] \in Flight => pc[p] \in Flight,
           \A r \in Roots : /\ stop'[r].reservation \in {stop[r].reservation, None}
                            /\ stop'[r].at # "none" => stop[r].at # "none"
    PROVE  Reserved' /\ Single' /\ Observed'
BY DEF Held, Guard, Reserved, Free, Single, Owns, Observed

\* A thread that only talks to the Pi runtime or takes a private notice.
LEMMA QuietThread ==
    ASSUME Held, NEW p \in Prompts,
           \/ Reserve(p) \/ Send(p) \/ Recheck(p) \/ DirectCheck(p)
           \/ NoticeCheck(p) \/ BeginPrivate(p) \/ EndPrivate(p)
    PROVE  Guard'
<1>0. WellFormed(registry) /\ pc \in [Prompts -> Labels] /\ None \notin Prompts
  BY DEF Held, IInv, Types
<1>1. Core(registry') = Core(registry) /\ UNCHANGED <<lane, stop>>
  <2>1. CASE Reserve(p) \/ Send(p) \/ Recheck(p) \/ DirectCheck(p) \/ NoticeCheck(p)
    BY <2>1 DEF Reserve, Send, Recheck, DirectCheck, NoticeCheck, Core
  <2>2. CASE BeginPrivate(p)
    <3>1. registry' = [registry EXCEPT !.notice = p] /\ UNCHANGED <<lane, stop>>
      BY <2>2 DEF BeginPrivate
    <3>q. QED BY <1>0, <3>1 DEF Core, WellFormed, Registry
  <2>3. CASE EndPrivate(p)
    <3> DEFINE private == IF pc[p] = "sent" THEN registry.private \cup {p} ELSE registry.private
    <3>1. /\ registry' = registry \/ registry' = [registry EXCEPT !.notice = None, !.private = private]
          /\ UNCHANGED <<lane, stop>>
      BY <2>3 DEF EndPrivate
    <3> HIDE DEF private
    <3>2. Core(registry') = Core(registry)
      <4>1. CASE registry' = registry
        BY <4>1 DEF Core
      <4>2. CASE registry' = [registry EXCEPT !.notice = None, !.private = private]
        BY <1>0, <4>2, NoticeCore
      <4>q. QED BY <3>1, <4>1, <4>2
    <3>q. QED BY <3>1, <3>2
  <2>q. QED BY <2>1, <2>2, <2>3
<1>2. \A q \in Dispatches : pc'[q] \in Flight => pc[q] \in Flight
  BY <1>0 DEF Reserve, Send, Recheck, DirectCheck, NoticeCheck, BeginPrivate, EndPrivate, Step, Flight
<1>3. Reserved' /\ Single' /\ Observed'
  BY <1>1, <1>2, CoreKept DEF Core
<1>4. Located'
  BY <1>1 DEF Held, Guard, Located, Core, lane, Head1
<1>5. ASSUME NEW t \in PreparedDispatches, Live(t)' PROVE Live(t) /\ (running = t => running' = t)
  <2>1. /\ pc[p] \in {"prepared", "reserved"} => admission = p /\ running = None
        /\ pc[t] \in {"prepared", "reserved"} => admission = t
        /\ pc[t] \notin {"begun", "checked"} /\ t \in Prompts
        /\ pc[t] = "reserved" => running # t
    BY DEF Held, Alike, Admitted, Placed, Counted, Early
  <2>2. CASE Reserve(p)
    BY <1>0, <1>5, <2>1, <2>2 DEF Reserve, PiIdle, Step, Live
  <2>3. CASE Send(p)
    BY <1>0, <1>5, <2>1, <2>3 DEF Send, Step, Live
  <2>4. CASE Recheck(p)
    BY <1>0, <1>5, <2>1, <2>4 DEF Recheck, Step, Live
  <2>5. CASE DirectCheck(p) \/ NoticeCheck(p) \/ BeginPrivate(p) \/ EndPrivate(p)
    BY <1>0, <1>5, <2>1, <2>5 DEF DirectCheck, NoticeCheck, BeginPrivate, EndPrivate, Step, Live, pi
  <2>q. QED BY <2>2, <2>3, <2>4, <2>5
<1>6. Working'
  <2> SUFFICES ASSUME NEW t \in PreparedDispatches, Live(t)' PROVE Works(t)'
    BY DEF Working
  <2>1. Live(t) /\ (running = t => running' = t) /\ Works(t)
    BY <1>5 DEF Held, Guard, Working
  <2>q. QED BY <1>1, <2>1 DEF Works, Owns, Core, lane
<1>q. QED BY <1>3, <1>4, <1>6 DEF Guard

\* The lane, which carries something for no Root that a prepared dispatch works for.
Carries(at, root) == at \in {"private", "publish", "finish"} /\ root \in Roots

\* The lane goes on, and may carry something else.
LEMMA LaneKept ==
    ASSUME Held, Core(registry') = Core(registry), UNCHANGED <<pc, running, fenced, stop>>,
           Carries(cursor'.at, cursor'.root) =>
              registry.bound[Head1'.turn] = cursor'.root \/ cursor'.root \in registry.cancelled,
           \A t \in PreparedDispatches :
              Works(t) /\ registry.pending = t => ~Carries(cursor'.at, cursor'.root) \/ cursor'.root # Root(t)
    PROVE  Guard'
<1>1. Reserved' /\ Single' /\ Observed'
  BY CoreKept DEF Core
<1>2. Located'
  BY DEF Located, Carries, Core
<1>3. ASSUME NEW t \in PreparedDispatches, Live(t)' PROVE Works(t)'
  <2>1. Works(t) /\ Root(t) \in Roots
    BY <1>3, RootType DEF Live, Held, Guard, Working
  <2>q. QED BY <2>1 DEF Works, Owns, Core, Carries
<1>q. QED BY <1>1, <1>2, <1>3 DEF Guard, Working

\* The steps of the lane that bind and unbind nothing, and the events of Pi.
LEMMA LaneMoves ==
    ASSUME Held, LaneClaim \/ LaneAllow \/ LanePrivate \/ LanePublish \/ Emit \/ UNCHANGED vars
    PROVE  Guard'
<1>0. /\ WellFormed(registry) /\ (queue # <<>> => Head1 \in Event) /\ None \notin Prompts \cup Roots
      /\ cursor.at # "ready" => queue # <<>>
      /\ queue \in Seq(Event)
      /\ Carries(cursor.at, cursor.root) =>
            registry.bound[Head1.turn] = cursor.root \/ cursor.root \in registry.cancelled
      /\ \A t \in PreparedDispatches : Root(t) \in Roots
      /\ \A t \in PreparedDispatches :
            Works(t) /\ registry.pending = t => ~(Carries(cursor.at, cursor.root) /\ cursor.root = Root(t))
  BY HeadType, RootType DEF Held, IInv, Types, Trail, Pointed, Guard, Located, Carries, Works
<1>1. CASE LaneClaim
  <2> DEFINE root == ClaimRoot(registry, Head1)
  <2>1. /\ queue # <<>> /\ registry' = Claimed(registry, root)
        /\ UNCHANGED <<pc, running, fenced, stop, queue>>
        /\ \/ root # None /\ cursor' = [at |-> "private", root |-> root, claimed |-> TRUE]
           \/ cursor' = [at |-> "allow", root |-> None, claimed |-> FALSE]
    BY <1>1 DEF LaneClaim, Goto, pi
  <2>2. Core(registry') = Core(registry)
    BY <1>0, <2>1, ClaimedCore
  <2>3. root \in registry.cancelled \cup {None}
    BY <1>0, <2>1, ClaimRootType
  <2>4. \A t \in PreparedDispatches : Works(t) /\ registry.pending = t => root # Root(t)
    <3>1. \A t \in PreparedDispatches : Works(t) /\ registry.pending = t =>
             /\ registry.bound[Head1.turn] = None
             /\ registry.cancelledTurn[Head1.turn] # Root(t) /\ registry.cancelledRoot # Root(t)
      BY <1>0, <2>1 DEF Works, Held, Guard, Reserved, Free, Event
    <3>q. QED BY <1>0, <3>1 DEF ClaimRoot
  <2> HIDE DEF root
  <2>q. QED BY <1>0, <2>1, <2>2, <2>3, <2>4, LaneKept DEF Carries
<1>2. CASE LaneAllow
  <2>1. /\ queue # <<>> /\ registry' \in {registry, Kept(registry, Head1)}
        /\ UNCHANGED <<pc, running, fenced, stop>>
        /\ cursor'.root = None
    BY <1>2 DEF LaneAllow, Goto, Drop, Ready, pi
  <2>2. Core(registry') = Core(registry)
    BY <1>0, <2>1, KeptCore
  <2>q. QED BY <1>0, <2>1, <2>2, LaneKept DEF Carries
<1>3. CASE LanePrivate
  <2>1. /\ cursor.at = "private" /\ registry' \in {registry, TakenPrivately(registry, Head1)}
        /\ UNCHANGED <<pc, running, fenced, stop>>
        /\ \/ cursor' = Ready
           \/ cursor'.at \in {"publish", "resolve"} /\ cursor'.root = cursor.root /\ queue' = queue
    BY <1>3 DEF LanePrivate, Goto, Drop, pi
  <2>2. Core(registry') = Core(registry)
    BY <1>0, <2>1, TakenCore
  <2>q. QED BY <1>0, <2>1, <2>2, LaneKept DEF Carries, Ready, Head1
<1>4. CASE LanePublish
  <2>1. /\ cursor.at = "publish" /\ registry' = registry
        /\ UNCHANGED <<pc, running, fenced, stop>>
        /\ \/ cursor' = Ready
           \/ cursor'.at = "finish" /\ cursor'.root = cursor.root /\ queue' = queue
    BY <1>4 DEF LanePublish, Goto, Drop, pi
  <2>2. Core(registry') = Core(registry)
    BY <2>1 DEF Core
  <2>q. QED BY <1>0, <2>1, <2>2, LaneKept DEF Carries, Ready, Head1
<1>5. CASE Emit \/ UNCHANGED vars
  <2>1. /\ registry' = registry /\ cursor' = cursor /\ UNCHANGED <<pc, running, fenced, stop>>
        /\ \/ queue' = queue
           \/ \E e : queue' = Append(queue, e)
    BY <1>5 DEF Emit, vars, pi, lane
  <2>2. Core(registry') = Core(registry)
    BY <2>1 DEF Core
  <2>3. queue # <<>> => Head1' = Head1
    BY <1>0, <2>1 DEF Head1
  <2>q. QED BY <1>0, <2>1, <2>2, <2>3, LaneKept DEF Carries
<1>q. QED BY <1>1, <1>2, <1>3, <1>4, <1>5

\* turn_for_event remembers what it resolved of a cancelled Root.
LEMMA ResolveMoves == ASSUME Held, LaneResolve PROVE Guard'
<1> DEFINE root == Registered(registry, Head1)
<1>0. /\ WellFormed(registry) /\ Head1 \in Event /\ None \notin Prompts \cup Roots /\ Head1.turn \notin Roots
      /\ Head1.turn \in Prompts
      /\ \A t \in PreparedDispatches : Root(t) \in Roots /\ t \in Prompts
      /\ cursor.at = "resolve"
  BY HeadType, RootType DEF Held, IInv, Types, Trail, Pointed, LaneResolve, Event
<1>1. /\ registry' = Resolved(registry, Head1) /\ UNCHANGED <<pc, running, fenced, stop>>
      /\ \/ cursor' = Ready
         \/ cursor' = [at |-> "publish", root |-> root, claimed |-> FALSE] /\ queue' = queue
  BY DEF LaneResolve, Goto, Drop, pi
<1>2. /\ registry'.priority = registry.priority /\ registry'.cancelled = registry.cancelled
      /\ registry'.pending = registry.pending /\ registry'.bound = registry.bound
      /\ registry'.cancelledRoot = registry.cancelledRoot
      /\ \A x \in Prompts : registry'.cancelledTurn[x] \in {registry.cancelledTurn[x], registry.cancelledRoot}
  BY <1>0, <1>1, ResolvedCore
<1>3. Reserved' /\ Single' /\ Observed'
  BY <1>1, <1>2, CoreKept
<1>4. \/ root = registry.bound[Head1.turn]
      \/ registry.bound[Head1.turn] = None /\ root = registry.cancelledTurn[Head1.turn] /\ root \in registry.cancelled
      \/ registry.bound[Head1.turn] = None /\ root = registry.cancelledRoot /\ root \in registry.cancelled
      \/ root = Head1.turn
  BY <1>0 DEF Registered, WellFormed
<1> HIDE DEF root
<1>5. Located'
  BY <1>0, <1>1, <1>2, <1>4 DEF Located, Head1, Ready
<1>6. ASSUME NEW t \in PreparedDispatches, Live(t)' PROVE Works(t)'
  <2>1. Works(t)
    BY <1>1, <1>6 DEF Live, Held, Guard, Working
  <2>2. registry.pending = t => root # Root(t)
    <3>1. registry.pending = t => registry.bound[Head1.turn] = None
      BY <1>0 DEF Held, Guard, Reserved, Free
    <3>q. QED BY <1>0, <1>4, <2>1, <3>1 DEF Works
  <2>3. \A x \in Prompts : registry'.cancelledTurn[x] # Root(t)
    BY <1>2, <2>1 DEF Works
  <2>4. registry'.pending = t =>
           ~(cursor'.at \in {"private", "publish", "finish"} /\ cursor'.root = Root(t))
    BY <1>1, <1>2, <2>2 DEF Ready
  <2>q. QED BY <1>1, <1>2, <2>1, <2>3, <2>4 DEF Works, Owns
<1>q. QED BY <1>3, <1>5, <1>6 DEF Guard, Working

\* Pi's last event, and the steps of a Stop that leave the registry alone.
LEMMA EndMoves == ASSUME Held, EndTurn PROVE Guard'
<1>0. /\ queue \in Seq(Event)
      /\ cursor.at # "ready" => queue # <<>>
      /\ None \notin Prompts
  BY DEF Held, IInv, Types, Trail, Pointed
<1>1. /\ registry' = registry /\ cursor' = cursor /\ UNCHANGED <<pc, admission, fenced, stop>>
      /\ running # None /\ running' = None
      /\ \E e : queue' = Append(queue, e)
  BY DEF EndTurn
<1>2. Reserved' /\ Single' /\ Observed'
  BY <1>1, CoreKept
<1>3. queue # <<>> => Head1' = Head1
  BY <1>0, <1>1 DEF Head1
<1>4. Located'
  <2>1. cursor.at \in {"private", "publish", "finish"} => Head1' = Head1
    BY <1>0, <1>3
  <2>q. QED BY <1>1, <2>1 DEF Held, Guard, Located
<1>5. \A t \in PreparedDispatches : ~Live(t)'
  BY <1>0, <1>1 DEF Held, Alike, Admitted, Live
<1>q. QED BY <1>2, <1>4, <1>5 DEF Guard, Working

\* The runtime's abort fences or stops, and a Stop may give up on its proof.
LEMMA AbortMoves == ASSUME Held, NEW r \in Roots, StopAbort(r) \/ StopGivesUp(r) PROVE Guard'
<1>0. /\ \A s \in Roots : s # r => stop'[s] = stop[s]
      /\ stop'[r].reservation \in {stop[r].reservation, None} /\ stop[r].at # "none"
      /\ registry' = registry /\ UNCHANGED <<pc, running, admission, lane>>
      /\ \/ stop'[r].at = "drain" /\ stop'[r].turn = running /\ (fenced \/ admission # None => fenced')
         \/ stop'[r].at = "pending" /\ (fenced => fenced')
  <2>1. CASE StopAbort(r)
    <3>1. fenced \/ admission # None => fenced'
      BY <2>1 DEF StopAbort
    <3>2. /\ stop' = [stop EXCEPT ![r] = [stop[r] EXCEPT !.at = "drain", !.turn = running]]
          /\ registry' = registry /\ UNCHANGED <<pc, running, admission, lane>> /\ stop[r].at # "none"
      BY <2>1 DEF StopAbort, Held, IInv, Types, Request
    <3>q. QED BY <3>1, <3>2 DEF Held, IInv, Types, Request
  <2>2. CASE StopGivesUp(r)
    BY <2>2 DEF StopGivesUp, StopEnds, NoStop, Held, IInv, Types, Request, pi
  <2>q. QED BY <2>1, <2>2
<1>1. Reserved' /\ Single' /\ Observed'
  BY <1>0, CoreKept
<1>2. Located'
  BY <1>0 DEF Held, Guard, Located, lane, Head1
<1>3. ASSUME NEW t \in PreparedDispatches, Live(t)' PROVE Works(t)'
  <2>1. /\ pc[t] \in {"prepared", "reserved"} => admission # None
        /\ Root(t) \in Roots
    BY RootType DEF Held, Alike, Admitted
  <2>2. Live(t) /\ (stop'[r].at = "drain" /\ Root(t) = r => running = t)
    BY <1>0, <1>3, <2>1 DEF Live
  <2>3. Works(t)
    BY <2>2 DEF Held, Guard, Working
  <2>q. QED BY <1>0, <2>1, <2>2, <2>3 DEF Works, Owns, lane
<1>q. QED BY <1>1, <1>2, <1>3 DEF Guard, Working

\* No step closes a turn before its terminal event.
LEMMA ClosingStep == ASSUME IInv, Closing, [Next]_vars PROVE Closing'
<1>0. /\ queue \in Seq(Event)
      /\ cursor.at # "ready" => queue # <<>>
  BY DEF IInv, Types, Trail, Pointed
<1>1. CASE LaneClaim \/ LaneAllow \/ LanePrivate \/ LaneResolve \/ LaneFinish
  <2>1. cursor'.at # "finish"
    BY <1>1 DEF LaneClaim, LaneAllow, LanePrivate, LaneResolve, LaneFinish, Goto, Drop, Ready
  <2>q. QED BY <2>1 DEF Closing
<1>2. CASE LanePublish
  <2>1. cursor'.at = "finish" => Terminal(Head1) /\ queue' = queue
    BY <1>2 DEF LanePublish, Goto, Drop, Ready
  <2>q. QED BY <2>1 DEF Closing, Terminal, Head1
<1>3. CASE Emit \/ EndTurn
  <2>1. cursor' = cursor /\ \E e : queue' = Append(queue, e)
    BY <1>3 DEF Emit, EndTurn
  <2>2. cursor.at = "finish" => Head1' = Head1
    BY <1>0, <2>1 DEF Head1
  <2>q. QED BY <2>1, <2>2 DEF Closing, Terminal
<1>4. ASSUME NEW p \in Prompts, Starts(p) \/ Thread(p) PROVE UNCHANGED lane
  BY <1>4 DEF Starts, Thread, Dispatching, Hold, CheckIdle, Begin, Prepare, Fail, ReleaseRegistry, Accept, Repair,
              Reserve, Send, Recheck, DirectCheck, DirectHold, DirectRelease, NoticeCheck, BeginPrivate, EndPrivate
<1>5. ASSUME NEW r \in Roots, StopRecord(r) \/ StopGoesOn(r) PROVE UNCHANGED lane
  BY <1>5 DEF StopRecord, StopGoesOn, StopAbort, StopClose, StopGivesUp
<1>6. CASE UNCHANGED lane
  BY <1>6 DEF Closing, lane, Terminal, Head1
<1>q. QED BY <1>1, <1>2, <1>3, <1>4, <1>5, <1>6 DEF Next, Lane, vars

\* finish
LEMMA FinishMoves == ASSUME Held, LaneFinish PROVE Guard'
<1>0. /\ WellFormed(registry) /\ Head1 \in Event /\ None \notin Prompts \cup Roots /\ Head1.turn \in Prompts
      /\ cursor.at = "finish"
      /\ registry' = Finished(registry, Head1.turn, cursor.root) /\ cursor' = Ready
      /\ UNCHANGED <<pc, running, admission, fenced, stop>>
      /\ queue # <<>> /\ queue \in Seq(Event)
  BY HeadType DEF Held, IInv, Types, Trail, Pointed, LaneFinish, Drop, Event, pi
<1>1. /\ registry'.priority = registry.priority /\ registry'.cancelled = registry.cancelled
      /\ registry'.pending = IF registry.pending # None /\ Root(registry.pending) = cursor.root THEN None
                             ELSE registry.pending
      /\ \A x \in Prompts : registry'.bound[x] = IF x = Head1.turn THEN None ELSE registry.bound[x]
      /\ registry'.cancelledRoot = registry.cancelledRoot /\ registry'.cancelledTurn = registry.cancelledTurn
  BY <1>0, FinishedCore
<1>2. Reserved' /\ Single' /\ Observed' /\ Located'
  BY <1>0, <1>1 DEF Held, Guard, Reserved, Free, Single, Owns, Observed, Located, Ready
<1>3. ASSUME NEW t \in PreparedDispatches, Live(t)' PROVE Works(t)'
  <2>1. Live(t) /\ Works(t)
    BY <1>0, <1>3 DEF Live, Held, Guard, Working
  <2>2. registry.bound[t] # None => running = t
    BY <2>1 DEF Live, Held, IInv, Trail, Binds
  <2>3. Ended(Head1) /\ Terminal(Head1)
    <3>1. Head1 = queue[1] /\ 1 \in 1..Len(queue)
      BY <1>0 DEF Head1
    <3>q. QED BY <1>0, <3>1 DEF Held, Alike, Counted, Closing
  <2>4. Owns(t)'
    BY <1>0, <1>1, <2>1, <2>2, <2>3 DEF Works, Owns, Ended
  <2>q. QED BY <1>0, <1>1, <2>1, <2>4 DEF Works, Ready
<1>q. QED BY <1>2, <1>3 DEF Guard, Working

\* A Stop finds the turn it is meant for, and the reservation of that turn.
LEMMA RecordMoves == ASSUME Held, NEW r \in Roots, StopRecord(r) PROVE Guard'
<1>0. /\ WellFormed(registry) /\ None \notin Prompts \cup Roots
      /\ registry' = [registry EXCEPT !.cancelled = registry.cancelled \cup {r}]
      /\ \A s \in Roots : s # r => stop'[s] = stop[s]
      /\ UNCHANGED <<pc, running, admission, fenced, lane>>
      /\ \/ Targeted(r) /\ stop'[r] = [at |-> "abort", reservation |-> registry.priority, turn |-> None]
         \/ ~Targeted(r) /\ stop'[r].at = "terminal" /\ stop'[r].reservation = None
  BY DEF StopRecord, Held, IInv, Types, NoStop, pi
<1>1. /\ registry'.priority = registry.priority /\ registry'.cancelled = registry.cancelled \cup {r}
      /\ registry'.pending = registry.pending /\ registry'.bound = registry.bound
      /\ registry'.cancelledRoot = registry.cancelledRoot /\ registry'.cancelledTurn = registry.cancelledTurn
  <2> DEFINE all == registry.cancelled \cup {r}
  <2>1. registry' = [registry EXCEPT !.cancelled = all]
    BY <1>0
  <2> HIDE DEF all
  <2>2. registry'.cancelled = all /\ registry'.cancelledTurn = registry.cancelledTurn
        /\ registry'.priority = registry.priority /\ registry'.pending = registry.pending
        /\ registry'.bound = registry.bound /\ registry'.cancelledRoot = registry.cancelledRoot
    BY <1>0, <2>1 DEF WellFormed, Registry
  <2>q. QED BY <2>2 DEF all
<1>2. Reserved' /\ Single' /\ Located'
  BY <1>0, <1>1 DEF Held, Guard, Reserved, Free, Single, Owns, Located, lane, Head1
<1>3. Targeted(r) /\ registry.priority # None => registry.priority \in Dispatches /\ Root(registry.priority) = r
  BY <1>0 DEF Held, Guard, Reserved, Free, Targeted
<1>4. Observed'
  BY <1>0, <1>1, <1>3 DEF Held, Guard, Observed
<1>5. ASSUME NEW t \in PreparedDispatches, Live(t)' PROVE Works(t)'
  <2>1. Works(t) /\ Root(t) \in Roots
    BY <1>0, <1>5, RootType DEF Live, Held, Guard, Working
  <2>2. Root(t) = r => Targeted(r)
    BY <1>0, <2>1 DEF Works, Owns, Targeted, WellFormed
  <2>q. QED BY <1>0, <1>1, <2>1, <2>2 DEF Works, Owns, lane
<1>q. QED BY <1>2, <1>4, <1>5 DEF Guard, Working

\* A Stop is closed when the turn that it observed is over.
LEMMA CloseMoves == ASSUME Held, NEW r \in Roots, StopClose(r) PROVE Guard'
<1>0. /\ WellFormed(registry) /\ None \notin Prompts \cup Roots
      /\ stop[r].at = "drain"
      /\ stop[r].turn = None \/ stop[r].turn # running
      /\ \A s \in Roots : s # r => stop'[s] = stop[s]
      /\ stop'[r].reservation = None
      /\ r \in registry.cancelled
      /\ UNCHANGED <<pc, running, admission, fenced, lane>>
  BY DEF StopClose, StopEnds, NoStop, Held, IInv, Types, Stops, pi
<1>1. PICK reg : /\ reg \in {Claimed(registry, r), registry}
                 /\ registry' = Released(Cancelled(reg, r), stop[r].reservation)
  BY DEF StopClose
<1>2. WellFormed(reg) /\ Core(reg) = Core(registry)
  BY <1>0, <1>1, ClaimedKeeps, ClaimedCore
<1> DEFINE over == Cancelled(reg, r)
<1>3. WellFormed(over)
  BY <1>2, CancelledKeeps DEF Keeps
<1>4. /\ over.priority = registry.priority /\ over.cancelled = registry.cancelled
      /\ over.pending = IF registry.pending # None /\ Root(registry.pending) = r THEN None ELSE registry.pending
      /\ \A x \in Prompts : over.bound[x] = IF registry.bound[x] = r THEN None ELSE registry.bound[x]
      /\ over.cancelledRoot = r
      /\ \A x \in Prompts : over.cancelledTurn[x] \in {r, registry.cancelledTurn[x]}
  BY <1>0, <1>2, CancelledCore DEF Core
<1> HIDE DEF over
<1>5. /\ registry'.priority = IF registry.priority = stop[r].reservation THEN None ELSE registry.priority
      /\ registry'.cancelled = registry.cancelled
      /\ registry'.pending = IF registry.pending # None /\ Root(registry.pending) = r THEN None ELSE registry.pending
      /\ \A x \in Prompts : registry'.bound[x] = IF registry.bound[x] = r THEN None ELSE registry.bound[x]
      /\ registry'.cancelledRoot = r
      /\ \A x \in Prompts : registry'.cancelledTurn[x] \in {r, registry.cancelledTurn[x]}
  BY <1>1, <1>3, <1>4, ReleasedCore DEF over
<1>6. Reserved'
  <2>1. stop[r].reservation # None => stop[r].reservation \in Dispatches /\ Root(stop[r].reservation) = r
    BY DEF Held, Guard, Observed
  <2>q. QED BY <1>0, <1>5, <2>1 DEF Held, Guard, Reserved, Free
<1>7. Single' /\ Observed' /\ Located'
  <2>1. Single'
    BY <1>0, <1>5 DEF Held, Guard, Single, Owns
  <2>2. Observed'
    BY <1>0, <1>5 DEF Held, Guard, Observed
  <2>3. cursor.at \in {"private", "publish", "finish"} => Head1' = Head1 /\ Head1.turn \in Prompts
    BY <1>0, HeadType DEF Held, IInv, Types, Trail, Pointed, Event, lane, Head1
  <2>4. Located'
    BY <1>0, <1>5, <2>3 DEF Held, Guard, Located, lane
  <2>q. QED BY <2>1, <2>2, <2>4
<1>8. ASSUME NEW t \in PreparedDispatches, Live(t)' PROVE Works(t)'
  <2>1. Works(t) /\ Root(t) \in Roots
    BY <1>0, <1>8, RootType DEF Live, Held, Guard, Working
  <2>2. Root(t) # r
    BY <1>0, <2>1 DEF Works
  <2>3. Owns(t)' /\ (registry'.pending = t => registry.pending = t)
    BY <1>0, <1>5, <2>1, <2>2 DEF Works, Owns, WellFormed
  <2>q. QED BY <1>0, <1>5, <2>1, <2>2, <2>3 DEF Works, lane
<1>q. QED BY <1>6, <1>7, <1>8 DEF Guard, Working

(* The dispatches. *)

\* Located, by a step of a thread.
LEMMA LocatedOn ==
    ASSUME Held, UNCHANGED lane, registry.cancelled \subseteq registry'.cancelled,
           \A x \in Prompts : registry.bound[x] # registry'.bound[x] =>
              registry.bound[x] = None \/ registry.bound[x] \in registry'.cancelled
    PROVE  Located'
<1>1. cursor.at \in {"private", "publish", "finish"} => Head1.turn \in Prompts
  BY HeadType DEF Held, IInv, Types, Trail, Pointed, Event
<1>2. UNCHANGED <<cursor, Head1>>
  BY DEF lane, Head1
<1>3. None \notin Roots
  OBVIOUS
<1>q. QED BY <1>1, <1>2, <1>3 DEF Held, Guard, Located

\* A dispatch takes the reservation of an idle Session.
LEMMA HoldMoves == ASSUME Held, NEW p \in Prompts, Hold(p) PROVE Guard'
<1>0. /\ WellFormed(registry) /\ None \notin Prompts \cup Roots /\ p \in Dispatches /\ p \notin PreparedDispatches
      /\ registry' = [registry EXCEPT !.priority = p]
      /\ registry.priority = None /\ registry.pending = None
      /\ \A x \in Prompts : registry.bound[x] = None
      /\ pc' = [pc EXCEPT ![p] = "held"] /\ pc \in [Prompts -> Labels]
      /\ UNCHANGED <<running, admission, fenced, lane, stop>>
  BY DEF Hold, Engaged, Step, Held, IInv, Types, pi
<1>1. /\ registry'.priority = p /\ registry'.cancelled = registry.cancelled
      /\ registry'.pending = registry.pending /\ registry'.bound = registry.bound
      /\ registry'.cancelledRoot = registry.cancelledRoot /\ registry'.cancelledTurn = registry.cancelledTurn
  BY <1>0 DEF WellFormed, Registry
<1>2. Reserved' /\ Single' /\ Observed'
  BY <1>0, <1>1 DEF Held, Guard, Reserved, Free, Single, Owns, Observed
<1>3. Located'
  BY <1>0, <1>1, LocatedOn
<1>4. ASSUME NEW t \in PreparedDispatches, Live(t)' PROVE Works(t)'
  BY <1>0, <1>1, <1>4 DEF Live, Held, Guard, Working, Works, Owns, lane
<1>q. QED BY <1>2, <1>3, <1>4 DEF Guard, Working

\* The check of the idle target goes on, or gives the reservation back.
LEMMA CheckMoves == ASSUME Held, NEW p \in Prompts, CheckIdle(p) PROVE Guard'
<1>0. /\ WellFormed(registry) /\ None \notin Prompts \cup Roots /\ p \in Dispatches /\ p \notin PreparedDispatches
      /\ pc[p] = "held" /\ pc \in [Prompts -> Labels]
      /\ UNCHANGED <<running, admission, fenced, lane, stop>>
      /\ \/ pc' = [pc EXCEPT ![p] = "announced"] /\ registry' = registry
         \/ pc' = [pc EXCEPT ![p] = "idle"] /\ registry' = Released(registry, p)
  BY DEF CheckIdle, Step, Held, IInv, Types, Roles, pi
<1>1. /\ \/ pc' = [pc EXCEPT ![p] = "announced"] /\ registry'.priority = registry.priority
         \/ /\ pc' = [pc EXCEPT ![p] = "idle"]
            /\ registry'.priority = IF registry.priority = p THEN None ELSE registry.priority
      /\ registry'.cancelled = registry.cancelled
      /\ registry'.pending = registry.pending /\ registry'.bound = registry.bound
      /\ registry'.cancelledRoot = registry.cancelledRoot /\ registry'.cancelledTurn = registry.cancelledTurn
  BY <1>0, ReleasedCore
<1>2. Reserved'
  <2>1. registry.pending = p => registry'.priority = registry.priority
    BY <1>0 DEF Held, IInv, Awaited, Waiting
  <2>q. QED BY <1>0, <1>1, <2>1 DEF Held, Guard, Reserved, Free, Flight
<1>3. Single' /\ Observed'
  BY <1>0, <1>1 DEF Held, Guard, Single, Owns, Observed, Flight
<1>4. Located'
  BY <1>0, <1>1, LocatedOn
<1>5. ASSUME NEW t \in PreparedDispatches, Live(t)' PROVE Works(t)'
  BY <1>0, <1>1, <1>5 DEF Live, Held, Guard, Working, Works, Owns, lane
<1>q. QED BY <1>2, <1>3, <1>4, <1>5 DEF Guard, Working

\* begin: the dispatch that holds the reservation becomes the pending one, unless its
\* Root is cancelled.
LEMMA BeginMoves == ASSUME Held, NEW p \in Prompts, Begin(p) PROVE Guard'
<1>0. /\ WellFormed(registry) /\ None \notin Prompts \cup Roots /\ p \in Dispatches /\ p \notin PreparedDispatches
      /\ pc[p] = "announced" /\ pc \in [Prompts -> Labels] /\ Root(p) \in Roots
      /\ UNCHANGED <<running, admission, fenced, lane, stop>>
  BY RootType DEF Begin, Held, IInv, Types, Roles, pi
<1>1. CASE Root(p) \in registry.cancelled
  <2> DEFINE refused == [registry EXCEPT !.cancelledRoot = Root(p)]
  <2>1. \/ pc' = [pc EXCEPT ![p] = "failed"] /\ registry' = Released(refused, p)
        \/ pc' = [pc EXCEPT ![p] = "rejected"] /\ registry' = refused
    BY <1>1 DEF Begin, Step
  <2>2. WellFormed(refused)
    BY <1>0, <1>1, RefusedKeeps DEF Keeps
  <2>3. /\ refused.priority = registry.priority /\ refused.cancelled = registry.cancelled
        /\ refused.pending = registry.pending /\ refused.bound = registry.bound
        /\ refused.cancelledRoot = Root(p) /\ refused.cancelledTurn = registry.cancelledTurn
    BY <1>0 DEF WellFormed, Registry
  <2> HIDE DEF refused
  <2>4. /\ \/ pc' = [pc EXCEPT ![p] = "rejected"] /\ registry'.priority = registry.priority
           \/ /\ pc' = [pc EXCEPT ![p] = "failed"]
              /\ registry'.priority = IF registry.priority = p THEN None ELSE registry.priority
        /\ registry'.cancelled = registry.cancelled
        /\ registry'.pending = registry.pending /\ registry'.bound = registry.bound
        /\ registry'.cancelledRoot = Root(p) /\ registry'.cancelledTurn = registry.cancelledTurn
    BY <2>1, <2>2, <2>3, ReleasedCore
  <2>5. Reserved'
    BY <1>0, <2>4 DEF Held, Guard, Reserved, Free, Flight
  <2>6. Single' /\ Observed'
    BY <1>0, <2>4 DEF Held, Guard, Single, Owns, Observed, Flight
  <2>7. Located'
    BY <1>0, <2>4, LocatedOn
  <2>8. ASSUME NEW t \in PreparedDispatches, Live(t)' PROVE Works(t)'
    <3>1. Works(t)
      BY <1>0, <2>4, <2>8 DEF Live, Held, Guard, Working
    <3>2. Root(t) # Root(p)
      BY <1>0, <3>1 DEF Works, Held, Guard, Single, Flight
    <3>q. QED BY <1>0, <2>4, <3>1, <3>2 DEF Works, Owns, lane
  <2>q. QED BY <2>5, <2>6, <2>7, <2>8 DEF Guard, Working
<1>2. CASE Root(p) \notin registry.cancelled
  <2>1. /\ pc' = [pc EXCEPT ![p] = "begun"]
        /\ registry'.priority = registry.priority /\ registry'.cancelled = registry.cancelled
        /\ registry'.pending = p /\ registry'.bound = registry.bound
        /\ registry'.cancelledRoot = None /\ \A x \in Prompts : registry'.cancelledTurn[x] = None
    BY <1>0, <1>2, BegunCore DEF Begin, Step
  <2>2. /\ registry.priority = p /\ registry.pending \in {None, p}
        /\ \A x \in Prompts : registry.bound[x] = None
    BY <1>0, <1>2 DEF Held, Guard, Reserved, Free, Flight
  <2>3. Reserved' /\ Observed'
    BY <1>0, <2>1, <2>2 DEF Held, Guard, Reserved, Free, Observed, Flight
  <2>4. Single'
    <3>1. \A q \in Dispatches : Owns(q)' => q = p
      BY <1>0, <2>1, <2>2 DEF Owns
    <3>2. \A q \in Dispatches : q # p /\ Root(q) = Root(p) => pc[q] \notin Flight
      BY <1>2, <2>2 DEF Held, Guard, Reserved
    <3>q. QED BY <1>0, <2>1, <3>1, <3>2 DEF Single
  <2>5. Located'
    BY <1>0, <2>1, LocatedOn
  <2>6. \A t \in PreparedDispatches : ~Live(t)'
    BY <1>0, <2>1, <2>2 DEF Live, Held, Guard, Working, Works, Owns
  <2>q. QED BY <2>3, <2>4, <2>5, <2>6 DEF Guard, Working
<1>q. QED BY <1>1, <1>2

\* _failed_dispatch: nobody else of the Root is pending or registered.
LEMMA FailMoves == ASSUME Held, NEW p \in Prompts, Fail(p) PROVE Guard'
<1> DEFINE over == Cancelled(registry, Root(p))
<1>0. /\ WellFormed(registry) /\ None \notin Prompts \cup Roots /\ p \in Dispatches /\ p \notin PreparedDispatches
      /\ pc[p] \in {"rejected", "lost"} /\ pc \in [Prompts -> Labels] /\ Root(p) \in Roots
      /\ UNCHANGED <<running, admission, fenced, lane, stop>>
      /\ pc' = [pc EXCEPT ![p] = "failed"] /\ registry' = Released(over, p)
  BY RootType DEF Fail, Step, Held, IInv, Types, pi
<1>1. WellFormed(over)
  BY <1>0, CancelledKeeps DEF Keeps
<1>2. /\ over.priority = registry.priority /\ over.cancelled = registry.cancelled
      /\ over.pending = IF registry.pending # None /\ Root(registry.pending) = Root(p) THEN None ELSE registry.pending
      /\ \A x \in Prompts : over.bound[x] = IF registry.bound[x] = Root(p) THEN None ELSE registry.bound[x]
      /\ over.cancelledRoot \in {Root(p), registry.cancelledRoot}
      /\ \A x \in Prompts : over.cancelledTurn[x] \in {Root(p), registry.cancelledTurn[x]}
  BY <1>0, CancelledCore
<1> HIDE DEF over
<1>3. /\ registry'.priority = IF registry.priority = p THEN None ELSE registry.priority
      /\ registry'.cancelled = registry.cancelled
      /\ registry'.pending =
            IF registry.pending # None /\ Root(registry.pending) = Root(p) THEN None ELSE registry.pending
      /\ \A x \in Prompts : registry'.bound[x] = IF registry.bound[x] = Root(p) THEN None ELSE registry.bound[x]
      /\ registry'.cancelledRoot \in {Root(p), registry.cancelledRoot}
      /\ \A x \in Prompts : registry'.cancelledTurn[x] \in {Root(p), registry.cancelledTurn[x]}
  BY <1>0, <1>1, <1>2, ReleasedCore
<1>4. \A x \in Prompts : registry.bound[x] # Root(p)
  <2> SUFFICES ASSUME NEW x \in Prompts, registry.bound[x] = Root(p) PROVE FALSE
    OBVIOUS
  <2>1. x \in Dispatches /\ Root(x) = Root(p) /\ pc[x] = "accepted" /\ Owns(x)
    BY <1>0 DEF WellFormed, Root, Owns, Held, IInv, Trail, Binds
  <2>q. QED BY <1>0, <2>1 DEF Held, Guard, Single, Flight
<1>5. Reserved'
  BY <1>0, <1>3 DEF Held, Guard, Reserved, Free, Flight
<1>6. Single' /\ Observed'
  BY <1>0, <1>3 DEF Held, Guard, Single, Owns, Observed, Flight
<1>7. Located'
  BY <1>0, <1>3, <1>4, LocatedOn
<1>8. ASSUME NEW t \in PreparedDispatches, Live(t)' PROVE Works(t)'
  <2>1. Works(t)
    BY <1>0, <1>8 DEF Live, Held, Guard, Working
  <2>2. Root(t) # Root(p)
    BY <1>0, <2>1 DEF Works, Held, Guard, Single, Flight
  <2>3. Owns(t)' /\ (registry'.pending = t => registry.pending = t)
    BY <1>0, <1>3, <1>4, <2>1, <2>2 DEF Works, Owns
  <2>q. QED BY <1>0, <1>3, <2>1, <2>2, <2>3 DEF Works, lane
<1>q. QED BY <1>5, <1>6, <1>7, <1>8 DEF Guard, Working

\* dispatch_prepared takes an idle Session for a Root that nobody stopped.
LEMMA PrepareMoves == ASSUME Held, NEW p \in Prompts, Prepare(p) PROVE Guard'
<1>0. /\ WellFormed(registry) /\ None \notin Prompts \cup Roots /\ p \in PreparedDispatches
      /\ pc[p] = "idle" /\ pc \in [Prompts -> Labels] /\ Root(p) \in Roots
      /\ Root(p) \notin registry.cancelled /\ running = None /\ admission = None
      /\ registry.priority = None /\ registry.pending = None
      /\ \A x \in Prompts : registry.bound[x] = None
      /\ UNCHANGED <<running, lane, stop>>
      /\ pc' = [pc EXCEPT ![p] = "prepared"] \/ pc' = [pc EXCEPT ![p] = "rejected"]
  BY RootType DEF Prepare, IsCancelled, Engaged, PiIdle, Step, Held, IInv, Types
<1> DEFINE begun == Begun(registry, p)
<1>1. WellFormed(begun) /\ registry' = [begun EXCEPT !.priority = p]
  BY <1>0, BegunKeeps DEF Prepare, Keeps
<1>2. /\ begun.pending = p /\ begun.bound = registry.bound /\ begun.cancelled = registry.cancelled
      /\ begun.cancelledRoot = None /\ \A x \in Prompts : begun.cancelledTurn[x] = None
  BY <1>0, BegunCore
<1> HIDE DEF begun
<1>3. /\ registry'.priority = p /\ registry'.pending = p /\ registry'.bound = registry.bound
      /\ registry'.cancelled = registry.cancelled
      /\ registry'.cancelledRoot = None /\ \A x \in Prompts : registry'.cancelledTurn[x] = None
  BY <1>1, <1>2 DEF WellFormed, Registry
<1>4. Reserved' /\ Observed'
  BY <1>0, <1>3 DEF Held, Guard, Reserved, Free, Observed, Flight
<1>5. Single'
  <2>1. \A q \in Dispatches : Owns(q)' => q = p
    BY <1>0, <1>3 DEF Owns
  <2>2. \A q \in Dispatches : q # p /\ Root(q) = Root(p) => pc[q] \notin Flight
    BY <1>0 DEF Held, Guard, Reserved
  <2>q. QED BY <1>0, <2>1, <2>2 DEF Single
<1>6. Located'
  BY <1>0, <1>3, LocatedOn
<1>7. ASSUME NEW t \in PreparedDispatches, Live(t)' PROVE Works(t)'
  <2>1. t = p
    BY <1>0, <1>7 DEF Live, Held, Alike, Admitted
  <2>2. stop[Root(p)].at = "none"
    BY <1>0 DEF Held, Guard, Observed
  <2>3. ~(cursor.at \in {"private", "publish", "finish"} /\ cursor.root = Root(p))
    <3>1. cursor.at \in {"private", "publish", "finish"} => Head1.turn \in Prompts
      BY HeadType DEF Held, IInv, Types, Trail, Pointed, Event
    <3>q. QED BY <1>0, <3>1 DEF Held, Guard, Located
  <2>q. QED BY <1>0, <1>3, <2>1, <2>2, <2>3 DEF Works, Owns, lane
<1>q. QED BY <1>4, <1>5, <1>6, <1>7 DEF Guard, Working

\* release_registry gives up what is still pending.
LEMMA ReleaseMoves == ASSUME Held, NEW p \in Prompts, ReleaseRegistry(p) PROVE Guard'
<1> DEFINE over == Cancelled(registry, Root(p))
<1>0. /\ WellFormed(registry) /\ None \notin Prompts \cup Roots /\ p \in PreparedDispatches
      /\ pc[p] \in {"rejected", "lost"} /\ pc \in [Prompts -> Labels] /\ Root(p) \in Roots
      /\ UNCHANGED <<running, admission, fenced, lane, stop>>
      /\ \/ pc[p] = "lost" /\ pc' = [pc EXCEPT ![p] = "unknown"]
         \/ pc[p] = "rejected" /\ pc' = [pc EXCEPT ![p] = "failed"]
      /\ \/ registry' = registry
         \/ registry' = Released(registry, p)
         \/ Active(registry, p) /\ registry' = Released(over, p) /\ pc[p] = "rejected"
  BY RootType DEF ReleaseRegistry, Step, Held, IInv, Types, pi
<1>1. WellFormed(over)
  BY <1>0, CancelledKeeps DEF Keeps
<1>2. /\ over.priority = registry.priority /\ over.cancelled = registry.cancelled
      /\ over.pending = IF registry.pending # None /\ Root(registry.pending) = Root(p) THEN None ELSE registry.pending
      /\ \A x \in Prompts : over.bound[x] = IF registry.bound[x] = Root(p) THEN None ELSE registry.bound[x]
  BY <1>0, CancelledCore
<1> HIDE DEF over
<1>3. CASE registry' = registry \/ registry' = Released(registry, p)
  <2>1. /\ registry'.priority \in {registry.priority, IF registry.priority = p THEN None ELSE registry.priority}
        /\ registry'.cancelled = registry.cancelled
        /\ registry'.pending = registry.pending /\ registry'.bound = registry.bound
        /\ registry'.cancelledRoot = registry.cancelledRoot /\ registry'.cancelledTurn = registry.cancelledTurn
    BY <1>0, <1>3, ReleasedCore
  <2>2. Reserved'
    BY <1>0, <2>1 DEF Held, Guard, Reserved, Free, Flight
  <2>3. Single' /\ Observed'
    BY <1>0, <2>1 DEF Held, Guard, Single, Owns, Observed, Flight
  <2>4. Located'
    BY <1>0, <2>1, LocatedOn
  <2>5. ASSUME NEW t \in PreparedDispatches, Live(t)' PROVE Works(t)'
    <3>1. Works(t)
      BY <1>0, <2>5 DEF Live, Held, Guard, Working
    <3>q. QED BY <1>0, <2>1, <3>1 DEF Works, Owns, lane
  <2>q. QED BY <2>2, <2>3, <2>4, <2>5 DEF Guard, Working
<1>4. CASE Active(registry, p) /\ registry' = Released(over, p) /\ pc[p] = "rejected"
  <2>1. registry.pending = p /\ \A x \in Prompts : registry.bound[x] = None
    <3>1. registry.pending = p
      BY <1>0, <1>4 DEF Active, Held, IInv, Trail, Binds
    <3>q. QED BY <1>0, <3>1 DEF Held, Guard, Reserved, Free
  <2>2. /\ registry'.priority = IF registry.priority = p THEN None ELSE registry.priority
        /\ registry'.cancelled = registry.cancelled /\ registry'.pending = None
        /\ \A x \in Prompts : registry'.bound[x] = None
    BY <1>0, <1>1, <1>2, <1>4, <2>1, ReleasedCore
  <2>3. Reserved'
    BY <1>0, <2>2 DEF Held, Guard, Reserved, Free, Flight
  <2>4. Single' /\ Observed'
    BY <1>0, <2>2 DEF Held, Guard, Single, Owns, Observed, Flight
  <2>5. Located'
    BY <1>0, <2>1, <2>2, LocatedOn
  <2>6. \A t \in PreparedDispatches : ~Live(t)'
    <3>1. running # p
      BY <1>0, <1>4 DEF Held, Alike, Counted, Early
    <3>q. QED BY <1>0, <1>4, <2>1, <3>1 DEF Live, Held, Guard, Working, Works, Owns
  <2>q. QED BY <2>3, <2>4, <2>5, <2>6 DEF Guard, Working
<1>q. QED BY <1>0, <1>3, <1>4

\* The dispatch of which accept and the repair find the pending turn.
LEMMA BindMoves ==
    ASSUME Held, NEW p \in Dispatches, registry.pending \in {None, p}, registry.priority \in {None, p},
           \A x \in Prompts : registry.bound[x] = None,
           pc[p] \in Flight \/ Root(p) \notin registry.cancelled,
           pc[p] \in Flight => registry.pending = p,
           Step(p, "accepted"), UNCHANGED <<running, admission, fenced, lane, stop>>,
           NEW reg, WellFormed(reg), reg.priority = None, reg.cancelled = registry.cancelled,
           reg.bound = registry.bound,
           reg.cancelledRoot \in {registry.cancelledRoot, None},
           \A x \in Prompts : reg.cancelledTurn[x] \in {registry.cancelledTurn[x], None},
           \A x \in Prompts : reg.buffer[x] \in {registry.buffer[x], <<>>},
           registry' = Accepted(reg, p).reg
    PROVE  Guard'
<1>0. /\ WellFormed(registry) /\ None \notin Prompts \cup Roots /\ p \in Prompts
      /\ pc \in [Prompts -> Labels] /\ Root(p) \in Roots /\ room \in Publics
      /\ pc' = [pc EXCEPT ![p] = "accepted"]
  BY RootType DEF Held, IInv, Types, Step
<1>1. /\ registry'.pending = None /\ registry'.priority = None /\ registry'.cancelled = registry.cancelled
      /\ registry'.cancelledRoot = reg.cancelledRoot
      /\ \A x \in Prompts : registry'.cancelledTurn[x] \in {reg.cancelledTurn[x], reg.cancelledRoot}
      /\ \A x \in Prompts : x # p => registry'.bound[x] = None
      /\ (\A i \in 1..Len(reg.buffer[p]) : ~Terminal(reg.buffer[p][i])) => registry'.bound[p] = Root(p)
  <2> DEFINE new == Accepted(reg, p).reg
  <2>1. /\ new.pending = None /\ new.priority = reg.priority /\ new.cancelled = reg.cancelled
        /\ new.cancelledRoot = reg.cancelledRoot
        /\ \A x \in Prompts : new.cancelledTurn[x] \in {reg.cancelledTurn[x], reg.cancelledRoot}
        /\ \A x \in Prompts : x # p => new.bound[x] \in {reg.bound[x], None}
        /\ (\A i \in 1..Len(reg.buffer[p]) : ~Terminal(reg.buffer[p][i])) => new.bound[p] = Root(p)
    BY <1>0, AcceptedCore
  <2>2. registry' = new
    OBVIOUS
  <2> HIDE DEF new
  <2>q. QED BY <2>1, <2>2
<1>2. Reserved'
  BY <1>0, <1>1 DEF Held, Guard, Reserved, Free, Flight
<1>3. Single'
  <2>1. \A q \in Dispatches : Owns(q)' => q = p
    BY <1>0, <1>1 DEF Owns
  <2>2. \A q \in Dispatches : q # p /\ Root(q) = Root(p) => pc[q] \notin Flight
    BY <1>0 DEF Held, Guard, Reserved, Single, Owns
  <2>q. QED BY <1>0, <2>1, <2>2 DEF Single
<1>4. Observed'
  BY <1>1 DEF Held, Guard, Observed
<1>5. Located'
  BY <1>0, <1>1, LocatedOn
<1>6. ASSUME NEW t \in PreparedDispatches, Live(t)' PROVE Works(t)'
  <2>1. t = p /\ running = p
    <3>1. Live(t) \/ t = p
      BY <1>0, <1>6 DEF Live
    <3>2. Live(t) => Owns(t)
      BY DEF Held, Guard, Working, Works
    <3>3. t = p
      BY <3>1, <3>2 DEF Owns
    <3>q. QED BY <1>0, <1>6, <3>3 DEF Live
  <2>2. Works(p)
    BY <1>6, <2>1 DEF Held, Guard, Working, Live
  <2>3. \A i \in 1..Len(reg.buffer[p]) : ~Terminal(reg.buffer[p][i])
    <3>1. \A i \in 1..Len(registry.buffer[p]) : ~Terminal(registry.buffer[p][i])
      <4>1. \A i \in 1..Len(registry.buffer[p]) : registry.buffer[p][i].turn = p /\ Ended(registry.buffer[p][i])
        BY <1>0 DEF Held, Alike, Counted, IInv, Trail, Buffered
      <4>q. QED BY <2>1, <4>1 DEF Ended
    <3>2. CASE reg.buffer[p] = <<>>
      BY <3>2
    <3>3. CASE reg.buffer[p] = registry.buffer[p]
      BY <3>1, <3>3
    <3>q. QED BY <1>0, <3>2, <3>3
  <2>4. Owns(p)'
    BY <1>0, <1>1, <2>3 DEF Owns
  <2>5. registry'.cancelledRoot # Root(p) /\ \A x \in Prompts : registry'.cancelledTurn[x] # Root(p)
    BY <1>0, <1>1, <2>2 DEF Works
  <2>6. registry'.pending # p
    BY <1>0, <1>1
  <2>q. QED BY <2>1, <2>2, <2>4, <2>5, <2>6 DEF Works
<1>q. QED BY <1>2, <1>3, <1>4, <1>5, <1>6 DEF Guard, Working

\* The answer binds the turn of the dispatch that is pending.
LEMMA AcceptMoves == ASSUME Held, NEW p \in Prompts, Accept(p) PROVE Guard'
<1> DEFINE reg == Released(registry, p)
<1>0. /\ WellFormed(registry) /\ None \notin Prompts \cup Roots /\ p \in Dispatches
      /\ pc[p] = "sent" /\ pc \in [Prompts -> Labels] /\ Root(p) \in Roots
      /\ UNCHANGED <<running, admission, fenced, lane, stop>>
      /\ \/ /\ Acceptable(registry, p) /\ pc' = [pc EXCEPT ![p] = "accepted"]
            /\ registry' = Accepted(reg, p).reg
         \/ pc' = [pc EXCEPT ![p] = "detached"] /\ registry' \in {registry, reg}
  BY RootType DEF Accept, AcceptTurn, Step, Held, IInv, Types, pi
<1>1. /\ WellFormed(reg) /\ reg.priority = IF registry.priority = p THEN None ELSE registry.priority
      /\ reg.cancelled = registry.cancelled /\ reg.pending = registry.pending /\ reg.bound = registry.bound
      /\ reg.cancelledRoot = registry.cancelledRoot /\ reg.cancelledTurn = registry.cancelledTurn
      /\ reg.buffer = registry.buffer
  BY <1>0, ReleasedKeeps, ReleasedCore DEF Keeps
<1> HIDE DEF reg
<1>2. CASE /\ Acceptable(registry, p) /\ pc' = [pc EXCEPT ![p] = "accepted"]
           /\ registry' = Accepted(reg, p).reg
  <2>1. registry.pending = p
    BY <1>0, <1>2 DEF Acceptable, Held, Guard, Single, Owns, Flight, WellFormed, Registry
  <2>2. registry.priority \in {None, p} /\ \A x \in Prompts : registry.bound[x] = None
    BY <1>0, <2>1 DEF Held, Guard, Reserved, Free
  <2>3. /\ reg.priority = None /\ Step(p, "accepted") /\ pc[p] \in Flight
        /\ reg.cancelledRoot \in {registry.cancelledRoot, None}
        /\ \A x \in Prompts : reg.cancelledTurn[x] \in {registry.cancelledTurn[x], None}
        /\ \A x \in Prompts : reg.buffer[x] \in {registry.buffer[x], <<>>}
    BY <1>0, <1>1, <1>2, <2>2 DEF Step, Flight
  <2>4. registry' = Accepted(reg, p).reg
    BY <1>2
  <2>q. QED BY <1>0, <1>1, <2>1, <2>2, <2>3, <2>4, BindMoves
<1>3. CASE pc' = [pc EXCEPT ![p] = "detached"] /\ registry' \in {registry, reg}
  <2>1. /\ registry'.priority \in {registry.priority, IF registry.priority = p THEN None ELSE registry.priority}
        /\ registry'.cancelled = registry.cancelled
        /\ registry'.pending = registry.pending /\ registry'.bound = registry.bound
        /\ registry'.cancelledRoot = registry.cancelledRoot /\ registry'.cancelledTurn = registry.cancelledTurn
    BY <1>0, <1>1, <1>3
  <2>2. Reserved'
    BY <1>0, <1>3, <2>1 DEF Held, Guard, Reserved, Free, Flight
  <2>3. Single' /\ Observed'
    BY <1>0, <1>3, <2>1 DEF Held, Guard, Single, Owns, Observed, Flight
  <2>4. Located'
    BY <1>0, <2>1, LocatedOn
  <2>5. ASSUME NEW t \in PreparedDispatches, Live(t)' PROVE Works(t)'
    <3>1. Works(t)
      BY <1>0, <1>3, <2>5 DEF Live, Held, Guard, Working
    <3>q. QED BY <1>0, <2>1, <3>1 DEF Works, Owns, lane
  <2>q. QED BY <2>2, <2>3, <2>4, <2>5 DEF Guard, Working
<1>q. QED BY <1>0, <1>2, <1>3

\* repair_prepared_projection finds no turn but that of its own dispatch.
LEMMA MendMoves == ASSUME Held, NEW p \in Prompts, Repair(p) PROVE Guard'
<1>0. /\ WellFormed(registry) /\ None \notin Prompts \cup Roots /\ p \in Dispatches /\ p \in PreparedDispatches
      /\ pc[p] = "unknown" /\ pc \in [Prompts -> Labels] /\ Root(p) \in Roots
      /\ registry.pending \in {None, p} /\ registry.priority \in {None, p}
      /\ UNCHANGED <<running, admission, fenced, lane, stop>>
      /\ \A x \in Prompts : registry.bound[x] = None
  BY RepairMoves, RootType DEF Held, IInv, Types, Trail, Binds, Guard, Reserved, pi
<1>1. CASE /\ running = p /\ ~IsCancelled(registry, Root(p))
           /\ AcceptTurn(Repaired(p), p) /\ Step(p, "accepted")
  <2> DEFINE reg == Repaired(p)
  <2>1. /\ WellFormed(reg) /\ reg.priority = None /\ reg.bound = registry.bound
        /\ reg.cancelled = registry.cancelled
        /\ reg.cancelledRoot \in {registry.cancelledRoot, None}
        /\ \A x \in Prompts : reg.cancelledTurn[x] \in {registry.cancelledTurn[x], None}
        /\ \A x \in Prompts : reg.buffer[x] \in {registry.buffer[x], <<>>}
    BY <1>0, RepairedCore
  <2>2. registry' = Accepted(reg, p).reg
    BY <1>1 DEF AcceptTurn
  <2> HIDE DEF reg
  <2>3. pc[p] \notin Flight /\ Root(p) \notin registry.cancelled
    BY <1>0, <1>1 DEF Flight, IsCancelled
  <2>q. QED BY <1>0, <1>1, <2>1, <2>2, <2>3, BindMoves
<1>2. CASE /\ running # p /\ Step(p, "settled") /\ room' = room
           /\ \/ registry.pending = None /\ registry' = registry
              \/ /\ registry.pending = p
                 /\ registry' = Cancelled([registry EXCEPT !.priority = None], Root(p))
  <2> DEFINE bare == [registry EXCEPT !.priority = None]
  <2>1. /\ WellFormed(bare) /\ bare.priority = None /\ bare.cancelled = registry.cancelled
        /\ bare.pending = registry.pending /\ bare.bound = registry.bound
    BY <1>0, PriorityKeeps DEF Keeps, WellFormed, Registry
  <2>a. \/ registry.pending = None /\ registry' = registry
        \/ registry.pending = p /\ registry' = Cancelled(bare, Root(p))
    BY <1>2
  <2> HIDE DEF bare
  <2>2. /\ registry'.priority \in {None, registry.priority} /\ registry'.cancelled = registry.cancelled
        /\ registry'.pending = None /\ \A x \in Prompts : registry'.bound[x] = None
    BY <1>0, <2>1, <2>a, CancelledCore
  <2>3. Reserved'
    BY <1>0, <1>2, <2>2, <2>a DEF Held, Guard, Reserved, Free, Flight, Step
  <2>4. Single' /\ Observed'
    BY <1>0, <1>2, <2>2 DEF Held, Guard, Single, Owns, Observed, Flight, Step
  <2>5. Located'
    BY <1>0, <2>2, LocatedOn
  <2>6. \A t \in PreparedDispatches : ~Live(t)'
    <3>1. \A t \in PreparedDispatches : Live(t)' => Live(t) /\ t # p
      BY <1>0, <1>2 DEF Live, Step
    <3>q. QED BY <1>0, <3>1 DEF Held, Guard, Working, Works, Owns
  <2>q. QED BY <2>3, <2>4, <2>5, <2>6 DEF Guard, Working
<1>q. QED BY <1>1, <1>2, RepairMoves DEF Held

\* Every step, as long as no direct message takes the reservation.
LEMMA GuardStep == ASSUME Held, Alone', [Next]_vars PROVE Guard'
<1>1. CASE Lane
  BY <1>1, LaneMoves, ResolveMoves, FinishMoves DEF Lane
<1>2. CASE Emit \/ EndTurn \/ UNCHANGED vars
  BY <1>2, LaneMoves, EndMoves
<1>3. ASSUME NEW p \in Prompts, Starts(p) \/ Thread(p) PROVE Guard'
  <2>1. ~DirectHold(p) /\ ~DirectRelease(p)
    <3>1. pc \in [Prompts -> Labels]
      BY DEF Held, IInv, Types
    <3>q. QED BY <3>1 DEF DirectHold, DirectRelease, Alone, Step
  <2>q. QED BY <1>3, <2>1, QuietThread, HoldMoves, CheckMoves, BeginMoves, FailMoves, PrepareMoves, ReleaseMoves,
               AcceptMoves, MendMoves DEF Starts, Thread, Dispatching
<1>4. ASSUME NEW r \in Roots, StopRecord(r) \/ StopGoesOn(r) PROVE Guard'
  BY <1>4, RecordMoves, CloseMoves, AbortMoves DEF StopGoesOn
<1>q. QED BY <1>1, <1>2, <1>3, <1>4 DEF Next

\* A direct message that has taken the reservation never gives its place back.
LEMMA AloneBefore == ASSUME IInv, Alone', [Next]_vars PROVE Alone
<1> SUFFICES ASSUME NEW d \in Directs PROVE pc[d] \in {"idle", "checked"}
  BY DEF Alone
<1>0. pc \in [Prompts -> Labels] /\ pc'[d] \in {"idle", "checked"} /\ d \in Prompts
  BY DEF IInv, Types, Alone
<1>1. pc'[d] = pc[d] \/ pc[d] = "idle" \/ (pc[d] = "held" /\ d \in UserDispatches \cup Wakes)
  <2>1. ASSUME NEW p \in Prompts, Starts(p) \/ Thread(p)
        PROVE  pc'[d] = pc[d] \/ pc[d] = "idle" \/ (pc[d] = "held" /\ d \in UserDispatches \cup Wakes)
    BY <1>0, <2>1 DEF Starts, Thread, Dispatching, Hold, CheckIdle, Begin, Prepare, Fail, ReleaseRegistry, Accept,
         Repair, Reserve, Send, Recheck, DirectCheck, DirectHold, DirectRelease, NoticeCheck, BeginPrivate,
         EndPrivate, Step, IInv, Roles
  <2>2. CASE Lane \/ Emit \/ EndTurn \/ UNCHANGED vars
    BY <2>2 DEF Lane, LaneClaim, LaneAllow, LanePrivate, LaneResolve, LanePublish, LaneFinish, Emit, EndTurn, vars
  <2>3. ASSUME NEW r \in Roots, StopRecord(r) \/ StopGoesOn(r) PROVE pc' = pc
    BY <2>3 DEF StopRecord, StopGoesOn, StopAbort, StopClose, StopGivesUp
  <2>q. QED BY <2>1, <2>2, <2>3 DEF Next
<1>q. QED BY <1>0, <1>1

\* The initial state satisfies the guard.
LEMMA InitGuarded == Init => IInv /\ Alike /\ (Alone => Guard)
<1> SUFFICES ASSUME Init PROVE IInv /\ Alike /\ Guard
  OBVIOUS
<1>1. IInv
  BY Initially
<1>2. /\ pc = [p \in Prompts |-> "idle"] /\ running = None /\ admission = None
      /\ emitted = [p \in Prompts |-> 0] /\ queue = <<>> /\ cursor.at = "ready"
      /\ \A p \in Prompts : registry.buffer[p] = <<>>
  BY EmptyBuffer DEF Init, Ready
<1>3. Alike
  BY <1>2 DEF Alike, Admitted, Placed, Counted, Closing
<1>4. /\ registry.priority = None /\ registry.pending = None /\ \A p \in Prompts : registry.bound[p] = None
      /\ stop = [r \in Roots |-> NoStop] /\ NoStop.reservation = None /\ NoStop.at = "none"
  BY DEF Init, NoStop
<1>5. Guard
  BY <1>2, <1>4 DEF Guard, Reserved, Free, Single, Owns, Observed, Located, Working, Live, Flight
<1>q. QED BY <1>1, <1>3, <1>5

\* Every step keeps it, as long as the Session is alone after the step.
LEMMA GuardedStep ==
    ASSUME IInv, Alike, Alone => Guard, [Next]_vars PROVE IInv' /\ Alike' /\ (Alone' => Guard')
<1>1. IInv'
  BY Invariance
<1>2. Alike'
  BY <1>1, AdmittedStep, PlacedStep, CountedStep, ClosingStep DEF Alike
<1>3. Alone' => Guard'
  BY <1>1, AloneBefore, GuardStep DEF Held
<1>q. QED BY <1>1, <1>2, <1>3

\* So it holds in every state in which the Session is alone.
LEMMA Guarded == Spec => [](IInv /\ Alike /\ (Alone => Guard))
BY InitGuarded, GuardedStep, PTL DEF Spec

\* As long as no direct message has taken the Session's reservation, a prepared dispatch
\* does not run once a Stop of its Root has answered that the Root is terminated or had
\* nothing left to stop: abort_turn with the admission checks of dispatch_prepared.
THEOREM StopsHold == Spec => [](Alone => StopHolds)
<1>1. IInv /\ Alike /\ (Alone => Guard) => (Alone => StopHolds)
  BY DEF Guard, Working, Live, Works, StopHolds, Stopped
<1>q. QED BY <1>1, Guarded, PTL

-----------------------------------------------------------------------------
(***************************************************************************)
(* Nothing is lost: each event of an accepted turn is public, or it still   *)
(* waits in the lane, and each event that comes before the answer is kept.  *)
(***************************************************************************)
Quiet == Alone /\ Undisturbed

\* Every event of a turn after the first k waits in the lane.
Covered(t, k) == \A n \in Nat : k < n /\ n <= emitted[t] =>
    \E l \in 1..Len(queue) : queue[l].turn = t /\ queue[l].n = n

\* No private notice, and what the lane carries is of a registered turn.
Calm ==
    /\ registry.notice = None /\ registry.private = {}
    /\ cursor.at \in {"private", "resolve", "publish", "finish"} => registry.bound[Head1.turn] # None
    /\ cursor.at \in {"publish", "finish"} => cursor.root = Root(Head1.turn)
    /\ cursor.at = "finish" => Len(room.said[Head1.turn]) = Head1.n

\* The public lines of an accepted turn are a prefix of its events, the kept events of
\* a pending one too.
Told(t) == pc[t] = "accepted" =>
    /\ \A i \in 1..Len(room.said[t]) : room.said[t][i] = [n |-> i, root |-> Root(t)]
    /\ Covered(t, Len(room.said[t]))
    /\ registry.bound[t] = None => running # t /\ Len(room.said[t]) = emitted[t]
Keeping(t) == pc[t] \in Waiting =>
    /\ registry.pending = t
    /\ \A i \in 1..Len(registry.buffer[t]) : registry.buffer[t][i].n = i
    /\ Covered(t, Len(registry.buffer[t]))
Silent(t) == pc[t] # "accepted" => room.said[t] = <<>>
Peace == Calm /\ \A t \in Dispatches : Told(t) /\ Keeping(t) /\ Silent(t)

\* A Session that is quiet after a step was quiet before it.
LEMMA QuietBefore == ASSUME IInv, IInv', NEW t \in Prompts, Quiet', [Next]_vars PROVE Quiet
<1>1. Alone
  BY AloneBefore DEF Quiet
<1>2. registry.cancelled = {}
  BY BufferMoves DEF Quiet, Undisturbed
<1>3. ASSUME NEW d \in Notices PROVE pc[d] \in {"idle", "checked"}
  <2>0. pc \in [Prompts -> Labels] /\ pc'[d] \in {"idle", "checked"} /\ d \in Prompts
    BY <1>3 DEF IInv, Types, Quiet, Undisturbed
  <2>1. pc'[d] = pc[d] \/ pc[d] = "idle" \/ (pc[d] = "held" /\ d \in UserDispatches \cup Wakes)
    <3>1. ASSUME NEW p \in Prompts, Starts(p) \/ Thread(p)
          PROVE  pc'[d] = pc[d] \/ pc[d] = "idle" \/ (pc[d] = "held" /\ d \in UserDispatches \cup Wakes)
      BY <2>0, <3>1 DEF Starts, Thread, Dispatching, Hold, CheckIdle, Begin, Prepare, Fail, ReleaseRegistry, Accept,
           Repair, Reserve, Send, Recheck, DirectCheck, DirectHold, DirectRelease, NoticeCheck, BeginPrivate,
           EndPrivate, Step, IInv, Roles
    <3>2. CASE Lane \/ Emit \/ EndTurn \/ UNCHANGED vars
      BY <3>2 DEF Lane, LaneClaim, LaneAllow, LanePrivate, LaneResolve, LanePublish, LaneFinish, Emit, EndTurn, vars
    <3>3. ASSUME NEW r \in Roots, StopRecord(r) \/ StopGoesOn(r) PROVE pc' = pc
      BY <3>3 DEF StopRecord, StopGoesOn, StopAbort, StopClose, StopGivesUp
    <3>q. QED BY <3>1, <3>2, <3>3 DEF Next
  <2>q. QED BY <1>3, <2>0, <2>1
<1>q. QED BY <1>1, <1>2, <1>3 DEF Quiet, Undisturbed

\* What waits in the lane goes on waiting there until the lane takes it.
LEMMA CoveredOn ==
    ASSUME IInv, [Next]_vars, NEW t \in Prompts, NEW k \in Nat, Covered(t, k),
           ~(queue # <<>> /\ queue' = Tail(queue) /\ Head1.turn = t)
    PROVE  Covered(t, k)'
<1>0. queue \in Seq(Event) /\ emitted \in [Prompts -> Nat]
  BY DEF IInv, Types
<1> SUFFICES ASSUME NEW n \in Nat, k < n, n <= emitted'[t]
             PROVE  \E l \in 1..Len(queue') : queue'[l].turn = t /\ queue'[l].n = n
  BY DEF Covered
<1>1. ASSUME n <= emitted[t] PROVE \E l \in 1..Len(queue) : queue[l].turn = t /\ queue[l].n = n
  BY <1>1 DEF Covered
<1>2. CASE UNCHANGED <<queue, emitted>>
  BY <1>1, <1>2
<1>3. CASE queue # <<>> /\ queue' = Tail(queue) /\ UNCHANGED <<emitted, running, pc>>
  <2>1. PICK l \in 1..Len(queue) : queue[l].turn = t /\ queue[l].n = n
    BY <1>1, <1>3
  <2>2. l # 1
    BY <1>0, <1>3, <2>1 DEF Head1
  <2>3. l - 1 \in 1..Len(queue') /\ queue'[l - 1] = queue[l]
    BY <1>0, <1>3, <2>1, <2>2
  <2>q. QED BY <2>1, <2>3
<1>4. ASSUME NEW kind \in Kinds, Publishes(kind)
      PROVE  \E l \in 1..Len(queue') : queue'[l].turn = t /\ queue'[l].n = n
  <2> DEFINE last == [turn |-> running, n |-> emitted[running] + 1, kind |-> kind]
  <2>1. running \in Prompts /\ last \in Event /\ queue' = Append(queue, last)
    BY <1>0, <1>4 DEF Publishes, Event, IInv, Types
  <2>2. last.turn = running /\ last.n = emitted[running] + 1
    OBVIOUS
  <2>3. emitted'[t] = IF t = running THEN emitted[t] + 1 ELSE emitted[t]
    BY <1>0, <1>4, <2>1 DEF Publishes
  <2> HIDE DEF last
  <2>4. /\ Len(queue') = Len(queue) + 1 /\ queue'[Len(queue) + 1] = last
        /\ \A l \in 1..Len(queue) : queue'[l] = queue[l]
    BY <1>0, <2>1
  <2>5. CASE n <= emitted[t]
    BY <1>0, <1>1, <2>4, <2>5
  <2>6. CASE ~(n <= emitted[t])
    <3>1. t = running /\ n = emitted[t] + 1
      BY <1>0, <2>3, <2>6
    <3>2. Len(queue) + 1 \in 1..Len(queue')
      BY <1>0, <2>4
    <3>q. QED BY <2>2, <2>4, <3>1, <3>2
  <2>q. QED BY <2>5, <2>6
<1>q. QED BY <1>2, <1>3, <1>4, QueueMoves

\* The next event of a turn is the first of it that waits in the lane.
LEMMA NextOf ==
    ASSUME IInv, queue # <<>>, NEW k \in Nat, Covered(Head1.turn, k), k < Head1.n
    PROVE  Head1.n = k + 1
<1>0. /\ queue \in Seq(Event) /\ emitted \in [Prompts -> Nat] /\ Head1 \in Event /\ Head1 = queue[1]
      /\ 1 \in 1..Len(queue) /\ Head1.n \in Nat /\ Head1.turn \in Prompts
  BY HeadType DEF IInv, Types, Event, Head1
<1>1. Head1.n <= emitted[Head1.turn]
  BY <1>0 DEF IInv, Trail, Ordered
<1>2. PICK l \in 1..Len(queue) : queue[l].turn = Head1.turn /\ queue[l].n = k + 1
  BY <1>0, <1>1 DEF Covered
<1>3. l = 1 \/ Head1.n < k + 1
  BY <1>0, <1>2 DEF IInv, Trail, Ordered
<1>q. QED BY <1>0, <1>2, <1>3

\* The lane goes past an event that needs no more waiting.
LEMMA CoveredPast ==
    ASSUME IInv, queue # <<>>, NEW t \in Prompts, NEW k \in Nat, Covered(t, k), Head1.turn = t => Head1.n <= k,
           queue' = Tail(queue), emitted' = emitted
    PROVE  Covered(t, k)'
<1>0. /\ queue \in Seq(Event) /\ emitted \in [Prompts -> Nat] /\ Head1 = queue[1] /\ Head1 \in Event
  BY HeadType DEF IInv, Types, Head1
<1> SUFFICES ASSUME NEW n \in Nat, k < n, n <= emitted[t]
             PROVE  \E l \in 1..Len(queue') : queue'[l].turn = t /\ queue'[l].n = n
  BY DEF Covered
<1>1. PICK l \in 1..Len(queue) : queue[l].turn = t /\ queue[l].n = n
  BY DEF Covered
<1>2. l # 1
  BY <1>0, <1>1 DEF Event
<1>3. l - 1 \in 1..Len(queue') /\ queue'[l - 1] = queue[l]
  BY <1>0, <1>1, <1>2
<1>q. QED BY <1>1, <1>3

\* Of more events fewer need to wait.
LEMMA CoveredMore == ASSUME IInv, NEW t \in Prompts, NEW k \in Nat, Covered(t, k) PROVE Covered(t, k + 1)
BY DEF Covered

\* A thread that leaves the Room and the registered turns alone.
LEMMA PeaceKept ==
    ASSUME IInv, [Next]_vars, Peace, UNCHANGED <<lane, room, emitted>>,
           registry'.notice = None, registry'.private = {},
           \A t \in Prompts : registry'.bound[t] = registry.bound[t],
           \A t \in Dispatches :
              /\ pc'[t] = "accepted" <=> pc[t] = "accepted"
              /\ pc[t] = "accepted" /\ running # t => running' # t
              /\ pc'[t] \in Waiting =>
                    \/ /\ pc[t] \in Waiting /\ registry'.pending = registry.pending
                       /\ registry'.buffer[t] = registry.buffer[t]
                    \/ registry'.pending = t /\ registry'.buffer[t] = <<>> /\ emitted[t] = 0
    PROVE  Peace'
<1>0. /\ queue \in Seq(Event) /\ emitted \in [Prompts -> Nat] /\ room \in Publics
      /\ cursor.at # "ready" => Head1 \in Event
      /\ \A t \in Prompts : registry.buffer[t] \in Seq(Event)
  BY HeadType DEF IInv, Types, Trail, Pointed, WellFormed, Registry
<1>1. UNCHANGED <<queue, cursor, Head1, room>>
  BY DEF lane, Head1
<1>2. \A t, k : Covered(t, k)' <=> Covered(t, k)
  BY <1>1 DEF Covered
<1>3. Calm'
  BY <1>0, <1>1 DEF Peace, Calm, Event
<1>4. ASSUME NEW t \in Dispatches PROVE Told(t)' /\ Silent(t)'
  BY <1>1, <1>2, <1>4 DEF Peace, Told, Silent
<1>5. ASSUME NEW t \in Dispatches, pc'[t] \in Waiting PROVE Keeping(t)'
  <2>1. CASE pc[t] \in Waiting /\ registry'.pending = registry.pending /\ registry'.buffer[t] = registry.buffer[t]
    BY <1>2, <1>5, <2>1 DEF Peace, Keeping
  <2>2. CASE registry'.pending = t /\ registry'.buffer[t] = <<>> /\ emitted[t] = 0
    <3>1. Covered(t, 0)'
      BY <1>0, <2>2 DEF Covered
    <3>q. QED BY <2>2, <3>1 DEF Keeping
  <2>q. QED BY <1>5, <2>1, <2>2
<1>6. \A t \in Dispatches : Keeping(t)'
  BY <1>5 DEF Keeping
<1>q. QED BY <1>3, <1>4, <1>6 DEF Peace

\* The threads, one by one.
Hushed == Held /\ Quiet /\ Peace

\* What a quiet Session has of the registry.
LEMMA HushedFacts ==
    ASSUME Hushed
    PROVE  /\ WellFormed(registry) /\ pc \in [Prompts -> Labels] /\ None \notin Prompts \cup Roots
           /\ registry.cancelled = {} /\ registry.cancelledRoot = None
           /\ \A x \in Prompts : registry.cancelledTurn[x] = None
           /\ registry.notice = None /\ registry.private = {}
           /\ \A p \in Dispatches : pc[p] \in Waiting => registry.pending = p
           /\ registry.pending # None => pc[registry.pending] \in Waiting /\ Free
           /\ \A x \in Prompts : registry.bound[x] # None => x \in Dispatches /\ registry.bound[x] = Root(x)
BY DEF Hushed, Held, IInv, Types, Awaited, Quiet, Undisturbed, Peace, Calm, Keeping, WellFormed, Root, Guard, Reserved

\* A dispatch that starts: nothing of its turn has been published.
LEMMA StartsPeace == ASSUME Hushed, [Next]_vars, NEW p \in Prompts, Hold(p) \/ Prepare(p) PROVE Peace'
<1>0. /\ WellFormed(registry) /\ pc \in [Prompts -> Labels] /\ registry.notice = None /\ registry.private = {}
      /\ IInv /\ Peace
  BY HushedFacts DEF Hushed, Held
<1>1. CASE Hold(p)
  <2>1. /\ registry' = [registry EXCEPT !.priority = p] /\ pc' = [pc EXCEPT ![p] = "held"] /\ pc[p] = "idle"
        /\ UNCHANGED <<lane, room, emitted, running>>
    BY <1>1 DEF Hold, Step, pi
  <2>2. /\ registry'.notice = None /\ registry'.private = {} /\ registry'.bound = registry.bound
        /\ registry'.pending = registry.pending /\ registry'.buffer = registry.buffer
    BY <1>0, <2>1 DEF WellFormed, Registry
  <2>q. QED BY <1>0, <2>1, <2>2, PeaceKept DEF Waiting
<1>2. CASE Prepare(p)
  <2>1. /\ registry' = [Begun(registry, p) EXCEPT !.priority = p] /\ pc[p] = "idle" /\ p \in Dispatches
        /\ pc' = [pc EXCEPT ![p] = "prepared"] \/ pc' = [pc EXCEPT ![p] = "rejected"]
        /\ UNCHANGED <<lane, room, emitted, running>> /\ registry.pending = None
    BY <1>2 DEF Prepare, Step, Engaged
  <2>2. /\ registry'.notice = None /\ registry'.private = {}
        /\ \A x \in Prompts : registry'.bound[x] = registry.bound[x]
        /\ registry'.pending = p /\ \A x \in Prompts : registry'.buffer[x] = <<>>
    <3>1. /\ Begun(registry, p).notice = None /\ Begun(registry, p).private = {}
          /\ Begun(registry, p).bound = registry.bound /\ Begun(registry, p).pending = p
          /\ \A x \in Prompts : Begun(registry, p).buffer[x] = <<>>
          /\ WellFormed(Begun(registry, p))
      BY <1>0, <2>1, BegunCore, BegunKeeps DEF Keeps
    <3>q. QED BY <2>1, <3>1 DEF WellFormed, Registry
  <2>3. emitted[p] = 0
    BY <2>1 DEF Hushed, Held, Alike, Counted, Early
  <2>4. \A t \in Dispatches : pc[t] \notin Waiting
    BY <2>1, HushedFacts
  <2>q. QED BY <1>0, <2>1, <2>2, <2>3, <2>4, PeaceKept
<1>q. QED BY <1>1, <1>2

\* A user dispatch or a wake up to its prompt, and the dispatches that fail.
LEMMA DispatchPeace ==
    ASSUME Hushed, [Next]_vars, NEW p \in Prompts, CheckIdle(p) \/ Begin(p) \/ Fail(p) \/ ReleaseRegistry(p)
    PROVE  Peace'
<1>0. /\ WellFormed(registry) /\ pc \in [Prompts -> Labels] /\ registry.notice = None /\ registry.private = {}
      /\ IInv /\ Peace /\ None \notin Prompts \cup Roots
  BY HushedFacts DEF Hushed, Held
<1>1. CASE CheckIdle(p)
  <2>1. /\ registry' \in {registry, Released(registry, p)} /\ pc[p] = "held"
        /\ pc' = [pc EXCEPT ![p] = "announced"] \/ pc' = [pc EXCEPT ![p] = "idle"]
        /\ UNCHANGED <<lane, room, emitted, running>>
    BY <1>1 DEF CheckIdle, Step, pi
  <2>2. /\ registry'.notice = None /\ registry'.private = {} /\ registry'.bound = registry.bound
        /\ registry'.pending = registry.pending /\ registry'.buffer = registry.buffer
    BY <1>0, <2>1, ReleasedCore
  <2>q. QED BY <1>0, <2>1, <2>2, PeaceKept DEF Waiting
<1>2. CASE Begin(p)
  <2>1. pc[p] = "announced" /\ p \in Dispatches /\ p \notin PreparedDispatches
    BY <1>2 DEF Begin, Hushed, Held, IInv, Roles
  <2>2. /\ registry' = Begun(registry, p) /\ pc' = [pc EXCEPT ![p] = "begun"]
        /\ UNCHANGED <<lane, room, emitted, running>>
    BY <1>2, HushedFacts DEF Begin, Step, pi
  <2>3. /\ registry'.notice = None /\ registry'.private = {} /\ registry'.bound = registry.bound
        /\ registry'.pending = p /\ \A x \in Prompts : registry'.buffer[x] = <<>>
    BY <1>0, <2>2, BegunCore
  <2>4. emitted[p] = 0
    BY <2>1 DEF Hushed, Held, Alike, Counted, Early
  <2>5. \A t \in Dispatches : pc[t] \notin Waiting
    <3>1. registry.priority = p
      BY <2>1, HushedFacts DEF Hushed, Held, Guard, Reserved, Flight
    <3>2. registry.pending \in {None, p}
      BY <1>0, <3>1 DEF Hushed, Held, Guard, Reserved
    <3>3. pc[p] \notin Waiting
      BY <2>1 DEF Waiting
    <3>q. QED BY <1>0, <3>2, <3>3, HushedFacts
  <2>q. QED BY <1>0, <2>1, <2>2, <2>3, <2>4, <2>5, PeaceKept
<1>3. CASE Fail(p)
  <2> DEFINE over == Cancelled(registry, Root(p))
  <2>1. /\ p \in Dispatches /\ pc[p] \in {"rejected", "lost"} /\ Root(p) \in Roots
        /\ pc' = [pc EXCEPT ![p] = "failed"] /\ registry' = Released(over, p)
        /\ UNCHANGED <<lane, room, emitted, running>>
    BY <1>3, RootType DEF Fail, Step, pi
  <2>2. registry.pending = p /\ \A x \in Prompts : registry.bound[x] = None
    BY <1>0, <2>1, HushedFacts DEF Waiting, Free
  <2>3. /\ WellFormed(over) /\ over.notice = None /\ over.private = {}
        /\ \A x \in Prompts : over.bound[x] = None
    <3>1. WellFormed(over)
      BY <1>0, <2>1, CancelledKeeps DEF Keeps
    <3>2. /\ over.notice = registry.notice /\ over.private = registry.private
          /\ \A x \in Prompts : over.bound[x] \in {None, registry.bound[x]}
      BY <1>0, <2>1, CancelledCore
    <3> HIDE DEF over
    <3>q. QED BY <1>0, <2>2, <3>1, <3>2
  <2> HIDE DEF over
  <2>4. /\ registry'.notice = None /\ registry'.private = {} /\ \A x \in Prompts : registry'.bound[x] = None
    BY <2>1, <2>3, ReleasedCore
  <2>5. \A t \in Dispatches : pc'[t] \notin Waiting
    BY <1>0, <2>1, <2>2, HushedFacts DEF Waiting
  <2>q. QED BY <1>0, <2>1, <2>2, <2>4, <2>5, PeaceKept
<1>4. CASE ReleaseRegistry(p)
  <2> DEFINE over == Cancelled(registry, Root(p))
  <2>1. /\ p \in Dispatches /\ pc[p] \in {"rejected", "lost"} /\ Root(p) \in Roots
        /\ UNCHANGED <<lane, room, emitted, running>>
        /\ \/ pc[p] = "lost" /\ pc' = [pc EXCEPT ![p] = "unknown"] /\ registry' \in {registry, Released(registry, p)}
           \/ /\ pc[p] = "rejected" /\ pc' = [pc EXCEPT ![p] = "failed"]
              /\ registry' \in {registry, Released(over, p)}
    BY <1>4, RootType DEF ReleaseRegistry, Step, pi
  <2>2. registry.pending = p /\ \A x \in Prompts : registry.bound[x] = None
    BY <1>0, <2>1, HushedFacts DEF Waiting, Free
  <2>3. /\ WellFormed(over) /\ over.notice = None /\ over.private = {}
        /\ \A x \in Prompts : over.bound[x] = None
    <3>1. WellFormed(over)
      BY <1>0, <2>1, CancelledKeeps DEF Keeps
    <3>2. /\ over.notice = registry.notice /\ over.private = registry.private
          /\ \A x \in Prompts : over.bound[x] \in {None, registry.bound[x]}
      BY <1>0, <2>1, CancelledCore
    <3> HIDE DEF over
    <3>q. QED BY <1>0, <2>2, <3>1, <3>2
  <2> HIDE DEF over
  <2>4. CASE pc[p] = "lost" /\ pc' = [pc EXCEPT ![p] = "unknown"] /\ registry' \in {registry, Released(registry, p)}
    <3>1. /\ registry'.notice = None /\ registry'.private = {} /\ registry'.bound = registry.bound
          /\ registry'.pending = registry.pending /\ registry'.buffer = registry.buffer
      BY <1>0, <2>4, ReleasedCore
    <3>2. pc[p] \in Waiting
      BY <2>1 DEF Waiting
    <3>q. QED BY <1>0, <2>1, <2>4, <3>1, <3>2, PeaceKept
  <2>5. CASE /\ pc[p] = "rejected" /\ pc' = [pc EXCEPT ![p] = "failed"]
             /\ registry' \in {registry, Released(over, p)}
    <3>1. /\ registry'.notice = None /\ registry'.private = {} /\ \A x \in Prompts : registry'.bound[x] = None
      BY <1>0, <2>2, <2>3, <2>5, ReleasedCore
    <3>2. \A t \in Dispatches : pc'[t] \notin Waiting
      BY <1>0, <2>2, <2>5, HushedFacts DEF Waiting
    <3>q. QED BY <1>0, <2>1, <2>2, <2>5, <3>1, <3>2, PeaceKept
  <2>q. QED BY <2>1, <2>4, <2>5
<1>q. QED BY <1>1, <1>2, <1>3, <1>4

\* The calls of the Pi runtime, and the checks, touch nothing of the Room.
LEMMA PiPeace ==
    ASSUME Hushed, [Next]_vars, NEW p \in Prompts,
           Reserve(p) \/ Send(p) \/ Recheck(p) \/ DirectCheck(p) \/ NoticeCheck(p)
    PROVE  Peace'
<1>0. /\ WellFormed(registry) /\ pc \in [Prompts -> Labels] /\ registry.notice = None /\ registry.private = {}
      /\ IInv /\ Peace
  BY HushedFacts DEF Hushed, Held
<1>1. registry' = registry /\ UNCHANGED <<lane, room, emitted>>
  BY DEF Reserve, Send, Recheck, DirectCheck, NoticeCheck, pi
<1>2. \/ UNCHANGED running /\ p \notin Dispatches /\ \E l : pc' = [pc EXCEPT ![p] = l]
      \/ /\ pc[p] \in Waiting /\ pc[p] # "accepted" /\ running' \in {running, p}
         /\ \E l \in Waiting : l # "accepted" /\ pc' = [pc EXCEPT ![p] = l]
  <2>1. CASE DirectCheck(p) \/ NoticeCheck(p)
    BY <2>1 DEF DirectCheck, NoticeCheck, Step, pi
  <2>2. CASE Reserve(p) \/ Send(p) \/ Recheck(p)
    BY <2>2 DEF Reserve, Send, Recheck, Step, Waiting
  <2>q. QED BY <2>1, <2>2
<1>3. CASE UNCHANGED running /\ p \notin Dispatches /\ \E l : pc' = [pc EXCEPT ![p] = l]
  <2>1. \A t \in Dispatches : pc'[t] = pc[t]
    BY <1>0, <1>3
  <2>q. QED BY <1>0, <1>1, <1>3, <2>1, PeaceKept
<1>4. CASE /\ pc[p] \in Waiting /\ pc[p] # "accepted" /\ running' \in {running, p}
           /\ \E l \in Waiting : l # "accepted" /\ pc' = [pc EXCEPT ![p] = l]
  <2>1. \A t \in Dispatches : /\ pc'[t] = "accepted" <=> pc[t] = "accepted"
                              /\ pc[t] = "accepted" /\ running # t => running' # t
                              /\ pc'[t] \in Waiting => pc[t] \in Waiting
    BY <1>0, <1>4
  <2>q. QED BY <1>0, <1>1, <2>1, PeaceKept
<1>q. QED BY <1>2, <1>3, <1>4

\* An event of a registered turn of a quiet Session becomes public at once.
LEMMA MirroredQuietly ==
    ASSUME NEW reg, WellFormed(reg), reg.cancelled = {}, reg.notice = None, reg.private = {},
           NEW rm, NEW e \in Event, reg.bound[e.turn] # None
    PROVE  Mirrored([reg |-> reg, rm |-> rm], e) =
              [reg |-> IF Terminal(e) THEN Finished(reg, e.turn, Root(e.turn)) ELSE reg,
               rm |-> WithLine(rm, e, Root(e.turn))]
<1> DEFINE state == [reg |-> reg, rm |-> rm]
<1>0. /\ e.turn \in Prompts /\ reg.bound[e.turn] = Root(e.turn) /\ Root(e.turn) # None
      /\ reg.cancelledTurn[e.turn] = None /\ reg.cancelledRoot = None
  BY DEF WellFormed, Event
<1>1. ClaimRoot(reg, e) = None /\ Claimed(reg, None) = reg
  BY DEF ClaimRoot, Claimed
<1>2. Allows(reg, e) /\ ~Private(reg, e) /\ Registered(reg, e) = Root(e.turn) /\ ~IsCancelled(reg, Root(e.turn))
  BY <1>0 DEF Allows, Private, Registered, IsCancelled
<1>3. Published(rm, e, Root(e.turn), FALSE) = WithLine(rm, e, Root(e.turn))
  BY DEF Published, WithLine
<1>4. state.reg = reg /\ state.rm = rm
  OBVIOUS
<1> HIDE DEF state
<1>5. Mirrored(state, e) = [reg |-> IF Terminal(e) THEN Finished(reg, e.turn, Root(e.turn)) ELSE reg,
                            rm |-> Published(rm, e, Root(e.turn), FALSE)]
  BY <1>1, <1>2, <1>4 DEF Mirrored
<1>q. QED BY <1>3, <1>5 DEF state

\* So becomes each kept event of the turn that is accepted, in order.
LEMMA FlushedQuietly ==
    ASSUME NEW reg, WellFormed(reg), NEW p \in Dispatches, room \in Publics,
           reg.cancelled = {}, reg.notice = None, reg.private = {},
           \A i \in 1..Len(reg.buffer[p]) :
              /\ reg.buffer[p][i].turn = p /\ reg.buffer[p][i].n = i
              /\ Terminal(reg.buffer[p][i]) => i = Len(reg.buffer[p]),
           room.said[p] = <<>>,
           NEW new, new = Accepted(reg, p)
    PROVE  /\ new.rm \in Publics /\ new.reg.notice = None /\ new.reg.private = {}
           /\ \A x \in Prompts : x # p => /\ new.rm.said[x] = room.said[x]
                                         /\ new.reg.bound[x] = reg.bound[x]
           /\ Len(new.rm.said[p]) = Len(reg.buffer[p])
           /\ \A i \in 1..Len(reg.buffer[p]) : new.rm.said[p][i] = [n |-> i, root |-> Root(p)]
           /\ new.reg.bound[p] = None =>
                 /\ Len(reg.buffer[p]) > 0
                 /\ Terminal(reg.buffer[p][Len(reg.buffer[p])])
<1> DEFINE kept == reg.buffer[p]
           N == Len(kept)
           base == Start(reg, p).reg
           Good(s, m) ==
              /\ s = [reg |-> s.reg, rm |-> s.rm] /\ s.rm \in Publics /\ WellFormed(s.reg)
              /\ s.reg.cancelled = {} /\ s.reg.notice = None /\ s.reg.private = {}
              /\ \A x \in Prompts : x # p => s.rm.said[x] = room.said[x] /\ s.reg.bound[x] = reg.bound[x]
              /\ Len(s.rm.said[p]) = m
              /\ \A i \in 1..m : s.rm.said[p][i] = [n |-> i, root |-> Root(p)]
              /\ s.reg.bound[p] = None => m > 0 /\ Terminal(kept[m])
<1>1. kept \in Seq(Event) /\ N \in Nat /\ p \in Prompts /\ Root(p) \in Roots
  BY RootType DEF WellFormed, Registry
<1>2. PICK f : /\ Accepted(reg, p) = f[N] /\ f[0] = Start(reg, p)
               /\ \A n \in 1..N : f[n] = Mirrored(f[n - 1], kept[n])
  <2> DEFINE q == kept
  <2>1. q = reg.buffer[p] /\ Len(q) \in Nat
    BY <1>1
  <2> HIDE DEF q
  <2>q. QED BY <2>1, Unfolded
<1>3. /\ WellFormed(base) /\ base.cancelled = {} /\ base.notice = None /\ base.private = {}
      /\ \A x \in Prompts : base.bound[x] = IF x = p THEN Root(p) ELSE reg.bound[x]
      /\ Start(reg, p) = [reg |-> base, rm |-> room]
  <2> DEFINE bound == [reg.bound EXCEPT ![p] = Root(p)]
             bare == [reg EXCEPT !.pending = None, !.bound = bound, !.buffer = NoBuffer]
  <2>1. Start(reg, p) = [reg |-> bare, rm |-> room]
    BY DEF Start
  <2>2. /\ bound \in [Prompts -> Roots \cup {None}]
        /\ \A t \in Prompts : bound[t] \in {None, Root(t)}
        /\ \A t \in Prompts : bound[t] = IF t = p THEN Root(p) ELSE reg.bound[t]
    BY <1>1, RootType DEF WellFormed, Registry
  <2> HIDE DEF bound
  <2>3. /\ bare \in Registry /\ bare.bound = bound /\ bare.pending = None /\ bare.buffer = NoBuffer
        /\ bare.cancelled = reg.cancelled /\ bare.claimed = reg.claimed
        /\ bare.notice = reg.notice /\ bare.private = reg.private
        /\ bare.cancelledTurn = reg.cancelledTurn /\ bare.cancelledRoot = reg.cancelledRoot
    BY <2>2, EmptyBuffer DEF WellFormed, Registry
  <2> HIDE DEF bare
  <2>4. WellFormed(bare)
    BY <2>2, <2>3 DEF WellFormed
  <2>5. base = bare
    BY <2>1
  <2> HIDE DEF base
  <2>q. QED BY <2>1, <2>2, <2>3, <2>4, <2>5
<1> HIDE DEF base
<1>4. Good(f[0], 0)
  <2>1. f[0] = [reg |-> base, rm |-> room]
    BY <1>2, <1>3
  <2>q. QED BY <1>1, <1>3, <2>1
<1>5. ASSUME NEW m \in 1..N, Good(f[m - 1], m - 1) PROVE Good(f[m], m)
  <2> DEFINE s == f[m - 1]
             u == f[m]
             e == kept[m]
             line == [n |-> e.n, root |-> Root(p)]
  <2>1. /\ e \in Event /\ e.turn = p /\ e.n = m /\ u = Mirrored([reg |-> s.reg, rm |-> s.rm], e)
        /\ Terminal(e) <=> Terminal(kept[m])
    BY <1>1, <1>2, <1>5
  <2>2. Good(s, m - 1) /\ m \in Nat /\ m - 1 \in Nat
    BY <1>1, <1>5
  <2>3. s.reg.bound[p] # None
    <3>1. m - 1 > 0 => m - 1 \in 1..N /\ m - 1 # N
      BY <1>1
    <3>2. m - 1 > 0 => ~Terminal(kept[m - 1])
      BY <3>1
    <3>q. QED BY <2>2, <3>2
  <2>a. \A i \in 1..m : i \in 1..(m - 1) \/ i = m
    BY <2>2
  <2>b. line = [n |-> m, root |-> Root(p)] /\ line \in Line
    BY <1>1, <2>1 DEF Line
  <2> HIDE DEF s, u, e, line
  <2>4. /\ s.reg.cancelled = {} /\ s.reg.notice = None /\ s.reg.private = {} /\ WellFormed(s.reg)
        /\ s.rm \in Publics
    BY <2>2
  <2>5. u = [reg |-> IF Terminal(e) THEN Finished(s.reg, p, Root(p)) ELSE s.reg, rm |-> WithLine(s.rm, e, Root(p))]
    <3> HIDE DEF Good
    <3>q. QED BY <2>1, <2>3, <2>4, MirroredQuietly
  <2>6. /\ u.reg = IF Terminal(e) THEN Finished(s.reg, p, Root(p)) ELSE s.reg
        /\ u.rm = WithLine(s.rm, e, Root(p)) /\ u = [reg |-> u.reg, rm |-> u.rm]
    BY <2>5
  <2>7. /\ WellFormed(u.reg) /\ u.reg.cancelled = {} /\ u.reg.notice = None /\ u.reg.private = {}
        /\ \A x \in Prompts : x # p => u.reg.bound[x] = s.reg.bound[x]
        /\ u.reg.bound[p] = None => Terminal(e)
    BY <1>1, <2>3, <2>4, <2>6, FinishedCore, FinishedKeeps DEF Keeps
  <2>8. u.rm \in Publics /\ u.rm.said = Extended(s.rm.said, e, Root(p))
    <3>1. /\ WithLine(s.rm, e, Root(p)) \in Publics
          /\ WithLine(s.rm, e, Root(p)).said = Extended(s.rm.said, e, Root(p))
      <4>1. s.rm \in Publics /\ e \in Event /\ Root(p) \in Roots \cup Prompts \cup {None}
        BY <1>1, <2>1, <2>4
      <4>q. QED BY <4>1, LineAdds
    <3>q. QED BY <2>6, <3>1
  <2>9. /\ u.rm.said[p] = Append(s.rm.said[p], line)
        /\ \A x \in Prompts : x # p => u.rm.said[x] = s.rm.said[x]
    BY <1>1, <2>1, <2>4, <2>8 DEF Extended, Publics, line
  <2>10. s.rm.said[p] \in Seq(Line)
    BY <1>1, <2>4 DEF Publics
  <2>11. /\ Len(u.rm.said[p]) = Len(s.rm.said[p]) + 1 /\ u.rm.said[p][Len(s.rm.said[p]) + 1] = line
         /\ \A i \in 1..Len(s.rm.said[p]) : u.rm.said[p][i] = s.rm.said[p][i]
    BY <2>9, <2>10, <2>b
  <2>12. /\ Len(u.rm.said[p]) = m /\ u.rm.said[p][m] = line
         /\ \A i \in 1..(m - 1) : u.rm.said[p][i] = [n |-> i, root |-> Root(p)]
    <3>1. /\ Len(s.rm.said[p]) = m - 1 /\ (m - 1) + 1 = m
          /\ \A i \in 1..(m - 1) : s.rm.said[p][i] = [n |-> i, root |-> Root(p)]
      BY <2>2
    <3>q. QED BY <2>11, <3>1
  <2>13. \A i \in 1..m : u.rm.said[p][i] = [n |-> i, root |-> Root(p)]
    BY <2>12, <2>a, <2>b
  <2>14. \A x \in Prompts : x # p => u.rm.said[x] = room.said[x] /\ u.reg.bound[x] = reg.bound[x]
    BY <2>2, <2>7, <2>9
  <2>15. u.reg.bound[p] = None => m > 0 /\ Terminal(kept[m])
    BY <1>5, <2>1, <2>7
  <2>q. QED BY <2>6, <2>7, <2>8, <2>12, <2>13, <2>14, <2>15 DEF u
<1>6. {m \in 0..N : ~Good(f[m], m)} = {}
  <2> DEFINE Bad == {m \in 0..N : ~Good(f[m], m)}
  <2> SUFFICES ASSUME Bad # {} PROVE FALSE
    OBVIOUS
  <2> HIDE DEF Good
  <2>1. PICK x \in Bad : \A y \in Bad : x <= y
    <3>1. Bad \subseteq Nat
      BY <1>1
    <3> HIDE DEF Bad
    <3>q. QED BY <3>1, Least
  <2>2. x \in 1..N /\ x - 1 \in 0..N /\ x - 1 \notin Bad
    BY <1>1, <1>4, <2>1
  <2>q. QED BY <1>5, <2>1, <2>2
<1>7. Good(f[N], N)
  <2> HIDE DEF Good
  <2>q. QED BY <1>1, <1>6
<1>q. QED BY <1>1, <1>2, <1>7

\* The answer makes public what was kept, and nothing of it is missing.
LEMMA BindPeace ==
    ASSUME Hushed, [Next]_vars, NEW p \in Dispatches, pc[p] \in Waiting, Step(p, "accepted"),
           UNCHANGED <<running, emitted, lane>>,
           NEW reg, WellFormed(reg), reg.cancelled = {}, reg.notice = None, reg.private = {},
           reg.bound = registry.bound, reg.buffer = registry.buffer, AcceptTurn(reg, p)
    PROVE  Peace'
<1> DEFINE kept == registry.buffer[p]
<1>a. /\ WellFormed(registry) /\ pc \in [Prompts -> Labels] /\ room \in Publics /\ p \in Prompts
      /\ emitted \in [Prompts -> Nat]
  BY DEF Hushed, Held, IInv, Types
<1>e. kept \in Seq(Event) /\ Len(kept) \in Nat
  <2>1. registry.buffer \in [Prompts -> Seq(Event)]
    BY <1>a DEF WellFormed, Registry
  <2>q. QED BY <1>a, <2>1
<1>b. /\ registry.pending = p /\ \A x \in Prompts : registry.bound[x] = None
      /\ \A t \in Dispatches : t # p => pc[t] \notin Waiting
  <2>1. registry.pending = p /\ p # None
    BY HushedFacts
  <2>q. QED BY <2>1, HushedFacts DEF Free
<1>c. /\ pc' = [pc EXCEPT ![p] = "accepted"] /\ pc[p] # "accepted"
      /\ UNCHANGED <<queue, cursor, Head1>>
  BY DEF Step, Waiting, lane, Head1
<1>d. /\ queue # <<>> => Head1.turn \in Prompts
      /\ cursor.at # "ready" => queue # <<>>
  BY HeadType DEF Hushed, Held, IInv, Trail, Pointed, Event
<1> HIDE DEF kept
<1>0. /\ WellFormed(registry) /\ pc \in [Prompts -> Labels] /\ room \in Publics /\ p \in Prompts
      /\ emitted \in [Prompts -> Nat] /\ kept \in Seq(Event) /\ Len(kept) \in Nat
      /\ registry.pending = p /\ \A x \in Prompts : registry.bound[x] = None
      /\ \A t \in Dispatches : t # p => pc[t] \notin Waiting
      /\ pc' = [pc EXCEPT ![p] = "accepted"] /\ pc[p] # "accepted"
      /\ queue # <<>> => Head1.turn \in Prompts
      /\ cursor.at # "ready" => queue # <<>>
      /\ UNCHANGED <<queue, cursor, Head1>>
  BY <1>a, <1>b, <1>c, <1>d, <1>e
<1>1. \A i \in 1..Len(kept) : kept[i].turn = p /\ kept[i].n = i /\ kept[i].n <= emitted[p] /\ Ended(kept[i])
  BY <1>0 DEF kept, Hushed, Held, IInv, Trail, Buffered, Peace, Keeping, Alike, Counted
<1>2. \A i \in 1..Len(kept) : Terminal(kept[i]) => i = Len(kept)
  <2> SUFFICES ASSUME NEW i \in 1..Len(kept), Terminal(kept[i]) PROVE i = Len(kept)
    OBVIOUS
  <2>1. i = emitted[p] /\ Len(kept) \in 1..Len(kept)
    BY <1>0, <1>1 DEF Ended
  <2>2. Len(kept) <= emitted[p]
    BY <1>1, <2>1
  <2>q. QED BY <1>0, <2>1, <2>2
<1>3. room.said[p] = <<>> /\ Covered(p, Len(kept))
  BY <1>0 DEF kept, Hushed, Peace, Silent, Keeping
<1>4. /\ registry'.notice = None /\ registry'.private = {}
      /\ \A x \in Prompts : x # p => room'.said[x] = room.said[x] /\ registry'.bound[x] = registry.bound[x]
      /\ Len(room'.said[p]) = Len(kept)
      /\ \A i \in 1..Len(kept) : room'.said[p][i] = [n |-> i, root |-> Root(p)]
      /\ registry'.bound[p] = None => Len(kept) > 0 /\ Terminal(kept[Len(kept)])
  <2>1. reg.buffer[p] = kept
    BY DEF kept
  <2> DEFINE new == Accepted(reg, p)
  <2>2. registry' = new.reg /\ room' = new.rm
    BY DEF AcceptTurn
  <2>3. /\ new.reg.notice = None /\ new.reg.private = {}
        /\ \A x \in Prompts : x # p => /\ new.rm.said[x] = room.said[x]
                                      /\ new.reg.bound[x] = reg.bound[x]
        /\ Len(new.rm.said[p]) = Len(kept)
        /\ \A i \in 1..Len(kept) : new.rm.said[p][i] = [n |-> i, root |-> Root(p)]
        /\ new.reg.bound[p] = None => Len(kept) > 0 /\ Terminal(kept[Len(kept)])
    <3>1. \A i \in 1..Len(reg.buffer[p]) :
             /\ reg.buffer[p][i].turn = p /\ reg.buffer[p][i].n = i
             /\ Terminal(reg.buffer[p][i]) => i = Len(reg.buffer[p])
      BY <1>1, <1>2, <2>1
    <3>2. room \in Publics /\ room.said[p] = <<>>
      BY <1>0, <1>3
    <3> HIDE DEF Terminal
    <3>3. /\ new.reg.notice = None /\ new.reg.private = {}
          /\ \A x \in Prompts : x # p => /\ new.rm.said[x] = room.said[x]
                                        /\ new.reg.bound[x] = reg.bound[x]
          /\ Len(new.rm.said[p]) = Len(reg.buffer[p])
          /\ \A i \in 1..Len(reg.buffer[p]) : new.rm.said[p][i] = [n |-> i, root |-> Root(p)]
          /\ new.reg.bound[p] = None => Len(reg.buffer[p]) > 0 /\ Terminal(reg.buffer[p][Len(reg.buffer[p])])
      BY <3>1, <3>2, FlushedQuietly
    <3>q. QED BY <2>1, <3>3
  <2> HIDE DEF new
  <2>q. QED BY <2>2, <2>3
<1>5. \A t, k : Covered(t, k)' <=> Covered(t, k)
  BY <1>0 DEF Covered
<1>6. Calm'
  BY <1>0, <1>4 DEF Calm, Hushed, Peace
<1>7. Told(p)'
  <2>1. registry'.bound[p] = None => running # p /\ Len(kept) = emitted[p]
    <3> SUFFICES ASSUME registry'.bound[p] = None PROVE running # p /\ Len(kept) = emitted[p]
      OBVIOUS
    <3>1. Len(kept) \in 1..Len(kept) /\ Terminal(kept[Len(kept)])
      BY <1>0, <1>4
    <3>q. QED BY <1>1, <3>1 DEF Ended
  <2>q. QED BY <1>3, <1>4, <1>5, <2>1 DEF Told
<1>8. ASSUME NEW t \in Dispatches, t # p PROVE Told(t)'
  <2>1. /\ pc'[t] = pc[t] /\ room'.said[t] = room.said[t] /\ registry'.bound[t] = registry.bound[t]
        /\ UNCHANGED <<running, emitted>>
    BY <1>0, <1>4, <1>8
  <2>2. Told(t)
    BY DEF Hushed, Peace
  <2>q. QED BY <1>5, <2>1, <2>2 DEF Told
<1>9. \A t \in Dispatches : Keeping(t)' /\ Silent(t)'
  BY <1>0, <1>4 DEF Hushed, Peace, Keeping, Silent, Waiting
<1>q. QED BY <1>6, <1>7, <1>8, <1>9 DEF Peace

\* Both ways to an accepted turn, and the ends without one.
LEMMA AcceptPeace == ASSUME Hushed, [Next]_vars, NEW p \in Prompts, Accept(p) \/ Repair(p) PROVE Peace'
<1>0. /\ WellFormed(registry) /\ pc \in [Prompts -> Labels] /\ None \notin Prompts \cup Roots
      /\ registry.cancelled = {} /\ registry.notice = None /\ registry.private = {} /\ IInv /\ Peace
  BY HushedFacts DEF Hushed, Held
<1>1. CASE Accept(p)
  <2> DEFINE reg == Released(registry, p)
  <2>1. p \in Dispatches /\ pc[p] = "sent" /\ pc[p] \in Waiting /\ UNCHANGED <<running, emitted, lane>>
    BY <1>1 DEF Accept, Waiting, pi
  <2>2. registry.pending = p
    BY <2>1, HushedFacts
  <2>3. AcceptTurn(reg, p) /\ Step(p, "accepted")
    BY <1>0, <1>1, <2>1, <2>2 DEF Accept, Acceptable, Active
  <2>4. /\ WellFormed(reg) /\ reg.cancelled = {} /\ reg.notice = None /\ reg.private = {}
        /\ reg.bound = registry.bound /\ reg.buffer = registry.buffer
    BY <1>0, ReleasedKeeps, ReleasedCore DEF Keeps
  <2> HIDE DEF reg
  <2>q. QED BY <2>1, <2>3, <2>4, BindPeace
<1>2. CASE Repair(p)
  <2>1. p \in Dispatches /\ pc[p] = "unknown" /\ pc[p] \in Waiting /\ UNCHANGED <<running, emitted, lane>>
    BY <1>0, <1>2, RepairMoves DEF Waiting, pi
  <2>2. registry.pending = p /\ \A x \in Prompts : registry.bound[x] = None
    BY <1>0, <2>1, HushedFacts DEF Free
  <2>3. CASE AcceptTurn(Repaired(p), p) /\ Step(p, "accepted")
    <3> DEFINE reg == Repaired(p)
    <3>1. /\ WellFormed(reg) /\ reg.cancelled = {} /\ reg.notice = None /\ reg.private = {}
          /\ reg.bound = registry.bound /\ reg.buffer = registry.buffer
      BY <1>0, <2>1, <2>2, RepairedCore
    <3>2. AcceptTurn(reg, p)
      BY <2>3
    <3> HIDE DEF reg
    <3>q. QED BY <2>1, <2>3, <3>1, <3>2, BindPeace
  <2>4. CASE /\ Step(p, "settled") /\ room' = room
             /\ registry' = Cancelled([registry EXCEPT !.priority = None], Root(p))
    <3> DEFINE bare == [registry EXCEPT !.priority = None]
    <3>1. /\ WellFormed(bare) /\ bare.bound = registry.bound /\ bare.notice = None /\ bare.private = {}
      BY <1>0, PriorityKeeps DEF Keeps, WellFormed, Registry
    <3>2. registry' = Cancelled(bare, Root(p)) /\ Root(p) \in Roots
      BY <2>1, <2>4, RootType
    <3> HIDE DEF bare
    <3>3. /\ registry'.notice = None /\ registry'.private = {}
          /\ \A x \in Prompts : registry'.bound[x] \in {None, registry.bound[x]}
      BY <3>1, <3>2, CancelledCore
    <3>4. \A t \in Dispatches : pc'[t] \notin Waiting
      BY <1>0, <2>2, <2>4, HushedFacts DEF Waiting, Step
    <3>q. QED BY <1>0, <2>1, <2>2, <2>4, <3>3, <3>4, PeaceKept DEF Step
  <2>q. QED BY <1>0, <1>2, <2>2, <2>3, <2>4, RepairMoves
<1>q. QED BY <1>1, <1>2

\* What reaches the front of the lane for an accepted turn is its next event, and the
\* turn is still registered.
LEMMA Fresh ==
    ASSUME Hushed, queue # <<>>, cursor.at # "finish", NEW t \in Dispatches, pc[t] = "accepted", Head1.turn = t
    PROVE  Head1.n = Len(room.said[t]) + 1 /\ registry.bound[t] # None
<1> DEFINE L == Len(room.said[t])
<1>0. /\ room.said[t] \in Seq(Line) /\ L \in Nat /\ t \in Prompts /\ Head1 = queue[1] /\ 1 \in 1..Len(queue)
      /\ Head1.n \in Nat /\ emitted[t] \in Nat
  <2>1. room.said \in [Prompts -> Seq(Line)] /\ emitted \in [Prompts -> Nat] /\ t \in Prompts
    BY DEF Hushed, Held, IInv, Types, Publics
  <2>2. Head1 = queue[1] /\ 1 \in 1..Len(queue) /\ Head1.n \in Nat
    BY HeadType DEF Hushed, Held, IInv
  <2>q. QED BY <2>1, <2>2
<1>1. /\ \A i \in 1..L : room.said[t][i] = [n |-> i, root |-> Root(t)]
      /\ Covered(t, L) /\ (registry.bound[t] = None => L = emitted[t])
  BY DEF Hushed, Peace, Told
<1>2. 1 <= Head1.n /\ Head1.n <= emitted[t]
  BY <1>0 DEF Hushed, Held, Alike, Counted, IInv, Trail, Ordered
<1>3. L < Head1.n
  <2>1. CASE L = 0
    BY <1>0, <1>2, <2>1
  <2>2. CASE L # 0
    <3> PICK l \in 1..L : l = L
      BY <1>0, <2>2
    <3>a. room.said[t][l] = [n |-> l, root |-> Root(t)]
      BY <1>1
    <3>1. L \in 1..L /\ room.said[t][L].n = L /\ Own(t, L)
      BY <3>a DEF Own
    <3>2. room.said[t][L].n < queue[1].n
      BY <1>0, <3>1 DEF Hushed, Held, IInv, Trail, Ahead
    <3>q. QED BY <1>0, <3>1, <3>2
  <2>q. QED BY <2>1, <2>2
<1>4. Head1.n = L + 1
  BY <1>0, <1>1, <1>3, NextOf DEF Hushed, Held
<1>5. registry.bound[t] # None
  BY <1>0, <1>1, <1>2, <1>3
<1>q. QED BY <1>4, <1>5

\* So it is for a turn whose answer is awaited, behind what was kept of it.
LEMMA FreshKept ==
    ASSUME Hushed, queue # <<>>, NEW t \in Dispatches, pc[t] \in Waiting, Head1.turn = t
    PROVE  Head1.n = Len(registry.buffer[t]) + 1
<1> DEFINE L == Len(registry.buffer[t])
<1>0. /\ L \in Nat /\ t \in Prompts /\ Head1 = queue[1] /\ 1 \in 1..Len(queue) /\ Head1.n \in Nat
  <2>1. registry.buffer \in [Prompts -> Seq(Event)] /\ t \in Prompts
    BY DEF Hushed, Held, IInv, Types, WellFormed, Registry
  <2>2. Head1 = queue[1] /\ 1 \in 1..Len(queue) /\ Head1.n \in Nat
    BY HeadType DEF Hushed, Held, IInv
  <2>q. QED BY <2>1, <2>2
<1>1. (\A i \in 1..L : registry.buffer[t][i].n = i) /\ Covered(t, L)
  BY DEF Hushed, Peace, Keeping
<1>2. L < Head1.n
  <2>1. CASE L = 0
    BY <1>0, <2>1 DEF Hushed, Held, Alike, Counted
  <2>2. CASE L # 0
    <3>1. L \in 1..L /\ registry.buffer[t][L].n = L
      BY <1>0, <1>1, <2>2
    <3>2. registry.buffer[t][L].n < queue[1].n
      BY <1>0, <3>1 DEF Hushed, Held, IInv, Trail, Buffered
    <3>q. QED BY <1>0, <3>1, <3>2
  <2>q. QED BY <2>1, <2>2
<1>q. QED BY <1>0, <1>1, <1>2, NextOf DEF Hushed, Held

\* The lane goes on with the same event.
LEMMA LaneStays ==
    ASSUME Hushed, UNCHANGED <<registry, queue, pc, running, emitted, room>>, Calm' PROVE Peace'
<1>1. \A t, k : Covered(t, k)' <=> Covered(t, k)
  BY DEF Covered
<1>q. QED BY <1>1 DEF Hushed, Peace, Told, Keeping, Silent

\* An event that is not allowed is kept if its turn is awaited, and no other is dropped.
LEMMA AllowPeace ==
    ASSUME Hushed, [Next]_vars, LaneClaim \/ LaneAllow PROVE Peace'
<1>0. /\ WellFormed(registry) /\ registry.cancelled = {} /\ registry.cancelledRoot = None
      /\ \A x \in Prompts : registry.cancelledTurn[x] = None
      /\ registry.notice = None /\ registry.private = {} /\ IInv /\ Peace /\ queue # <<>>
      /\ Head1 \in Event /\ Head1.turn \in Prompts /\ queue \in Seq(Event) /\ emitted \in [Prompts -> Nat]
  <2>1. queue # <<>>
    BY DEF LaneClaim, LaneAllow
  <2>q. QED BY <2>1, HushedFacts, HeadType DEF Hushed, Held, IInv, Types
<1>1. CASE LaneClaim
  <2>1. ClaimRoot(registry, Head1) = None /\ Claimed(registry, None) = registry
    BY <1>0 DEF ClaimRoot, Claimed
  <2>2. UNCHANGED <<registry, queue, pc, running, emitted, room>> /\ cursor'.at = "allow"
    BY <1>1, <2>1 DEF LaneClaim, Goto, pi
  <2>3. Calm'
    BY <1>0, <2>2 DEF Calm
  <2>q. QED BY <2>2, <2>3, LaneStays
<1>2. CASE LaneAllow /\ Allows(registry, Head1)
  <2>1. UNCHANGED <<registry, queue, pc, running, emitted, room>> /\ cursor'.at = "private"
    BY <1>2 DEF LaneAllow, Goto, pi
  <2>2. registry.bound[Head1.turn] # None /\ Head1' = Head1
    BY <1>0, <1>2, <2>1 DEF Allows, Head1
  <2>3. Calm'
    BY <1>0, <2>1, <2>2 DEF Calm
  <2>q. QED BY <2>1, <2>3, LaneStays
<1>3. CASE LaneAllow /\ ~Allows(registry, Head1)
  <2>1. /\ registry' = Kept(registry, Head1) /\ UNCHANGED <<pc, running, emitted, room>>
        /\ queue' = Tail(queue) /\ cursor'.at = "ready" /\ cursor.at # "finish"
    BY <1>3 DEF LaneAllow, Drop, Ready, pi
  <2>2. registry.bound[Head1.turn] = None
    BY <1>0, <1>3 DEF Allows
  <2>3. /\ registry'.notice = None /\ registry'.private = {} /\ registry'.bound = registry.bound
        /\ registry'.pending = registry.pending
        /\ \A x \in Prompts : registry'.buffer[x] =
              IF registry.pending # None /\ x = Head1.turn THEN Append(registry.buffer[x], Head1)
              ELSE registry.buffer[x]
    BY <1>0, <2>1, KeptCore DEF Core
  <2>4. Calm'
    BY <2>1, <2>3 DEF Calm
  <2>5. ASSUME NEW t \in Dispatches PROVE Told(t)'
    <3>1. CASE pc[t] = "accepted"
      <4>1. t # Head1.turn
        BY <2>1, <2>2, <1>0, <3>1, Fresh
      <4>2. Told(t) /\ room.said[t] \in Seq(Line)
        BY <1>0 DEF Peace, IInv, Types, Publics
      <4>3. Covered(t, Len(room.said[t]))'
        <5> DEFINE k == Len(room.said[t])
        <5>1. k \in Nat /\ Covered(t, k) /\ k' = k
          BY <2>1, <3>1, <4>2 DEF Told
        <5> HIDE DEF k
        <5>2. Covered(t, k)'
          BY <1>0, <4>1, <5>1, CoveredOn
        <5>q. QED BY <2>1, <5>2 DEF k
      <4>q. QED BY <2>1, <2>3, <4>2, <4>3 DEF Told
    <3>q. QED BY <2>1, <3>1 DEF Told
  <2>6. ASSUME NEW t \in Dispatches, pc[t] \in Waiting PROVE Keeping(t)'
    <3> DEFINE k == Len(registry.buffer[t])
    <3>0. /\ registry.buffer[t] \in Seq(Event) /\ k \in Nat /\ t \in Prompts
          /\ registry.pending = t /\ t # None /\ Covered(t, k)
          /\ \A i \in 1..k : registry.buffer[t][i].n = i
      <4>1. registry.buffer \in [Prompts -> Seq(Event)] /\ t # None /\ t \in Prompts
        BY <1>0 DEF WellFormed, Registry
      <4>q. QED BY <1>0, <2>6, <4>1 DEF Peace, Keeping
    <3>1. CASE t # Head1.turn
      <4>1. registry'.buffer[t] = registry.buffer[t]
        BY <2>3, <3>0, <3>1
      <4> PICK m \in Nat : m = k
        BY <3>0
      <4>2. Covered(t, m) /\ m = Len(registry'.buffer[t])
        BY <3>0, <4>1
      <4>3. Covered(t, m)'
        BY <1>0, <3>0, <3>1, <4>2, CoveredOn
      <4>4. Covered(t, Len(registry.buffer[t]))'
        BY <4>2, <4>3 DEF Covered
      <4>q. QED BY <2>3, <3>0, <4>1, <4>4 DEF Keeping
    <3>2. CASE t = Head1.turn
      <4>1. registry'.buffer[t] = Append(registry.buffer[t], Head1) /\ Head1.n = k + 1
        BY <1>0, <2>3, <2>6, <3>0, <3>2, FreshKept
      <4>2. /\ Len(registry'.buffer[t]) = k + 1
            /\ \A i \in 1..(k + 1) : registry'.buffer[t][i].n = i
        BY <1>0, <3>0, <4>1
      <4> PICK c \in Nat : c = k
        BY <3>0
      <4>3. Covered(t, c + 1) /\ c + 1 = k + 1
        BY <1>0, <3>0, CoveredMore
      <4> PICK m \in Nat : m = k + 1
        BY <3>0
      <4>5. Covered(t, m) /\ Head1.n <= m /\ m = Len(registry'.buffer[t])
        BY <3>0, <4>1, <4>2, <4>3
      <4>6. Covered(t, m)'
        BY <1>0, <2>1, <3>0, <4>5, CoveredPast
      <4>7. Covered(t, Len(registry.buffer[t]))'
        BY <4>5, <4>6 DEF Covered
      <4>q. QED BY <2>3, <3>0, <4>2, <4>7 DEF Keeping
    <3>q. QED BY <3>1, <3>2
  <2>7. \A t \in Dispatches : Keeping(t)' /\ Silent(t)'
    BY <1>0, <2>1, <2>6 DEF Keeping, Silent, Peace
  <2>q. QED BY <2>4, <2>5, <2>7 DEF Peace
<1>q. QED BY <1>1, <1>2, <1>3

\* A private notice takes the event, or else it goes on to its Root.
LEMMA RoutePeace ==
    ASSUME Hushed, [Next]_vars, LanePrivate \/ LaneResolve PROVE Peace'
<1>0. /\ WellFormed(registry) /\ registry.cancelled = {} /\ registry.cancelledRoot = None
      /\ registry.notice = None /\ registry.private = {} /\ IInv /\ Peace /\ queue # <<>>
      /\ Head1 \in Event /\ Head1.turn \in Prompts /\ cursor.claimed = FALSE
      /\ registry.bound[Head1.turn] = Root(Head1.turn) /\ registry.bound[Head1.turn] # None
  <2>1. queue # <<>> /\ registry.bound[Head1.turn] # None
    BY DEF LanePrivate, LaneResolve, Hushed, Held, IInv, Trail, Pointed, Peace, Calm
  <2>2. cursor.claimed = FALSE
    <3>1. cursor.claimed \in BOOLEAN /\ registry.cancelled = {} /\ registry.claimed \subseteq registry.cancelled
      BY HushedFacts DEF Hushed, Held, IInv, Types, Cursor, WellFormed
    <3>q. QED BY <3>1 DEF Hushed, Held, IInv, Trail, Pointed
  <2>q. QED BY <2>1, <2>2, HushedFacts, HeadType DEF Hushed, Held, IInv, WellFormed
<1>1. CASE LanePrivate
  <2>1. ~Private(registry, Head1)
    BY <1>0 DEF Private
  <2>2. UNCHANGED <<registry, queue, pc, running, emitted, room>> /\ cursor'.at = "resolve"
    BY <1>0, <1>1, <2>1 DEF LanePrivate, Goto, pi
  <2>3. Calm'
    BY <1>0, <2>2 DEF Calm, Head1
  <2>q. QED BY <2>2, <2>3, LaneStays
<1>2. CASE LaneResolve
  <2>1. /\ Registered(registry, Head1) = Root(Head1.turn) /\ ~IsCancelled(registry, Root(Head1.turn))
        /\ Resolved(registry, Head1) = registry
    BY <1>0 DEF Registered, IsCancelled, Resolved
  <2>2. /\ UNCHANGED <<registry, queue, pc, running, emitted, room>>
        /\ cursor'.at = "publish" /\ cursor'.root = Root(Head1.turn)
    BY <1>2, <2>1 DEF LaneResolve, Goto, pi
  <2>3. Calm'
    BY <1>0, <2>2 DEF Calm, Head1
  <2>q. QED BY <2>2, <2>3, LaneStays
<1>q. QED BY <1>1, <1>2

\* The front of the lane becomes the next public line of its turn.
LEMMA PublishPeace == ASSUME Hushed, [Next]_vars, LanePublish PROVE Peace'
<1> DEFINE h == Head1.turn
           line == [n |-> Head1.n, root |-> Root(h)]
<1>0. /\ WellFormed(registry) /\ room \in Publics /\ registry.notice = None /\ registry.private = {} /\ IInv
      /\ Peace /\ queue # <<>> /\ Head1 \in Event /\ h \in Dispatches /\ h \in Prompts /\ pc[h] = "accepted"
      /\ registry.bound[h] # None /\ cursor.claimed = FALSE /\ cursor.root = Root(h) /\ Root(h) \in Roots
      /\ emitted \in [Prompts -> Nat] /\ cursor.at = "publish" /\ None \notin Prompts \cup Roots
  <2>1. queue # <<>> /\ registry.bound[h] # None /\ cursor.root = Root(h) /\ cursor.at = "publish"
    BY DEF LanePublish, Hushed, Held, IInv, Trail, Pointed, Peace, Calm
  <2>2. cursor.claimed = FALSE
    <3>1. cursor.claimed \in BOOLEAN /\ registry.cancelled = {} /\ registry.claimed \subseteq registry.cancelled
      BY HushedFacts DEF Hushed, Held, IInv, Types, Cursor, WellFormed
    <3>q. QED BY <3>1 DEF Hushed, Held, IInv, Trail, Pointed
  <2>3. Head1 \in Event /\ h \in Prompts
    BY <2>1, HeadType DEF Hushed, Held, IInv
  <2>4. h \in Dispatches /\ pc[h] = "accepted" /\ Root(h) \in Roots
    BY <2>1, <2>3, HushedFacts, RootType DEF Hushed, Held, IInv, Trail, Binds
  <2>q. QED BY <2>1, <2>2, <2>3, <2>4, HushedFacts DEF Hushed, Held, IInv, Types
<1>1. UNCHANGED <<registry, pc, running, emitted>> /\ room' = WithLine(room, Head1, Root(h))
  BY <1>0 DEF LanePublish, pi, Published, WithLine
<1>2. \/ queue' = Tail(queue) /\ cursor'.at = "ready"
      \/ UNCHANGED <<queue, Head1>> /\ cursor'.at = "finish" /\ cursor'.root = Root(h)
  BY <1>0 DEF LanePublish, Goto, Drop, Ready, Head1
<1>3. line \in Line /\ line.n = Head1.n
  BY <1>0 DEF Line, Event
<1>4. /\ room'.said[h] = Append(room.said[h], line)
      /\ \A x \in Prompts : x # h => room'.said[x] = room.said[x]
  <2>1. room'.said = Extended(room.said, Head1, Root(h))
    BY <1>0, <1>1, LineAdds
  <2>q. QED BY <1>0, <2>1 DEF Extended, Publics
<1> HIDE DEF line
<1> PICK c \in Dispatches : c = h
  BY <1>0
<1> PICK L \in Nat : L = Len(room.said[h])
  BY <1>0 DEF Publics
<1>5. Head1.n = L + 1 /\ Covered(h, L) /\ \A i \in 1..L : room.said[h][i] = [n |-> i, root |-> Root(h)]
  BY <1>0, Fresh DEF Peace, Told
<1>6. /\ Len(room'.said[h]) = L + 1
      /\ \A i \in 1..(L + 1) : room'.said[h][i] = [n |-> i, root |-> Root(h)]
  <2>1. room.said[h] \in Seq(Line)
    BY <1>0 DEF Publics
  <2>2. /\ Len(room'.said[h]) = L + 1 /\ room'.said[h][L + 1] = line
        /\ \A i \in 1..L : room'.said[h][i] = room.said[h][i]
    BY <1>3, <1>4, <2>1
  <2>3. line = [n |-> L + 1, root |-> Root(h)]
    BY <1>5 DEF line
  <2>4. \A i \in 1..(L + 1) : i \in 1..L \/ i = L + 1
    OBVIOUS
  <2>q. QED BY <1>5, <2>2, <2>3, <2>4
<1>7. Covered(c, Len(room.said[c]))'
  <2> PICK m \in Nat : m = L + 1
    OBVIOUS
  <2>1. Covered(c, m) /\ c \in Prompts
    BY <1>0, <1>5, CoveredMore
  <2>2. Covered(c, m)'
    <3>1. CASE queue' = Tail(queue)
      BY <1>0, <1>1, <1>5, <2>1, <3>1, CoveredPast
    <3>2. CASE queue' = queue
      BY <1>1, <2>1, <3>2 DEF Covered
    <3>q. QED BY <1>2, <3>1, <3>2
  <2>q. QED BY <1>6, <2>2 DEF Covered
<1>8. Calm'
  <2>1. CASE queue' = Tail(queue) /\ cursor'.at = "ready"
    BY <1>0, <1>1, <2>1 DEF Calm
  <2>2. CASE UNCHANGED <<queue, Head1>> /\ cursor'.at = "finish" /\ cursor'.root = Root(h)
    BY <1>0, <1>1, <1>5, <1>6, <2>2 DEF Calm
  <2>q. QED BY <1>2, <2>1, <2>2
<1>9. Told(c)'
  BY <1>0, <1>1, <1>6, <1>7 DEF Told
<1>10. ASSUME NEW t \in Dispatches, t # c, pc[t] = "accepted" PROVE Told(t)'
  <2> PICK m \in Nat : m = Len(room.said[t])
    BY <1>0 DEF Publics
  <2>1. Told(t) /\ Covered(t, m) /\ room'.said[t] = room.said[t]
    BY <1>0, <1>4, <1>10 DEF Peace, Told
  <2>2. Covered(t, m)'
    BY <1>0, <1>10, <2>1, CoveredOn
  <2>3. Covered(t, Len(room.said[t]))'
    BY <2>1, <2>2 DEF Covered
  <2>q. QED BY <1>1, <1>10, <2>1, <2>3 DEF Told
<1>11. \A t \in Dispatches : Told(t)'
  BY <1>1, <1>9, <1>10 DEF Told
<1>12. \A t \in Dispatches : Keeping(t)' /\ Silent(t)'
  <2>1. \A t \in Dispatches : pc[t] \notin Waiting
    BY <1>0, HushedFacts DEF Free
  <2>q. QED BY <1>0, <1>1, <1>4, <2>1 DEF Peace, Keeping, Silent
<1>q. QED BY <1>8, <1>11, <1>12 DEF Peace

\* The last event of a turn ends it with every line public.
LEMMA FinishPeace == ASSUME Hushed, [Next]_vars, LaneFinish PROVE Peace'
<1> DEFINE h == Head1.turn
<1>0. /\ WellFormed(registry) /\ room \in Publics /\ registry.notice = None /\ registry.private = {} /\ IInv
      /\ Peace /\ queue # <<>> /\ Head1 \in Event /\ Head1 = queue[1] /\ 1 \in 1..Len(queue)
      /\ h \in Dispatches /\ h \in Prompts /\ pc[h] = "accepted" /\ registry.bound[h] # None
      /\ Terminal(Head1) /\ Len(room.said[h]) = Head1.n
      /\ emitted \in [Prompts -> Nat] /\ None \notin Prompts \cup Roots
  <2>1. /\ queue # <<>> /\ registry.bound[h] # None /\ cursor.at = "finish" /\ Len(room.said[h]) = Head1.n
        /\ Terminal(Head1)
    BY DEF LaneFinish, Hushed, Held, IInv, Trail, Pointed, Peace, Calm, Alike, Closing
  <2>2. Head1 \in Event /\ h \in Prompts /\ Head1 = queue[1] /\ 1 \in 1..Len(queue)
    BY <2>1, HeadType DEF Hushed, Held, IInv
  <2>3. h \in Dispatches /\ pc[h] = "accepted"
    BY <2>1, <2>2, HushedFacts DEF Hushed, Held, IInv, Trail, Binds
  <2>q. QED BY <2>1, <2>2, <2>3, HushedFacts DEF Hushed, Held, IInv, Types
<1>1. /\ registry' = Finished(registry, h, cursor.root) /\ UNCHANGED <<pc, running, emitted, room>>
      /\ queue' = Tail(queue) /\ cursor'.at = "ready"
  BY DEF LaneFinish, Drop, Ready, pi
<1>2. /\ registry'.notice = None /\ registry'.private = {}
      /\ \A x \in Prompts : registry'.bound[x] = IF x = h THEN None ELSE registry.bound[x]
  BY <1>0, <1>1, FinishedCore
<1>3. running # h /\ Head1.n = emitted[h]
  BY <1>0 DEF Hushed, Held, Alike, Counted, Ended
<1>4. Calm'
  BY <1>1, <1>2 DEF Calm
<1>5. ASSUME NEW t \in Dispatches, pc[t] = "accepted" PROVE Told(t)'
  <2> PICK m \in Nat : m = Len(room.said[t])
    BY <1>0 DEF Publics
  <2>1. Told(t) /\ Covered(t, m)
    BY <1>0, <1>5 DEF Peace, Told
  <2>2. Covered(t, m)'
    <3>1. CASE t = h
      BY <1>0, <1>1, <2>1, <3>1, CoveredPast DEF Event
    <3>2. CASE t # h
      BY <1>0, <2>1, <3>2, CoveredOn
    <3>q. QED BY <3>1, <3>2
  <2>3. Covered(t, Len(room.said[t]))'
    BY <1>1, <2>2 DEF Covered
  <2>4. registry'.bound[t] = None => running # t /\ Len(room.said[t]) = emitted[t]
    BY <1>0, <1>2, <1>3, <1>5, <2>1 DEF Told
  <2>q. QED BY <1>1, <1>5, <2>1, <2>3, <2>4 DEF Told
<1>6. \A t \in Dispatches : Told(t)'
  BY <1>1, <1>5 DEF Told
<1>7. \A t \in Dispatches : Keeping(t)' /\ Silent(t)'
  <2>1. \A t \in Dispatches : pc[t] \notin Waiting
    BY <1>0, HushedFacts DEF Free
  <2>q. QED BY <1>0, <1>1, <2>1 DEF Peace, Keeping, Silent
<1>q. QED BY <1>4, <1>6, <1>7 DEF Peace

\* Pi publishes an event of the turn that runs.
LEMMA EmitPeace == ASSUME Hushed, [Next]_vars, Emit \/ EndTurn PROVE Peace'
<1>0. /\ room \in Publics /\ IInv /\ Peace /\ emitted \in [Prompts -> Nat] /\ queue \in Seq(Event)
      /\ running \in Prompts \cup {None} /\ None \notin Prompts /\ (cursor.at # "ready" => queue # <<>>)
  BY DEF Hushed, Held, IInv, Types, Trail, Pointed
<1>1. /\ running # None /\ emitted' = [emitted EXCEPT ![running] = emitted[running] + 1]
      /\ running' \in {running, None} /\ UNCHANGED <<pc, registry, cursor, room>>
      /\ \E e : queue' = Append(queue, e)
  BY DEF Emit, EndTurn
<1>2. queue # <<>> => Head1' = Head1
  BY <1>0, <1>1 DEF Head1
<1>3. ~(queue # <<>> /\ queue' = Tail(queue))
  BY <1>0, <1>1
<1>4. Calm'
  BY <1>0, <1>1, <1>2 DEF Peace, Calm
<1>5. ASSUME NEW t \in Dispatches, pc[t] = "accepted" PROVE Told(t)'
  <2> PICK m \in Nat : m = Len(room.said[t])
    BY <1>0 DEF Publics
  <2>1. Told(t) /\ Covered(t, m)
    BY <1>0, <1>5 DEF Peace, Told
  <2>2. Covered(t, m)'
    BY <1>0, <1>3, <2>1, CoveredOn
  <2>3. Covered(t, Len(room.said[t]))'
    BY <1>1, <2>2 DEF Covered
  <2>4. registry'.bound[t] = None => running' # t /\ Len(room.said[t]) = emitted'[t]
    BY <1>0, <1>1, <1>5, <2>1 DEF Told
  <2>q. QED BY <1>1, <1>5, <2>1, <2>3, <2>4 DEF Told
<1>6. \A t \in Dispatches : Told(t)'
  BY <1>1, <1>5 DEF Told
<1>7. ASSUME NEW t \in Dispatches, pc[t] \in Waiting PROVE Keeping(t)'
  <2> PICK m \in Nat : m = Len(registry.buffer[t])
    BY <1>0 DEF IInv, Types, WellFormed, Registry
  <2>1. Keeping(t) /\ Covered(t, m)
    BY <1>0, <1>7 DEF Peace, Keeping
  <2>2. Covered(t, m)'
    BY <1>0, <1>3, <2>1, CoveredOn
  <2>3. Covered(t, Len(registry.buffer[t]))'
    BY <1>1, <2>2 DEF Covered
  <2>q. QED BY <1>1, <1>7, <2>1, <2>3 DEF Keeping
<1>8. \A t \in Dispatches : Keeping(t)' /\ Silent(t)'
  BY <1>0, <1>1, <1>7 DEF Peace, Keeping, Silent
<1>q. QED BY <1>4, <1>6, <1>8 DEF Peace

\* Every step of a quiet Session that leaves it quiet keeps the peace.
LEMMA PeaceStep == ASSUME Hushed, Quiet', [Next]_vars PROVE Peace'
<1>0. pc \in [Prompts -> Labels] /\ registry.cancelled = {} /\ registry'.cancelled = {}
  BY HushedFacts DEF Quiet, Undisturbed
<1>1. CASE Lane
  BY <1>1, AllowPeace, RoutePeace, PublishPeace, FinishPeace DEF Lane
<1>2. CASE Emit \/ EndTurn
  BY <1>2, EmitPeace
<1>3. CASE UNCHANGED vars
  <2>1. UNCHANGED <<registry, queue, cursor, pc, running, emitted, room>>
    BY <1>3 DEF vars, pi, lane
  <2>2. Calm'
    BY <2>1 DEF Hushed, Peace, Calm, Head1
  <2>q. QED BY <2>1, <2>2, LaneStays
<1>4. ASSUME NEW p \in Prompts, Starts(p) \/ Thread(p) PROVE Peace'
  <2>1. ~DirectHold(p) /\ ~DirectRelease(p)
    BY <1>0 DEF DirectHold, DirectRelease, Quiet, Alone, Step
  <2>2. ~BeginPrivate(p) /\ ~EndPrivate(p)
    BY <1>0 DEF BeginPrivate, EndPrivate, Quiet, Undisturbed, Step, Hushed
  <2>q. QED BY <1>4, <2>1, <2>2, StartsPeace, DispatchPeace, PiPeace, AcceptPeace DEF Starts, Thread, Dispatching
<1>5. ASSUME NEW r \in Roots, StopRecord(r) \/ StopGoesOn(r) PROVE FALSE
  <2>1. ~StopRecord(r)
    <3> SUFFICES ASSUME StopRecord(r) PROVE FALSE
      OBVIOUS
    <3>1. registry \in Registry
      BY DEF Hushed, Held, IInv, Types, WellFormed
    <3>2. registry' = [registry EXCEPT !.cancelled = registry.cancelled \cup {r}]
      BY DEF StopRecord
    <3>3. registry'.cancelled = registry.cancelled \cup {r}
      BY <3>1, <3>2 DEF Registry
    <3>q. QED BY <1>0, <3>3
  <2>2. ~StopGoesOn(r)
    BY <1>0 DEF StopGoesOn, StopAbort, StopClose, StopGivesUp, Hushed, Held, IInv, Stops
  <2>q. QED BY <1>5, <2>1, <2>2
<1>q. QED BY <1>1, <1>2, <1>3, <1>4, <1>5 DEF Next

\* Of an accepted dispatch all of Pi's events are public once the lane is through, as
\* long as nobody stops a Root of the Session, sends it a private notice or writes to it:
\* accept() with the events that allows_room_event kept for it.
THEOREM NothingIsLost == Spec => [](Alone => NothingLost)
<1> DEFINE Inv == IInv /\ Alike /\ (Alone => Guard) /\ \A t \in Dispatches : Quiet => Peace
<1>1. Init => Inv
  <2> SUFFICES ASSUME Init PROVE Inv
    OBVIOUS
  <2>1. IInv /\ Alike /\ (Alone => Guard)
    BY InitGuarded
  <2>2. /\ registry.notice = None /\ registry.private = {} /\ cursor.at = "ready" /\ pc = [p \in Prompts |-> "idle"]
        /\ room.said = [p \in Prompts |-> <<>>]
    BY DEF Init, Ready
  <2>3. Peace
    BY <2>2 DEF Peace, Calm, Told, Keeping, Silent, Waiting
  <2>q. QED BY <2>1, <2>3
<1>2. Inv /\ [Next]_vars => Inv'
  <2> SUFFICES ASSUME Inv, [Next]_vars PROVE Inv'
    OBVIOUS
  <2>1. IInv' /\ Alike' /\ (Alone' => Guard')
    BY GuardedStep
  <2>2. ASSUME NEW t \in Dispatches, Quiet' PROVE Peace'
    <3>1. Quiet
      BY <2>1, <2>2, QuietBefore
    <3>2. Hushed
      BY <2>1, <2>2, <3>1 DEF Hushed, Held, Quiet
    <3>q. QED BY <2>2, <3>2, PeaceStep
  <2>q. QED BY <2>1, <2>2
<1>3. Inv => (Alone => NothingLost)
  <2> SUFFICES ASSUME Inv, Alone, Undisturbed, NEW t \in Dispatches, pc[t] = "accepted", queue = <<>>
               PROVE  room.said[t] = [i \in 1..emitted[t] |-> [n |-> i, root |-> Root(t)]]
    BY DEF NothingLost, Complete
  <2>1. Peace /\ IInv
    BY DEF Quiet
  <2>2. /\ room.said[t] \in Seq(Line) /\ emitted[t] \in Nat /\ t \in Prompts
    BY <2>1 DEF IInv, Types, Publics
  <2>3. /\ \A i \in 1..Len(room.said[t]) : room.said[t][i] = [n |-> i, root |-> Root(t)]
        /\ Covered(t, Len(room.said[t]))
    BY <2>1 DEF Peace, Told
  <2>4. emitted[t] <= Len(room.said[t])
    BY <2>2, <2>3 DEF Covered
  <2>5. Len(room.said[t]) <= emitted[t]
    <3>1. CASE Len(room.said[t]) = 0
      BY <2>2, <3>1
    <3>2. CASE Len(room.said[t]) # 0
      <4> PICK l \in 1..Len(room.said[t]) : l = Len(room.said[t])
        BY <2>2, <3>2
      <4>0. room.said[t][l] = [n |-> l, root |-> Root(t)]
        BY <2>3
      <4>1. room.said[t][l].n = l
        BY <4>0
      <4>2. room.said[t][l].n <= emitted[t]
        BY <2>1, <2>2 DEF IInv, Trail, Spoken
      <4>q. QED BY <4>1, <4>2
    <3>q. QED BY <3>1, <3>2
  <2>6. Len(room.said[t]) = emitted[t]
    BY <2>2, <2>4, <2>5
  <2>q. QED BY <2>2, <2>3, <2>6
<1>q. QED BY <1>1, <1>2, <1>3, PTL DEF Spec
=============================================================================
