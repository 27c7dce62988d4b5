------------------------- MODULE ActionQueueProofs -------------------------
(***************************************************************************)
(* Theorems about ActionQueue, for every set of scriptables, every script, *)
(* order and cutscene, every game's rules and every bound.                 *)
(*                                                                         *)
(* The lemmas follow the layers of the model: an operator on the plan of   *)
(* one scriptable, then one on the world, keeps plans well formed and      *)
(* fresh; the theorems then look at one action of Next at a time.          *)
(***************************************************************************)
EXTENDS ActionQueue, SequenceTheorems, TLAPS

\* The kinds of action that are still running when ProcessActions returns.
Timed == {"wait", "spell", "flee", "escape"}

\* A well-formed plan whose next action, if none is running, starts afresh,
\* and whose running action, if there is one, takes time.
Good(r) == /\ r \in Scriptable
           /\ r.current = None => r.state = 0 /\ r.ticks = 0
           /\ r.current # None => r.current.kind \in Timed

World == [Scriptables -> Scriptable]
GoodWorld(w) == w \in World /\ \A s \in Scriptables : Good(w[s])

\* All is well but for s, which is about to execute an action.
GoodBut(w, s) == w \in World /\ \A t \in Scriptables \ {s} : Good(w[t])

Facts == /\ Duration \in Nat \ {0} /\ MaxTicks \in Nat \ {0}
         /\ None \notin Action /\ None \notin Scriptables

LEMMA ConstantFacts == Facts
BY DurationAssumption, MaxTicksAssumption, NoneAssumption,
   ScriptablesAssumption DEF Facts

--------------------------------------------------------------------------
(* One plan *)

\* ReleaseCurrentAction leaves a fresh plan that runs nothing.
LEMMA ReleaseGood ==
  ASSUME NEW r \in Scriptable
  PROVE  /\ Good(Release(r)) /\ Release(r).current = None
         /\ Release(r).queue = r.queue
BY ConstantFacts DEF Good, Release, Scriptable, Facts

\* What ClearActions spares is a queue of actions.
LEMMA SurvivorsType ==
  ASSUME NEW r \in Scriptable, NEW skip \in Nat
  PROVE  Survivors(r, skip) \in Seq(Action)
<1>1. CASE \E i \in DOMAIN r.queue : SparedFrom(r, skip, i)
  <2> DEFINE i == CHOOSE j \in DOMAIN r.queue : SparedFrom(r, skip, j)
  <2>1. i \in DOMAIN r.queue
    BY <1>1
  <2>2. r.queue \in Seq(Action)
    BY DEF Scriptable
  <2>3. i \in 1..Len(r.queue)
    BY <2>1, <2>2
  <2>4. SubSeq(r.queue, i, Len(r.queue)) \in Seq(Action)
    <3> HIDE DEF i
    <3> QED  BY <2>2, <2>3
  <2> QED
    BY <1>1, <2>4 DEF Survivors
<1>2. CASE ~\E i \in DOMAIN r.queue : SparedFrom(r, skip, i)
  BY <1>2 DEF Survivors
<1> QED
  BY <1>1, <1>2

\* A change of the queue changes the queue only.
LEMMA NewQueue ==
  ASSUME NEW r \in Scriptable, NEW q \in Seq(Action)
  PROVE  LET new == [r EXCEPT !.queue = q]
         IN  /\ new \in Scriptable /\ new.queue = q
             /\ new.current = r.current /\ new.state = r.state
             /\ new.interruptible = r.interruptible
             /\ Good(r) => Good(new)
BY DEF Good, Scriptable

\* ClearActions releases the running action or leaves it as it is.
LEMMA ClearActionsGood ==
  ASSUME NEW s \in Scriptables, NEW r \in Scriptable, NEW skip \in Nat
  PROVE  LET new == ClearActions(s, r, skip)
         IN  /\ new \in Scriptable
             /\ new.current = None \/ new.current = r.current
             /\ Good(r) => Good(new)
<1> DEFINE left == [r EXCEPT !.queue = Survivors(r, skip)]
           done(q) == [Release(q) EXCEPT !.wait = 0, !.noint = s \notin Actors]
<1>1. left \in Scriptable /\ left.current = r.current /\ (Good(r) => Good(left))
  BY SurvivorsType, NewQueue
<1>2. ASSUME NEW q \in Scriptable
      PROVE  Good(done(q)) /\ done(q).current = None
  BY <1>2, ConstantFacts DEF Good, Release, Scriptable, Facts
<1>3. ClearActions(s, r, skip) \in {r, left, done(r), done(left)}
  BY DEF ClearActions
<1>4. \A q : Good(q) => q \in Scriptable
  BY DEF Good
<1> HIDE DEF left, done
<1>5. Good(done(r)) /\ Good(done(left))
      /\ done(r).current = None /\ done(left).current = None
  BY <1>1, <1>2
<1> QED
  BY <1>1, <1>3, <1>4, <1>5

LEMMA StopGood ==
  ASSUME NEW s \in Scriptables, NEW r, Good(r)
  PROVE  Good(Stop(s, r)) /\ Stop(s, r).current = None
<1>1. r \in Scriptable
  BY DEF Good
<1>2. [r EXCEPT !.queue = Survivors(r, 0)] \in Scriptable
  BY <1>1, SurvivorsType, NewQueue
<1>3. ASSUME NEW q \in Scriptable
      PROVE  [Release(q) EXCEPT !.wait = 0, !.noint = s \notin Actors].current
               = None
  BY <1>3 DEF Release, Scriptable
<1>4. Stop(s, r).current = None
  BY <1>1, <1>2, <1>3 DEF Stop, ClearActions, Saved
<1> QED
  BY <1>1, <1>4, ClearActionsGood DEF Stop

LEMMA QueuedGood ==
  ASSUME NEW r \in Scriptable, NEW a \in Action
  PROVE  /\ Queued(r, a) \in Scriptable /\ QueuedInFront(r, a) \in Scriptable
         /\ Queued(r, a).current = r.current
         /\ QueuedInFront(r, a).current = r.current
         /\ Good(r) => Good(Queued(r, a)) /\ Good(QueuedInFront(r, a))
<1>1. r.queue \in Seq(Action)
  BY DEF Scriptable
<1>2. Append(r.queue, a) \in Seq(Action)
  BY <1>1
<1>3. <<a>> \o r.queue \in Seq(Action)
  BY <1>1
<1> QED
  BY <1>2, <1>3, NewQueue DEF Queued, QueuedInFront

LEMMA SetInterruptGood ==
  ASSUME NEW r \in Scriptable, NEW a \in Action
  PROVE  Good(SetInterrupt(r, a)) /\ SetInterrupt(r, a).current = None
BY ConstantFacts DEF Good, SetInterrupt, Release, Scriptable, Facts

\* Whoever runs nothing goes on running nothing when it is given an action.
LEMMA GivenGood ==
  ASSUME NEW r, Good(r), NEW a \in Action
  PROVE  /\ Good(Given(r, a))
         /\ r.current = None => Given(r, a).current = None
<1>1. r \in Scriptable
  BY DEF Good
<1> QED
  BY <1>1, QueuedGood, SetInterruptGood DEF Given

LEMMA OverriddenGood ==
  ASSUME NEW t \in Scriptables, NEW r, Good(r), NEW a \in Action
  PROVE  /\ Good(Overridden(t, r, a))
         /\ r.current = None => Overridden(t, r, a).current = None
<1>1. Copied(a) \in Action
  BY DEF Copied, Action
<1>2. r \in Scriptable
  BY DEF Good
<1>3. /\ Good(MadeRoom(t, r))
      /\ r.current = None => MadeRoom(t, r).current = None
  BY <1>2, ClearActionsGood, ReleaseGood DEF MadeRoom
<1>4. /\ Good(Given(MadeRoom(t, r), Copied(a)))
      /\ r.current = None => Given(MadeRoom(t, r), Copied(a)).current = None
  BY <1>1, <1>3, GivenGood
<1>5. ASSUME NEW g, Good(g)
      PROVE  LET new == [g EXCEPT !.interruptible = FALSE]
             IN  Good(new) /\ new.current = g.current
  BY <1>5 DEF Good, Scriptable
<1> QED
  BY <1>4, <1>5 DEF Overridden

--------------------------------------------------------------------------
(* The action functions *)

\* A countdown ends its action or goes on with it.
LEMMA CountedGood ==
  ASSUME NEW r \in Scriptable, r.current # None, r.current.kind \in Timed
  PROVE  Good(Counted(r))
<1>1. CASE r.state = 1
  BY <1>1, ReleaseGood DEF Counted
<1>2. CASE r.state # 1
  BY <1>2, ConstantFacts DEF Counted, Good, Scriptable, Facts
<1> QED
  BY <1>1, <1>2

LEMMA CastGood ==
  ASSUME NEW r \in Scriptable, r.current # None, r.current.kind \in Timed,
         NEW how
  PROVE  Good(Cast(r, how))
<1> DEFINE casting == [r EXCEPT !.interruptible = FALSE]
<1>1. casting \in Scriptable /\ casting.current = r.current
  BY DEF Scriptable
<1>2. Good(Counted(casting))
  <2> HIDE DEF casting
  <2> QED  BY <1>1, CountedGood
<1>3. Good(r)
  BY DEF Good
<1> QED
  BY <1>2, <1>3 DEF Cast

LEMMA FleeGood ==
  ASSUME NEW s \in Scriptables, NEW r \in Scriptable, r.current # None,
         r.current.kind \in Timed
  PROVE  Good(Flee(s, r))
<1>1. ASSUME NEW q, Good(q), NEW b \in BOOLEAN
      PROVE  Good([q EXCEPT !.noint = b])
  BY <1>1 DEF Good, Scriptable
<1>2. Good(Counted(r)) /\ Good(Release(r))
  BY CountedGood, ReleaseGood
<1>3. Counted(r).noint \in BOOLEAN
  BY <1>2 DEF Good, Scriptable
<1>4. (r.state = 0 \/ (r.state # 1 /\ Counted(r).noint)) \in BOOLEAN
  OBVIOUS
<1> QED
  BY <1>1, <1>2, <1>4 DEF Flee

LEMMA FaceGood ==
  ASSUME NEW s \in Scriptables, NEW r \in Scriptable
  PROVE  Good(Face(s, r))
BY ConstantFacts DEF Face, Good, Release, Scriptable, Facts

LEMMA EscapeGood ==
  ASSUME NEW r \in Scriptable, r.current # None, r.current.kind \in Timed,
         NEW how
  PROVE  Good(Escape(r, how))
<1>1. LastStep \in Action
  BY DEF LastStep, Action, Kinds
<1>2. [r EXCEPT !.wait = Duration] \in Scriptable
  BY ConstantFacts DEF Scriptable, Facts
<1>3. Good(Release([r EXCEPT !.wait = Duration]))
  BY <1>2, ReleaseGood
<1>4. Good(QueuedInFront(Release([r EXCEPT !.wait = Duration]), LastStep))
  BY <1>1, <1>3, QueuedGood DEF Good
<1>5. Good([r EXCEPT !.interruptible = FALSE])
  BY DEF Good, Scriptable
<1> QED
  BY <1>4, <1>5 DEF Escape

LEMMA ClickGood ==
  ASSUME NEW r \in Scriptable, NEW a \in Action, NEW how
  PROVE  Good(Click(r, a, how))
<1>1. QueuedInFront(r, a) \in Scriptable
  BY QueuedGood
<1>2. [QueuedInFront(r, a) EXCEPT !.wait = 1] \in Scriptable
  BY <1>1 DEF Scriptable
<1> QED
  BY <1>2, ReleaseGood DEF Click

\* Whatever the action function does, it leaves a good plan behind.
LEMMA PerformedGood ==
  ASSUME NEW s \in Scriptables, NEW r \in Scriptable, NEW a \in Action,
         r.current = a \/ Instant(a), NEW how
  PROVE  /\ Good(Performed(s, r, a, how))
         /\ Instant(a) => Performed(s, r, a, how).current = None
<1>1. CASE how = "fails"
  BY <1>1, ReleaseGood DEF Performed
<1>2. CASE how # "fails" /\ Instant(a)
  BY <1>2, SetInterruptGood DEF Performed, Instant
<1>3. CASE how # "fails" /\ ~Instant(a) /\ a.kind \in Timed
  <2>1. r.current # None /\ r.current.kind \in Timed
    BY <1>3, ConstantFacts DEF Facts
  <2>2. Performed(s, r, a, how) \in
          {Counted(r), Cast(r, how), Flee(s, r), Escape(r, how)}
    BY <1>3 DEF Performed, Timed
  <2> QED
    BY <1>3, <2>1, <2>2, CountedGood, CastGood, FleeGood, EscapeGood
<1>4. CASE how # "fails" /\ ~Instant(a) /\ a.kind \notin Timed
  <2>1. Performed(s, r, a, how) \in {Face(s, r), Click(r, a, how), Release(r)}
    BY <1>4 DEF Performed, Timed
  <2> QED
    BY <1>4, <2>1, FaceGood, ClickGood, ReleaseGood
<1> QED
  BY <1>1, <1>2, <1>3, <1>4

--------------------------------------------------------------------------
(* The plans of all *)

LEMMA WorldUpdate ==
  ASSUME NEW s \in Scriptables, NEW w, GoodBut(w, s), NEW r, Good(r)
  PROVE  GoodWorld([w EXCEPT ![s] = r]) /\ [w EXCEPT ![s] = r][s] = r
BY DEF GoodWorld, GoodBut, World, Good

LEMMA GoodIsGoodBut ==
  ASSUME NEW s \in Scriptables, NEW w, GoodWorld(w)
  PROVE  GoodBut(w, s) /\ Good(w[s]) /\ w[s] \in Scriptable
BY DEF GoodWorld, GoodBut, World

\* An action handed over frees its sender and leaves the plan of its new
\* owner good, also when that is the sender itself.
LEMMA HandedOverGood ==
  ASSUME NEW s \in Scriptables, NEW w, GoodBut(w, s), NEW a \in Action,
         a.on # None, NEW how
  PROVE  LET new == HandedOver(w, s, a, how)
         IN  GoodWorld(new) /\ new[s].current = None
<1> DEFINE freed == [w EXCEPT ![s] = Release(@)]
           given == [freed EXCEPT ![a.on] = Overridden(a.on, @, a)]
<1>1. a.on \in Scriptables
  BY DEF Action
<1>2. Good(Release(w[s])) /\ Release(w[s]).current = None
  BY ReleaseGood DEF GoodBut, World
<1>3. GoodWorld(freed) /\ freed[s].current = None
  BY <1>2, WorldUpdate
<1>4. /\ Good(Overridden(a.on, freed[a.on], a))
      /\ a.on = s => Overridden(a.on, freed[a.on], a).current = None
  <2> HIDE DEF freed
  <2> QED  BY <1>1, <1>3, OverriddenGood DEF GoodWorld
<1>5. GoodWorld(given) /\ given[s].current = None
  <2> HIDE DEF freed
  <2>1. freed \in World
    BY <1>3 DEF GoodWorld
  <2> QED
    BY <1>1, <1>3, <1>4, <2>1, WorldUpdate, GoodIsGoodBut DEF World
<1> QED
  BY <1>3, <1>5 DEF HandedOver

LEMMA AddedGood ==
  ASSUME NEW s \in Scriptables, NEW w, GoodWorld(w), NEW a \in Action, NEW how
  PROVE  LET new == Added(w, s, a, how)
         IN  GoodWorld(new) /\ (w[s].current = None => new[s].current = None)
<1>1. GoodBut(w, s) /\ Good(w[s]) /\ w[s] \in Scriptable
  BY GoodIsGoodBut
<1>2. CASE ~RunsAtOnce(w[s], a)
  BY <1>1, <1>2, QueuedGood, WorldUpdate DEF Added
<1>3. CASE RunsAtOnce(w[s], a) /\ a.on # None
  BY <1>1, <1>3, HandedOverGood DEF Added
<1>4. CASE RunsAtOnce(w[s], a) /\ a.on = None
  BY <1>1, <1>4, ReleaseGood, SetInterruptGood, WorldUpdate DEF Added
<1> QED
  BY <1>2, <1>3, <1>4

\* ClearAllActions and BeginDialog apply ClearActions to some of the plans.
LEMMA ClearedGood ==
  ASSUME NEW s \in Scriptables, NEW w, GoodBut(w, s), NEW new,
         new = [t \in Scriptables |-> new[t]],
         \A t \in Scriptables :
           new[t] = w[t] \/ \E skip \in Nat : new[t] = ClearActions(t, w[t], skip)
  PROVE  GoodBut(new, s)
<1>1. ASSUME NEW t \in Scriptables
      PROVE  new[t] \in Scriptable /\ (Good(w[t]) => Good(new[t]))
  <2>1. w[t] \in Scriptable
    BY DEF GoodBut, World
  <2> QED
    BY <2>1, ClearActionsGood
<1> QED
  BY <1>1 DEF GoodBut, World

LEMMA AllClearedGood ==
  ASSUME NEW s \in Scriptables, NEW w, GoodBut(w, s)
  PROVE  GoodBut(AllCleared(w, s), s)
<1> DEFINE new == AllCleared(w, s)
<1>1. new = [t \in Scriptables |-> new[t]]
  BY DEF AllCleared
<1>2. ASSUME NEW t \in Scriptables
      PROVE  new[t] = w[t] \/ \E skip \in Nat : new[t] = ClearActions(t, w[t], skip)
  BY DEF AllCleared, Stop
<1> HIDE DEF new
<1>3. GoodBut(new, s)
  BY <1>1, <1>2, ClearedGood
<1> QED
  BY <1>3 DEF new

LEMMA PartyHeldGood ==
  ASSUME NEW s \in Scriptables, NEW w, GoodBut(w, s)
  PROVE  GoodBut(PartyHeld(w), s)
<1> DEFINE new == PartyHeld(w)
<1>1. new = [t \in Scriptables |-> new[t]]
  BY DEF PartyHeld, GoodBut, World
<1>2. ASSUME NEW t \in Scriptables
      PROVE  new[t] = w[t] \/ \E skip \in Nat : new[t] = ClearActions(t, w[t], skip)
  BY DEF PartyHeld
<1> HIDE DEF new
<1>3. GoodBut(new, s)
  BY <1>1, <1>2, ClearedGood
<1> QED
  BY <1>3 DEF new

\* Executing an action leaves all plans good.
LEMMA ExecutedGood ==
  ASSUME NEW s \in Scriptables, NEW w, GoodBut(w, s), NEW a \in Action,
         w[s].current = a \/ Instant(a), NEW how
  PROVE  LET new == Executed(w, s, a, how)
         IN  GoodWorld(new) /\ (Instant(a) => new[s].current = None)
<1>1. \A u : GoodBut(u, s) => GoodWorld(ReleasedBy(u, s))
                               /\ ReleasedBy(u, s)[s].current = None
  BY ReleaseGood, WorldUpdate DEF ReleasedBy, GoodBut, World
<1>2. CASE a.on # None
  BY <1>2, HandedOverGood DEF Executed
<1>3. CASE a.on = None /\ how # "fails" /\ a.kind = "clear"
  <2> DEFINE t == ClearedBy(s, a)
             cleared == [w EXCEPT ![t] = ClearActions(t, @, 3)]
  <2>1. t \in Scriptables
    BY DEF ClearedBy, Action
  <2>2. cleared = [u \in Scriptables |-> cleared[u]]
    BY DEF GoodBut, World
  <2>3. ASSUME NEW u \in Scriptables
        PROVE  cleared[u] = w[u]
                 \/ \E skip \in Nat : cleared[u] = ClearActions(u, w[u], skip)
    BY <2>1 DEF GoodBut, World
  <2>4. GoodBut(cleared, s)
    <3> HIDE DEF cleared
    <3> QED  BY <2>2, <2>3, ClearedGood
  <2> QED
    BY <1>1, <1>3, <2>4 DEF Executed
<1>4. CASE a.on = None /\ how # "fails" /\ a.kind = "clearAll"
  BY <1>1, <1>4, AllClearedGood DEF Executed
<1>5. CASE a.on = None /\ how # "fails" /\ a.kind = "talk"
  BY <1>1, <1>5, PartyHeldGood DEF Executed
<1>6. CASE a.on = None /\ (how = "fails" \/ a.kind \notin {"clear", "clearAll", "talk"})
  <2> DEFINE left == Performed(s, w[s], a, how)
  <2>1. Executed(w, s, a, how) = [w EXCEPT ![s] = left]
    BY <1>6 DEF Executed
  <2>2. w[s] \in Scriptable
    BY DEF GoodBut, World
  <2>3. Good(left) /\ (Instant(a) => left.current = None)
    BY <2>2, PerformedGood
  <2> HIDE DEF left
  <2>4. GoodWorld([w EXCEPT ![s] = left]) /\ [w EXCEPT ![s] = left][s] = left
    BY <2>3, WorldUpdate
  <2> QED
    BY <2>1, <2>3, <2>4
<1> QED
  BY <1>2, <1>3, <1>4, <1>5, <1>6

--------------------------------------------------------------------------
(* The invariant *)

Typed == /\ phase \in Phases
         /\ who \in Scriptables
         /\ level \in Nat \ {0} /\ block \in Nat \ {0}
         /\ continuing \in BOOLEAN
         /\ todo \in Responses
         /\ last \in [Scriptables -> Seq(Nat)]

\* Whoever is handed out a response, or looks for the next block after one,
\* runs nothing.
Free == (phase = "respond" \/ (phase = "scripts" /\ continuing))
          => scr[who].current = None

\* Whoever looks for its first block has passed the checks of ExecuteScript,
\* and its plan has not been touched since.
Ungated == phase = "scripts" /\ ~continuing => ~Protected(scr[who])

Inv == Typed /\ GoodWorld(scr) /\ Free /\ Ungated

\* The init of the model is good, and so is what Started makes of a plan.
LEMMA NewScriptableGood ==
  ASSUME NEW s \in Scriptables
  PROVE  Good(NewScriptable(s))
BY ConstantFacts DEF Good, NewScriptable, Scriptable, Facts

LEMMA StartedRuns ==
  ASSUME NEW r, Good(r), Busy(r)
  PROVE  /\ Started(r) \in Scriptable
         /\ Started(r).current \in Action
<1>1. CASE r.current # None
  <2> DEFINE ticks == IF r.ticks < MaxTicks THEN r.ticks + 1 ELSE r.ticks
  <2>1. ticks \in Nat
    BY DEF Good, Scriptable
  <2>2. Started(r) = [r EXCEPT !.interruptible = TRUE, !.ticks = ticks]
    BY <1>1 DEF Started
  <2> HIDE DEF ticks
  <2> QED
    BY <1>1, <2>1, <2>2 DEF Good, Scriptable
<1>2. CASE r.current = None
  <2>1. r.queue \in Seq(Action) /\ r.queue # <<>>
    BY <1>2 DEF Busy, Good, Scriptable
  <2>2. Head(r.queue) \in Action /\ Tail(r.queue) \in Seq(Action)
    BY <2>1
  <2>3. ASSUME NEW a \in Action, NEW q \in Seq(Action)
        PROVE  LET new == [r EXCEPT !.interruptible = TRUE,
                                    !.current = a, !.queue = q]
               IN  new \in Scriptable /\ new.current = a
    BY DEF Good, Scriptable
  <2> QED
    BY <1>2, <2>2, <2>3 DEF Started
<1> QED
  BY <1>1, <1>2

\* Handing out the next action of a response.
LEMMA HandedOutGood ==
  ASSUME Inv, todo # <<>>, NEW how
  PROVE  /\ GoodWorld(HandedOut(how))
         /\ scr[who].current = None => HandedOut(how)[who].current = None
<1>1. Head(todo) \in Action /\ who \in Scriptables /\ GoodWorld(scr)
  BY DEF Inv, Typed, Responses
<1>2. GoodBut(scr, who)
  BY <1>1, GoodIsGoodBut
<1>3. CASE Head(todo).kind = "continue"
  BY <1>1, <1>3 DEF HandedOut
<1>4. CASE Head(todo).kind # "continue" /\ Immediate(todo)
  <2>1. Instant(Head(todo))
    BY <1>4 DEF Immediate
  <2> QED
    BY <1>1, <1>2, <1>4, <2>1, ExecutedGood DEF HandedOut
<1>5. CASE Head(todo).kind # "continue" /\ ~Immediate(todo)
  BY <1>1, <1>5, AddedGood DEF HandedOut
<1> QED
  BY <1>3, <1>4, <1>5

LEMMA InitInv == Init => Inv
<1> SUFFICES ASSUME Init PROVE Inv
  OBVIOUS
<1>1. Typed
  <2>1. ASSUME NEW s \in Scriptables
        PROVE  [l \in 1..Len(Scripts[s]) |-> 0] \in Seq(Nat)
    <3>1. Scripts[s] \in Seq(Seq(SUBSET Responses))
      BY ScriptsAssumption
    <3>2. Len(Scripts[s]) \in Nat
      BY <3>1
    <3> DEFINE n == Len(Scripts[s])
    <3> HIDE DEF n
    <3>3. n \in Nat => [l \in 1..n |-> 0] \in Seq(Nat)
      OBVIOUS
    <3> QED
      BY <3>2, <3>3 DEF n
  <2>2. last \in [Scriptables -> Seq(Nat)]
    BY <2>1 DEF Init
  <2>3. phase \in Phases /\ todo \in Responses
    BY DEF Init, Phases, Responses
  <2>4. who \in Scriptables /\ level \in Nat \ {0} /\ block \in Nat \ {0}
    BY DEF Init
  <2>5. continuing \in BOOLEAN
    BY DEF Init
  <2> QED
    BY <2>2, <2>3, <2>4, <2>5 DEF Typed
<1>2. GoodWorld(scr)
  BY NewScriptableGood DEF Init, GoodWorld, World, Good
<1> QED
  BY <1>1, <1>2 DEF Init, Inv, Free, Ungated

LEMMA StartActionsInv == Inv /\ StartActions => Inv'
<1> SUFFICES ASSUME Inv, StartActions PROVE Inv'
  OBVIOUS
<1>1. who \in Scriptables /\ Good(scr[who]) /\ GoodBut(scr, who)
  BY GoodIsGoodBut DEF Inv, Typed
<1>2. Good(Waited(scr[who]))
  BY <1>1 DEF Good, Scriptable, Waited, WaitedOn
<1>3. scr' = [scr EXCEPT ![who] = Waited(scr[who])]
  BY DEF StartActions
<1>5. GoodWorld(scr')
  BY <1>1, <1>2, <1>3, WorldUpdate
<1>6. phase' \in {"frame", "actions"}
  BY DEF StartActions
<1> QED
  BY <1>5, <1>6 DEF Inv, Typed, Phases, Free, Ungated, StartActions, turn,
                    GoodWorld, World, Good

LEMMA PlanEmptyInv == Inv /\ PlanEmpty => Inv'
<1> SUFFICES ASSUME Inv, PlanEmpty PROVE Inv'
  OBVIOUS
<1>1. who \in Scriptables /\ Good(scr[who]) /\ GoodBut(scr, who)
  BY GoodIsGoodBut DEF Inv, Typed
<1> DEFINE r == [scr[who] EXCEPT !.interruptible = TRUE]
<1>2. Good(r) /\ r \in Scriptable
  BY <1>1 DEF Good, Scriptable
<1>3. Good(ClearActions(who, r, 4))
  <2> HIDE DEF r
  <2> QED  BY <1>1, <1>2, ClearActionsGood
<1>4. scr' = [scr EXCEPT ![who] = ClearActions(who, r, 4)]
  BY DEF PlanEmpty
<1>5. GoodWorld(scr')
  <2> HIDE DEF r
  <2> QED  BY <1>1, <1>3, <1>4, WorldUpdate
<1> QED
  BY <1>5 DEF Inv, Typed, Phases, Free, Ungated, PlanEmpty, turn,
              GoodWorld, World, Good

LEMMA ProcessActionInv == Inv /\ ProcessAction => Inv'
<1> SUFFICES ASSUME Inv, ProcessAction PROVE Inv'
  OBVIOUS
<1>1. who \in Scriptables /\ Good(scr[who]) /\ GoodBut(scr, who)
  BY GoodIsGoodBut DEF Inv, Typed
<1> DEFINE w == [scr EXCEPT ![who] = Started(scr[who])]
<1>2. Started(scr[who]) \in Scriptable /\ Started(scr[who]).current \in Action
  BY <1>1, StartedRuns DEF ProcessAction
<1>3. GoodBut(w, who) /\ w[who].current \in Action
  BY <1>1, <1>2 DEF GoodBut, World
<1>4. PICK how \in Outcomes : scr' = Executed(w, who, w[who].current, how)
  BY DEF ProcessAction
<1>5. GoodWorld(scr')
  <2> HIDE DEF w
  <2> QED  BY <1>1, <1>3, <1>4, ExecutedGood
<1>6. phase' \in {"frame", "actions"}
  BY DEF ProcessAction
<1> QED
  BY <1>5, <1>6 DEF Inv, Typed, Phases, Free, Ungated, ProcessAction, turn,
                    GoodWorld, World, Good

\* Handing out a response, a script's or a cutscene's.
LEMMA RespondInv == Inv /\ (Respond \/ SceneAdd) => Inv'
<1> SUFFICES ASSUME Inv, Respond \/ SceneAdd PROVE Inv'
  OBVIOUS
<1>1. todo # <<>> /\ todo \in Seq(Action)
  BY DEF Inv, Typed, Responses, Respond, SceneAdd
<1>2. PICK how \in Outcomes : scr' = HandedOut(how)
  BY DEF Respond, SceneAdd
<1>3. /\ GoodWorld(scr')
      /\ scr[who].current = None => scr'[who].current = None
  BY <1>1, <1>2, HandedOutGood
<1>4. Tail(todo) \in Seq(Action)
  BY <1>1
<1>5. /\ phase' = phase /\ who' = who /\ phase \in {"respond", "stage"}
      /\ continuing' \in BOOLEAN /\ todo' \in Responses
      /\ UNCHANGED <<level, block, last>>
  BY <1>4 DEF Respond, SceneAdd, Responses, Inv, Typed
<1> QED
  BY <1>3, <1>5 DEF Inv, Typed, Phases, Free, Ungated, GoodWorld, World, Good

LEMMA BlockChosenInv == Inv /\ BlockChosen => Inv'
<1> SUFFICES ASSUME Inv, BlockChosen PROVE Inv'
  OBVIOUS
<1>1. who \in Scriptables /\ Good(scr[who]) /\ GoodBut(scr, who)
  BY GoodIsGoodBut DEF Inv, Typed
<1>2. Good(Chosen(scr[who])) /\ Chosen(scr[who]).current = None
  BY <1>1, StopGood DEF Chosen, Busy
<1>3. GoodWorld(scr') /\ scr'[who].current = None
  <2>1. CASE continuing
    BY <2>1 DEF BlockChosen, AtBlock, Inv, Free
  <2>2. CASE ~continuing
    <3>1. scr' = [scr EXCEPT ![who] = Chosen(scr[who])]
      BY <2>2 DEF BlockChosen
    <3> QED
      BY <1>1, <1>2, <3>1, WorldUpdate
  <2> QED
    BY <2>1, <2>2
<1>4. todo' \in Responses
  <2>1. Scripts[who] \in Seq(Seq(SUBSET Responses))
    BY <1>1, ScriptsAssumption
  <2>2. level \in DOMAIN Scripts[who] /\ block \in DOMAIN Scripts[who][level]
    BY DEF BlockChosen, AtBlock, Levels, Script
  <2>3. Scripts[who][level] \in Seq(SUBSET Responses)
    BY <2>1, <2>2
  <2>4. Scripts[who][level][block] \in SUBSET Responses
    BY <2>2, <2>3
  <2>5. todo' \in Scripts[who][level][block]
    BY DEF BlockChosen, Levels, Script
  <2> QED
    BY <2>4, <2>5
<1>5. last' \in [Scriptables -> Seq(Nat)]
  <2>1. last \in [Scriptables -> Seq(Nat)] /\ block \in Nat
    BY DEF Inv, Typed
  <2>2. last[who] \in Seq(Nat)
    BY <1>1, <2>1
  <2>3. [last[who] EXCEPT ![level] = block] \in Seq(Nat)
    <3> DEFINE blocks == last[who]
    <3>1. blocks \in Seq(Nat)
      BY <2>2
    <3>2. ASSUME NEW b \in Seq(Nat), level \notin 1..Len(b)
          PROVE  [b EXCEPT ![level] = block] = b
      <4>1. b = [i \in 1..Len(b) |-> b[i]]
        BY <3>2
      <4> QED
        BY <3>2, <4>1
    <3> HIDE DEF blocks
    <3>3. [blocks EXCEPT ![level] = block] \in Seq(Nat)
      BY <2>1, <3>1, <3>2, ExceptSeq
    <3> QED
      BY <3>3 DEF blocks
  <2>4. last' = last \/ last' = [last EXCEPT ![who] = [last[who] EXCEPT ![level] = block]]
    BY DEF BlockChosen
  <2> QED
    BY <2>1, <2>3, <2>4
<1>6. phase' = "respond" /\ continuing' = FALSE /\ UNCHANGED <<who, level, block>>
  BY DEF BlockChosen
<1> QED
  BY <1>3, <1>4, <1>5, <1>6
     DEF Inv, Typed, Phases, Free, Ungated, GoodWorld, World, Good

LEMMA OrderInv ==
  ASSUME Inv, NEW s \in Actors, NEW a \in Orders, Order(s, a)
  PROVE  Inv'
<1>1. s \in Scriptables /\ a \in Action
  BY OrdersAssumption DEF Scriptables
<1>2. Good(scr[s]) /\ GoodBut(scr, s)
  BY <1>1, GoodIsGoodBut DEF Inv
<1>3. Good(Stop(s, scr[s])) /\ Good(Given(Stop(s, scr[s]), a))
  BY <1>1, <1>2, StopGood, GivenGood
<1>4. GoodWorld(scr')
  BY <1>1, <1>2, <1>3, WorldUpdate DEF Order
<1> QED
  BY <1>4 DEF Order, Inv, Typed, Phases, Free, Ungated, turn, GoodWorld,
              World, Good

LEMMA SceneInv ==
  ASSUME Inv, NEW s \in Scriptables, NEW response \in Scenes,
         SceneBegin(s, response)
  PROVE  Inv'
<1>1. response \in Seq(Action)
  BY ScenesAssumption DEF Responses
<1>2. SceneAction("hold") \in Action /\ SceneAction("free") \in Action
  BY DEF SceneAction, LastStep, Action, Kinds
<1>3. todo' \in Responses
  <2>1. <<SceneAction("hold")>> \in Seq(Action)
        /\ <<SceneAction("free")>> \in Seq(Action)
    BY <1>2
  <2>2. <<SceneAction("hold")>> \o response \o <<SceneAction("free")>>
          \in Seq(Action)
    <3> DEFINE hold == <<SceneAction("hold")>>
               free == <<SceneAction("free")>>
    <3> HIDE DEF hold, free
    <3>1. hold \in Seq(Action) /\ free \in Seq(Action)
      BY <2>1 DEF hold, free
    <3>2. hold \o response \o free \in Seq(Action)
      BY <1>1, <3>1
    <3> QED
      BY <3>2 DEF hold, free
  <2> QED
    BY <1>1, <2>2 DEF SceneBegin, Responses
<1> QED
  BY <1>3 DEF SceneBegin, Inv, Typed, Phases, Free, Ungated, GoodWorld,
              World, Good

LEMMA SceneEndInv == Inv /\ SceneEnd => Inv'
<1> SUFFICES ASSUME Inv, SceneEnd PROVE Inv'
  OBVIOUS
<1>1. who \in Scriptables /\ scr[who] \in Scriptable /\ GoodBut(scr, who)
  BY GoodIsGoodBut DEF Inv, Typed
<1>2. Good(Release(scr[who]))
  BY <1>1, ReleaseGood
<1>3. GoodWorld(scr')
  BY <1>1, <1>2, WorldUpdate DEF SceneEnd
<1> QED
  BY <1>3 DEF SceneEnd, Inv, Typed, Phases, Free, Ungated, turn, GoodWorld,
              World, Good

\* The steps that leave every plan alone.
LEMMA OtherStepsInv ==
  ASSUME Inv,
         \/ \E s \in Scriptables : Begin(s)
         \/ NextLevel \/ ScriptsDone \/ BlockSkipped \/ BlockDeclined
         \/ RespondEnd
         \/ UNCHANGED vars
  PROVE  Inv'
<1>1. ASSUME NEW s \in Scriptables, BeginWithoutScripts(s) PROVE Inv'
  BY <1>1 DEF BeginWithoutScripts, Inv, Typed, Phases, Free, Ungated,
              GoodWorld, World, Good
<1>2. ASSUME NEW s \in Scriptables, BeginScripts(s) PROVE Inv'
  <2>1. ~Protected(scr[s])
    BY <1>2 DEF BeginScripts, Gated, Protected
  <2>2. Ungated'
    BY <1>2, <2>1 DEF BeginScripts, Ungated, Protected, Busy
  <2>3. GoodWorld(scr)'
    BY <1>2 DEF BeginScripts, Inv, GoodWorld, World, Good
  <2>4. continuing' \in BOOLEAN /\ Free'
    BY <1>2 DEF BeginScripts, Free
  <2>5. Typed'
    BY <1>2, <2>4 DEF BeginScripts, Inv, Typed, Phases
  <2> QED
    BY <2>2, <2>3, <2>4, <2>5 DEF Inv
<1>3. ASSUME NEW s \in Scriptables, SanityCheckFails(s) PROVE Inv'
  BY <1>3 DEF SanityCheckFails, Inv, Typed, Phases, Free, Ungated,
              GoodWorld, World, Good
<1>4. CASE NextLevel \/ BlockSkipped \/ RespondEnd
  BY <1>4 DEF NextLevel, BlockSkipped, RespondEnd, Inv, Typed, Phases, Free,
              Ungated, GoodWorld, World, Good, Protected, Busy
<1>5. CASE ScriptsDone \/ BlockDeclined
  BY <1>5 DEF ScriptsDone, BlockDeclined, turn, Inv, Typed, Phases, Free,
              Ungated, GoodWorld, World, Good
<1>6. CASE UNCHANGED vars
  BY <1>6 DEF vars, Inv, Typed, Free, Ungated, GoodWorld, World, Good,
              Protected, Busy
<1> QED
  BY <1>1, <1>2, <1>3, <1>4, <1>5, <1>6 DEF Begin

LEMMA NextInv == Inv /\ [Next]_vars => Inv'
BY StartActionsInv, PlanEmptyInv, ProcessActionInv, RespondInv, BlockChosenInv,
   OrderInv, SceneInv, SceneEndInv, OtherStepsInv
   DEF Next, Proceed, Outside

\* The invariant holds in every state of every behaviour.
THEOREM InvHolds == Spec => []Inv
BY InitInv, NextInv, PTL DEF Spec

--------------------------------------------------------------------------
(* What follows from the invariant *)

\* Plans, turns and scripts' memories keep their types, for every script and
\* every game's rules.
THEOREM TypeCorrect == Spec => []TypeOK
<1>1. Inv => TypeOK
  BY DEF Inv, Typed, GoodWorld, World, TypeOK
<1> QED
  BY <1>1, InvHolds, PTL

\* The assert of ProcessActions (Scriptable.cpp:495) holds: no action begins
\* with the countdown or the frame count of another one.
THEOREM IdleIsFresh == Spec => []FreshWhenIdle
<1>1. Inv => FreshWhenIdle
  BY DEF Inv, GoodWorld, Good, FreshWhenIdle
<1> QED
  BY <1>1, InvHolds, PTL

\* A response is only ever handed out to a scriptable that runs nothing.
THEOREM ResponsesComeFreely == Spec => []RespondsFreely
<1>1. Inv => RespondsFreely
  BY DEF Inv, Free, RespondsFreely
<1> QED
  BY <1>1, InvHolds, PTL

\* Looking for a block never touches the plan of who is locked, casting, or
\* doing what somebody told it to (Scriptable.cpp:260-272).
THEOREM ProtectedAreSpared == Spec => ScriptsSpareProtected
<1>1. Inv /\ [Next]_vars =>
        [phase = "scripts" /\ Protected(scr[who]) => scr' = scr]_vars
  <2> SUFFICES ASSUME Inv, Next, phase = "scripts", Protected(scr[who])
               PROVE  scr' = scr
    OBVIOUS
  <2>1. CASE BlockChosen
    <3>1. continuing
      BY DEF Inv, Typed, Ungated
    <3> QED
      BY <2>1, <3>1 DEF BlockChosen
  <2>2. CASE NextLevel \/ ScriptsDone \/ BlockSkipped \/ BlockDeclined
    BY <2>2 DEF NextLevel, ScriptsDone, BlockSkipped, BlockDeclined
  <2>3. ~(\/ Respond \/ RespondEnd \/ StartActions \/ PlanEmpty
          \/ ProcessAction \/ SceneAdd \/ SceneEnd)
    BY DEF Respond, RespondEnd, StartActions, PlanEmpty, ProcessAction,
           SceneAdd, SceneEnd
  <2>4. ~(Outside \/ \E s \in Scriptables : Begin(s))
    BY DEF Outside, Order, SceneBegin, Begin, BeginWithoutScripts,
           BeginScripts, SanityCheckFails
  <2> QED
    BY <2>1, <2>2, <2>3, <2>4 DEF Next, Proceed
<1> QED
  BY <1>1, InvHolds, PTL DEF Spec, ScriptsSpareProtected

\* Only ProcessAction executes an action.
LEMMA ExecutesMeansProcess ==
  ASSUME Next, NEW kinds, Executes(kinds)
  PROVE  ProcessAction
<1>1. ~(\/ NextLevel \/ ScriptsDone \/ BlockSkipped \/ BlockDeclined
        \/ BlockChosen \/ Respond \/ RespondEnd \/ StartActions \/ PlanEmpty
        \/ SceneAdd \/ SceneEnd)
  BY DEF Executes, NextLevel, ScriptsDone, BlockSkipped, BlockDeclined,
         BlockChosen, AtBlock, Respond, RespondEnd, StartActions, PlanEmpty,
         SceneAdd, SceneEnd
<1>2. ~(Outside \/ \E s \in Scriptables : Begin(s))
  BY DEF Executes, Outside, Order, SceneBegin, Begin, BeginWithoutScripts,
         BeginScripts, SanityCheckFails
<1> QED
  BY <1>1, <1>2 DEF Next, Proceed

\* What the step of ProcessAction starts from.
LEMMA ExecutesFrom ==
  ASSUME Inv, ProcessAction
  PROVE  LET w == [scr EXCEPT ![who] = Started(scr[who])]
         IN  /\ who \in Scriptables
             /\ Started(scr[who]) \in Scriptable
             /\ GoodBut(w, who) /\ w[who] = Started(scr[who])
             /\ \A t \in Scriptables \ {who} : w[t] = scr[t] /\ Good(w[t])
             /\ \E how \in Outcomes :
                  scr' = Executed(w, who, Started(scr[who]).current, how)
<1>1. who \in Scriptables /\ Good(scr[who]) /\ GoodBut(scr, who)
  BY GoodIsGoodBut DEF Inv, Typed
<1>2. Started(scr[who]) \in Scriptable
  BY <1>1, StartedRuns DEF ProcessAction
<1> QED
  BY <1>1, <1>2 DEF GoodBut, World, ProcessAction

\* A running action that may not be interrupted stays, with its countdown.
LEMMA UninterruptibleStays ==
  ASSUME NEW t \in Scriptables, NEW r, Good(r), ~r.interruptible
  PROVE  LET new == ClearActions(t, r, 3)
         IN  new.current = r.current /\ new.state = r.state
<1> DEFINE left == [r EXCEPT !.queue = Survivors(r, 3)]
<1>1. r \in Scriptable
  BY DEF Good
<1>2. ~(r.current # None /\ r.current.kind = "clear")
  BY DEF Good, Timed
<1>3. ClearActions(t, r, 3) = left
  BY <1>2 DEF ClearActions, Saved
<1>4. left.current = r.current /\ left.state = r.state
  BY <1>1, SurvivorsType, NewQueue
<1> QED
  BY <1>3, <1>4

\* The action functions ClearActions and ClearAllActions never take from
\* somebody else an action that may not be interrupted (Actions.cpp:3621).
THEOREM UninterruptibleAreSpared == Spec => ClearSparesUninterruptible
<1> DEFINE Step ==
      Executes({"clear", "clearAll"}) =>
        \A t \in Actors \ {who} : ~scr[t].interruptible =>
          /\ scr'[t].current = scr[t].current
          /\ scr'[t].state = scr[t].state
<1>1. Inv /\ [Next]_vars => [Step]_vars
  <2> SUFFICES ASSUME Inv, Next, Executes({"clear", "clearAll"}),
                      NEW t \in Actors \ {who}, ~scr[t].interruptible
               PROVE  scr'[t].current = scr[t].current
                        /\ scr'[t].state = scr[t].state
    OBVIOUS
  <2> DEFINE a == Started(scr[who]).current
             w == [scr EXCEPT ![who] = Started(scr[who])]
  <2>1. ProcessAction
    BY ExecutesMeansProcess
  <2>2. t \in Scriptables /\ who \in Scriptables
    BY <2>1, ExecutesFrom DEF Scriptables
  <2>3. w[t] = scr[t] /\ Good(scr[t]) /\ GoodBut(w, who)
    BY <2>1, <2>2, ExecutesFrom
  <2>4. PICK how \in Outcomes : scr' = Executed(w, who, a, how)
    BY <2>1, ExecutesFrom
  <2>5. a.on = None /\ a.kind \in {"clear", "clearAll"}
    BY DEF Executes
  <2>6. scr'[t] = scr[t] \/ scr'[t] = ClearActions(t, scr[t], 3)
    <3> HIDE DEF a, w
    <3>1. CASE how = "fails"
      BY <2>2, <2>3, <2>4, <2>5, <3>1 DEF Executed, GoodBut, World
    <3>2. CASE how # "fails" /\ a.kind = "clear"
      BY <2>2, <2>3, <2>4, <2>5, <3>2 DEF Executed, ReleasedBy, GoodBut, World
    <3>3. CASE how # "fails" /\ a.kind = "clearAll"
      BY <2>2, <2>3, <2>4, <2>5, <3>3
         DEF Executed, ReleasedBy, AllCleared
    <3> QED
      BY <2>5, <3>1, <3>2, <3>3
  <2> QED
    BY <2>2, <2>3, <2>6, UninterruptibleStays
<1> QED
  BY <1>1, InvHolds, PTL DEF Spec, ClearSparesUninterruptible

\* A dialog that begins in iwd2 takes the running spell of nobody else
\* (GSUtils.cpp:1302).
THEOREM SpellsAreSpared == Spec => DialogSparesSpells
<1> DEFINE Step ==
      Executes({"talk"}) =>
        \A t \in Actors \ {who} :
          scr[t].current # None /\ scr[t].current.kind = "spell" =>
            scr'[t].current = scr[t].current
<1>1. Inv /\ [Next]_vars => [Step]_vars
  <2> SUFFICES ASSUME Inv, Next, Executes({"talk"}),
                      NEW t \in Actors \ {who},
                      scr[t].current # None, scr[t].current.kind = "spell"
               PROVE  scr'[t].current = scr[t].current
    OBVIOUS
  <2> DEFINE a == Started(scr[who]).current
             w == [scr EXCEPT ![who] = Started(scr[who])]
  <2>1. ProcessAction
    BY ExecutesMeansProcess
  <2>2. t \in Scriptables /\ who \in Scriptables
    BY <2>1, ExecutesFrom DEF Scriptables
  <2>3. w[t] = scr[t] /\ Good(scr[t]) /\ GoodBut(w, who)
    BY <2>1, <2>2, ExecutesFrom
  <2>4. PICK how \in Outcomes : scr' = Executed(w, who, a, how)
    BY <2>1, ExecutesFrom
  <2>5. a.on = None /\ a.kind = "talk"
    BY DEF Executes
  <2>6. scr'[t] = scr[t]
          \/ (Rules = "iwd2" /\ scr'[t] = ClearActions(t, scr[t], 2))
    <3> HIDE DEF a, w
    <3>1. CASE how = "fails"
      BY <2>2, <2>3, <2>4, <2>5, <3>1 DEF Executed, GoodBut, World
    <3>2. CASE how # "fails"
      BY <2>2, <2>3, <2>4, <2>5, <3>2
         DEF Executed, ReleasedBy, PartyHeld, GoodBut, World
    <3> QED
      BY <3>1, <3>2
  <2>7. ASSUME Rules = "iwd2"
        PROVE  ClearActions(t, scr[t], 2).current = scr[t].current
    <3>1. scr[t] \in Scriptable
      BY <2>3 DEF Good
    <3>2. ClearActions(t, scr[t], 2)
            = [scr[t] EXCEPT !.queue = Survivors(scr[t], 2)]
      BY <2>7 DEF ClearActions, Saved
    <3>3. Survivors(scr[t], 2) \in Seq(Action)
      BY <3>1, SurvivorsType
    <3>4. [scr[t] EXCEPT !.queue = Survivors(scr[t], 2)].current = scr[t].current
      BY <3>1, <3>3 DEF Scriptable
    <3> QED
      BY <3>2, <3>4
  <2> QED
    BY <2>6, <2>7
<1> QED
  BY <1>1, InvHolds, PTL DEF Spec, DialogSparesSpells

\* In pst a scriptable that clears its own actions goes on with those that
\* follow (Scriptable.cpp:421).
THEOREM PstClearLeavesTheRest == Spec => PstClearKeepsTheRest
<1> DEFINE Step ==
      (/\ Rules = "pst" /\ Executes({"clear"})
       /\ ClearedBy(who, Started(scr[who]).current) = who) =>
         scr'[who].queue = Started(scr[who]).queue
<1>1. Inv /\ [Next]_vars => [Step]_vars
  <2> DEFINE r == Started(scr[who])
             w == [scr EXCEPT ![who] = r]
  <2> SUFFICES ASSUME Inv, Next, Rules = "pst", Executes({"clear"}),
                      ClearedBy(who, r.current) = who
               PROVE  scr'[who].queue = r.queue
    OBVIOUS
  <2>1. ProcessAction
    BY ExecutesMeansProcess
  <2>2. who \in Scriptables /\ r \in Scriptable /\ GoodBut(w, who) /\ w[who] = r
    BY <2>1, ExecutesFrom
  <2>3. PICK how \in Outcomes : scr' = Executed(w, who, r.current, how)
    BY <2>1, ExecutesFrom
  <2>4. r.current.on = None /\ r.current.kind = "clear" /\ r.current # None
    BY <2>1, StartedRuns, ConstantFacts
       DEF Executes, Inv, Typed, GoodWorld, ProcessAction, Facts
  <2>5. CASE how = "fails"
    <3> HIDE DEF r, w
    <3>1. scr'[who] = Release(r)
      BY <2>2, <2>3, <2>4, <2>5 DEF Executed, Performed, GoodBut, World
    <3> QED
      BY <2>2, <3>1, ReleaseGood
  <2>6. CASE how # "fails"
    <3> HIDE DEF r, w
    <3>1. scr'[who] = Release(ClearActions(who, r, 3))
      BY <2>2, <2>3, <2>4, <2>6 DEF Executed, ReleasedBy, GoodBut, World, r
    <3>2. ClearActions(who, r, 3)
            = [Release(r) EXCEPT !.wait = 0, !.noint = who \notin Actors]
      BY <2>4 DEF ClearActions
    <3>3. ClearActions(who, r, 3).queue = r.queue
      BY <2>2, <3>2, ReleaseGood DEF Good, Scriptable
    <3> QED
      BY <2>2, <3>1, <3>3, ClearActionsGood, ReleaseGood
  <2> QED
    BY <2>5, <2>6
<1> QED
  BY <1>1, InvHolds, PTL DEF Spec, PstClearKeepsTheRest

--------------------------------------------------------------------------
(* The order of plans *)

\* a comes before b in a plan, as far as the scripts of s are concerned.
Before(s, a, b) == a # b /\ ~Precedes(s, b, a)

OrderedQueue(s, q) ==
  \A i, j \in DOMAIN q :
    i < j /\ q[i].id # 0 /\ q[j].id # 0 => Before(s, q[i], q[j])

Ordered(s, r) ==
  /\ OrderedQueue(s, r.queue)
  /\ r.current # None /\ r.current.id # 0 =>
       \A i \in DOMAIN r.queue : r.queue[i].id # 0 => Before(s, r.current, r.queue[i])

\* The script's own actions in a plan.
Owns(r, a) == a.id # 0 /\ (r.current = a \/ \E i \in DOMAIN r.queue : r.queue[i] = a)

\* Of the scripts' actions, new holds some of those of r, in the same order.
Thins(s, r, new) ==
  /\ Ordered(s, r) => Ordered(s, new)
  /\ \A a \in Action : Owns(new, a) => Owns(r, a)

WorldThins(w, new) == \A t \in Scriptables : Thins(t, w[t], new[t])

\* A plan that is thinned twice is thinned.
LEMMA ThinsTwice ==
  ASSUME NEW s, NEW r, NEW mid, NEW new, Thins(s, r, mid), Thins(s, mid, new)
  PROVE  Thins(s, r, new)
BY DEF Thins

\* A plan is thinned when its queue is shifted, and what is new in it belongs
\* to no script.
LEMMA ShiftThins ==
  ASSUME NEW s, NEW r \in Scriptable, NEW new \in Scriptable, NEW d \in Int,
         new.current = None \/ new.current = r.current,
         \A i \in DOMAIN new.queue : new.queue[i].id # 0 =>
           i + d \in DOMAIN r.queue /\ new.queue[i] = r.queue[i + d]
  PROVE  Thins(s, r, new)
<1>1. DOMAIN new.queue \subseteq Int
  BY DEF Scriptable
<1>2. ASSUME OrderedQueue(s, r.queue)
      PROVE  OrderedQueue(s, new.queue)
  <2> SUFFICES ASSUME NEW i \in DOMAIN new.queue, NEW j \in DOMAIN new.queue, i < j,
                      new.queue[i].id # 0, new.queue[j].id # 0
               PROVE  Before(s, new.queue[i], new.queue[j])
    BY DEF OrderedQueue
  <2>1. /\ i + d \in DOMAIN r.queue /\ new.queue[i] = r.queue[i + d]
        /\ j + d \in DOMAIN r.queue /\ new.queue[j] = r.queue[j + d]
        /\ i + d < j + d
    BY <1>1
  <2> QED
    BY <1>2, <2>1 DEF OrderedQueue
<1>3. ASSUME Ordered(s, r)
      PROVE  Ordered(s, new)
  BY <1>2, <1>3 DEF Ordered
<1>4. None \notin Action
  BY NoneAssumption
<1>5. \A a \in Action : Owns(new, a) => Owns(r, a)
  BY <1>4 DEF Owns
<1> QED
  BY <1>3, <1>5 DEF Thins

\* Releasing the running action, or leaving all as it is, thins the plan.
LEMMA SameQueueThins ==
  ASSUME NEW s, NEW r \in Scriptable, NEW new \in Scriptable,
         new.current = None \/ new.current = r.current, new.queue = r.queue
  PROVE  Thins(s, r, new)
<1>1. \A i \in DOMAIN new.queue :
        i + 0 \in DOMAIN r.queue /\ new.queue[i] = r.queue[i + 0]
  BY DEF Scriptable
<1> QED
  BY <1>1, ShiftThins

LEMMA ReleaseThins ==
  ASSUME NEW s, NEW r \in Scriptable
  PROVE  Thins(s, r, Release(r))
BY ReleaseGood, SameQueueThins DEF Good

\* What the loop of ClearActions leaves is the end of the queue, or nothing.
LEMMA SurvivorsThin ==
  ASSUME NEW s, NEW r \in Scriptable, NEW skip \in Nat
  PROVE  Thins(s, r, [r EXCEPT !.queue = Survivors(r, skip)])
<1> DEFINE new == [r EXCEPT !.queue = Survivors(r, skip)]
<1>1. new \in Scriptable /\ new.queue = Survivors(r, skip) /\ new.current = r.current
  BY SurvivorsType, NewQueue
<1>2. CASE \E i \in DOMAIN r.queue : SparedFrom(r, skip, i)
  <2> DEFINE k == CHOOSE j \in DOMAIN r.queue : SparedFrom(r, skip, j)
  <2>1. k \in DOMAIN r.queue
    BY <1>2
  <2>2. r.queue \in Seq(Action) /\ Survivors(r, skip) = SubSeq(r.queue, k, Len(r.queue))
    BY <1>2 DEF Survivors, Scriptable
  <2> HIDE DEF k, new
  <2>3. k - 1 \in Int /\ k \in 1..Len(r.queue)
    BY <2>1, <2>2
  <2>4. \A i \in DOMAIN new.queue :
          i + (k - 1) \in DOMAIN r.queue /\ new.queue[i] = r.queue[i + (k - 1)]
    <3> DEFINE q == r.queue
               rest == SubSeq(q, k, Len(q))
    <3>1. q \in Seq(Action) /\ k \in 1..Len(q) /\ new.queue = rest
      BY <1>1, <2>2, <2>3
    <3> HIDE DEF q
    <3>2. \A i \in DOMAIN rest :
            i + (k - 1) \in DOMAIN q /\ rest[i] = q[i + (k - 1)]
      BY <3>1
    <3> QED
      BY <3>1, <3>2 DEF q
  <2> QED
    BY <1>1, <2>3, <2>4, ShiftThins DEF new
<1>3. CASE ~\E i \in DOMAIN r.queue : SparedFrom(r, skip, i)
  <2>1. new.queue = <<>>
    BY <1>1, <1>3 DEF Survivors
  <2> HIDE DEF new
  <2>2. \A i \in DOMAIN new.queue : FALSE
    BY <2>1
  <2> QED
    BY <1>1, <2>2, ShiftThins, 0 \in Int DEF new
<1> QED
  BY <1>2, <1>3

LEMMA ClearActionsThins ==
  ASSUME NEW s \in Scriptables, NEW r \in Scriptable, NEW skip \in Nat
  PROVE  Thins(s, r, ClearActions(s, r, skip))
<1> DEFINE left == [r EXCEPT !.queue = Survivors(r, skip)]
           done(q) == [Release(q) EXCEPT !.wait = 0, !.noint = s \notin Actors]
<1>1. left \in Scriptable /\ Thins(s, r, left) /\ Thins(s, r, r)
  BY SurvivorsType, NewQueue, SurvivorsThin DEF Thins
<1>2. ASSUME NEW q \in Scriptable
      PROVE  Thins(s, q, done(q))
  <2>1. done(q) \in Scriptable /\ done(q).current = None /\ done(q).queue = q.queue
    BY <1>2, ConstantFacts DEF Release, Scriptable, Facts
  <2> HIDE DEF done
  <2> QED
    BY <1>2, <2>1, SameQueueThins
<1>3. ClearActions(s, r, skip) \in {r, left, done(r), done(left)}
  BY DEF ClearActions
<1> HIDE DEF left, done
<1>4. Thins(s, r, done(r)) /\ Thins(s, r, done(left))
  BY <1>1, <1>2, ThinsTwice
<1> QED
  BY <1>1, <1>3, <1>4

\* An action of no script may be put at either end of the queue.
LEMMA QueuedThins ==
  ASSUME NEW s, NEW r \in Scriptable, NEW a \in Action, a.id = 0
  PROVE  Thins(s, r, Queued(r, a)) /\ Thins(s, r, QueuedInFront(r, a))
<1> DEFINE back == Queued(r, a)
           front == QueuedInFront(r, a)
           q == r.queue
<1>1. q \in Seq(Action)
  BY DEF Scriptable
<1>2. Append(q, a) \in Seq(Action) /\ <<a>> \o q \in Seq(Action)
  BY <1>1
<1>3. /\ back \in Scriptable /\ back.queue = Append(q, a) /\ back.current = r.current
      /\ front \in Scriptable /\ front.queue = <<a>> \o q /\ front.current = r.current
  BY <1>2, NewQueue DEF Queued, QueuedInFront
<1> HIDE DEF back, front, q
<1>4. \A i \in DOMAIN Append(q, a) : Append(q, a)[i].id # 0 =>
        i + 0 \in DOMAIN q /\ Append(q, a)[i] = q[i + 0]
  BY <1>1
<1>5. \A i \in DOMAIN (<<a>> \o q) : (<<a>> \o q)[i].id # 0 =>
        i + (-1) \in DOMAIN q /\ (<<a>> \o q)[i] = q[i + (-1)]
  BY <1>1
<1>6. Thins(s, r, back)
  <2>1. \A i \in DOMAIN back.queue : back.queue[i].id # 0 =>
          i + 0 \in DOMAIN r.queue /\ back.queue[i] = r.queue[i + 0]
    BY <1>3, <1>4 DEF q
  <2> QED
    BY <1>3, <2>1, ShiftThins, 0 \in Int
<1>7. Thins(s, r, front)
  <2>1. \A i \in DOMAIN front.queue : front.queue[i].id # 0 =>
          i + (-1) \in DOMAIN r.queue /\ front.queue[i] = r.queue[i + (-1)]
    BY <1>3, <1>5 DEF q
  <2> QED
    BY <1>3, <2>1, ShiftThins, -1 \in Int
<1> QED
  BY <1>6, <1>7 DEF back, front

LEMMA SetInterruptThins ==
  ASSUME NEW s, NEW r \in Scriptable, NEW a \in Action
  PROVE  Thins(s, r, SetInterrupt(r, a))
<1>1. /\ SetInterrupt(r, a) \in Scriptable /\ SetInterrupt(r, a).current = None
      /\ SetInterrupt(r, a).queue = r.queue
  BY ConstantFacts DEF SetInterrupt, Release, Scriptable, Facts
<1> QED
  BY <1>1, SameQueueThins

LEMMA GivenThins ==
  ASSUME NEW s, NEW r \in Scriptable, NEW a \in Action, a.id = 0
  PROVE  Thins(s, r, Given(r, a)) /\ Given(r, a) \in Scriptable
BY QueuedThins, SetInterruptThins, QueuedGood, SetInterruptGood DEF Given, Good

\* Whatever HandleActionOverride cuts, what it gives is a copy.
LEMMA OverriddenThins ==
  ASSUME NEW t \in Scriptables, NEW r \in Scriptable, NEW a \in Action
  PROVE  Thins(t, r, Overridden(t, r, a))
<1> DEFINE room == MadeRoom(t, r)
           given == Given(room, Copied(a))
<1>1. Copied(a) \in Action /\ Copied(a).id = 0
  BY DEF Copied, Action
<1>2. room \in Scriptable /\ Thins(t, r, room)
  <2>1. Thins(t, r, r) /\ Release(r) \in Scriptable
    BY ReleaseGood DEF Thins, Good
  <2> QED
    BY <2>1, ClearActionsGood, ClearActionsThins, ReleaseThins DEF MadeRoom
<1>3. given \in Scriptable /\ Thins(t, room, given)
  <2> HIDE DEF room
  <2> QED
    BY <1>1, <1>2, GivenThins
<1>4. Overridden(t, r, a) \in {given, [given EXCEPT !.interruptible = FALSE]}
  BY DEF Overridden
<1> HIDE DEF room, given
<1>5. Thins(t, given, [given EXCEPT !.interruptible = FALSE])
  <2>1. /\ [given EXCEPT !.interruptible = FALSE] \in Scriptable
        /\ [given EXCEPT !.interruptible = FALSE].queue = given.queue
        /\ [given EXCEPT !.interruptible = FALSE].current = given.current
    BY <1>3 DEF Scriptable
  <2> QED
    BY <1>3, <2>1, SameQueueThins
<1> QED
  BY <1>2, <1>3, <1>4, <1>5, ThinsTwice

\* A countdown leaves the queue alone and does not change what runs.
LEMMA CountedThins ==
  ASSUME NEW s, NEW r \in Scriptable
  PROVE  Thins(s, r, Counted(r))
<1>1. CASE r.state = 1
  BY <1>1, ReleaseThins DEF Counted
<1>2. CASE r.state # 1
  <2>1. /\ Counted(r) \in Scriptable /\ Counted(r).queue = r.queue
        /\ Counted(r).current = r.current
    BY <1>2, ConstantFacts DEF Counted, Scriptable, Facts
  <2> QED
    BY <2>1, SameQueueThins
<1> QED
  BY <1>1, <1>2

\* Neither do a spell, a flight and a turn.
LEMMA SteadyThin ==
  ASSUME NEW s \in Scriptables, NEW r \in Scriptable, NEW how
  PROVE  Thins(s, r, Cast(r, how)) /\ Thins(s, r, Flee(s, r)) /\ Thins(s, r, Face(s, r))
<1> DEFINE casting == [r EXCEPT !.interruptible = FALSE]
<1>1. casting \in Scriptable /\ Thins(s, r, casting)
  <2>1. casting \in Scriptable /\ casting.queue = r.queue /\ casting.current = r.current
    BY DEF Scriptable
  <2> QED
    BY <2>1, SameQueueThins
<1>2. Thins(s, r, Cast(r, how))
  <2>1. Thins(s, r, r)
    BY DEF Thins
  <2>2. Thins(s, r, Counted(casting))
    <3> HIDE DEF casting
    <3> QED
      BY <1>1, CountedThins, ThinsTwice
  <2> QED
    BY <2>1, <2>2 DEF Cast
<1>3. Thins(s, r, Face(s, r))
  <2>1. /\ Face(s, r) \in Scriptable /\ Face(s, r).queue = r.queue
        /\ Face(s, r).current = None
    BY ConstantFacts DEF Face, Release, Scriptable, Facts
  <2> QED
    BY <2>1, SameQueueThins
<1>4. Thins(s, r, Flee(s, r))
  <2>1. /\ Counted(r) \in Scriptable /\ Counted(r).queue = r.queue
        /\ Counted(r).current \in {None, r.current}
    <3>1. CASE r.state = 1
      BY <3>1, ReleaseGood DEF Counted, Good
    <3>2. CASE r.state # 1
      BY <3>2, ConstantFacts DEF Counted, Scriptable, Facts
    <3> QED
      BY <3>1, <3>2
  <2>2. CASE s \in Actors
    <3> DEFINE b == r.state = 0 \/ (r.state # 1 /\ Counted(r).noint)
    <3>1. Flee(s, r) = [Counted(r) EXCEPT !.noint = b]
      BY <2>2 DEF Flee
    <3>2. b \in BOOLEAN
      OBVIOUS
    <3> HIDE DEF b
    <3>3. /\ Flee(s, r) \in Scriptable /\ Flee(s, r).queue = r.queue
          /\ Flee(s, r).current \in {None, r.current}
      BY <2>1, <3>1, <3>2 DEF Scriptable
    <3> QED
      BY <3>3, SameQueueThins
  <2>3. CASE s \notin Actors
    BY <2>3, ReleaseThins DEF Flee
  <2> QED
    BY <2>2, <2>3
<1> QED
  BY <1>2, <1>3, <1>4

LEMMA EscapeThins ==
  ASSUME NEW s, NEW r \in Scriptable, NEW how
  PROVE  Thins(s, r, Escape(r, how))
<1>1. LastStep \in Action /\ LastStep.id = 0
  BY DEF LastStep, Action, Kinds
<1> DEFINE waits == [r EXCEPT !.wait = Duration]
           going == [r EXCEPT !.interruptible = FALSE]
<1>2. /\ waits \in Scriptable /\ waits.queue = r.queue /\ waits.current = r.current
      /\ going \in Scriptable /\ going.queue = r.queue /\ going.current = r.current
  BY ConstantFacts DEF Scriptable, Facts
<1>3. Escape(r, how) \in {going, QueuedInFront(Release(waits), LastStep)}
  BY DEF Escape
<1> HIDE DEF waits, going
<1>4. Thins(s, r, going) /\ Thins(s, r, waits)
  BY <1>2, SameQueueThins
<1>5. Release(waits) \in Scriptable /\ Thins(s, r, Release(waits))
  BY <1>2, <1>4, ReleaseGood, ReleaseThins, ThinsTwice DEF Good
<1>6. Thins(s, r, QueuedInFront(Release(waits), LastStep))
  BY <1>1, <1>5, QueuedThins, ThinsTwice
<1> QED
  BY <1>3, <1>4, <1>6

\* A click that has to wait goes back to where it came from.
LEMMA ClickThins ==
  ASSUME NEW s, NEW r \in Scriptable, NEW a \in Action, r.current = a, NEW how
  PROVE  Thins(s, r, Click(r, a, how))
<1> DEFINE front == [QueuedInFront(r, a) EXCEPT !.wait = 1]
           q == r.queue
<1>1. Click(r, a, how) \in {Release(r), Release(front)}
  BY DEF Click
<1>2. q \in Seq(Action) /\ <<a>> \o q \in Seq(Action)
  BY DEF Scriptable
<1>3. front \in Scriptable /\ front.queue = <<a>> \o q
  BY <1>2 DEF QueuedInFront, Scriptable
<1>4. /\ Release(front) \in Scriptable /\ Release(front).current = None
      /\ Release(front).queue = <<a>> \o q
  <2> HIDE DEF front, q
  <2> QED
    BY <1>3, ReleaseGood DEF Good
<1> DEFINE new == Release(front)
<1> HIDE DEF front, q
<1>5. /\ DOMAIN (<<a>> \o q) = 1..Len(q) + 1 /\ Len(q) \in Nat /\ DOMAIN q = 1..Len(q)
      /\ (<<a>> \o q)[1] = a
      /\ \A i \in 2..Len(q) + 1 : i - 1 \in DOMAIN q /\ (<<a>> \o q)[i] = q[i - 1]
  BY <1>2
<1> DEFINE p == <<a>> \o q
<1> HIDE DEF new, p
<1>6. new.queue = p /\ new.current = None
  BY <1>4 DEF new, p
<1>7. ASSUME Ordered(s, r)
      PROVE  OrderedQueue(s, p)
  <2> SUFFICES ASSUME NEW i \in DOMAIN p, NEW j \in DOMAIN p, i < j,
                      p[i].id # 0, p[j].id # 0
               PROVE  Before(s, p[i], p[j])
    BY DEF OrderedQueue
  <2>1. i \in 1..Len(q) + 1 /\ j \in 2..Len(q) + 1 /\ j - 1 \in DOMAIN q /\ p[j] = q[j - 1]
    BY <1>5 DEF p
  <2>2. CASE i = 1
    <3>1. p[i] = r.current /\ r.current # None
      BY <1>5, <2>2, NoneAssumption DEF p
    <3> QED
      BY <1>7, <2>1, <3>1 DEF Ordered, q
  <2>3. CASE i # 1
    <3>1. i - 1 \in DOMAIN q /\ p[i] = q[i - 1] /\ i - 1 < j - 1
      BY <1>5, <2>1, <2>3 DEF p
    <3> QED
      BY <1>7, <2>1, <3>1 DEF Ordered, OrderedQueue, q
  <2> QED
    BY <2>2, <2>3
<1>8. Ordered(s, r) => Ordered(s, new)
  BY <1>6, <1>7 DEF Ordered
<1>9. \A i \in DOMAIN p : p[i] = a \/ \E j \in DOMAIN q : p[i] = q[j]
  BY <1>5 DEF p
<1>10. \A b \in Action : Owns(new, b) => Owns(r, b)
  BY <1>6, <1>9, NoneAssumption DEF Owns, q
<1>11. Thins(s, r, new)
  BY <1>8, <1>10 DEF Thins
<1> QED
  BY <1>1, <1>11, ReleaseThins DEF new

\* Whatever the action function does, it thins the plan.
LEMMA PerformedThins ==
  ASSUME NEW s \in Scriptables, NEW r \in Scriptable, NEW a \in Action,
         r.current = a \/ Instant(a), NEW how
  PROVE  Thins(s, r, Performed(s, r, a, how))
<1>1. CASE Instant(a)
  <2>1. Performed(s, r, a, how) \in {Release(r), SetInterrupt(r, a)}
    BY <1>1 DEF Performed, Instant
  <2> QED
    BY <2>1, ReleaseThins, SetInterruptThins
<1>2. CASE ~Instant(a)
  <2>1. Performed(s, r, a, how) \in
          {Release(r), Counted(r), Cast(r, how), Flee(s, r), Face(s, r), Escape(r, how),
           Click(r, a, how)}
    BY <1>2 DEF Performed
  <2> QED
    BY <1>2, <2>1, ReleaseThins, CountedThins, SteadyThin, EscapeThins, ClickThins
<1> QED
  BY <1>1, <1>2

--------------------------------------------------------------------------
(* The order of all plans *)

LEMMA ReleasedThins ==
  ASSUME NEW s \in Scriptables, NEW w \in World
  PROVE  WorldThins(w, ReleasedBy(w, s)) /\ ReleasedBy(w, s) \in World
<1>1. \A t \in Scriptables : Thins(t, w[t], w[t])
  BY DEF Thins
<1>2. w[s] \in Scriptable /\ Release(w[s]) \in Scriptable
  BY ReleaseGood DEF World, Good
<1>3. Thins(s, w[s], Release(w[s]))
  BY <1>2, ReleaseThins
<1> QED
  BY <1>1, <1>2, <1>3 DEF WorldThins, ReleasedBy, World

LEMMA HandedOverThins ==
  ASSUME NEW s \in Scriptables, NEW w \in World, NEW a \in Action, a.on # None, NEW how
  PROVE  WorldThins(w, HandedOver(w, s, a, how))
<1> DEFINE freed == ReleasedBy(w, s)
           given == [freed EXCEPT ![a.on] = Overridden(a.on, @, a)]
<1>1. HandedOver(w, s, a, how) \in {freed, given}
  BY DEF HandedOver, ReleasedBy
<1>2. WorldThins(w, freed) /\ freed \in World
  BY ReleasedThins
<1> HIDE DEF freed
<1>3. a.on \in Scriptables /\ freed[a.on] \in Scriptable
  BY <1>2 DEF Action, World
<1>4. Thins(a.on, freed[a.on], Overridden(a.on, freed[a.on], a))
  BY <1>3, OverriddenThins
<1>5. \A t \in Scriptables : given[t] = IF t = a.on THEN Overridden(a.on, freed[a.on], a)
                                        ELSE freed[t]
  BY <1>2 DEF World
<1>6. WorldThins(w, given)
  <2> SUFFICES ASSUME NEW t \in Scriptables PROVE Thins(t, w[t], given[t])
    BY DEF WorldThins
  <2>1. Thins(t, w[t], freed[t])
    BY <1>2 DEF WorldThins
  <2>2. CASE t = a.on
    <3>1. given[t] = Overridden(a.on, freed[a.on], a)
      BY <1>5, <2>2
    <3> QED
      BY <1>4, <2>1, <2>2, <3>1, ThinsTwice
  <2>3. CASE t # a.on
    BY <1>5, <2>1, <2>3
  <2> QED
    BY <2>2, <2>3
<1> QED
  BY <1>1, <1>2, <1>6

\* AddAction queues the action, or thins the plans of all.
LEMMA AddedThins ==
  ASSUME NEW s \in Scriptables, NEW w \in World, NEW a \in Action, NEW how
  PROVE  \/ WorldThins(w, Added(w, s, a, how))
         \/ Added(w, s, a, how) = [w EXCEPT ![s] = Queued(@, a)]
<1>1. CASE RunsAtOnce(w[s], a) /\ a.on # None
  BY <1>1, HandedOverThins DEF Added
<1>2. CASE RunsAtOnce(w[s], a) /\ a.on = None
  <2>1. w[s] \in Scriptable
    BY DEF World
  <2>2. Thins(s, w[s], Release(w[s])) /\ Thins(s, w[s], SetInterrupt(w[s], a))
    BY <2>1, ReleaseThins, SetInterruptThins
  <2>3. \A t \in Scriptables : Thins(t, w[t], w[t])
    BY DEF Thins
  <2>4. \/ Added(w, s, a, how) = [w EXCEPT ![s] = Release(@)]
        \/ Added(w, s, a, how) = [w EXCEPT ![s] = SetInterrupt(@, a)]
    BY <1>2 DEF Added
  <2> QED
    BY <2>2, <2>3, <2>4 DEF WorldThins, World
<1> QED
  BY <1>1, <1>2 DEF Added

\* ClearActions applied to some of the plans thins those.
LEMMA ClearedThin ==
  ASSUME NEW w \in World, NEW new,
         new = [t \in Scriptables |-> new[t]],
         \A t \in Scriptables :
           new[t] = w[t] \/ \E skip \in Nat : new[t] = ClearActions(t, w[t], skip)
  PROVE  WorldThins(w, new) /\ new \in World
<1>1. ASSUME NEW t \in Scriptables
      PROVE  Thins(t, w[t], new[t]) /\ new[t] \in Scriptable
  <2>1. w[t] \in Scriptable /\ Thins(t, w[t], w[t])
    BY DEF World, Thins
  <2> QED
    BY <2>1, ClearActionsThins, ClearActionsGood
<1> QED
  BY <1>1 DEF WorldThins, World

\* What ClearActions, ClearAllActions and BeginDialog cut, before the sender
\* is released.
LEMMA ClearingThins ==
  ASSUME NEW s \in Scriptables, NEW w \in World, NEW t \in Scriptables
  PROVE  LET cleared == [w EXCEPT ![t] = ClearActions(t, @, 3)]
         IN  /\ WorldThins(w, cleared) /\ cleared \in World
             /\ WorldThins(w, AllCleared(w, s)) /\ AllCleared(w, s) \in World
             /\ WorldThins(w, PartyHeld(w)) /\ PartyHeld(w) \in World
<1> DEFINE cleared == [w EXCEPT ![t] = ClearActions(t, @, 3)]
           all == AllCleared(w, s)
           held == PartyHeld(w)
<1>1. /\ cleared = [u \in Scriptables |-> cleared[u]]
      /\ \A u \in Scriptables :
           cleared[u] = w[u] \/ \E skip \in Nat : cleared[u] = ClearActions(u, w[u], skip)
  BY DEF World
<1>2. /\ all = [u \in Scriptables |-> all[u]]
      /\ \A u \in Scriptables :
           all[u] = w[u] \/ \E skip \in Nat : all[u] = ClearActions(u, w[u], skip)
  BY DEF AllCleared, Stop
<1>3. /\ held = [u \in Scriptables |-> held[u]]
      /\ \A u \in Scriptables :
           held[u] = w[u] \/ \E skip \in Nat : held[u] = ClearActions(u, w[u], skip)
  BY DEF PartyHeld, World
<1> HIDE DEF cleared, all, held
<1>4. /\ WorldThins(w, cleared) /\ cleared \in World
      /\ WorldThins(w, all) /\ all \in World
      /\ WorldThins(w, held) /\ held \in World
  BY <1>1, <1>2, <1>3, ClearedThin
<1> QED
  BY <1>4 DEF cleared, all, held

\* Executing an action thins the plans of all.
LEMMA ExecutedThins ==
  ASSUME NEW s \in Scriptables, NEW w \in World, NEW a \in Action,
         w[s].current = a \/ Instant(a), NEW how
  PROVE  WorldThins(w, Executed(w, s, a, how))
<1>1. CASE a.on # None
  BY <1>1, HandedOverThins DEF Executed
<1>2. CASE a.on = None /\ how # "fails" /\ a.kind \in {"clear", "clearAll", "talk"}
  <2> DEFINE t == ClearedBy(s, a)
             cleared == [w EXCEPT ![t] = ClearActions(t, @, 3)]
  <2>1. t \in Scriptables
    BY DEF ClearedBy, Action
  <2>2. PICK mid \in {cleared, AllCleared(w, s), PartyHeld(w)} :
          Executed(w, s, a, how) = ReleasedBy(mid, s)
    BY <1>2 DEF Executed
  <2> HIDE DEF t
  <2>3. WorldThins(w, mid) /\ mid \in World
    BY <2>1, <2>2, ClearingThins
  <2>4. WorldThins(mid, ReleasedBy(mid, s))
    BY <2>3, ReleasedThins
  <2>5. WorldThins(w, ReleasedBy(mid, s))
    BY <2>3, <2>4, ThinsTwice DEF WorldThins
  <2> QED
    BY <2>2, <2>5
<1>3. CASE a.on = None /\ (how = "fails" \/ a.kind \notin {"clear", "clearAll", "talk"})
  <2>1. Executed(w, s, a, how) = [w EXCEPT ![s] = Performed(s, w[s], a, how)]
    BY <1>3 DEF Executed
  <2>2. w[s] \in Scriptable
    BY DEF World
  <2>3. Thins(s, w[s], Performed(s, w[s], a, how))
    BY <2>2, PerformedThins
  <2>4. \A u \in Scriptables : Thins(u, w[u], w[u])
    BY DEF Thins
  <2>5. \A u \in Scriptables : [w EXCEPT ![s] = Performed(s, w[s], a, how)][u] =
          IF u = s THEN Performed(s, w[s], a, how) ELSE w[u]
    BY DEF World
  <2> QED
    BY <2>1, <2>3, <2>4, <2>5 DEF WorldThins
<1> QED
  BY <1>1, <1>2, <1>3

\* The front of the queue that becomes the running action stays in front.
LEMMA StartedThins ==
  ASSUME NEW s, NEW r, Good(r), Busy(r)
  PROVE  Thins(s, r, Started(r))
<1> DEFINE new == Started(r)
           q == r.queue
<1>1. r \in Scriptable /\ new \in Scriptable /\ new.current \in Action
  BY StartedRuns DEF Good
<1>2. CASE r.current # None
  <2>1. new.queue = r.queue /\ new.current = r.current
    BY <1>1, <1>2 DEF Started, Scriptable
  <2> QED
    BY <1>1, <2>1, SameQueueThins
<1>3. CASE r.current = None
  <2>1. new.current = Head(q) /\ new.queue = Tail(q)
    BY <1>1, <1>3 DEF Started, Scriptable
  <2>2. q \in Seq(Action) /\ q # <<>>
    BY <1>1, <1>3 DEF Scriptable, Busy
  <2> HIDE DEF new, q
  <2>3. /\ Len(q) \in Nat \ {0} /\ DOMAIN q = 1..Len(q) /\ Head(q) = q[1]
        /\ DOMAIN Tail(q) = 1..(Len(q) - 1)
        /\ \A i \in DOMAIN Tail(q) : i + 1 \in DOMAIN q /\ Tail(q)[i] = q[i + 1]
    BY <2>2
  <2>4. ASSUME OrderedQueue(s, q)
        PROVE  Ordered(s, new)
    <3>1. OrderedQueue(s, Tail(q))
      <4> SUFFICES ASSUME NEW i \in DOMAIN Tail(q), NEW j \in DOMAIN Tail(q), i < j,
                          Tail(q)[i].id # 0, Tail(q)[j].id # 0
                   PROVE  Before(s, Tail(q)[i], Tail(q)[j])
        BY DEF OrderedQueue
      <4>1. /\ i + 1 \in DOMAIN q /\ Tail(q)[i] = q[i + 1]
            /\ j + 1 \in DOMAIN q /\ Tail(q)[j] = q[j + 1] /\ i + 1 < j + 1
        BY <2>3
      <4> QED
        BY <2>4, <4>1 DEF OrderedQueue
    <3>2. ASSUME NEW i \in DOMAIN Tail(q), q[1].id # 0, Tail(q)[i].id # 0
          PROVE  Before(s, q[1], Tail(q)[i])
      <4>1. i + 1 \in DOMAIN q /\ Tail(q)[i] = q[i + 1] /\ 1 \in DOMAIN q /\ 1 < i + 1
        BY <2>3
      <4> QED
        BY <2>4, <3>2, <4>1 DEF OrderedQueue
    <3> QED
      BY <2>1, <2>3, <3>1, <3>2 DEF Ordered
  <2>5. Ordered(s, r) => Ordered(s, new)
    BY <2>4 DEF Ordered, q
  <2>6. 1 \in DOMAIN q
    BY <2>3
  <2>7. \A b \in Action : Owns(new, b) => \E i \in DOMAIN q : q[i] = b
    BY <2>1, <2>3, <2>6 DEF Owns
  <2>8. \A b \in Action : Owns(new, b) => Owns(r, b)
    BY <2>7 DEF Owns, q
  <2> QED
    BY <2>5, <2>8 DEF Thins, new
<1> QED
  BY <1>2, <1>3

--------------------------------------------------------------------------
(* The order of responses *)

\* a stands in the scripts of s before block n of level l.
Earlier(s, a, l, n) ==
  \E k \in DOMAIN Scripts[s] : \E m \in DOMAIN Scripts[s][k] :
    /\ k < l \/ (k = l /\ m < n)
    /\ \E response \in Scripts[s][k][m] : \E i \in DOMAIN response : response[i] = a

\* The response that is handed out is that of the block, from some place on,
\* and what the plan holds of the scripts stands before that place.
HandingOut ==
  phase = "respond" =>
    /\ level \in DOMAIN Scripts[who] /\ block \in DOMAIN Scripts[who][level]
    /\ \E response \in Scripts[who][level][block] : \E k \in 0..Len(response) :
         /\ todo = SubSeq(response, k + 1, Len(response))
         /\ \A a \in Action : Owns(scr[who], a) =>
              Earlier(who, a, level, block) \/ \E i \in 1..k : response[i] = a

\* After a response that ended in Continue all the plan holds stands before
\* the block that is looked at.
LookingOn ==
  phase = "scripts" /\ continuing =>
    \A a \in Action : Owns(scr[who], a) => Earlier(who, a, level, block)

Staging == phase = "stage" => \A i \in DOMAIN todo : todo[i].id = 0

AllOrdered == \A s \in Scriptables : Ordered(s, scr[s])

PlanInv == Inv /\ AllOrdered /\ HandingOut /\ LookingOn /\ Staging

\* A plan in order stays so when an action is queued that comes after all of
\* it.
LEMMA QueuedInOrder ==
  ASSUME NEW s, NEW r \in Scriptable, NEW a \in Action, Ordered(s, r),
         \A b \in Action : Owns(r, b) => Before(s, b, a)
  PROVE  /\ Ordered(s, Queued(r, a))
         /\ \A b \in Action : Owns(Queued(r, a), b) => Owns(r, b) \/ b = a
<1> DEFINE q == r.queue
           new == Queued(r, a)
<1>1. q \in Seq(Action) /\ Append(q, a) \in Seq(Action)
  BY DEF Scriptable
<1>2. new.queue = Append(q, a) /\ new.current = r.current
  BY <1>1, NewQueue DEF Queued
<1>3. \A i \in DOMAIN q : q[i] \in Action
  BY <1>1
<1>4. /\ \A i \in DOMAIN q : q[i].id # 0 => Before(s, q[i], a)
      /\ r.current # None /\ r.current.id # 0 => Before(s, r.current, a)
  BY <1>3 DEF Owns, Scriptable
<1> HIDE DEF q, new
<1>5. /\ Len(q) \in Nat /\ DOMAIN q = 1..Len(q)
      /\ DOMAIN Append(q, a) = 1..(Len(q) + 1)
      /\ Append(q, a)[Len(q) + 1] = a
      /\ \A i \in DOMAIN q : Append(q, a)[i] = q[i]
  BY <1>1
<1>6. \A i \in DOMAIN Append(q, a) : i \in DOMAIN q \/ i = Len(q) + 1
  BY <1>5
<1>7. OrderedQueue(s, Append(q, a))
  <2> DEFINE p == Append(q, a)
  <2> SUFFICES ASSUME NEW i \in DOMAIN p, NEW j \in DOMAIN p, i < j,
                      p[i].id # 0, p[j].id # 0
               PROVE  Before(s, p[i], p[j])
    BY DEF OrderedQueue
  <2>1. i \in DOMAIN q
    BY <1>5
  <2>2. CASE j \in DOMAIN q
    BY <1>5, <2>1, <2>2 DEF Ordered, OrderedQueue, q
  <2>3. CASE j = Len(q) + 1
    BY <1>4, <1>5, <2>1, <2>3
  <2> QED
    BY <1>6, <2>2, <2>3
<1>8. Ordered(s, new)
  <2>1. ASSUME r.current # None, r.current.id # 0,
               NEW i \in DOMAIN Append(q, a), Append(q, a)[i].id # 0
        PROVE  Before(s, r.current, Append(q, a)[i])
    BY <1>4, <1>5, <1>6, <2>1 DEF Ordered, q
  <2> QED
    BY <1>2, <1>7, <2>1 DEF Ordered
<1>9. \A b \in Action : Owns(new, b) => Owns(r, b) \/ b = a
  <2>1. \A i \in DOMAIN Append(q, a) :
          Append(q, a)[i] = a \/ \E j \in DOMAIN q : Append(q, a)[i] = q[j]
    BY <1>5, <1>6
  <2> QED
    BY <1>2, <2>1 DEF Owns, q
<1> QED
  BY <1>8, <1>9 DEF new

\* The next action of a response comes after all the plan holds.
LEMMA NextComesAfter ==
  ASSUME OwnObjects, NEW s \in Scriptables, NEW l \in DOMAIN Scripts[s],
         NEW n \in DOMAIN Scripts[s][l], NEW response \in Scripts[s][l][n],
         NEW k \in Nat, k + 1 \in DOMAIN response, response[k + 1].id # 0,
         NEW b, b.id # 0,
         Earlier(s, b, l, n) \/ \E i \in 1..k : i \in DOMAIN response /\ response[i] = b,
         l \in Int, n \in Int
  PROVE  Before(s, b, response[k + 1])
<1> DEFINE a == response[k + 1]
<1>1. \A m \in DOMAIN Scripts[s] : \A o \in DOMAIN Scripts[s][m] :
        \A p \in Scripts[s][m][o] : \A j \in DOMAIN p :
          p[j] = a => m = l /\ o = n /\ p = response /\ j = k + 1
  BY DEF OwnObjects
<1>2. \A i \in DOMAIN response : response[i] = b =>
        i \in 1..k /\ ~Earlier(s, b, l, n)
  <2> SUFFICES ASSUME NEW i \in DOMAIN response, response[i] = b
               PROVE  i \in 1..k /\ ~Earlier(s, b, l, n)
    OBVIOUS
  <2>1. \A m \in DOMAIN Scripts[s] : \A o \in DOMAIN Scripts[s][m] :
          \A p \in Scripts[s][m][o] : \A j \in DOMAIN p :
            p[j] = b => m = l /\ o = n /\ p = response /\ j = i
    BY DEF OwnObjects
  <2>2. ~Earlier(s, b, l, n)
    BY <2>1 DEF Earlier
  <2> QED
    BY <2>1, <2>2
<1>3. b # a
  BY <1>1, <1>2 DEF Earlier
<1>4. ~Precedes(s, a, b)
  <2> SUFFICES ASSUME Precedes(s, a, b) PROVE FALSE
    OBVIOUS
  <2>1. PICK m \in DOMAIN Scripts[s] : \E o \in DOMAIN Scripts[s][m] :
          \E p \in Scripts[s][m][o] : \E i, j \in DOMAIN p :
            i < j /\ p[i] = a /\ p[j] = b
    BY DEF Precedes
  <2>2. \E j \in DOMAIN response : k + 1 < j /\ response[j] = b
    BY <1>1, <2>1
  <2> QED
    BY <1>2, <2>2
<1> QED
  BY <1>3, <1>4 DEF Before

\* Plans that are thinned stay in order, and hold no action they did not.
LEMMA ThinnedInOrder ==
  ASSUME NEW w, NEW new, WorldThins(w, new), \A s \in Scriptables : Ordered(s, w[s])
  PROVE  /\ \A s \in Scriptables : Ordered(s, new[s])
         /\ \A s \in Scriptables : \A a \in Action : Owns(new[s], a) => Owns(w[s], a)
BY DEF WorldThins, Thins

LEMMA PlanInitInv == Init => PlanInv
<1> SUFFICES ASSUME Init PROVE PlanInv
  OBVIOUS
<1>1. \A s \in Scriptables : scr[s].queue = <<>> /\ scr[s].current = None
  BY DEF Init, NewScriptable
<1>2. AllOrdered
  BY <1>1 DEF AllOrdered, Ordered, OrderedQueue
<1>3. phase = "frame"
  BY DEF Init
<1> QED
  BY <1>2, <1>3, InitInv DEF PlanInv, HandingOut, LookingOn, Staging

\* The steps that leave every plan alone.
LEMMA PlanOtherSteps ==
  ASSUME PlanInv, Inv', UNCHANGED scr,
         \/ \E s \in Scriptables : Begin(s)
         \/ NextLevel \/ ScriptsDone \/ BlockSkipped \/ BlockDeclined \/ UNCHANGED vars
  PROVE  PlanInv'
<1>1. AllOrdered'
  BY DEF PlanInv, AllOrdered
<1>2. \A a : Owns(scr[who], a)' = Owns(scr[who]', a)
  BY DEF Owns
<1>3. ASSUME NEW s \in Scriptables, Begin(s)
      PROVE  HandingOut' /\ LookingOn' /\ Staging'
  BY <1>3 DEF Begin, BeginWithoutScripts, BeginScripts, SanityCheckFails, HandingOut,
              LookingOn, Staging
<1>4. CASE NextLevel \/ BlockSkipped
  <2>1. /\ phase = "scripts" /\ phase' = "scripts" /\ who' = who /\ continuing' = continuing
        /\ \/ level' = level + 1
           \/ level' = level /\ block' = block + 1
    BY <1>4 DEF NextLevel, BlockSkipped, AtBlock
  <2>2. who \in Scriptables /\ level \in Nat /\ block \in Nat
    BY DEF PlanInv, Inv, Typed
  <2>3. DOMAIN Scripts[who] \subseteq Nat
        /\ \A l \in DOMAIN Scripts[who] : DOMAIN Scripts[who][l] \subseteq Nat
    <3>1. Scripts[who] \in Seq(Seq(SUBSET Responses))
      BY <2>2, ScriptsAssumption
    <3>2. DOMAIN Scripts[who] = 1..Len(Scripts[who])
      BY <3>1
    <3>3. ASSUME NEW l \in DOMAIN Scripts[who]
          PROVE  DOMAIN Scripts[who][l] \subseteq Nat
      <4>1. Scripts[who][l] \in Seq(SUBSET Responses)
        BY <3>1
      <4> QED
        BY <4>1
    <3> QED
      BY <3>2, <3>3
  <2>4. \A a \in Action : Earlier(who, a, level, block) => Earlier(who, a, level', block')
    BY <2>1, <2>2, <2>3 DEF Earlier
  <2>5. LookingOn'
    <3> SUFFICES ASSUME continuing', NEW a \in Action, Owns(scr[who], a)
                 PROVE  Earlier(who, a, level', block')
      BY <2>1 DEF LookingOn, Owns
    <3>1. Earlier(who, a, level, block)
      BY <2>1 DEF PlanInv, LookingOn
    <3> QED
      BY <2>4, <3>1
  <2> QED
    BY <1>1, <2>1, <2>5 DEF PlanInv, HandingOut, Staging
<1>5. CASE ScriptsDone \/ BlockDeclined
  BY <1>1, <1>5 DEF ScriptsDone, BlockDeclined, PlanInv, HandingOut, LookingOn, Staging
<1>6. CASE UNCHANGED vars
  BY <1>1, <1>6 DEF vars, PlanInv, HandingOut, LookingOn, Staging, Owns
<1> QED
  BY <1>1, <1>3, <1>4, <1>5, <1>6 DEF PlanInv

\* The steps that thin plans and do not hand out or look for a response.
LEMMA PlanThinningSteps ==
  ASSUME PlanInv, Inv', WorldThins(scr, scr'), phase' \notin {"respond", "scripts"},
         phase' = "stage" => \A i \in DOMAIN todo' : todo'[i].id = 0
  PROVE  PlanInv'
<1>1. AllOrdered'
  BY ThinnedInOrder DEF PlanInv, AllOrdered
<1> QED
  BY <1>1 DEF PlanInv, HandingOut, LookingOn, Staging

LEMMA BlockChosenPlan ==
  ASSUME PlanInv, Inv', BlockChosen
  PROVE  PlanInv'
<1>1. /\ who \in Scriptables /\ Good(scr[who]) /\ scr \in World
      /\ who' = who /\ level' = level /\ block' = block /\ phase' = "respond"
      /\ level \in DOMAIN Scripts[who] /\ block \in DOMAIN Scripts[who][level]
  BY DEF PlanInv, Inv, Typed, GoodWorld, BlockChosen, AtBlock, Levels, Script
<1>2. PICK response \in Scripts[who][level][block] : todo' = response
  BY DEF BlockChosen, Script, Levels
<1>3. response \in Seq(Action)
  <2>1. Scripts[who] \in Seq(Seq(SUBSET Responses))
    BY <1>1, ScriptsAssumption
  <2>2. Scripts[who][level] \in Seq(SUBSET Responses)
    BY <1>1, <2>1
  <2>3. Scripts[who][level][block] \in SUBSET Responses
    BY <1>1, <2>2
  <2> QED
    BY <2>3 DEF Responses
<1>4. 0 \in 0..Len(response) /\ response = SubSeq(response, 0 + 1, Len(response))
  BY <1>3
<1>5. AllOrdered' /\ \A a \in Action : Owns(scr'[who], a) => Earlier(who, a, level, block)
  <2>1. CASE continuing
    <3>1. scr' = scr /\ phase = "scripts"
      BY <2>1 DEF BlockChosen, AtBlock
    <3> QED
      BY <2>1, <3>1 DEF PlanInv, AllOrdered, LookingOn
  <2>2. CASE ~continuing
    <3> DEFINE r == Chosen(scr[who])
    <3>1. scr' = [scr EXCEPT ![who] = r]
      BY <2>2 DEF BlockChosen
    <3>2. r.current = None /\ r.queue = <<>>
      <4>1. CASE ~Busy(scr[who])
        BY <4>1 DEF Chosen, Busy
      <4>2. CASE Busy(scr[who])
        <5>1. ~(scr[who].current # None /\ scr[who].current.kind = "clear")
          BY <1>1 DEF Good, Timed
        <5>2. Survivors(scr[who], 0) = <<>>
          BY DEF Survivors, SparedFrom, Spared
        <5>3. r = [Release([scr[who] EXCEPT !.queue = <<>>])
                     EXCEPT !.wait = 0, !.noint = who \notin Actors]
          <6>1. ~Saved(scr[who], 0)
            BY DEF Saved
          <6> QED
            BY <4>2, <5>1, <5>2, <6>1, Zenon DEF Chosen, Stop, ClearActions
        <5> QED
          BY <1>1, <5>3 DEF Release, Good, Scriptable
      <4> QED
        BY <4>1, <4>2
    <3>3. \A t \in Scriptables : scr'[t] = IF t = who THEN r ELSE scr[t]
      BY <1>1, <3>1 DEF World
    <3> HIDE DEF r
    <3>4. Ordered(who, r) /\ \A a \in Action : ~Owns(r, a)
      BY <3>2, NoneAssumption DEF Ordered, OrderedQueue, Owns
    <3> QED
      BY <1>1, <3>3, <3>4 DEF PlanInv, AllOrdered
  <2> QED
    BY <2>1, <2>2
<1>6. HandingOut'
  BY <1>1, <1>2, <1>4, <1>5 DEF HandingOut, Owns
<1> QED
  BY <1>1, <1>5, <1>6 DEF PlanInv, LookingOn, Staging

LEMMA HandedOutThins ==
  ASSUME Inv, todo # <<>>, NEW how
  PROVE  \/ WorldThins(scr, HandedOut(how))
         \/ HandedOut(how) = [scr EXCEPT ![who] = Queued(@, Head(todo))]
<1>1. Head(todo) \in Action /\ who \in Scriptables /\ scr \in World
  BY DEF Inv, Typed, Responses, GoodWorld
<1>2. CASE Head(todo).kind = "continue"
  BY <1>2 DEF HandedOut, WorldThins, Thins
<1>3. CASE Head(todo).kind # "continue" /\ Immediate(todo)
  <2>1. Instant(Head(todo))
    BY <1>3 DEF Immediate
  <2> QED
    BY <1>1, <1>3, <2>1, ExecutedThins DEF HandedOut
<1>4. CASE Head(todo).kind # "continue" /\ ~Immediate(todo)
  BY <1>1, <1>4, AddedThins DEF HandedOut
<1> QED
  BY <1>2, <1>3, <1>4

\* The next action of a response goes behind those that stand before it.
LEMMA RespondPlan ==
  ASSUME OwnObjects, PlanInv, Inv', Respond
  PROVE  PlanInv'
<1> DEFINE a == Head(todo)
<1>1. /\ phase = "respond" /\ phase' = phase /\ todo # <<>> /\ todo' = Tail(todo)
      /\ who' = who /\ level' = level /\ block' = block
      /\ who \in Scriptables /\ scr \in World /\ level \in Int /\ block \in Int
      /\ level \in DOMAIN Scripts[who] /\ block \in DOMAIN Scripts[who][level]
  BY DEF Respond, PlanInv, Inv, Typed, GoodWorld, HandingOut
<1>20. PICK response \in Scripts[who][level][block] : \E k \in 0..Len(response) :
         /\ todo = SubSeq(response, k + 1, Len(response))
         /\ \A b \in Action : Owns(scr[who], b) =>
              Earlier(who, b, level, block) \/ \E i \in 1..k : response[i] = b
  BY <1>1 DEF PlanInv, HandingOut
<1>2. PICK k \in 0..Len(response) :
        /\ todo = SubSeq(response, k + 1, Len(response))
        /\ \A b \in Action : Owns(scr[who], b) =>
             Earlier(who, b, level, block) \/ \E i \in 1..k : response[i] = b
  BY <1>20
<1>3. response \in Seq(Action)
  <2>1. Scripts[who] \in Seq(Seq(SUBSET Responses))
    BY <1>1, ScriptsAssumption
  <2>2. Scripts[who][level] \in Seq(SUBSET Responses)
    BY <1>1, <2>1
  <2>3. Scripts[who][level][block] \in SUBSET Responses
    BY <1>1, <2>2
  <2> QED
    BY <2>3 DEF Responses
<1>4. /\ k \in Nat /\ k + 1 \in 1..Len(response) /\ Len(response) \in Nat
      /\ DOMAIN response = 1..Len(response)
      /\ a = response[k + 1] /\ a \in Action
      /\ todo' = SubSeq(response, (k + 1) + 1, Len(response))
  <2>1. k \in Nat /\ k <= Len(response) /\ Len(response) \in Nat
        /\ DOMAIN response = 1..Len(response)
    BY <1>2, <1>3
  <2>2. k < Len(response)
    <3>1. CASE k = Len(response)
      <4>1. k + 1 > Len(response)
        BY <2>1, <3>1
      <4>2. SubSeq(response, k + 1, Len(response)) = <<>>
        BY <2>1, <4>1
      <4> QED
        BY <1>1, <1>2, <4>2
    <3>2. k = Len(response) \/ k < Len(response)
      <4> DEFINE n == Len(response)
      <4>1. k \in Nat /\ n \in Nat /\ k <= n
        BY <2>1
      <4> HIDE DEF n
      <4>2. k = n \/ k < n
        BY <4>1
      <4> QED
        BY <4>2 DEF n
    <3> QED
      BY <3>1, <3>2
  <2>3. k + 1 \in 1..Len(response) /\ Len(response) \in 1..Len(response)
        /\ k + 1 <= Len(response)
    BY <2>1, <2>2
  <2>4. /\ Head(SubSeq(response, k + 1, Len(response))) = response[k + 1]
        /\ Tail(SubSeq(response, k + 1, Len(response)))
             = SubSeq(response, (k + 1) + 1, Len(response))
    BY <1>3, <2>1, <2>3, HeadTailOfSubSeq
  <2>5. response[k + 1] \in Action
    BY <1>3, <2>1, <2>3
  <2> QED
    BY <1>1, <1>2, <2>1, <2>3, <2>4, <2>5
<1> HIDE DEF a
<1>5. PICK how \in Outcomes : scr' = HandedOut(how)
  BY DEF Respond
<1>6. AllOrdered'
      /\ \A b \in Action : Owns(scr'[who], b) => Owns(scr[who], b) \/ b = a
  <2>1. CASE WorldThins(scr, scr')
    BY <1>1, <2>1, ThinnedInOrder DEF PlanInv, AllOrdered
  <2>2. CASE scr' = [scr EXCEPT ![who] = Queued(@, a)]
    <3>1. scr[who] \in Scriptable /\ Ordered(who, scr[who])
      BY <1>1 DEF World, PlanInv, AllOrdered
    <3>2. /\ Ordered(who, Queued(scr[who], a))
          /\ \A b \in Action : Owns(Queued(scr[who], a), b) => Owns(scr[who], b) \/ b = a
      <4>1. CASE a.id = 0
        BY <1>4, <3>1, <4>1, QueuedThins DEF Thins
      <4>2. CASE a.id # 0
        <5>1. ASSUME NEW b \in Action, Owns(scr[who], b)
              PROVE  Before(who, b, a)
          <6>1. b.id # 0
            BY <5>1 DEF Owns
          <6>2. Earlier(who, b, level, block)
                \/ \E i \in 1..k : i \in DOMAIN response /\ response[i] = b
            <7>1. 1..k \subseteq DOMAIN response
              BY <1>4
            <7> QED
              BY <1>2, <5>1, <7>1
          <6> QED
            BY <1>1, <1>4, <4>2, <6>1, <6>2, NextComesAfter
        <5> QED
          BY <1>4, <3>1, <5>1, QueuedInOrder
      <4> QED
        BY <4>1, <4>2
    <3>3. \A t \in Scriptables : scr'[t] = IF t = who THEN Queued(scr[who], a) ELSE scr[t]
      BY <1>1, <2>2 DEF World
    <3> QED
      BY <1>1, <3>2, <3>3 DEF PlanInv, AllOrdered
  <2> QED
    BY <1>1, <1>5, <2>1, <2>2, HandedOutThins DEF PlanInv, a
<1>7. \A b \in Action : Owns(scr'[who], b) =>
        Earlier(who, b, level, block) \/ \E i \in 1..(k + 1) : response[i] = b
  BY <1>2, <1>4, <1>6
<1>8. k + 1 \in 0..Len(response)
  BY <1>4
<1>9. HandingOut'
  <2>1. \E p \in Scripts[who][level][block] : \E i \in 0..Len(p) :
          /\ todo' = SubSeq(p, i + 1, Len(p))
          /\ \A b \in Action : Owns(scr'[who], b) =>
               Earlier(who, b, level, block) \/ \E j \in 1..i : p[j] = b
    BY <1>4, <1>7, <1>8
  <2> QED
    <3>1. \A b : Owns(scr[who], b)' <=> Owns(scr'[who], b)
      BY <1>1 DEF Owns
    <3> QED
      BY <1>1, <2>1, <3>1 DEF HandingOut
<1> QED
  BY <1>1, <1>6, <1>9 DEF PlanInv, LookingOn, Staging

\* After the last action all of the response is behind the next block.
LEMMA RespondEndPlan ==
  ASSUME PlanInv, Inv', RespondEnd
  PROVE  PlanInv'
<1>1. /\ phase = "respond" /\ todo = <<>> /\ scr' = scr /\ who' = who /\ level' = level
      /\ \/ phase' = "scripts" /\ block' = block + 1
         \/ phase' = "ready"
  BY DEF RespondEnd
<1>2. AllOrdered'
  BY <1>1 DEF PlanInv, AllOrdered
<1>3. LookingOn'
  <2>1. /\ level \in DOMAIN Scripts[who] /\ block \in DOMAIN Scripts[who][level]
        /\ who \in Scriptables /\ level \in Int /\ block \in Int
    BY <1>1 DEF PlanInv, HandingOut, Inv, Typed
  <2>20. PICK response \in Scripts[who][level][block] : \E k \in 0..Len(response) :
           /\ todo = SubSeq(response, k + 1, Len(response))
           /\ \A b \in Action : Owns(scr[who], b) =>
                Earlier(who, b, level, block) \/ \E i \in 1..k : response[i] = b
    BY <1>1 DEF PlanInv, HandingOut
  <2>2. PICK k \in 0..Len(response) :
          /\ todo = SubSeq(response, k + 1, Len(response))
          /\ \A b \in Action : Owns(scr[who], b) =>
               Earlier(who, b, level, block) \/ \E i \in 1..k : response[i] = b
    BY <2>20
  <2>3. response \in Seq(Action)
    <3>1. Scripts[who] \in Seq(Seq(SUBSET Responses))
      BY <2>1, ScriptsAssumption
    <3>2. Scripts[who][level] \in Seq(SUBSET Responses)
      BY <2>1, <3>1
    <3>3. Scripts[who][level][block] \in SUBSET Responses
      BY <2>1, <3>2
    <3> QED
      BY <3>3 DEF Responses
  <2>4. 1..k \subseteq DOMAIN response
    BY <2>3
  <2>5. Scripts[who][level] \in Seq(SUBSET Responses)
    <3>1. Scripts[who] \in Seq(Seq(SUBSET Responses))
      BY <2>1, ScriptsAssumption
    <3> QED
      BY <2>1, <3>1
  <2>6. ASSUME NEW b \in Action, Owns(scr[who], b)
        PROVE  Earlier(who, b, level, block + 1)
    <3>1. CASE Earlier(who, b, level, block)
      <4>10. PICK l \in DOMAIN Scripts[who] : \E m \in DOMAIN Scripts[who][l] :
               /\ l < level \/ (l = level /\ m < block)
               /\ \E p \in Scripts[who][l][m] : \E i \in DOMAIN p : p[i] = b
        BY <3>1 DEF Earlier
      <4>1. PICK m \in DOMAIN Scripts[who][l] :
              /\ l < level \/ (l = level /\ m < block)
              /\ \E p \in Scripts[who][l][m] : \E i \in DOMAIN p : p[i] = b
        BY <4>10
      <4>2. l < level \/ (l = level /\ m < block + 1)
        <5>1. CASE l < level
          BY <5>1
        <5>2. CASE l = level /\ m < block
          <6>1. m \in Int
            BY <2>5, <5>2
          <6> QED
            BY <2>1, <5>2, <6>1
        <5> QED
          BY <4>1, <5>1, <5>2
      <4> QED
        BY <4>1, <4>2 DEF Earlier
    <3>2. CASE \E i \in 1..k : response[i] = b
      <4>1. block < block + 1
        BY <2>1
      <4> QED
        BY <2>1, <2>4, <3>2, <4>1 DEF Earlier
    <3> QED
      BY <2>2, <2>6, <3>1, <3>2
  <2>7. \A b \in Action : Owns(scr'[who], b) <=> Owns(scr[who], b)
    BY <1>1
  <2> QED
    BY <1>1, <2>6, <2>7 DEF LookingOn, Owns
<1> QED
  BY <1>1, <1>2, <1>3 DEF PlanInv, HandingOut, Staging

\* A cutscene hands out actions of no script.
LEMMA SceneAddPlan ==
  ASSUME OwnObjects, PlanInv, Inv', SceneAdd
  PROVE  PlanInv'
<1>1. /\ phase = "stage" /\ phase' = "stage" /\ todo # <<>> /\ todo' = Tail(todo)
      /\ todo \in Seq(Action) /\ who \in Scriptables /\ scr \in World
      /\ \A i \in DOMAIN todo : todo[i].id = 0
  BY DEF SceneAdd, PlanInv, Inv, Typed, Responses, GoodWorld, Staging
<1>2. /\ Head(todo) \in Action /\ Head(todo).id = 0
      /\ \A i \in DOMAIN Tail(todo) : Tail(todo)[i].id = 0
  BY <1>1
<1>3. WorldThins(scr, scr')
  <2>1. CASE scr' = [scr EXCEPT ![who] = Queued(@, Head(todo))]
    <3>1. scr[who] \in Scriptable
      BY <1>1 DEF World
    <3>2. Thins(who, scr[who], Queued(scr[who], Head(todo)))
      BY <1>2, <3>1, QueuedThins
    <3>3. \A t \in Scriptables : Thins(t, scr[t], scr[t])
      BY DEF Thins
    <3>4. \A t \in Scriptables :
            scr'[t] = IF t = who THEN Queued(scr[who], Head(todo)) ELSE scr[t]
      BY <1>1, <2>1 DEF World
    <3> QED
      BY <3>2, <3>3, <3>4 DEF WorldThins
  <2> QED
    BY <1>1, <2>1, HandedOutThins DEF SceneAdd, PlanInv
<1> QED
  BY <1>1, <1>2, <1>3, PlanThinningSteps

\* A cutscene begins with actions of no script.
LEMMA SceneBeginPlan ==
  ASSUME OwnObjects, PlanInv, Inv', NEW s \in Scriptables, NEW response \in Scenes,
         SceneBegin(s, response)
  PROVE  PlanInv'
<1>1. scr' = scr /\ phase' = "stage"
  BY DEF SceneBegin
<1>2. WorldThins(scr, scr')
  BY <1>1 DEF WorldThins, Thins
<1>3. response \in Seq(Action) /\ \A i \in DOMAIN response : response[i].id = 0
  BY ScenesAssumption DEF Responses, OwnObjects
<1>4. \A i \in DOMAIN todo' : todo'[i].id = 0
  <2>1. CASE s \in Actors
    BY <1>3, <2>1 DEF SceneBegin
  <2>2. CASE s \notin Actors
    <3> DEFINE hold == SceneAction("hold")
               free == SceneAction("free")
    <3>1. /\ todo' = <<hold>> \o response \o <<free>>
          /\ hold \in Action /\ hold.id = 0 /\ free \in Action /\ free.id = 0
      BY <2>2 DEF SceneBegin, SceneAction, LastStep, Action, Kinds
    <3> HIDE DEF hold, free
    <3>2. /\ <<hold>> \o response \in Seq(Action)
          /\ \A i \in DOMAIN (<<hold>> \o response) : (<<hold>> \o response)[i].id = 0
      BY <1>3, <3>1
    <3> DEFINE front == <<hold>> \o response
    <3> HIDE DEF front
    <3>3. \A i \in DOMAIN (front \o <<free>>) : (front \o <<free>>)[i].id = 0
      BY <3>1, <3>2 DEF front
    <3> QED
      BY <3>1, <3>3 DEF front
  <2> QED
    BY <2>1, <2>2
<1> QED
  BY <1>1, <1>2, <1>4, PlanThinningSteps

\* The steps that change one plan, or all, by the operators above.
LEMMA PlanTurnSteps ==
  ASSUME OwnObjects, PlanInv, Inv',
         \/ StartActions \/ PlanEmpty \/ ProcessAction \/ SceneEnd
         \/ \E s \in Actors, a \in Orders : Order(s, a)
  PROVE  PlanInv'
<1>1. who \in Scriptables /\ scr \in World /\ GoodWorld(scr)
  BY DEF PlanInv, Inv, Typed, GoodWorld
<1>2. \A t \in Scriptables : Thins(t, scr[t], scr[t]) /\ scr[t] \in Scriptable
  BY <1>1 DEF Thins, World
<1>3. ASSUME NEW s \in Scriptables, NEW r, scr' = [scr EXCEPT ![s] = r],
             Thins(s, scr[s], r)
      PROVE  WorldThins(scr, scr')
  <2>1. \A t \in Scriptables : scr'[t] = IF t = s THEN r ELSE scr[t]
    BY <1>1, <1>3 DEF World
  <2> QED
    BY <1>2, <1>3, <2>1 DEF WorldThins
<1>4. CASE StartActions
  <2>1. /\ scr' = [scr EXCEPT ![who] = Waited(scr[who])]
        /\ phase' \in {"frame", "actions"}
    BY <1>4 DEF StartActions
  <2>2. /\ Waited(scr[who]) \in Scriptable /\ Waited(scr[who]).queue = scr[who].queue
        /\ Waited(scr[who]).current = scr[who].current
    BY <1>1, <1>2 DEF Waited, WaitedOn, Scriptable
  <2>3. Thins(who, scr[who], Waited(scr[who]))
    BY <1>1, <1>2, <2>2, SameQueueThins
  <2>4. WorldThins(scr, scr')
    BY <1>1, <1>3, <2>1, <2>3
  <2> QED
    BY <2>1, <2>4, PlanThinningSteps
<1>5. CASE PlanEmpty
  <2> DEFINE r == [scr[who] EXCEPT !.interruptible = TRUE]
  <2>1. scr' = [scr EXCEPT ![who] = ClearActions(who, r, 4)] /\ phase' = "frame"
    BY <1>5 DEF PlanEmpty
  <2>2. r \in Scriptable /\ r.queue = scr[who].queue /\ r.current = scr[who].current
    BY <1>1, <1>2 DEF Scriptable
  <2> HIDE DEF r
  <2>3. Thins(who, scr[who], r) /\ Thins(who, r, ClearActions(who, r, 4))
    BY <1>1, <1>2, <2>2, SameQueueThins, ClearActionsThins
  <2>4. Thins(who, scr[who], ClearActions(who, r, 4))
    BY <2>3, ThinsTwice
  <2>5. WorldThins(scr, scr')
    BY <1>1, <1>3, <2>1, <2>4
  <2> QED
    BY <2>1, <2>5, PlanThinningSteps
<1>6. CASE ProcessAction
  <2> DEFINE r == Started(scr[who])
             w == [scr EXCEPT ![who] = r]
  <2>1. Good(scr[who]) /\ Busy(scr[who])
    BY <1>1, <1>6 DEF GoodWorld, ProcessAction
  <2>2. /\ r \in Scriptable /\ r.current \in Action /\ w \in World
        /\ w[who] = r /\ \A t \in Scriptables : w[t] = IF t = who THEN r ELSE scr[t]
    BY <1>1, <2>1, StartedRuns DEF World
  <2>3. Thins(who, scr[who], r)
    BY <2>1, StartedThins
  <2>4. PICK how \in Outcomes : scr' = Executed(w, who, r.current, how)
    BY <1>1, <1>6, <2>2 DEF ProcessAction
  <2>5. phase' \in {"frame", "actions"}
    BY <1>6 DEF ProcessAction
  <2> HIDE DEF r, w
  <2>6. WorldThins(scr, w)
    BY <1>2, <2>2, <2>3 DEF WorldThins
  <2>7. WorldThins(w, scr')
    BY <1>1, <2>2, <2>4, ExecutedThins
  <2>8. WorldThins(scr, scr')
    BY <2>6, <2>7, ThinsTwice DEF WorldThins
  <2> QED
    BY <2>5, <2>8, PlanThinningSteps
<1>7. CASE SceneEnd
  <2>1. scr' = [scr EXCEPT ![who] = Release(scr[who])] /\ phase' = "frame"
    BY <1>7 DEF SceneEnd
  <2>2. Thins(who, scr[who], Release(scr[who]))
    BY <1>1, <1>2, ReleaseThins
  <2>3. WorldThins(scr, scr')
    BY <1>1, <1>3, <2>1, <2>2
  <2> QED
    BY <2>1, <2>3, PlanThinningSteps
<1>8. ASSUME NEW s \in Actors, NEW a \in Orders, Order(s, a)
      PROVE  PlanInv'
  <2>1. s \in Scriptables /\ a \in Action /\ a.id = 0
    BY OrdersAssumption DEF Scriptables, OwnObjects
  <2>2. Good(scr[s])
    BY <1>1, <2>1 DEF GoodWorld
  <2> DEFINE r == Stop(s, scr[s])
  <2>3. r \in Scriptable /\ Thins(s, scr[s], r)
    BY <1>2, <2>1, <2>2, StopGood, ClearActionsThins DEF Good, Stop
  <2>4. \/ scr' = [scr EXCEPT ![s] = r]
        \/ scr' = [scr EXCEPT ![s] = Given(r, a)]
    BY <1>8 DEF Order
  <2> HIDE DEF r
  <2>5. Thins(s, scr[s], Given(r, a))
    BY <2>1, <2>3, GivenThins, ThinsTwice
  <2>6. WorldThins(scr, scr')
    BY <1>3, <2>1, <2>3, <2>4, <2>5
  <2>7. phase' = "frame"
    BY <1>8 DEF Order
  <2> QED
    BY <2>6, <2>7, PlanThinningSteps
<1> QED
  BY <1>4, <1>5, <1>6, <1>7, <1>8

\* The invariant that keeps plans in order is kept by every step.
LEMMA PlanNextInv ==
  ASSUME OwnObjects, PlanInv, [Next]_vars
  PROVE  PlanInv'
<1>1. Inv'
  BY NextInv DEF PlanInv
<1> QED
  BY <1>1, PlanOtherSteps, BlockChosenPlan, RespondPlan, RespondEndPlan, SceneAddPlan,
     SceneBeginPlan, PlanTurnSteps
     DEF Next, Proceed, Outside, Begin, BeginWithoutScripts, BeginScripts, SanityCheckFails,
         NextLevel, ScriptsDone, BlockSkipped, BlockDeclined, vars

\* When every action of the scripts is an object of its own, the actions of
\* one response that are in a plan are in the order of the script, and none is
\* in it twice, whatever stops, clears, overrides, clicks, dialogs, orders and
\* cutscenes have done to the plan (GameScript.cpp:19).
THEOREM PlanAlwaysInOrder ==
  ASSUME OwnObjects
  PROVE  Spec => []PlanInOrder
<1>1. PlanInv /\ [Next]_vars => PlanInv'
  BY PlanNextInv
<1>2. PlanInv => PlanInOrder
  <2> SUFFICES ASSUME PlanInv, NEW s \in Scriptables,
                      NEW i \in DOMAIN Plan(scr[s]), NEW j \in DOMAIN Plan(scr[s]),
                      i < j, Plan(scr[s])[i].id # 0, Plan(scr[s])[j].id # 0
               PROVE  Before(s, Plan(scr[s])[i], Plan(scr[s])[j])
    BY DEF PlanInOrder, Before
  <2> DEFINE r == scr[s]
             q == r.queue
  <2>1. r \in Scriptable /\ Ordered(s, r) /\ q \in Seq(Action)
    BY DEF PlanInv, Inv, AllOrdered, GoodWorld, World, Scriptable
  <2>2. CASE r.current = None
    <3>1. Plan(r) = q
      BY <2>1, <2>2 DEF Plan
    <3> QED
      BY <2>1, <3>1 DEF Ordered, OrderedQueue
  <2>3. CASE r.current # None
    <3> DEFINE c == r.current
               p == <<c>> \o q
    <3>1. Plan(r) = p /\ c \in Action
      BY <2>1, <2>3 DEF Plan, Scriptable
    <3> HIDE DEF c, q
    <3>2. /\ DOMAIN p = 1..(Len(q) + 1) /\ p[1] = c /\ Len(q) \in Nat
          /\ \A k \in 2..(Len(q) + 1) : k - 1 \in DOMAIN q /\ p[k] = q[k - 1]
      BY <2>1, <3>1
    <3> HIDE DEF p
    <3>3. i \in 1..(Len(q) + 1) /\ j \in 2..(Len(q) + 1)
      BY <3>1, <3>2
    <3>4. CASE i = 1
      BY <2>1, <2>3, <3>1, <3>2, <3>3, <3>4 DEF Ordered, c, q
    <3>5. CASE i # 1
      <4>1. /\ i - 1 \in DOMAIN q /\ p[i] = q[i - 1]
            /\ j - 1 \in DOMAIN q /\ p[j] = q[j - 1] /\ i - 1 < j - 1
        BY <3>2, <3>3, <3>5
      <4> QED
        BY <2>1, <3>1, <4>1 DEF Ordered, OrderedQueue, q
    <3> QED
      BY <3>4, <3>5
  <2> QED
    BY <2>2, <2>3
<1> QED
  BY PlanInitInv, <1>1, <1>2, PTL DEF Spec

--------------------------------------------------------------------------
(* Who may not be interrupted has something not to be interrupted *)

AllHarmless(q) == \A i \in DOMAIN q : Harmless(q[i])

Sound(r) ==
  /\ r \in Scriptable
  /\ ~r.interruptible => Busy(r)
  /\ r.current # None => Harmless(r.current)
  /\ AllHarmless(r.queue)

\* Who runs nothing, or what it ran, and has harmless actions before it, is
\* sound when it may be interrupted or has something to do.
LEMMA SoundFrom ==
  ASSUME NEW r, Sound(r), NEW new \in Scriptable, new.current \in {None, r.current},
         AllHarmless(new.queue), new.interruptible \/ Busy(new)
  PROVE  Sound(new)
BY DEF Sound

LEMMA ReleaseSound ==
  ASSUME NEW r, Sound(r)
  PROVE  Sound(Release(r))
<1>1. /\ Release(r) \in Scriptable /\ Release(r).current = None
      /\ Release(r).queue = r.queue /\ Release(r).interruptible = TRUE
  BY ConstantFacts DEF Sound, Release, Scriptable, Facts
<1> QED
  BY <1>1, SoundFrom DEF Sound

LEMMA SurvivorsHarmless ==
  ASSUME NEW r \in Scriptable, AllHarmless(r.queue), NEW skip \in Nat
  PROVE  AllHarmless(Survivors(r, skip))
<1>1. CASE \E i \in DOMAIN r.queue : SparedFrom(r, skip, i)
  <2> DEFINE q == r.queue
             k == CHOOSE j \in DOMAIN q : SparedFrom(r, skip, j)
             rest == SubSeq(q, k, Len(q))
  <2>1. /\ q \in Seq(Action) /\ k \in DOMAIN q /\ AllHarmless(q)
        /\ Survivors(r, skip) = rest
    BY <1>1 DEF Survivors, Scriptable
  <2> HIDE DEF q, k
  <2>2. k \in 1..Len(q)
    BY <2>1
  <2>3. q \in Seq(Action)
    BY <2>1
  <2>4. \A i \in DOMAIN rest : i + (k - 1) \in DOMAIN q /\ rest[i] = q[i + (k - 1)]
    BY <2>2, <2>3
  <2> HIDE DEF rest
  <2> QED
    BY <2>1, <2>4 DEF AllHarmless
<1>2. CASE ~\E i \in DOMAIN r.queue : SparedFrom(r, skip, i)
  BY <1>2 DEF Survivors, AllHarmless
<1> QED
  BY <1>1, <1>2

\* ClearActions leaves nobody locked without anything to do, but for the one
\* way that spares who may not be interrupted and nothing of its queue.
LEMMA ClearActionsSound ==
  ASSUME NEW s \in Scriptables, NEW r, Sound(r), NEW skip \in Nat,
         skip # 3 \/ r.interruptible
  PROVE  Sound(ClearActions(s, r, skip))
<1> DEFINE left == [r EXCEPT !.queue = Survivors(r, skip)]
           done(q) == [Release(q) EXCEPT !.wait = 0, !.noint = s \notin Actors]
           pst == Rules = "pst" /\ r.current # None /\ r.current.kind = "clear"
<1>1. r \in Scriptable /\ AllHarmless(r.queue) /\ AllHarmless(Survivors(r, skip))
  BY SurvivorsHarmless DEF Sound
<1>2. /\ left \in Scriptable /\ left.current = r.current
      /\ left.interruptible = r.interruptible /\ AllHarmless(left.queue)
  BY <1>1, SurvivorsType, NewQueue
<1>3. ASSUME NEW q \in Scriptable, AllHarmless(q.queue)
      PROVE  Sound(done(q))
  <2>1. /\ done(q) \in Scriptable /\ done(q).current = None /\ done(q).queue = q.queue
        /\ done(q).interruptible = TRUE
    BY <1>3, ConstantFacts DEF Release, Scriptable, Facts
  <2> HIDE DEF done
  <2> QED
    BY <1>3, <2>1 DEF Sound
<1>4. CASE ~pst /\ Saved(r, skip)
  <2>1. ClearActions(s, r, skip) = left
    BY <1>4 DEF ClearActions
  <2>2. left.interruptible \/ left.current # None
    BY <1>2, <1>4 DEF Saved
  <2>3. Sound(left)
    <3> HIDE DEF left
    <3> QED
      BY <1>2, <2>2, SoundFrom DEF Busy
  <2> QED
    BY <2>1, <2>3
<1>5. CASE ~(~pst /\ Saved(r, skip))
  <2>1. ClearActions(s, r, skip) \in {done(r), done(left)}
    BY <1>5 DEF ClearActions
  <2> HIDE DEF left, done
  <2> QED
    BY <1>1, <1>2, <1>3, <2>1
<1> QED
  BY <1>4, <1>5

LEMMA QueuedSound ==
  ASSUME NEW r, Sound(r), NEW a \in Action, Harmless(a)
  PROVE  /\ Sound(Queued(r, a)) /\ Queued(r, a).queue # <<>>
         /\ Sound(QueuedInFront(r, a))
<1> DEFINE q == r.queue
           back == Queued(r, a)
           front == QueuedInFront(r, a)
<1>1. q \in Seq(Action) /\ AllHarmless(q) /\ r \in Scriptable
  BY DEF Sound, Scriptable
<1>2. Append(q, a) \in Seq(Action) /\ <<a>> \o q \in Seq(Action)
  BY <1>1
<1>3. /\ back \in Scriptable /\ back.queue = Append(q, a) /\ back.current = r.current
      /\ front \in Scriptable /\ front.queue = <<a>> \o q /\ front.current = r.current
  BY <1>1, <1>2, NewQueue DEF Queued, QueuedInFront
<1> HIDE DEF q, back, front
<1>4. /\ AllHarmless(Append(q, a)) /\ Append(q, a) # <<>>
      /\ AllHarmless(<<a>> \o q) /\ <<a>> \o q # <<>>
  <2>1. q \in Seq(Action)
    BY <1>1
  <2>2. /\ Len(q) \in Nat /\ DOMAIN q = 1..Len(q)
        /\ DOMAIN Append(q, a) = 1..(Len(q) + 1) /\ Append(q, a)[Len(q) + 1] = a
        /\ \A i \in DOMAIN q : Append(q, a)[i] = q[i]
        /\ DOMAIN (<<a>> \o q) = 1..(Len(q) + 1) /\ (<<a>> \o q)[1] = a
        /\ \A i \in 2..(Len(q) + 1) : i - 1 \in DOMAIN q /\ (<<a>> \o q)[i] = q[i - 1]
    BY <2>1
  <2>3. AllHarmless(Append(q, a)) /\ AllHarmless(<<a>> \o q)
    <3>1. \A i \in DOMAIN Append(q, a) : i \in DOMAIN q \/ i = Len(q) + 1
      BY <2>2
    <3>2. \A i \in DOMAIN (<<a>> \o q) : i = 1 \/ i \in 2..(Len(q) + 1)
      BY <2>2
    <3> QED
      BY <1>1, <2>2, <3>1, <3>2 DEF AllHarmless
  <2>4. Append(q, a) # <<>> /\ <<a>> \o q # <<>>
    <3>1. /\ Len(q) + 1 \in DOMAIN Append(q, a)
          /\ 1 \in DOMAIN (<<a>> \o q)
      BY <2>2
    <3>2. \A i : i \notin DOMAIN << >>
      OBVIOUS
    <3> HIDE DEF q
    <3>3. Append(q, a) # <<>>
      BY <3>1, <3>2, Zenon
    <3>4. <<a>> \o q # <<>>
      BY <3>1, <3>2, Zenon
    <3> QED
      BY <3>3, <3>4
  <2> QED
    BY <2>3, <2>4
<1>5. Sound(back) /\ Sound(front)
  BY <1>3, <1>4, SoundFrom DEF Busy
<1> QED
  BY <1>3, <1>4, <1>5 DEF back, front

LEMMA SetInterruptSound ==
  ASSUME NEW r, Sound(r), NEW a \in Action
  PROVE  Sound(SetInterrupt(r, a))
<1>1. /\ SetInterrupt(r, a) \in Scriptable /\ SetInterrupt(r, a).current = None
      /\ SetInterrupt(r, a).queue = r.queue /\ SetInterrupt(r, a).interruptible = TRUE
  BY ConstantFacts DEF SetInterrupt, Release, Sound, Scriptable, Facts
<1> QED
  BY <1>1, SoundFrom DEF Sound

LEMMA GivenSound ==
  ASSUME NEW r, Sound(r), NEW a \in Action, Harmless(a)
  PROVE  /\ Sound(Given(r, a))
         /\ ~Instant(a) => Given(r, a).queue # <<>>
BY QueuedSound, SetInterruptSound DEF Given, RunsAtOnce

\* Whoever is made uninterruptible by an override has the copy to do.
LEMMA OverriddenSound ==
  ASSUME NEW t \in Scriptables, NEW r, Sound(r), NEW a \in Action, Harmless(a)
  PROVE  Sound(Overridden(t, r, a))
<1> DEFINE room == MadeRoom(t, r)
           given == Given(room, Copied(a))
<1>1. Copied(a) \in Action /\ Harmless(Copied(a)) /\ (Instant(Copied(a)) <=> Instant(a))
  BY DEF Copied, Action, Harmless, Instant
<1>2. Sound(room)
  BY ClearActionsSound, ReleaseSound DEF MadeRoom
<1>3. Sound(given) /\ (~Instant(a) => given.queue # <<>>)
  <2> HIDE DEF room
  <2> QED
    BY <1>1, <1>2, GivenSound
<1>4. Overridden(t, r, a) = IF Instant(a) THEN given ELSE [given EXCEPT !.interruptible = FALSE]
  BY DEF Overridden
<1> HIDE DEF room, given
<1>5. ASSUME given.queue # <<>>
      PROVE  Sound([given EXCEPT !.interruptible = FALSE])
  BY <1>3, <1>5 DEF Sound, Scriptable, Busy
<1> QED
  BY <1>3, <1>4, <1>5

\* An action function takes the mark away or leaves something to do.
LEMMA PerformedSound ==
  ASSUME NEW s \in Scriptables, NEW r, Sound(r), NEW a \in Action, Harmless(a),
         r.current = a \/ Instant(a), NEW how
  PROVE  Sound(Performed(s, r, a, how))
<1>1. r \in Scriptable /\ Sound(Release(r)) /\ Duration \in Nat
  BY ReleaseSound, ConstantFacts DEF Sound, Facts
<1>2. CASE Instant(a)
  <2>1. Performed(s, r, a, how) \in {Release(r), SetInterrupt(r, a)}
    BY <1>2 DEF Performed, Instant
  <2> QED
    BY <1>1, <2>1, SetInterruptSound
<1>3. CASE ~Instant(a)
  <2>1. r.current = a /\ r.current # None
    BY <1>3, NoneAssumption
  <2>2. Sound([r EXCEPT !.interruptible = FALSE]) /\ [r EXCEPT !.interruptible = FALSE].current # None
    BY <1>1, <2>1 DEF Sound, Scriptable, Busy
  <2>3. ASSUME NEW p, Sound(p), p.current # None
        PROVE  Sound(Counted(p))
    <3>1. CASE p.state = 1
      BY <2>3, <3>1, ReleaseSound DEF Counted
    <3>2. CASE p.state # 1
      <4>1. /\ Counted(p) \in Scriptable /\ Counted(p).queue = p.queue
            /\ Counted(p).current = p.current
        <5> DEFINE n == IF p.state = 0 THEN Duration ELSE p.state - 1
        <5>1. p \in Scriptable /\ n \in Nat
          BY <1>1, <2>3, <3>2 DEF Sound, Scriptable
        <5>2. Counted(p) = [p EXCEPT !.state = n]
          BY <3>2 DEF Counted
        <5> HIDE DEF n
        <5> QED
          BY <5>1, <5>2 DEF Scriptable
      <4> QED
        BY <2>3, <4>1, SoundFrom DEF Sound, Busy
    <3> QED
      BY <3>1, <3>2
  <2>4. Sound(Cast(r, how)) /\ Sound(Counted(r))
    BY <2>1, <2>2, <2>3 DEF Cast
  <2>5. ASSUME NEW p, Sound(p), NEW b \in BOOLEAN
        PROVE  Sound([p EXCEPT !.noint = b])
    BY <2>5 DEF Sound, Scriptable, Busy
  <2>6. Sound(Flee(s, r))
    <3> DEFINE b == r.state = 0 \/ (r.state # 1 /\ Counted(r).noint)
    <3>1. b \in BOOLEAN
      OBVIOUS
    <3>2. Flee(s, r) \in {Release(r), [Counted(r) EXCEPT !.noint = b]}
      BY DEF Flee
    <3> HIDE DEF b
    <3> QED
      BY <1>1, <2>4, <2>5, <3>1, <3>2
  <2>7. ASSUME NEW p, Sound(p), NEW n \in Nat
        PROVE  Sound([p EXCEPT !.wait = n])
    BY <2>7 DEF Sound, Scriptable, Busy
  <2>8. Sound(Face(s, r))
    <3> DEFINE n == IF s \in Actors THEN 1 ELSE Release(r).wait
    <3>1. Face(s, r) = [Release(r) EXCEPT !.wait = n] /\ n \in Nat
      BY <1>1 DEF Face, Sound, Scriptable
    <3> HIDE DEF n
    <3> QED
      BY <1>1, <2>7, <3>1
  <2>9. Sound(Escape(r, how))
    <3>1. LastStep \in Action /\ Harmless(LastStep)
      BY DEF LastStep, Action, Kinds, Harmless
    <3>2. Sound(Release([r EXCEPT !.wait = Duration]))
      BY <1>1, <2>7, ReleaseSound
    <3>3. Sound(QueuedInFront(Release([r EXCEPT !.wait = Duration]), LastStep))
      BY <3>1, <3>2, QueuedSound
    <3> QED
      BY <2>2, <3>3 DEF Escape
  <2>10. Sound(Click(r, a, how))
    <3>1. Sound([QueuedInFront(r, a) EXCEPT !.wait = 1])
      BY <2>7, QueuedSound
    <3> QED
      BY <1>1, <3>1, ReleaseSound DEF Click
  <2>11. Performed(s, r, a, how) \in
           {Release(r), Counted(r), Cast(r, how), Flee(s, r), Face(s, r), Escape(r, how),
            Click(r, a, how)}
    BY <1>3 DEF Performed
  <2> QED
    BY <1>1, <2>4, <2>6, <2>8, <2>9, <2>10, <2>11
<1> QED
  BY <1>2, <1>3

SoundWorld(w) == w \in World /\ \A s \in Scriptables : Sound(w[s])

LEMMA SoundUpdate ==
  ASSUME NEW w, SoundWorld(w), NEW s \in Scriptables, NEW r, Sound(r)
  PROVE  SoundWorld([w EXCEPT ![s] = r]) /\ [w EXCEPT ![s] = r][s] = r
BY DEF SoundWorld, Sound, World

LEMMA HandedOverSound ==
  ASSUME NEW s \in Scriptables, NEW w, SoundWorld(w), NEW a \in Action, Harmless(a),
         a.on # None, NEW how
  PROVE  SoundWorld(HandedOver(w, s, a, how))
<1> DEFINE freed == [w EXCEPT ![s] = Release(w[s])]
<1>1. SoundWorld(freed) /\ a.on \in Scriptables
  BY ReleaseSound, SoundUpdate DEF SoundWorld, Action
<1>2. HandedOver(w, s, a, how) \in
        {freed, [freed EXCEPT ![a.on] = Overridden(a.on, freed[a.on], a)]}
  BY DEF HandedOver
<1> HIDE DEF freed
<1>3. SoundWorld([freed EXCEPT ![a.on] = Overridden(a.on, freed[a.on], a)])
  BY <1>1, OverriddenSound, SoundUpdate DEF SoundWorld
<1> QED
  BY <1>1, <1>2, <1>3

LEMMA AddedSound ==
  ASSUME NEW s \in Scriptables, NEW w, SoundWorld(w), NEW a \in Action, Harmless(a), NEW how
  PROVE  SoundWorld(Added(w, s, a, how))
<1>1. /\ SoundWorld([w EXCEPT ![s] = Queued(w[s], a)])
      /\ SoundWorld([w EXCEPT ![s] = Release(w[s])])
      /\ SoundWorld([w EXCEPT ![s] = SetInterrupt(w[s], a)])
  BY QueuedSound, ReleaseSound, SetInterruptSound, SoundUpdate DEF SoundWorld
<1> QED
  BY <1>1, HandedOverSound DEF Added

\* When no actions are harmful a dialog and what clears one's own plan cut
\* nothing that leaves anybody locked for nothing.
LEMMA ExecutedSound ==
  ASSUME NEW s \in Scriptables, NEW w, SoundWorld(w), NEW a \in Action, Harmless(a),
         Instant(a) \/ (w[s].current = a /\ w[s].interruptible), NEW how
  PROVE  SoundWorld(Executed(w, s, a, how))
<1>1. w \in World /\ \A t \in Scriptables : Sound(w[t])
  BY DEF SoundWorld
<1>2. ASSUME NEW u, SoundWorld(u) PROVE SoundWorld(ReleasedBy(u, s))
  BY <1>2, ReleaseSound, SoundUpdate DEF ReleasedBy, SoundWorld
<1>3. CASE a.on # None
  BY <1>3, HandedOverSound DEF Executed
<1>4. CASE a.on = None /\ how # "fails" /\ a.kind = "clear"
  <2>1. ClearedBy(s, a) = s /\ w[s].interruptible
    BY <1>4 DEF ClearedBy, Harmless, Instant
  <2>2. SoundWorld([w EXCEPT ![s] = ClearActions(s, w[s], 3)])
    BY <1>1, <2>1, ClearActionsSound, SoundUpdate
  <2>3. Executed(w, s, a, how) = ReleasedBy([w EXCEPT ![s] = ClearActions(s, w[s], 3)], s)
    BY <1>4, <2>1 DEF Executed
  <2> QED
    BY <1>2, <2>2, <2>3
<1>5. CASE a.on = None /\ how # "fails" /\ a.kind = "talk"
  <2>1. SoundWorld(PartyHeld(w))
    <3>1. CASE Rules # "iwd2"
      BY <3>1 DEF PartyHeld
    <3>2. CASE Rules = "iwd2"
      <4>1. PartyHeld(w) = [t \in Scriptables |->
                              IF t \in Actors THEN ClearActions(t, w[t], 2) ELSE w[t]]
        BY <3>2 DEF PartyHeld
      <4>2. \A t \in Scriptables : Sound(ClearActions(t, w[t], 2))
        BY <1>1, ClearActionsSound
      <4>3. \A t \in Scriptables : Sound(PartyHeld(w)[t])
        BY <1>1, <4>1, <4>2
      <4>4. \A t \in Scriptables : PartyHeld(w)[t] \in Scriptable
        BY <4>3 DEF Sound
      <4>5. PartyHeld(w) \in World
        BY <4>1, <4>4 DEF World
      <4> QED
        BY <4>3, <4>5 DEF SoundWorld
    <3> QED
      BY <3>1, <3>2
  <2>2. Executed(w, s, a, how) = ReleasedBy(PartyHeld(w), s)
    BY <1>5 DEF Executed
  <2> QED
    BY <1>2, <2>1, <2>2
<1>6. CASE a.on = None /\ (how = "fails" \/ a.kind \notin {"clear", "talk"})
  <2>1. Executed(w, s, a, how) = [w EXCEPT ![s] = Performed(s, w[s], a, how)]
    BY <1>6 DEF Executed, Harmless
  <2>2. Sound(Performed(s, w[s], a, how))
    BY <1>1, PerformedSound
  <2> QED
    <3> DEFINE new == Performed(s, w[s], a, how)
    <3> HIDE DEF new
    <3>1. SoundWorld([w EXCEPT ![s] = new])
      BY <2>2, SoundUpdate DEF new
    <3> QED
      BY <2>1, <3>1 DEF new
<1> QED
  BY <1>3, <1>4, <1>5, <1>6

LEMMA StartedSound ==
  ASSUME NEW r, Sound(r), Good(r), Busy(r)
  PROVE  /\ Sound(Started(r)) /\ Started(r).current \in Action
         /\ Harmless(Started(r).current) /\ Started(r).interruptible
<1> DEFINE new == Started(r)
           q == r.queue
<1>1. /\ r \in Scriptable /\ new \in Scriptable /\ new.current \in Action
      /\ AllHarmless(q) /\ q \in Seq(Action)
  BY StartedRuns DEF Sound, Scriptable
<1>2. new.interruptible = TRUE
  BY <1>1 DEF Started, Scriptable
<1>3. CASE r.current # None
  <2>1. new.queue = q /\ new.current = r.current
    BY <1>1, <1>3 DEF Started, Scriptable
  <2> QED
    BY <1>1, <1>2, <1>3, <2>1 DEF Sound
<1>4. CASE r.current = None
  <2>1. new.current = Head(q) /\ new.queue = Tail(q) /\ q # <<>>
    BY <1>1, <1>4 DEF Started, Scriptable, Busy
  <2> HIDE DEF new, q
  <2>2. /\ 1 \in DOMAIN q /\ Head(q) = q[1]
        /\ \A i \in DOMAIN Tail(q) : i + 1 \in DOMAIN q /\ Tail(q)[i] = q[i + 1]
    BY <1>1, <2>1
  <2>3. Harmless(Head(q)) /\ AllHarmless(Tail(q))
    BY <1>1, <2>2 DEF AllHarmless
  <2> QED
    BY <1>1, <1>2, <2>1, <2>3 DEF Sound, new
<1> QED
  BY <1>3, <1>4

SoundInv ==
  /\ Inv /\ SoundWorld(scr) /\ phase # "aborted"
  /\ AllHarmless(todo)

LEMMA SoundInitInv == Init => SoundInv
<1> SUFFICES ASSUME Init PROVE SoundInv
  OBVIOUS
<1>1. Inv
  BY InitInv
<1>2. \A s \in Scriptables :
        scr[s].queue = <<>> /\ scr[s].current = None /\ scr[s].interruptible = TRUE
  BY DEF Init, NewScriptable
<1>3. SoundWorld(scr)
  BY <1>1, <1>2 DEF Inv, GoodWorld, Good, SoundWorld, Sound, AllHarmless
<1>4. AllHarmless(todo)
  BY DEF Init, AllHarmless
<1> QED
  BY <1>1, <1>3, <1>4 DEF SoundInv, Init

\* Handing out what is harmless.
LEMMA HandedOutSound ==
  ASSUME SoundInv, Respond \/ SceneAdd
  PROVE  SoundWorld(scr') /\ AllHarmless(todo')
<1>1. todo \in Seq(Action) /\ todo # <<>> /\ todo' = Tail(todo) /\ who \in Scriptables
  BY DEF SoundInv, Inv, Typed, Responses, Respond, SceneAdd
<1>2. /\ 1 \in DOMAIN todo /\ Head(todo) = todo[1] /\ Head(todo) \in Action
      /\ \A i \in DOMAIN Tail(todo) : i + 1 \in DOMAIN todo /\ Tail(todo)[i] = todo[i + 1]
  BY <1>1
<1>3. Harmless(Head(todo)) /\ AllHarmless(todo')
  BY <1>1, <1>2 DEF SoundInv, AllHarmless
<1>4. PICK how \in Outcomes : scr' = HandedOut(how)
  BY DEF Respond, SceneAdd
<1>5. SoundWorld(scr)
  BY DEF SoundInv
<1>6. SoundWorld(HandedOut(how))
  BY <1>1, <1>2, <1>3, <1>5, AddedSound, ExecutedSound DEF HandedOut, Immediate
<1> QED
  BY <1>3, <1>4, <1>6

\* No step ends the program, or locks anybody for nothing.
LEMMA SoundNextInv ==
  ASSUME NobodyClearsOthers, SoundInv, [Next]_vars
  PROVE  SoundInv'
<1>1. Inv' /\ Inv /\ SoundWorld(scr) /\ phase # "aborted" /\ who \in Scriptables
  BY NextInv DEF SoundInv, Inv, Typed
<1>2. \A s \in Scriptables : Sound(scr[s]) /\ Good(scr[s])
  BY <1>1 DEF SoundWorld, Inv, GoodWorld
<1>3. ASSUME NEW s \in Scriptables, Begin(s) PROVE SoundInv'
  <2>1. ~SanityCheckFails(s)
    BY <1>2 DEF SanityCheckFails, Sound
  <2>2. scr' = scr /\ todo' = todo /\ phase' # "aborted"
    BY <1>3, <2>1 DEF Begin, BeginWithoutScripts, BeginScripts
  <2> QED
    BY <1>1, <2>2 DEF SoundInv
<1>4. CASE NextLevel \/ ScriptsDone \/ BlockSkipped \/ BlockDeclined \/ RespondEnd \/ UNCHANGED vars
  <2>1. scr' = scr /\ todo' = todo /\ phase' # "aborted"
    BY <1>1, <1>4 DEF NextLevel, ScriptsDone, BlockSkipped, BlockDeclined, RespondEnd, turn, vars
  <2> QED
    BY <1>1, <2>1 DEF SoundInv
<1>5. CASE BlockChosen
  <2>1. /\ level \in DOMAIN Scripts[who] /\ block \in DOMAIN Scripts[who][level]
        /\ todo' \in Scripts[who][level][block] /\ phase' = "respond"
    BY <1>5 DEF BlockChosen, AtBlock, Levels, Script
  <2>2. AllHarmless(todo')
    BY <1>1, <2>1 DEF NobodyClearsOthers, AllHarmless
  <2>3. scr' = scr \/ scr' = [scr EXCEPT ![who] = Chosen(scr[who])]
    BY <1>5 DEF BlockChosen
  <2>4. Sound(Chosen(scr[who]))
    BY <1>1, <1>2, ClearActionsSound DEF Chosen, Stop
  <2>5. SoundWorld(scr')
    BY <1>1, <2>3, <2>4, SoundUpdate
  <2> QED
    BY <1>1, <2>1, <2>2, <2>5 DEF SoundInv
<1>6. CASE Respond \/ SceneAdd
  <2>1. phase' # "aborted"
    BY <1>1, <1>6 DEF Respond, SceneAdd
  <2> QED
    BY <1>1, <1>6, <2>1, HandedOutSound DEF SoundInv
<1>7. CASE StartActions \/ PlanEmpty \/ SceneEnd
  <2>1. todo' = todo /\ phase' # "aborted"
    BY <1>7 DEF StartActions, PlanEmpty, SceneEnd, turn
  <2>2. Sound(Waited(scr[who])) /\ Sound(Release(scr[who]))
    <3>1. Waited(scr[who]) \in {scr[who], [scr[who] EXCEPT !.wait = scr[who].wait - 1]}
      BY DEF Waited, WaitedOn
    <3>2. scr[who].wait > 0 => Sound([scr[who] EXCEPT !.wait = scr[who].wait - 1])
      BY <1>1, <1>2 DEF Sound, Scriptable, Busy
    <3> QED
      BY <1>1, <1>2, <3>1, <3>2, ReleaseSound DEF Waited, WaitedOn
  <2>3. Sound(ClearActions(who, [scr[who] EXCEPT !.interruptible = TRUE], 4))
    <3>1. Sound([scr[who] EXCEPT !.interruptible = TRUE])
      BY <1>1, <1>2 DEF Sound, Scriptable, Busy
    <3> QED
      BY <1>1, <3>1, ClearActionsSound
  <2>4. PICK r : Sound(r) /\ scr' = [scr EXCEPT ![who] = r]
    BY <1>7, <2>2, <2>3 DEF StartActions, PlanEmpty, SceneEnd
  <2>5. SoundWorld(scr')
    BY <1>1, <2>4, SoundUpdate
  <2> QED
    BY <1>1, <2>1, <2>5 DEF SoundInv
<1>8. CASE ProcessAction
  <2> DEFINE r == Started(scr[who])
             w == [scr EXCEPT ![who] = r]
  <2>1. Busy(scr[who]) /\ todo' = todo /\ phase' # "aborted"
    BY <1>8 DEF ProcessAction, turn
  <2>2. Sound(r) /\ r.current \in Action /\ Harmless(r.current) /\ r.interruptible
    BY <1>1, <1>2, <2>1, StartedSound
  <2>3. SoundWorld(w) /\ w[who] = r
    <3> HIDE DEF r
    <3> QED
      BY <1>1, <2>2, SoundUpdate
  <2>4. PICK how \in Outcomes : scr' = Executed(w, who, r.current, how)
    BY <1>8, <2>3 DEF ProcessAction
  <2> HIDE DEF r, w
  <2>5. SoundWorld(scr')
    BY <1>1, <2>2, <2>3, <2>4, ExecutedSound
  <2> QED
    BY <1>1, <2>1, <2>5 DEF SoundInv
<1>9. ASSUME NEW s \in Actors, NEW a \in Orders, Order(s, a)
      PROVE  SoundInv'
  <2>1. s \in Scriptables /\ a \in Action /\ Harmless(a)
    BY OrdersAssumption DEF Scriptables, NobodyClearsOthers
  <2>2. Sound(Stop(s, scr[s]))
    BY <1>2, <2>1, ClearActionsSound DEF Stop
  <2>3. Sound(Given(Stop(s, scr[s]), a))
    BY <2>1, <2>2, GivenSound
  <2>4. PICK r : Sound(r) /\ scr' = [scr EXCEPT ![s] = r]
    BY <1>9, <2>2, <2>3 DEF Order
  <2>5. SoundWorld(scr')
    BY <1>1, <2>1, <2>4, SoundUpdate
  <2>6. todo' = todo /\ phase' # "aborted"
    BY <1>9 DEF Order, turn
  <2> QED
    BY <1>1, <2>5, <2>6 DEF SoundInv
<1>10. ASSUME NEW s \in Scriptables, NEW response \in Scenes, SceneBegin(s, response)
       PROVE  SoundInv'
  <2>1. scr' = scr /\ phase' # "aborted"
    BY <1>10 DEF SceneBegin
  <2>2. response \in Seq(Action) /\ AllHarmless(response)
    BY ScenesAssumption DEF Responses, NobodyClearsOthers, AllHarmless
  <2> DEFINE hold == SceneAction("hold")
             free == SceneAction("free")
  <2>3. hold \in Action /\ Harmless(hold) /\ free \in Action /\ Harmless(free)
    BY DEF SceneAction, LastStep, Action, Kinds, Harmless
  <2>4. todo' \in {response, <<hold>> \o response \o <<free>>}
    BY <1>10 DEF SceneBegin
  <2> HIDE DEF hold, free
  <2> DEFINE front == <<hold>> \o response
  <2>5. /\ front \in Seq(Action)
        /\ \A i \in DOMAIN front :
             front[i] = hold \/ (i - 1 \in DOMAIN response /\ front[i] = response[i - 1])
    BY <2>2, <2>3
  <2> HIDE DEF front
  <2>6. \A i \in DOMAIN (front \o <<free>>) :
          \/ (front \o <<free>>)[i] = free
          \/ i \in DOMAIN front /\ (front \o <<free>>)[i] = front[i]
    BY <2>3, <2>5
  <2>7. AllHarmless(front \o <<free>>)
    BY <2>2, <2>3, <2>5, <2>6 DEF AllHarmless
  <2>8. AllHarmless(todo')
    BY <2>2, <2>4, <2>7 DEF front
  <2> QED
    BY <1>1, <2>1, <2>8 DEF SoundInv
<1> QED
  BY <1>3, <1>4, <1>5, <1>6, <1>7, <1>8, <1>9, <1>10 DEF Next, Proceed, Outside

\* When nobody clears the actions of somebody else, the sanity check of
\* ExecuteScript (Scriptable.cpp:264) never ends the program, for any other
\* scripts, orders and cutscenes and for every game's rules: whoever may not be
\* interrupted has something not to be interrupted.
THEOREM NobodyAborts ==
  ASSUME NobodyClearsOthers
  PROVE  Spec => []NeverAborted
<1>1. SoundInv /\ [Next]_vars => SoundInv'
  BY SoundNextInv
<1>2. SoundInv => NeverAborted
  BY DEF SoundInv, NeverAborted
<1> QED
  BY SoundInitInv, <1>1, <1>2, PTL DEF Spec
=============================================================================
