-------------------------- MODULE ScriptablePlan --------------------------
(***************************************************************************)
(* What one scriptable of the engine (an actor, an area, a door, the game  *)
(* itself) does to its own plan: the action it is running and the queue of *)
(* those that wait (core/Scriptable/Scriptable.cpp).  Everything here is   *)
(* an operator on the record of one scriptable; ActionQueue composes them  *)
(* into the engine's frame.                                                *)
(*                                                                         *)
(* An action is abstracted to what the queue tells apart: its kind, the    *)
(* scriptable an ActionOverride hands it to (objects[0]), the one it is    *)
(* about (objects[1]), the ACF_OVERRIDE mark, and its identity when it is  *)
(* owned by a script (0: a copy or a fresh one, never shared).             *)
(***************************************************************************)
EXTENDS Integers, Sequences

CONSTANTS
  Actors,    \* the scriptables of type ST_ACTOR
  Places,    \* all the others: areas, doors, containers, the game
  Global,    \* the one of them that is the game (ST_GLOBAL), or None
  None,      \* no scriptable, no action
  Rules,     \* which game's feature flags are on
  Duration,  \* bound: how many frames a timed action lasts
  MaxTicks   \* bound: CurrentActionTicks stops counting here

Scriptables == Actors \cup Places

ASSUME ScriptablesAssumption == None \notin Scriptables
ASSUME GlobalAssumption == Global \in Places \cup {None}
ASSUME RulesAssumption == Rules \in {"bg1", "bg2", "iwd2", "pst"}
ASSUME DurationAssumption == Duration \in Nat \ {0}
ASSUME MaxTicksAssumption == MaxTicks \in Nat \ {0}

\* One kind for each way the actions table and the action functions treat
\* the queue.  "point" stands for every action that acts at once and ends.
Kinds == {"point", "wait", "spell", "flee", "face", "escape", "click",
          "hold", "free", "clear", "clearAll", "talk", "continue"}

Action == [kind : Kinds, on : Scriptables \cup {None},
           at : Scriptables \cup {None}, override : BOOLEAN, id : Nat]

ASSUME NoneAssumption == None \notin Action

Scriptable == [queue : Seq(Action), current : Action \cup {None},
               state : Nat, ticks : Nat, wait : Nat,
               interruptible : BOOLEAN, noint : BOOLEAN]

\* A scriptable as its constructor leaves it.
NewScriptable(s) ==
  [queue |-> <<>>, current |-> None, state |-> 0, ticks |-> 0,
   interruptible |-> TRUE, noint |-> s \notin Actors, wait |-> 0]

Busy(r) == r.current # None \/ r.queue # <<>>

\* An action of scripts only, owned by the script that holds it: two of them
\* are the same object when they are equal.
SameObject(a, b) == a = b /\ a.id # 0

\* SetInterrupt(FALSE) and SetInterrupt(TRUE), the actions of instant.ids
\* that touch the queue's state.
Instant(a) == a.kind \in {"hold", "free"}

--------------------------------------------------------------------------
(* ReleaseCurrentAction and ClearActions *)

\* mutant: the countdown of the old action is left for the next one
ReleaseKeepsState(r) ==
  [r EXCEPT !.current = None, !.ticks = 0, !.interruptible = TRUE]

\* mutant: who has cast a spell stays marked as not interruptible
ReleaseKeepsMark(r) ==
  [r EXCEPT !.current = None, !.state = 0, !.ticks = 0]

Release(r) ==
  [r EXCEPT !.current = None, !.state = 0, !.ticks = 0,
            !.interruptible = TRUE]

\* Whether the loop of ClearActions steps over the queued action a.
Spared(r, a, skip) ==
  \/ skip = 1 /\ a.override
  \/ skip = 2 /\ a.kind = "spell"
  \/ /\ skip = 3
     /\ ~r.interruptible \/ r.noint
     /\ r.current # None /\ SameObject(a, r.current)

\* Whether ClearActions leaves the running action alone.
Saved(r, skip) ==
  \/ skip = 1 /\ r.current # None /\ r.current.override
  \/ skip = 2 /\ r.current # None /\ r.current.kind = "spell"
  \/ skip = 3 /\ (~r.interruptible \/ r.noint)

SparedFrom(r, skip, i) ==
  /\ Spared(r, r.queue[i], skip)
  /\ \A j \in 1..(i - 1) : ~Spared(r, r.queue[j], skip)

\* The loop always looks at the front of the queue.  Once the front is an
\* action it spares nothing more is removed: all that follows stays as well.
Survivors(r, skip) ==
  IF \E i \in DOMAIN r.queue : SparedFrom(r, skip, i)
  THEN SubSeq(r.queue, CHOOSE i \in DOMAIN r.queue : SparedFrom(r, skip, i),
              Len(r.queue))
  ELSE <<>>

\* mutant: the lock of an actor is not lifted with its actions
ClearActionsKeepsLock(s, r, skip) ==
  IF Saved(r, skip) THEN [r EXCEPT !.queue = Survivors(r, skip)]
  ELSE [Release([r EXCEPT !.queue = Survivors(r, skip)]) EXCEPT !.wait = 0]

\* mutant: pst is not told apart
ClearActionsWholeQueue(s, r, skip) ==
  IF Saved(r, skip) THEN [r EXCEPT !.queue = Survivors(r, skip)]
  ELSE [Release([r EXCEPT !.queue = Survivors(r, skip)])
          EXCEPT !.wait = 0, !.noint = s \notin Actors]

ClearActions(s, r, skip) ==
  LET pst  == /\ Rules = "pst"
              /\ r.current # None /\ r.current.kind = "clear"
      left == IF pst THEN r ELSE [r EXCEPT !.queue = Survivors(r, skip)]
  IN  IF ~pst /\ Saved(r, skip) THEN left
      ELSE [Release(left) EXCEPT !.wait = 0, !.noint = s \notin Actors]

Stop(s, r) == ClearActions(s, r, 0)

--------------------------------------------------------------------------
(* AddAction and AddActionInFront *)

\* Whether AddAction runs a at once rather than queueing it.
RunsAtOnce(r, a) ==
  /\ Instant(a)
  /\ r.current = None
  /\ r.queue = <<>> \/ (Rules = "iwd2" /\ Head(r.queue).on # None)

\* SetInterrupt, an action that ends at once.
SetInterrupt(r, a) == [Release(r) EXCEPT !.noint = a.kind = "hold"]

Queued(r, a) == [r EXCEPT !.queue = Append(@, a)]

\* mutant: AddActionInFront puts the action at the back of the queue
QueuedInFrontAtBack(r, a) == [r EXCEPT !.queue = Append(@, a)]

QueuedInFront(r, a) == [r EXCEPT !.queue = <<a>> \o @]

\* AddAction of an action that is not handed to somebody else.
Given(r, a) == IF RunsAtOnce(r, a) THEN SetInterrupt(r, a) ELSE Queued(r, a)

\* What HandleActionOverride leaves of the plan of its target t.
MadeRoom(t, r) ==
  CASE Rules = "bg2" -> ClearActions(t, r, 1)
    [] Rules = "iwd2" /\ ~r.interruptible -> r
    [] OTHER -> Release(r)

Copied(a) == [a EXCEPT !.on = None, !.override = TRUE, !.id = 0]

\* HandleActionOverride: the target t is given a copy of a.
Overridden(t, r, a) ==
  LET given == Given(MadeRoom(t, r), Copied(a))
  IN  IF Instant(a) THEN given ELSE [given EXCEPT !.interruptible = FALSE]

--------------------------------------------------------------------------
(* The action functions, on the scriptable r = scr[s] that runs action a.  *)
(* how: "goes" the function does what it is for; "fails" it gives the      *)
(* action up (no target, asleep, dead, disrupted); "again" it must be      *)
(* called again before it gets anywhere (still on the way, still moving).  *)

Outcomes == {"goes", "fails", "again"}

\* mutant: the action that has run out starts over
CountedForEver(r) ==
  IF r.state < 2 THEN [r EXCEPT !.state = Duration]
  ELSE [r EXCEPT !.state = @ - 1]

\* Wait, a spell that is being cast, a flight: a countdown in
\* CurrentActionState, which starts at 0 and ends the action.
Counted(r) ==
  IF r.state = 1 THEN Release(r)
  ELSE [r EXCEPT !.state = IF @ = 0 THEN Duration ELSE @ - 1]

\* SpellCore: from the start of the casting on, not interruptible.
Cast(r, how) ==
  IF how = "again" /\ r.state = 0 THEN r
  ELSE Counted([r EXCEPT !.interruptible = FALSE])

\* RunAwayFrom with the NoInterrupt flag: locks when it starts, unlocks when
\* it is over.
Flee(s, r) ==
  IF s \notin Actors THEN Release(r)
  ELSE [Counted(r) EXCEPT !.noint = r.state = 0 \/ (r.state # 1 /\ @)]

Face(s, r) == [Release(r) EXCEPT !.wait = IF s \in Actors THEN 1 ELSE @]

LastStep == [kind |-> "point", on |-> None, at |-> None,
             override |-> FALSE, id |-> 0]

\* EscapeAreaCore: on the way, or done and replaced by its last step.
Escape(r, how) ==
  IF how = "again" THEN [r EXCEPT !.interruptible = FALSE]
  ELSE QueuedInFront(Release([r EXCEPT !.wait = Duration]), LastStep)

\* ClickCore: while the viewport moves the action goes back to the queue.
Click(r, a, how) ==
  IF how = "again" THEN Release([QueuedInFront(r, a) EXCEPT !.wait = 1])
  ELSE Release(r)

Performed(s, r, a, how) ==
  IF how = "fails" THEN Release(r)
  ELSE CASE Instant(a)        -> SetInterrupt(r, a)
         [] a.kind = "wait"   -> Counted(r)
         [] a.kind = "spell"  -> Cast(r, how)
         [] a.kind = "flee"   -> Flee(s, r)
         [] a.kind = "face"   -> Face(s, r)
         [] a.kind = "escape" -> Escape(r, how)
         [] a.kind = "click"  -> Click(r, a, how)
         [] OTHER             -> Release(r)
=============================================================================
