--------------------------- MODULE Traversability ---------------------------
(***************************************************************************)
(* core/TraversabilityCache.cpp: how many actors, and of which kind, stand *)
(* on every point of the navigation map.  It is brought up to date once in *)
(* a frame, when a path is first asked for, from what it remembers of      *)
(* every actor and what the actor has become; a step of the model is one   *)
(* turn of one of Update's loops.  Between two updates the game changes    *)
(* the actors.                                                             *)
(***************************************************************************)
EXTENDS Integers, Sequences, FiniteSetsExt

CONSTANTS
  Actors,
  Spots, Sizes,       \* Pos and getSizeCategory
  Points,             \* of the navigation map
  Footprint(_, _),    \* the points under an actor: its region and blocking shape
  Bumpable, Rooted,   \* the tokens: 1 and 15
  StateRange,         \* TraversabilityCellState: uint8_t
  MaxChanges,         \* bound: what changes between two updates
  Nil                 \* no actor, nothing remembered

ASSUME TokensAssumption ==
  /\ Bumpable \in Nat \ {0} /\ Rooted \in Nat \ {0} /\ StateRange \in Nat \ {0}
  /\ Bumpable < StateRange /\ Rooted < StateRange
ASSUME CrowdAssumption ==
  /\ Nil \notin Actors /\ Nil \notin [at : Spots, size : Sizes, alive : BOOLEAN, bumpable : BOOLEAN]
  /\ \A p \in Spots, s \in Sizes : Footprint(p, s) \subseteq Points
  /\ MaxChanges \in Nat

VARIABLES
  actors,    \* map->actors
  now,       \* what every actor of the map is: at, size, alive, bumpable
  cached,    \* cachedActorsState: what it was when it was last looked at
  state, occupyingActor,   \* of every point
  updated,   \* hasBeenUpdatedThisFrame
  stage,     \* idle, or the loop Update is in: removed, updated, new
  actorsRemoved, actorsUpdated, actorsNew,
  changes

data == <<state, occupyingActor>>
lists == <<actorsRemoved, actorsUpdated, actorsNew>>
crowdVars == <<actors, now, cached, data, updated, stage, lists, changes>>

Being == [at : Spots, size : Sizes, alive : BOOLEAN, bumpable : BOOLEAN]

CrowdInit ==
  /\ actors = <<>> /\ now = [a \in Actors |-> Nil]
  /\ cached = [a \in Actors |-> Nil]
  /\ state = [c \in Points |-> 0] /\ occupyingActor = [c \in Points |-> Nil]
  /\ updated = FALSE /\ stage = "idle"
  /\ actorsRemoved = {} /\ actorsUpdated = {} /\ actorsNew = {}
  /\ changes = 0

--------------------------------------------------------------------------
(* Points *)

\* GetCellStateFromFlags
Token(b) == IF ~b.alive THEN 0 ELSE IF b.bumpable THEN Bumpable ELSE Rooted

Under(b) == Footprint(b.at, b.size)

\* mutant: the actor stays the occupant of the points it leaves
WithdrawnOccupied(d, a, b) ==
  [d EXCEPT !.state = [c \in Points |-> IF c \in Under(b) THEN (@[c] - Token(b)) % StateRange
                                        ELSE @[c]]]

\* ClearOldPosition: of actor a, as b
Withdrawn(d, a, b) ==
  [state |-> [c \in Points |-> IF c \in Under(b) THEN (d.state[c] - Token(b)) % StateRange
                               ELSE d.state[c]],
   occupant |-> [c \in Points |-> IF c \in Under(b) /\ d.occupant[c] = a THEN Nil
                                  ELSE d.occupant[c]]]

\* MarkNewPosition
Entered(d, a, b) ==
  [state |-> [c \in Points |-> IF c \in Under(b) THEN (d.state[c] + Token(b)) % StateRange
                               ELSE d.state[c]],
   occupant |-> [c \in Points |-> IF c \in Under(b) /\ Token(b) > 0 THEN a
                                  ELSE d.occupant[c]]]

\* mutant: who was dead is cleared like who was alive
RedrawnTwice(d, a, old, new) ==
  IF old.at # new.at \/ old.size # new.size THEN Entered(Withdrawn(d, a, old), a, new)
  ELSE IF new.alive THEN Entered(Withdrawn(d, a, [old EXCEPT !.alive = TRUE]), a, new)
  ELSE IF old.alive THEN Withdrawn(d, a, old)
  ELSE d

\* What an actor that has changed does to the points.
Redrawn(d, a, old, new) ==
  IF old.at # new.at \/ old.size # new.size THEN Entered(Withdrawn(d, a, old), a, new)
  ELSE IF ~old.alive /\ new.alive THEN Entered(d, a, new)
  ELSE IF old.alive /\ ~new.alive THEN Withdrawn(d, a, old)
  ELSE Entered(Withdrawn(d, a, old), a, new)

Data == [state |-> state, occupant |-> occupyingActor]
Redraw(d) == state' = d.state /\ occupyingActor' = d.occupant

--------------------------------------------------------------------------
(* Update *)

OnMap == {a \in Actors : now[a] # Nil}

\* The lists are in the order of map->actors.
Place(a) == CHOOSE n \in DOMAIN actors : actors[n] = a
First(S) == {a \in S : \A b \in S : Place(a) <= Place(b)}

\* Pos, alive, bumpable or the size is not what it was.
Changed(a) == cached[a] # Nil /\ cached[a] # now[a]

\* The lists are made.
Compare ==
  /\ stage = "idle" /\ ~updated
  /\ updated' = TRUE /\ changes' = 0
  /\ actorsRemoved' = {a \in Actors \ OnMap : cached[a] # Nil}
  /\ actorsUpdated' = {a \in OnMap : Changed(a)}
  /\ actorsNew' = {a \in OnMap : cached[a] = Nil}
  /\ stage' = "removed"
  /\ UNCHANGED <<actors, now, cached, data>>

ClearRemoved ==
  /\ stage = "removed"
  /\ IF actorsRemoved = {} THEN stage' = "updated" /\ UNCHANGED <<cached, data, actorsRemoved>>
     ELSE \E a \in actorsRemoved :
            /\ Redraw(Withdrawn(Data, a, cached[a]))
            /\ cached' = [cached EXCEPT ![a] = Nil]
            /\ actorsRemoved' = actorsRemoved \ {a}
            /\ UNCHANGED stage
  /\ UNCHANGED <<actors, now, updated, actorsUpdated, actorsNew, changes>>

RedrawUpdated ==
  /\ stage = "updated"
  /\ IF actorsUpdated = {} THEN stage' = "new" /\ UNCHANGED <<cached, data, actorsUpdated>>
     ELSE \E a \in First(actorsUpdated) :
            /\ Redraw(Redrawn(Data, a, cached[a], now[a]))
            /\ cached' = [cached EXCEPT ![a] = now[a]]
            /\ actorsUpdated' = actorsUpdated \ {a}
            /\ UNCHANGED stage
  /\ UNCHANGED <<actors, now, updated, actorsRemoved, actorsNew, changes>>

MarkNew ==
  /\ stage = "new"
  /\ IF actorsNew = {} THEN stage' = "idle" /\ UNCHANGED <<cached, data, actorsNew>>
     ELSE \E a \in First(actorsNew) :
            /\ Redraw(Entered(Data, a, now[a]))
            /\ cached' = [cached EXCEPT ![a] = now[a]]
            /\ actorsNew' = actorsNew \ {a}
            /\ UNCHANGED stage
  /\ UNCHANGED <<actors, now, updated, actorsRemoved, actorsUpdated, changes>>

--------------------------------------------------------------------------
(* The game *)

MarkNewFrame ==
  /\ stage = "idle" /\ updated
  /\ updated' = FALSE
  /\ UNCHANGED <<actors, now, cached, data, stage, lists, changes>>

Changing ==
  /\ stage = "idle" /\ changes < MaxChanges
  /\ changes' = changes + 1
  /\ UNCHANGED <<cached, data, updated, stage, lists>>

\* It walks, grows, dies, comes to life, or is not to be bumped any more.
Become(a, b) ==
  /\ Changing
  /\ a \in OnMap /\ now' = [now EXCEPT ![a] = b]
  /\ UNCHANGED actors

AddActor(a, b) ==
  /\ Changing
  /\ a \notin OnMap /\ actors' = Append(actors, a)
  /\ now' = [now EXCEPT ![a] = b]

RemoveActor(a) ==
  /\ Changing
  /\ a \in OnMap /\ actors' = SelectSeq(actors, LAMBDA b : b # a)
  /\ now' = [now EXCEPT ![a] = Nil]

OneChange(b) ==
  {[b EXCEPT !.at = p] : p \in Spots} \cup {[b EXCEPT !.size = s] : s \in Sizes}
  \cup {[b EXCEPT !.alive = ~@], [b EXCEPT !.bumpable = ~@]}

CrowdNext ==
  \/ Compare \/ ClearRemoved \/ RedrawUpdated \/ MarkNew
  \/ MarkNewFrame
  \/ \E a \in Actors, b \in Being : AddActor(a, b)
  \/ \E a \in Actors : RemoveActor(a)
  \/ \E a \in OnMap : \E b \in OneChange(now[a]) \ {now[a]} : Become(a, b)

CrowdSpec == CrowdInit /\ [][CrowdNext]_crowdVars

--------------------------------------------------------------------------
(* Properties *)

\* What Update has still to do is what is left of the differences.
CrowdTypeOK ==
  /\ now \in [Actors -> Being \cup {Nil}] /\ cached \in [Actors -> Being \cup {Nil}]
  /\ state \in [Points -> 0..(StateRange - 1)] /\ occupyingActor \in [Points -> Actors \cup {Nil}]
  /\ updated \in BOOLEAN /\ stage \in {"idle", "removed", "updated", "new"}
  /\ actorsRemoved \subseteq {a \in Actors \ OnMap : cached[a] # Nil}
  /\ actorsUpdated \subseteq {a \in OnMap : cached[a] # Nil}
  /\ actorsNew \subseteq {a \in OnMap : cached[a] = Nil}
  /\ stage # "removed" => actorsRemoved = {}
  /\ stage \in {"new", "idle"} => actorsUpdated = {}
  /\ stage = "idle" => actorsNew = {}
  /\ changes \in 0..MaxChanges

Living(c) == {a \in OnMap : now[a].alive /\ c \in Under(now[a])}

\* "Upon entering a cell, each actor will put its token to the cell ... The same
\* value is subtracted when leaving a cell" (TraversabilityCache.h:21): when
\* Update is over, a point's state is the tokens of the living actors who stand
\* on it now, whatever they have been and become since it was last counted.
CrowdIsCounted ==
  [][stage = "new" /\ stage' = "idle" =>
       \A c \in Points :
         state'[c] = MapThenSumSet(LAMBDA a : Token(now[a]), Living(c)) % StateRange]_crowdVars

\* Whom the path finder takes a point's occupant for (it compares it with its
\* caller, and the pointer outlives the actor) is somebody who was alive and
\* stood there as he was last counted: nobody who has been counted out of the
\* point, or whom the map no longer had when Update last looked.
OccupantsStand ==
  \A c \in Points : occupyingActor[c] # Nil =>
    LET b == cached[occupyingActor[c]]
    IN  b # Nil /\ b.alive /\ c \in Under(b)
=============================================================================
