------------------------------ MODULE MCActor ------------------------------
(* What happens to one actor, side by side: the plans of a party (the scripts,  *)
(* orders and scenes of MCActionQueue) under the rules of Icewind Dale 2, those *)
(* of an actor and an area under the rules of Planescape, the effects of an     *)
(* actor and his inventory. They share no state with each other, and a          *)
(* behaviour is one of one of them.                                             *)
EXTENDS MCActionQueue, EffectQueue, Inventory

VARIABLE part

\* Planescape: the second of the two is an area, which is the game as well.
Planescape == INSTANCE MCActionQueue WITH
  Rules <- "pst", Actors <- {a1}, Places <- {a2}, Global <- a2, area <- a2,
  Duration <- 1, MaxQueue <- 4, Orders <- Nothing, Scenes <- PlaceScenes,
  Scripts <- [s \in {a1, a2} |-> IF s = a1 THEN PlaceScripts[a1] ELSE PlaceScripts[area]]

\* The hypotheses of Planescape.
ASSUME ActorsScriptsOwnTheirObjects == Planescape!OwnObjects

Lasts(k, t, d) == [kind |-> k, timing |-> t, duration |-> d]

\* One effect at least of every kind and of every timing that ends otherwise.
MCMenu ==
  {Lasts("bonus", "delay limited", 1), Lasts("bonus", "equipped", 0),
   Lasts("bonus", "delay permanent", 1), Lasts("cure", "permanent", 0),
   Lasts("raise", "permanent", 0), Lasts("dispel", "permanent", 0),
   Lasts("damage", "permanent", 0),
   Lasts("repeat", "limited", 1), Lasts("uncurse", "delay unsaved", 1)}
MCRepeated == Lasts("natural", "limited", 1)

Make(kind, cursed, melee, ranged) ==
  [kind |-> kind, cursed |-> cursed, melee |-> melee, ranged |-> ranged]

\* An item of every kind, cursed weapons to strike and to shoot with, and arrows
\* for a second quiver: three are more than one stack.
MCItems ==
  [axe |-> Make("sword", TRUE, 3, -1), bow |-> Make("bow", FALSE, -1, 1),
   hex |-> Make("bow", TRUE, -1, 2), arrows |-> Make("ammo", FALSE, -1, 1),
   mail |-> Make("armour", FALSE, -1, -1), blade |-> Make("magic", FALSE, 4, -1)]
MCSupply == [x \in DOMAIN MCItems |-> IF x = "arrows" THEN 3 ELSE IF x = "blade" THEN 0 ELSE 1]
Without(names) == [x \in DOMAIN MCItems |-> IF x \in names THEN 1 ELSE 0]
MCWanting == {Without({"mail", "arrows"}), Without({"axe", "hex"})}
MCQuivers == <<"quiver 1", "quiver 2">>
MCWeapons == <<"weapon 1", "weapon 2">>
MCPacks == <<"pack">>

MCInit ==
  /\ part \in {"plan", "planescape", "effects", "items"}
  /\ IF part = "planescape" THEN Planescape!Init ELSE Init
  /\ part \in {"effects", "items"} => who = a1
  /\ FxInit /\ InvInit
  /\ part # "items" => spent["axe"] = 0  \* one of them

\* Only the plans of the party may not stop: time, items and effects are bounded,
\* and the sanity check may end the other plans.
Rest == part # "plan" /\ UNCHANGED <<vars, fxVars, invVars, part>>

MCNext ==
  \/ part = "plan" /\ Next /\ UNCHANGED <<fxVars, invVars, part>>
  \/ part = "planescape" /\ Planescape!Next /\ UNCHANGED <<fxVars, invVars, part>>
  \/ part = "effects" /\ FxNext /\ UNCHANGED <<vars, invVars, part>>
  \/ part = "items" /\ InvNext /\ UNCHANGED <<vars, fxVars, part>>
  \/ Rest

MCSpec == MCInit /\ [][MCNext]_<<vars, fxVars, invVars, part>>

\* The sanity check of ExecuteScript (Scriptable.cpp:264) never ends the program
\* while nobody clears the plan of somebody else, which ClearAllActions does.
PartyNeverAborts == part = "plan" => NeverAborted

\* Under Planescape's rules a scriptable that clears its own actions goes on with
\* those that follow (Scriptable.cpp:421), locked by a cutscene or not.
PlanescapeKeepsTheRest == Planescape!PstClearKeepsTheRest

\* What no step and no property looks at any more is left out: who acted in the
\* step that led here, what an expired effect was, and what was promised of those
\* that are gone or over.
SeenBody ==
  [body EXCEPT !.acting = {},
               !.effects = [i \in DOMAIN @ |-> IF @[i].timing = "expired"
                                               THEN <<>> ELSE @[i]]]
SeenFate ==
  [i \in DOMAIN fate |->
     IF i \in body.gone \/ (Over(fate[i]) /\ fate[i].last < now) THEN <<>> ELSE fate[i]]
ActorView ==
  <<part, CASE part = "effects" -> <<now, SeenBody, SeenFate>> [] part = "items" -> invVars
            [] OTHER -> vars>>
=============================================================================
