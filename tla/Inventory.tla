----------------------------- MODULE Inventory -----------------------------
(***************************************************************************)
(* What one member of the party carries (core/Inventory.cpp): the items in *)
(* his slots, the one in his hand, and the effects that are in force       *)
(* because he wears or wields them. The player drags items about, scripts  *)
(* and opcodes add, take and conjure them, arrows are shot and weapons     *)
(* break; every one of these calls puts effects in force and takes them    *)
(* away by hand.                                                           *)
(*                                                                         *)
(* The slots are those of Baldur's Gate 2 that effects depend on: armour,  *)
(* quivers, the slot of a conjured weapon, weapons, and the backpack. An   *)
(* item is a name and how many of it there are; Items tells the rest.      *)
(***************************************************************************)
EXTENDS Integers, Sequences, FiniteSets

CONSTANTS
  Quivers, Weapons, Packs,  \* the slots, as sequences in the order of their numbers
  Items,     \* by name: [kind, cursed, melee, ranged], the last two as damage or -1
  Supply,    \* by name: how many there are
  Wanting,   \* by name: how many may be used up from the start
  MaxStack   \* how many go in one slot

VARIABLES
  worn,  \* slots, effects in force, the slot in use, the quick weapons
  hand,  \* core->GetDraggedItem()
  pile,  \* by name: how many lie on the ground
  spent  \* by name: how many are used up, broken or destroyed
invVars == <<worn, hand, pile, spent>>

Names == DOMAIN Items
QuiverSlots == {Quivers[i] : i \in DOMAIN Quivers}
WeaponSlots == {Weapons[i] : i \in DOMAIN Weapons}
PackSlots == {Packs[i] : i \in DOMAIN Packs}
InForce == QuiverSlots \union WeaponSlots \union {"armour", "magic"}
                                   \* QuerySlotEffects is not SLOT_EFFECT_NONE
Slots == InForce \union PackSlots
Fist == "fist"                     \* IW_NO_EQUIPPED, and SLOT_FIST
NoItem == [name |-> "none", n |-> 0]

SlotOrder == <<"armour">> \o Quivers \o Packs \o Weapons  \* and "magic", before Weapons

\* The slots are different ones.
ASSUME SlotsAssumption ==
  /\ Quivers \in Seq(QuiverSlots) \ {<<>>} /\ Weapons \in Seq(WeaponSlots) \ {<<>>}
  /\ Packs \in Seq(PackSlots)
  /\ \A i, j \in DOMAIN SlotOrder : SlotOrder[i] = SlotOrder[j] => i = j
  /\ \A i \in DOMAIN SlotOrder : SlotOrder[i] \notin {"magic", Fist}

ItemKinds == {"sword", "bow", "ammo", "armour", "magic"}
ASSUME ItemsAssumption ==
  /\ Items \in [Names -> [kind : ItemKinds, cursed : BOOLEAN, melee : Int, ranged : Int]]
  /\ "none" \notin Names
  /\ Supply \in [Names -> Nat]
  /\ Wanting \subseteq {w \in [Names -> Nat] : \A x \in Names : w[x] <= Supply[x]}
  /\ MaxStack \in Nat \ {0}

\* What the items are, the empty slot's included.
KindOf == [x \in Names \union {"none"} |-> IF x = "none" THEN "none" ELSE Items[x].kind]
CursedItems == {x \in Names : Items[x].cursed}
DamageOf == [x \in Names \union {"none"} |->
               [how \in {"melee", "ranged"} |->
                  IF x = "none" \/ (how = "melee" /\ KindOf[x] = "bow") THEN -1
                  ELSE Items[x][how]]]

IsQuiver(s) == s \in QuiverSlots
IsWeapon(s) == s \in WeaponSlots
IsEmpty(b, s) == b.slots[s] = NoItem
Kind(b, s) == KindOf[b.slots[s].name]
IsCursed(b, s) == s # Fist /\ b.slots[s].name \in CursedItems
Stackable(item) == KindOf[item.name] = "ammo"

Number == [s \in Slots \ {"magic"} |-> CHOOSE i \in DOMAIN SlotOrder : SlotOrder[i] = s]
FirstOf(slots) ==
  IF slots = {} THEN Fist ELSE CHOOSE s \in slots : \A t \in slots : Number[s] <= Number[t]

-----------------------------------------------------------------------------
\* What is equipped.

\* The bound on effects the code puts in force again and again: more than twice is
\* as bad as twice.
MaxTimes == 2
PutInForce(effects, name) == IF Len(effects) < MaxTimes THEN Append(effects, name) ELSE effects

AddSlotEffects(b, s) ==
  IF s = Fist \/ IsEmpty(b, s) THEN b
  ELSE [b EXCEPT !.force[s] = PutInForce(@, b.slots[s].name)]
RemoveSlotEffects(b, s) == IF s = Fist THEN b ELSE [b EXCEPT !.force[s] = <<>>]

FindRangedProjectile(b) == FirstOf({s \in QuiverSlots : Kind(b, s) = "ammo"})
FindTypedRangedWeapon(b) == FirstOf({s \in WeaponSlots : Kind(b, s) = "bow"})
FindSlotRangedWeapon(b, s) ==
  IF IsQuiver(s) /\ ~IsEmpty(b, s) THEN FindTypedRangedWeapon(b) ELSE Fist

GetUsedWeapon(b) ==
  IF ~IsEmpty(b, "magic") THEN "magic"
  ELSE IF IsQuiver(b.equipped) THEN FindSlotRangedWeapon(b, b.equipped)
  ELSE IF b.equipped = Fist \/ IsEmpty(b, b.equipped) THEN Fist
  ELSE b.equipped

PutAway(b) ==
  LET away == {b.equipped, FindSlotRangedWeapon(b, b.equipped)}
  IN [b EXCEPT !.force = [s \in InForce |-> IF s \in away THEN <<>> ELSE @[s]]]

EquippedTooEarly(b, s) ==
  LET next == [b EXCEPT !.equipped = IF s = Fist \/ IsEmpty(b, s) THEN Fist ELSE s]
  IN IF ~IsEmpty(b, "magic") /\ s # "magic" THEN [b EXCEPT !.equipped = "magic"]
     ELSE AddSlotEffects(PutAway(next), next.equipped)

SetEquippedSlot(b, s) ==
  LET used == IF s = Fist \/ IsEmpty(b, s) THEN {} ELSE {s, FindSlotRangedWeapon(b, s)}
  IN IF ~IsEmpty(b, "magic") /\ s # "magic" THEN [b EXCEPT !.equipped = "magic"]
     ELSE [PutAway(b) EXCEPT
            !.equipped = IF used = {} THEN Fist ELSE s,
            !.force = [t \in InForce |-> IF t \in used THEN PutInForce(@[t], b.slots[t].name)
                                         ELSE @[t]]]

\* With a bow, its arrows; what is equipped gets the button of its weapon slot.
EquipItem(b, s) ==
  LET target == IF s # Fist /\ Kind(b, s) = "bow" THEN FindRangedProjectile(b) ELSE s
      button == IF IsQuiver(s) THEN FindTypedRangedWeapon(b) ELSE s
      pressed == [w \in WeaponSlots |-> IF w = button /\ target # Fist THEN target
                                        ELSE b.quick[w]]
  IN CASE s \in PackSlots \/ (s # Fist /\ IsEmpty(b, s)) -> b
       [] s \in {"armour", "magic"} /\ ~IsEmpty(b, s) -> AddSlotEffects(b, s)
       [] OTHER -> IF target = b.equipped \/ (button = Fist /\ s # Fist) THEN b
                   ELSE SetEquippedSlot([b EXCEPT !.quick = pressed], target)

Damage(b, s, how) ==
  IF s = Fist THEN -1 ELSE DamageOf[b.slots[s].name][how]

\* The first of those that do most.
Best(b, slots, how) ==
  FirstOf({s \in slots : /\ Damage(b, s, how) >= 0
                         /\ \A t \in slots : Damage(b, t, how) <= Damage(b, s, how)})

\* The loops of CanEquipRanged stop before the last slot of each sort.
CanEquipRanged(b) ==
  LET seen == (QuiverSlots \union WeaponSlots) \ {Quivers[Len(Quivers)], Weapons[Len(Weapons)]}
  IN IF \E s \in seen : IsCursed(b, s) THEN Fist ELSE Best(b, seen, "ranged")

EquipBestWeapon(b, flags) ==
  LET ranged == IF "ranged" \in flags THEN CanEquipRanged(b) ELSE Fist
      melee == IF "melee" \in flags THEN Best(b, WeaponSlots, "melee") ELSE Fist
      best == IF Damage(b, melee, "melee") > Damage(b, ranged, "ranged") THEN melee ELSE ranged
  IN IF \/ b.equipped = "magic" /\ "force" \notin flags
        \/ "ranged" \in flags /\ ranged = Fist
        \/ "melee" \in flags /\ \E s \in WeaponSlots : IsCursed(b, s)
     THEN b ELSE EquipItem(b, best)

-----------------------------------------------------------------------------
\* Slots are emptied and filled.

QuiverEmptied(b) ==
  LET bare == RemoveSlotEffects(b, FindTypedRangedWeapon(b))
      next == FindRangedProjectile(b)
  IN IF next # Fist THEN EquipItem(bare, next) ELSE EquipBestWeapon(bare, {"melee"})

\* A bow goes while its arrows, or a conjured weapon, are in use.
BowTaken(b) ==
  LET next == IF FindTypedRangedWeapon(b) = Fist THEN Fist ELSE FindRangedProjectile(b)
  IN IF next # Fist THEN EquipItem(b, next) ELSE EquipBestWeapon(b, {"melee"})

KillSlot(b, s) ==
  LET gone == RemoveSlotEffects([b EXCEPT !.slots[s] = NoItem], s)
      used == b.equipped = s
  IN CASE s \notin InForce -> [b EXCEPT !.slots[s] = NoItem]
       [] IsQuiver(s) -> IF used THEN QuiverEmptied(gone) ELSE gone
       [] s = "magic" ->
            IF used THEN EquipBestWeapon(gone, {"melee", "ranged", "force"}) ELSE gone
       [] IsWeapon(s) ->
            IF used THEN SetEquippedSlot(gone, Fist)
            ELSE IF b.equipped \notin WeaponSlots \union {Fist} /\ Kind(b, s) = "bow"
                 THEN BowTaken(gone) ELSE gone
       [] OTHER -> gone

RemoveItem(b, s, n) ==
  IF n >= b.slots[s].n THEN KillSlot(b, s) ELSE [b EXCEPT !.slots[s].n = @ - n]

\* AddSlotItem's result: what he wears then, and what is left of the item.
WhyCantEquip(b, s) == IsWeapon(s) /\ ~IsEmpty(b, "magic")

MergedWhole(b, s, item, chunk) ==
  [b |-> [b EXCEPT !.slots[s].n = @ + item.n], left |-> [item EXCEPT !.n = @ - chunk]]
Merged(b, s, item, chunk) ==
  [b |-> [b EXCEPT !.slots[s].n = @ + chunk], left |-> [item EXCEPT !.n = @ - chunk]]

Filled(b, item, s) ==
  LET room == MaxStack - b.slots[s].n
      chunk == IF item.n < room THEN item.n ELSE room
  IN IF IsEmpty(b, s) /\ ~WhyCantEquip(b, s)
     THEN [b |-> [b EXCEPT !.slots[s] = item], left |-> [item EXCEPT !.n = 0]]
     ELSE IF /\ b.slots[s].name = item.name /\ Stackable(item)
             /\ chunk > 0 /\ ~WhyCantEquip(b, s)
     THEN Merged(b, s, item, chunk)
     ELSE [b |-> b, left |-> item]

AddSlotItem(b, item, s) ==
  LET put == Filled(b, item, s)
  IN IF put.left = item THEN put ELSE [put EXCEPT !.b = EquipItem(put.b, s)]

Fits(item, s) ==
  LET kind == KindOf[item.name]
  IN \/ s \in PackSlots
     \/ kind \in {"sword", "bow"} /\ IsWeapon(s)
     \/ kind = "ammo" /\ IsQuiver(s)
     \/ kind = "armour" /\ s = "armour"

\* Into the first slots that take it, of those he wears or of the backpack.
AddToSlots(b, item, seq) ==
  LET put[n \in 0 .. Len(seq)] ==
        IF n = 0 THEN [b |-> b, left |-> item]
        ELSE LET r == put[n - 1]
             IN IF r.left.n = 0 \/ ~Fits(r.left, seq[n]) THEN r
                ELSE AddSlotItem(r.b, r.left, seq[n])
  IN put[Len(seq)]
AddToWorn(b, item) == AddToSlots(b, item, <<"armour">> \o Quivers \o Weapons)
AddToPack(b, item) == AddToSlots(b, item, Packs)

\* Actor::ReinitQuickSlots.
Reinit(b) ==
  LET Lost(s) == \/ s # Fist /\ IsEmpty(b, s)
                 \/ IsQuiver(s) /\ FindTypedRangedWeapon(b) = Fist
  IN [b EXCEPT !.quick = [w \in DOMAIN @ |-> IF Lost(@[w]) THEN Fist ELSE @[w]]]

-----------------------------------------------------------------------------
InvInit ==
  /\ worn = [slots |-> [s \in Slots |-> NoItem], force |-> [s \in InForce |-> <<>>],
             equipped |-> Fist, quick |-> [w \in WeaponSlots |-> w]]
  /\ hand = NoItem
  /\ spent \in Wanting
  /\ pile = [x \in Names |-> Supply[x] - spent[x]]

Carried(item) == IF item.n = 0 THEN NoItem ELSE item
OnGround(item) == IF item.n = 0 THEN pile ELSE [pile EXCEPT ![item.name] = @ + item.n]
Used(item, n) == [spent EXCEPT ![item.name] = @ + n]
Has(s) == ~IsEmpty(worn, s)
Cursed == IsCursed(worn, GetUsedWeapon(worn))

\* GemRB_DragItem from the pile at his feet.
PickUp ==
  /\ hand = NoItem
  /\ \E x \in Names : \E n \in 1 .. pile[x] :
       /\ hand' = [name |-> x, n |-> n]
       /\ n = 1 \/ (Stackable(hand') /\ n <= MaxStack)
       /\ pile' = [pile EXCEPT ![x] = @ - n]
  /\ UNCHANGED <<worn, spent>>

\* TryToUnequip.
CanUnequip(s) == Has(s) /\ s # "magic" /\ ~(IsCursed(worn, s) /\ s \in InForce)

\* GemRB_DragItem from a slot, the whole of it or some.
DragItem ==
  /\ hand = NoItem
  /\ \E s \in Slots : \E n \in 1 .. worn.slots[s].n :
       /\ CanUnequip(s)
       /\ \E b \in {RemoveItem(worn, s, n)} : worn' = Reinit(b)
       /\ hand' = [worn.slots[s] EXCEPT !.n = n]
  /\ UNCHANGED <<pile, spent>>

\* GemRB_DropDraggedItem onto a slot, which may exchange the two items. Arrows
\* that go to their quiver take a cursed weapon out of his hand.
DropDraggedItem ==
  /\ hand # NoItem
  /\ \E s \in Slots \ {"magic"} :
       /\ Fits(hand, s)
       /\ ~(IsWeapon(s) /\ Cursed)
       /\ \E r \in {AddSlotItem(worn, hand, s)} :
          \/ /\ r.left # hand
             /\ worn' = Reinit(r.b)
             /\ hand' = Carried(r.left)
          \/ /\ r.left = hand /\ ~WhyCantEquip(worn, s) /\ CanUnequip(s)
             /\ \E bare \in {KillSlot(worn, s)} :
                \E set \in {AddSlotItem(bare, hand, s)} : worn' = Reinit(set.b)
             /\ hand' = worn.slots[s]
  /\ UNCHANGED <<pile, spent>>

\* Onto the paperdoll, or the portrait.
DropOnPaperdoll ==
  /\ hand # NoItem
  /\ \E r \in {AddToPack(worn, hand)}
                \union (IF Cursed THEN {} ELSE {AddToWorn(worn, hand)}) :
       /\ r.left # hand
       /\ worn' = Reinit(r.b)
       /\ hand' = Carried(r.left)
  /\ UNCHANGED <<pile, spent>>

DropOnGround ==
  /\ hand # NoItem
  /\ pile' = OnGround(hand)
  /\ hand' = NoItem
  /\ UNCHANGED <<worn, spent>>

\* GemRB_SetEquippedQuickSlot.
SelectWeapon ==
  /\ ~Cursed
  /\ \E s \in {worn.quick[w] : w \in WeaponSlots} \union {Fist} :
       worn' = SetEquippedSlot(worn, s)
  /\ UNCHANGED <<hand, pile, spent>>

\* EquipMostDamagingMelee, EquipRanged, EquipWeapon, going berserk. The loops
\* for "ranged" do not see a cursed weapon in the last slot.
EquipBest ==
  /\ \E flags \in {{"melee"}, {"ranged"}, {"melee", "ranged"}} :
       worn' = EquipBestWeapon(worn, flags)
  /\ UNCHANGED <<hand, pile, spent>>

-----------------------------------------------------------------------------
\* Actor::UseItem and ChargeItem, BreakItemSlot with the last one.
Shoot ==
  /\ IsQuiver(worn.equipped) /\ Has(worn.equipped)
  /\ \E rest \in {RemoveItem(worn, worn.equipped, 1)} :
       worn' = IF IsEmpty(rest, worn.equipped) THEN EquipBestWeapon(rest, {"ranged"}) ELSE rest
  /\ spent' = Used(worn.slots[worn.equipped], 1)
  /\ UNCHANGED <<hand, pile>>

\* A blow that breaks the weapon, which has no replacement; one that has, keeps
\* the effects of what it was.
BreakWeapon ==
  /\ IsWeapon(worn.equipped) /\ Has(worn.equipped)
  /\ LET s == worn.equipped
     IN /\ Damage(worn, s, "melee") >= 0
        /\ \E bare \in {KillSlot(worn, s)} : worn' = EquipBestWeapon(bare, {"melee"})
        /\ spent' = Used(worn.slots[s], 1)
  /\ UNCHANGED <<hand, pile>>

\* fx_create_magic_item; what was there is deleted.
Conjure ==
  /\ \E x \in Names :
       /\ Items[x].kind = "magic"
       /\ worn' = SetEquippedSlot([worn EXCEPT !.slots["magic"] = [name |-> x, n |-> 1]],
                                  "magic")
  /\ UNCHANGED <<hand, pile, spent>>

\* fx_remove_item, or a spell that dispels it. Where he has no other weapon to
\* shoot or throw, or a cursed one, EquipBestWeapon leaves the empty slot in use.
Vanish ==
  /\ Has("magic")
  /\ \E b \in {KillSlot(worn, "magic")} : worn' \in {b, Reinit(b)}
  /\ UNCHANGED <<hand, pile, spent>>

\* Inventory::DestroyItem: one of an item's kind, from the last slot it is in. An
\* opcode looks after the buttons then, a script leaves them alone: with the bow
\* gone its arrows can still be chosen. Where a cursed weapon waits they even stay
\* in use.
DestroyItem ==
  /\ \E s \in Slots \ {"magic"} :
       /\ Has(s)
       /\ \A t \in Slots \ {"magic"} :
            worn.slots[t].name = worn.slots[s].name => Number[t] <= Number[s]
       /\ \E b \in {RemoveItem(worn, s, 1)} : worn' \in {b, Reinit(b)}
       /\ spent' = Used(worn.slots[s], 1)
  /\ UNCHANGED <<hand, pile>>

\* Inventory::FindItem.
FindItem(x) == FirstOf({s \in Slots \ {"magic"} : worn.slots[s].name = x})

\* GameScript::EquipItem and XEquipItem, to take it off: at his feet if there is
\* no room.
UnequipByScript ==
  /\ \E s \in {FindItem(x) : x \in Names} \ {Fist} :
     \E b \in {KillSlot(worn, s)} : \E r \in {AddToPack(b, worn.slots[s])} :
       /\ worn' = Reinit(r.b)
       /\ pile' = OnGround(r.left)
  /\ UNCHANGED <<hand, spent>>

\* GameScript::XEquipItem, from the backpack or from another weapon slot. It puts
\* the effects of armour in force twice, takes a cursed weapon out of his hand, and
\* ends the program where a conjured weapon is in use.
XEquipItem ==
  /\ IsEmpty(worn, "magic")
  /\ \E s \in {FindItem(x) : x \in Names} \ {Fist} :
     \E s2 \in (WeaponSlots \union {"armour"}) \ {s} :
       /\ Fits(worn.slots[s], s2)
       /\ \E one \in {KillSlot(worn, s)} : \E bare \in {KillSlot(one, s2)} :
          \E set \in {AddSlotItem(bare, worn.slots[s], s2).b} :
          \E back \in {IF Has(s2) THEN AddSlotItem(set, worn.slots[s2], s).b ELSE set} :
          \E b \in {EquipItem(back, s2)} :
            worn' = Reinit(b)
  /\ UNCHANGED <<hand, pile, spent>>

\* fx_remove_curse, slot by slot: back where it was and down from there if there
\* is no room.
Freed(r, s) ==
  IF s \notin InForce \/ ~IsCursed(r.b, s) THEN {r}
  ELSE {[b |-> packed.b, pile |-> IF packed.left.n = 0 THEN r.pile
                                  ELSE [r.pile EXCEPT ![packed.left.name] = @ + packed.left.n]] :
          packed \in {AddToPack(KillSlot(r.b, s), r.b.slots[s])}}

RemoveCurse ==
  /\ \E s \in InForce : IsCursed(worn, s)
  /\ LET free[n \in 0 .. Len(SlotOrder)] ==
           IF n = 0 THEN {[b |-> worn, pile |-> pile]}
           ELSE UNION {Freed(r, SlotOrder[Len(SlotOrder) + 1 - n]) : r \in free[n - 1]}
     IN \E r \in free[Len(SlotOrder)] : worn' = r.b /\ pile' = r.pile
  /\ UNCHANGED <<hand, spent>>

\* The game is saved and loaded: Actor::SetMap puts what he wears in force again;
\* a conjured weapon's effects twice.
Reload ==
  /\ hand = NoItem
  /\ LET bare == [worn EXCEPT !.force = [s \in InForce |-> <<>>]]
     IN \E dressed \in {EquipItem(AddSlotEffects(bare, "armour"), "magic")} :
        \E wields \in {EquipItem(dressed, dressed.equipped)} :
          \* SetEquippedQuickSlot takes the slot for the place of a button
          LET chosen == IF IsWeapon(wields.equipped) THEN wields.quick[wields.equipped]
                        ELSE IF \E w \in WeaponSlots : wields.quick[w] = wields.equipped
                             THEN wields.equipped ELSE Fist
          IN worn' = SetEquippedSlot(wields, chosen)
  /\ UNCHANGED <<hand, pile, spent>>

InvNext ==
  \/ PickUp \/ DragItem \/ DropDraggedItem \/ DropOnPaperdoll \/ DropOnGround
  \/ SelectWeapon \/ EquipBest \/ Shoot \/ BreakWeapon \/ Conjure \/ Vanish
  \/ DestroyItem \/ UnequipByScript \/ XEquipItem \/ RemoveCurse \/ Reload

InvSpec == InvInit /\ [][InvNext]_invVars

-----------------------------------------------------------------------------
\* Whatever is dragged, exchanged, merged, shot, broken, conjured, freed of a
\* curse or loaded, no effect outlives what it comes from: those in force are of
\* the very item in their slot, which is armour, in use, or a bow. And nothing
\* worn is without its effects: armour, the conjured weapon, the weapon in use.
NothingLingers ==
  \A s \in InForce :
    /\ \A i \in DOMAIN worn.force[s] : worn.force[s][i] = worn.slots[s].name
    /\ worn.force[s] # <<>> => s \in {"armour", worn.equipped} \/ Kind(worn, s) = "bow"
    /\ Has(s) /\ (s \in {"armour", "magic"} \/ (IsWeapon(s) /\ s = worn.equipped))
         => worn.force[s] # <<>>

\* What is removed is not in use any more ("reset Equipped if it was the removed
\* item"): the slot in use has something in it.
EquippedIsThere == worn.equipped # Fist => Has(worn.equipped)

\* No item is lost or multiplied on its way between slots, hand and ground.
NothingVanishes ==
  \A x \in {y \in Names : Items[y].kind # "magic"} :
    LET carried == {p \in Slots \X (1 .. MaxStack) :
                      worn.slots[p[1]].name = x /\ p[2] <= worn.slots[p[1]].n}
        dragged == IF hand.name = x THEN hand.n ELSE 0
    IN Cardinality(carried) + dragged + pile[x] + spent[x] = Supply[x]
=============================================================================
