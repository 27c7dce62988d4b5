----------------------------- MODULE ActorProofs -----------------------------
(***************************************************************************)
(* The inventory of one actor, for any items and how many there are of     *)
(* each, any slots and any size of a stack.                                *)
(***************************************************************************)
EXTENDS Inventory, FiniteSetTheorems, SequenceTheorems, TLAPS

--------------------------------------------------------------------------
(* Slots, and what is in them *)

\* What one slot may hold, and what may be dragged about.
Lots == {i \in [name : Names \union {"none"}, n : 0 .. MaxStack] :
           /\ i.n = 0 <=> i.name = "none"
           /\ i.n > 1 => Stackable(i)}
Parts == {i \in [name : Names, n : 0 .. MaxStack] : i.n > 1 => Stackable(i)}

Usable == QuiverSlots \union WeaponSlots \union {Fist}

Bodies == [slots : [Slots -> Lots], force : [InForce -> Seq(Names)],
           equipped : Usable \union {"magic"}, quick : [WeaponSlots -> Usable]]

LEMMA Joined ==
  ASSUME NEW S, NEW s \in Seq(S), NEW t \in Seq(S)
  PROVE  /\ s \o t \in Seq(S) /\ Len(s \o t) = Len(s) + Len(t)
         /\ \A i \in 1..Len(s) : (s \o t)[i] = s[i]
         /\ \A i \in 1..Len(t) : (s \o t)[Len(s) + i] = t[i]
<1>1. Len(s) \in Nat /\ Len(t) \in Nat /\ s \o t \in Seq(S) /\ Len(s \o t) = Len(s) + Len(t)
  OBVIOUS
<1>2. \A i \in 1..(Len(s) + Len(t)) : (s \o t)[i] = IF i <= Len(s) THEN s[i] ELSE t[i - Len(s)]
  BY ConcatProperties
<1>3. ASSUME NEW i \in 1..Len(t) PROVE (s \o t)[Len(s) + i] = t[i]
  <2>1. /\ Len(s) + i \in 1..(Len(s) + Len(t)) /\ ~(Len(s) + i <= Len(s))
        /\ Len(s) + i - Len(s) = i
    BY <1>1
  <2> QED
    BY <1>2, <2>1
<1> QED
  BY <1>1, <1>2, <1>3

\* The order is made of the sorts of slots, one after the other, and a slot is
\* of one sort.
LEMMA OrderIs ==
  LET q == Len(Quivers)
      p == Len(Packs)
      w == Len(Weapons)
  IN /\ q \in Nat \ {0} /\ p \in Nat /\ w \in Nat \ {0}
     /\ DOMAIN Quivers = 1..q /\ DOMAIN Packs = 1..p /\ DOMAIN Weapons = 1..w
     /\ Len(SlotOrder) = 1 + q + p + w /\ DOMAIN SlotOrder = 1..(1 + q + p + w)
     /\ SlotOrder[1] = "armour"
     /\ \A i \in 1..q : SlotOrder[1 + i] = Quivers[i]
     /\ \A i \in 1..p : SlotOrder[1 + q + i] = Packs[i]
     /\ \A i \in 1..w : SlotOrder[1 + q + p + i] = Weapons[i]
<1> DEFINE q == Len(Quivers)
           p == Len(Packs)
           w == Len(Weapons)
           S == Slots
           one == <<"armour">>
           two == one \o Quivers
           three == two \o Packs
<1>1. /\ Quivers \in Seq(S) /\ Packs \in Seq(S) /\ Weapons \in Seq(S)
      /\ Quivers # <<>> /\ Weapons # <<>>
      /\ one \in Seq(S)
  <2>1. QuiverSlots \subseteq S /\ PackSlots \subseteq S /\ WeaponSlots \subseteq S /\ "armour" \in S
    BY DEF Slots, InForce
  <2>2. /\ Quivers \in Seq(QuiverSlots) /\ Packs \in Seq(PackSlots) /\ Weapons \in Seq(WeaponSlots)
        /\ Quivers # <<>> /\ Weapons # <<>>
    BY SlotsAssumption
  <2> HIDE DEF S
  <2> QED
    BY <2>1, <2>2
<1> HIDE DEF S
<1>0. Len(one) = 1 /\ one[1] = "armour"
  OBVIOUS
<1>2. /\ q \in Nat \ {0} /\ p \in Nat /\ w \in Nat \ {0}
      /\ DOMAIN Quivers = 1..q /\ DOMAIN Packs = 1..p /\ DOMAIN Weapons = 1..w
  BY <1>1
<1> HIDE DEF one, q, p, w
<1>3. /\ two \in Seq(S) /\ Len(two) = 1 + q
      /\ two[1] = "armour"
      /\ \A i \in 1..q : two[1 + i] = Quivers[i]
  <2>1. two = one \o Quivers
    BY DEF two
  <2>9. /\ (one \o Quivers) \in Seq(S) /\ Len((one \o Quivers)) = Len(one) + Len(Quivers)
        /\ \A i \in 1..Len(one) : (one \o Quivers)[i] = one[i]
        /\ \A i \in 1..Len(Quivers) : (one \o Quivers)[Len(one) + i] = Quivers[i]
    BY <1>1, Joined
  <2>2. /\ two \in Seq(S) /\ Len(two) = Len(one) + Len(Quivers)
        /\ \A i \in 1..Len(one) : two[i] = one[i]
        /\ \A i \in 1..Len(Quivers) : two[Len(one) + i] = Quivers[i]
    BY <2>9, <2>1
  <2>3. 1 \in 1..Len(one)
    BY <1>0
  <2> QED
    BY <1>0, <2>2, <2>3 DEF q
<1> HIDE DEF two
<1>4. /\ three \in Seq(S) /\ Len(three) = 1 + q + p
      /\ three[1] = "armour"
      /\ \A i \in 1..q : three[1 + i] = two[1 + i]
      /\ \A i \in 1..p : three[1 + q + i] = Packs[i]
  <2>1. three = two \o Packs
    BY DEF three
  <2>9. /\ (two \o Packs) \in Seq(S) /\ Len((two \o Packs)) = Len(two) + Len(Packs)
        /\ \A i \in 1..Len(two) : (two \o Packs)[i] = two[i]
        /\ \A i \in 1..Len(Packs) : (two \o Packs)[Len(two) + i] = Packs[i]
    <3>1. two \in Seq(S)
      BY <1>3
    <3> QED
      BY <1>1, <3>1, Joined
  <2>4. /\ three \in Seq(S) /\ Len(three) = Len(two) + Len(Packs)
        /\ \A i \in 1..Len(two) : three[i] = two[i]
        /\ \A i \in 1..Len(Packs) : three[Len(two) + i] = Packs[i]
    BY <2>9, <2>1
  <2>2. /\ three \in Seq(S) /\ Len(three) = 1 + q + p
        /\ \A i \in 1..(1 + q) : three[i] = two[i]
        /\ \A i \in 1..p : three[1 + q + i] = Packs[i]
    BY <1>3, <2>4 DEF p
  <2>3. 1 \in 1..(1 + q) /\ \A i \in 1..q : 1 + i \in 1..(1 + q)
    BY <1>2
  <2> QED
    BY <1>3, <2>2, <2>3
<1> HIDE DEF three
<1>5. SlotOrder = three \o Weapons
  BY DEF SlotOrder, three, two, one
<1>6. /\ SlotOrder \in Seq(S) /\ Len(SlotOrder) = 1 + q + p + w
      /\ SlotOrder[1] = "armour"
      /\ \A i \in 1..q : SlotOrder[1 + i] = three[1 + i]
      /\ \A i \in 1..p : SlotOrder[1 + q + i] = three[1 + q + i]
      /\ \A i \in 1..w : SlotOrder[1 + q + p + i] = Weapons[i]
  <2>9. /\ (three \o Weapons) \in Seq(S) /\ Len((three \o Weapons)) = Len(three) + Len(Weapons)
        /\ \A i \in 1..Len(three) : (three \o Weapons)[i] = three[i]
        /\ \A i \in 1..Len(Weapons) : (three \o Weapons)[Len(three) + i] = Weapons[i]
    <3>1. three \in Seq(S)
      BY <1>4
    <3> QED
      BY <1>1, <3>1, Joined
  <2>3. /\ SlotOrder \in Seq(S) /\ Len(SlotOrder) = Len(three) + Len(Weapons)
        /\ \A i \in 1..Len(three) : SlotOrder[i] = three[i]
        /\ \A i \in 1..Len(Weapons) : SlotOrder[Len(three) + i] = Weapons[i]
    BY <2>9, <1>5
  <2>1. /\ SlotOrder \in Seq(S) /\ Len(SlotOrder) = 1 + q + p + w
        /\ \A i \in 1..(1 + q + p) : SlotOrder[i] = three[i]
        /\ \A i \in 1..w : SlotOrder[1 + q + p + i] = Weapons[i]
    BY <1>4, <2>3 DEF w
  <2>2. /\ 1 \in 1..(1 + q + p) /\ \A i \in 1..q : 1 + i \in 1..(1 + q + p)
        /\ \A i \in 1..p : 1 + q + i \in 1..(1 + q + p)
    BY <1>2
  <2> QED
    BY <1>4, <2>1, <2>2
<1>7. DOMAIN SlotOrder = 1..(1 + q + p + w)
  BY <1>6
<1> QED
  BY <1>2, <1>3, <1>4, <1>6, <1>7 DEF q, p, w

LEMMA SlotFacts ==
  /\ QuiverSlots \intersect (WeaponSlots \union PackSlots \union {"armour", "magic", Fist}) = {}
  /\ WeaponSlots \intersect (PackSlots \union {"armour", "magic", Fist}) = {}
  /\ PackSlots \intersect {"armour", "magic", Fist} = {}
  /\ Fist \notin Slots
  /\ Slots \ {"magic"} = {SlotOrder[i] : i \in DOMAIN SlotOrder}
<1> DEFINE q == Len(Quivers)
           p == Len(Packs)
           w == Len(Weapons)
<1>1. /\ q \in Nat \ {0} /\ p \in Nat /\ w \in Nat \ {0}
      /\ DOMAIN Quivers = 1..q /\ DOMAIN Packs = 1..p /\ DOMAIN Weapons = 1..w
      /\ DOMAIN SlotOrder = 1..(1 + q + p + w)
      /\ SlotOrder[1] = "armour"
      /\ \A i \in 1..q : SlotOrder[1 + i] = Quivers[i]
      /\ \A i \in 1..p : SlotOrder[1 + q + i] = Packs[i]
      /\ \A i \in 1..w : SlotOrder[1 + q + p + i] = Weapons[i]
  BY OrderIs
<1> HIDE DEF q, p, w
<1>2. /\ \A i, j \in DOMAIN SlotOrder : SlotOrder[i] = SlotOrder[j] => i = j
      /\ \A i \in DOMAIN SlotOrder : SlotOrder[i] # "magic" /\ SlotOrder[i] # Fist
  BY SlotsAssumption
<1>3. \A s \in QuiverSlots : \E i \in 2..(1 + q) : SlotOrder[i] = s
  <2> SUFFICES ASSUME NEW j \in 1..q PROVE \E i \in 2..(1 + q) : SlotOrder[i] = Quivers[j]
    BY <1>1 DEF QuiverSlots
  <2>1. 1 + j \in 2..(1 + q) /\ SlotOrder[1 + j] = Quivers[j]
    BY <1>1
  <2> QED
    BY <2>1
<1>4. \A s \in PackSlots : \E i \in (2 + q)..(1 + q + p) : SlotOrder[i] = s
  <2> SUFFICES ASSUME NEW j \in 1..p PROVE \E i \in (2 + q)..(1 + q + p) : SlotOrder[i] = Packs[j]
    BY <1>1 DEF PackSlots
  <2>1. 1 + q + j \in (2 + q)..(1 + q + p) /\ SlotOrder[1 + q + j] = Packs[j]
    BY <1>1
  <2> QED
    BY <2>1
<1>5. \A s \in WeaponSlots : \E i \in (2 + q + p)..(1 + q + p + w) : SlotOrder[i] = s
  <2> SUFFICES ASSUME NEW j \in 1..w
               PROVE  \E i \in (2 + q + p)..(1 + q + p + w) : SlotOrder[i] = Weapons[j]
    BY <1>1 DEF WeaponSlots
  <2>1. 1 + q + p + j \in (2 + q + p)..(1 + q + p + w) /\ SlotOrder[1 + q + p + j] = Weapons[j]
    BY <1>1
  <2> QED
    BY <2>1
<1>6. /\ 1 \in DOMAIN SlotOrder /\ 2..(1 + q) \subseteq DOMAIN SlotOrder
      /\ (2 + q)..(1 + q + p) \subseteq DOMAIN SlotOrder
      /\ (2 + q + p)..(1 + q + p + w) \subseteq DOMAIN SlotOrder
  BY <1>1
<1>7. /\ QuiverSlots \intersect (WeaponSlots \union PackSlots \union {"armour", "magic", Fist}) = {}
      /\ WeaponSlots \intersect (PackSlots \union {"armour", "magic", Fist}) = {}
      /\ PackSlots \intersect {"armour", "magic", Fist} = {}
  <2>1. ASSUME NEW s, s \in QuiverSlots
        PROVE  s \notin WeaponSlots /\ s \notin PackSlots /\ s # "armour" /\ s # "magic" /\ s # Fist
    <3>1. PICK i \in 2..(1 + q) : SlotOrder[i] = s
      BY <1>3, <2>1
    <3>2. i # 1 /\ i \notin (2 + q)..(1 + q + p) /\ i \notin (2 + q + p)..(1 + q + p + w)
      BY <1>1
    <3>3. i \in DOMAIN SlotOrder /\ s # "magic" /\ s # Fist
      BY <1>2, <1>6, <3>1
    <3>4. s \notin WeaponSlots
      <4>1. SUFFICES ASSUME s \in WeaponSlots PROVE FALSE
        OBVIOUS
      <4>2. PICK j \in (2 + q + p)..(1 + q + p + w) : SlotOrder[j] = s
        BY <1>5, <4>1
      <4>3. j \in DOMAIN SlotOrder /\ SlotOrder[i] = SlotOrder[j]
        BY <1>6, <3>1, <4>2
      <4>4. i = j
        BY <1>2, <3>3, <4>3, Zenon
      <4> QED
        BY <3>2, <4>2, <4>4
    <3>5. s \notin PackSlots
      <4>1. SUFFICES ASSUME s \in PackSlots PROVE FALSE
        OBVIOUS
      <4>2. PICK j \in (2 + q)..(1 + q + p) : SlotOrder[j] = s
        BY <1>4, <4>1
      <4>3. j \in DOMAIN SlotOrder /\ SlotOrder[i] = SlotOrder[j]
        BY <1>6, <3>1, <4>2
      <4>4. i = j
        BY <1>2, <3>3, <4>3, Zenon
      <4> QED
        BY <3>2, <4>2, <4>4
    <3>6. s # "armour"
      BY <1>1, <1>2, <1>6, <3>1, <3>2, <3>3, Zenon
    <3> QED
      BY <3>3, <3>4, <3>5, <3>6
  <2>2. ASSUME NEW s, s \in WeaponSlots
        PROVE  s \notin PackSlots /\ s # "armour" /\ s # "magic" /\ s # Fist
    <3>1. PICK i \in (2 + q + p)..(1 + q + p + w) : SlotOrder[i] = s
      BY <1>5, <2>2
    <3>2. i # 1 /\ i \notin (2 + q)..(1 + q + p)
      BY <1>1
    <3>3. i \in DOMAIN SlotOrder /\ s # "magic" /\ s # Fist
      BY <1>2, <1>6, <3>1
    <3>5. s \notin PackSlots
      <4>1. SUFFICES ASSUME s \in PackSlots PROVE FALSE
        OBVIOUS
      <4>2. PICK j \in (2 + q)..(1 + q + p) : SlotOrder[j] = s
        BY <1>4, <4>1
      <4>3. j \in DOMAIN SlotOrder /\ SlotOrder[i] = SlotOrder[j]
        BY <1>6, <3>1, <4>2
      <4>4. i = j
        BY <1>2, <3>3, <4>3, Zenon
      <4> QED
        BY <3>2, <4>2, <4>4
    <3>6. s # "armour"
      BY <1>1, <1>2, <1>6, <3>1, <3>2, <3>3, Zenon
    <3> QED
      BY <3>3, <3>5, <3>6
  <2>3. ASSUME NEW s, s \in PackSlots PROVE s # "armour" /\ s # "magic" /\ s # Fist
    <3>1. PICK i \in (2 + q)..(1 + q + p) : SlotOrder[i] = s
      BY <1>4, <2>3
    <3>2. i # 1
      BY <1>1
    <3> QED
      BY <1>1, <1>2, <1>6, <3>1, <3>2
  <2> QED
    BY <2>1, <2>2, <2>3
<1>8. Fist \notin Slots
  BY <1>7 DEF Slots, InForce, Fist
<1>9. ASSUME NEW i \in DOMAIN SlotOrder
      PROVE  SlotOrder[i] \in QuiverSlots \union PackSlots \union WeaponSlots \union {"armour"}
  <2>1. CASE i = 1
    BY <1>1, <2>1
  <2>2. CASE i \in 2..(1 + q)
    <3>1. i - 1 \in 1..q /\ 1 + (i - 1) = i
      BY <1>1, <2>2
    <3> QED
      BY <1>1, <3>1 DEF QuiverSlots
  <2>3. CASE i \in (2 + q)..(1 + q + p)
    <3>1. i - (1 + q) \in 1..p /\ 1 + q + (i - (1 + q)) = i
      BY <1>1, <2>3
    <3> QED
      BY <1>1, <3>1 DEF PackSlots
  <2>4. CASE i \in (2 + q + p)..(1 + q + p + w)
    <3>1. i - (1 + q + p) \in 1..w /\ 1 + q + p + (i - (1 + q + p)) = i
      BY <1>1, <2>4
    <3> QED
      BY <1>1, <3>1 DEF WeaponSlots
  <2> QED
    BY <1>1, <2>1, <2>2, <2>3, <2>4
<1>10. ASSUME NEW s \in Slots \ {"magic"}
       PROVE  \E i \in DOMAIN SlotOrder : SlotOrder[i] = s
  <2>1. s \in QuiverSlots \union PackSlots \union WeaponSlots \union {"armour"}
    BY DEF Slots, InForce
  <2> QED
    BY <1>1, <1>3, <1>4, <1>5, <1>6, <2>1
<1> QED
  BY <1>2, <1>7, <1>8, <1>9, <1>10 DEF Slots, InForce

LEMMA LotFacts ==
  /\ NoItem \in Lots
  /\ \A i \in Lots : /\ i.n \in 0 .. MaxStack
                     /\ i = NoItem <=> i.name = "none"
                     /\ i = NoItem <=> i.n = 0
                     /\ i # NoItem => i.name \in Names /\ i \in Parts /\ i.n \in 1 .. MaxStack
  /\ \A i \in Parts : i.n > 0 => i \in Lots /\ i # NoItem
  /\ "none" \notin Names /\ MaxStack \in Nat \ {0}
<1>1. "none" \notin Names /\ MaxStack \in Nat \ {0}
  BY ItemsAssumption
<1>2. NoItem \in Lots
  BY <1>1 DEF Lots, NoItem
<1>3. ASSUME NEW i \in Lots
      PROVE  /\ i.n \in 0 .. MaxStack
             /\ i = NoItem <=> i.name = "none"
             /\ i = NoItem <=> i.n = 0
             /\ i # NoItem => i.name \in Names /\ i \in Parts /\ i.n \in 1 .. MaxStack
  BY <1>1 DEF Lots, NoItem, Parts
<1>4. ASSUME NEW i \in Parts, i.n > 0 PROVE i \in Lots /\ i # NoItem
  <2>1. i \in [name : Names, n : 0 .. MaxStack] /\ (i.n > 1 => Stackable(i))
    BY DEF Parts
  <2>2. i \in [name : Names \union {"none"}, n : 0 .. MaxStack] /\ i.name # "none" /\ i.n # 0
    BY <1>1, <1>4, <2>1
  <2> QED
    BY <2>1, <2>2 DEF Lots, NoItem
<1> QED
  BY <1>1, <1>2, <1>3, <1>4

LEMMA KindFacts ==
  /\ \A x \in Names : KindOf[x] = Items[x].kind /\ KindOf[x] \in ItemKinds
  /\ KindOf["none"] = "none" /\ "none" \notin ItemKinds
  /\ \A x \in Names \union {"none"} : \A how \in {"melee", "ranged"} : DamageOf[x][how] \in Int
  /\ \A x \in Names \union {"none"} : \A how \in {"melee", "ranged"} :
       DamageOf[x][how] >= 0 => x \in Names
<1>1. Items \in [Names -> [kind : ItemKinds, cursed : BOOLEAN, melee : Int, ranged : Int]]
      /\ "none" \notin Names
  BY ItemsAssumption
<1>2. /\ \A x \in Names : Items[x].kind \in ItemKinds /\ Items[x].melee \in Int /\ Items[x].ranged \in Int
  BY <1>1
<1>3. \A x \in Names : Items[x]["melee"] \in Int /\ Items[x]["ranged"] \in Int
  BY <1>2
<1> QED
  BY <1>1, <1>2, <1>3 DEF KindOf, DamageOf, ItemKinds

\* Induction over the natural numbers, for a set: were some k missing from T,
\* n + 1 would put the members of T up to k, one to one, in fewer places.
LEMMA SetInduction ==
  ASSUME NEW T \in SUBSET Nat, 0 \in T, \A n \in T : n + 1 \in T
  PROVE  T = Nat
<1> SUFFICES ASSUME NEW k \in Nat, k \notin T PROVE FALSE
  OBVIOUS
<1> DEFINE S == T \cap 0..k
           f == [n \in S |-> n + 1]
<1>1. 0 \in S /\ \A n \in S : n + 1 \in S \ {0}
  OBVIOUS
<1>2. IsFiniteSet(0..k)
  BY FS_Interval
<1>3. /\ IsFiniteSet(S) /\ IsFiniteSet(S \ {0})
      /\ Cardinality(S \ {0}) = Cardinality(S) - 1
  <2>1. S \in SUBSET 0..k
    OBVIOUS
  <2> HIDE DEF S
  <2>2. IsFiniteSet(S)
    BY <1>2, <2>1, FS_Subset
  <2> QED
    BY <1>1, <2>2, FS_RemoveElement
<1>4. Cardinality(S \ {0}) < Cardinality(S)
  BY <1>3, FS_CardinalityType
<1>5. f \in [S -> S \ {0}]
  BY <1>1
<1>6. PICK m \in S, n \in S : m # n /\ f[m] = f[n]
  <2> HIDE DEF S, f
  <2> QED
    BY <1>3, <1>4, <1>5, FS_PigeonHole
<1> QED
  BY <1>6

LEMMA Interval ==
  ASSUME NEW n \in Nat
  PROVE  IsFiniteSet(1..n) /\ Cardinality(1..n) = n
<1>1. /\ IsFiniteSet(1..n)
      /\ Cardinality(1..n) = IF 1 > n THEN 0 ELSE n - 1 + 1
  <2>1. 1 \in Int /\ n \in Int
    OBVIOUS
  <2> QED
    BY <2>1, FS_Interval, Zenon
<1> QED
  BY <1>1

LEMMA LeastMember ==
  ASSUME NEW T \in SUBSET Nat, T # {}
  PROVE  \E x \in T : \A y \in T : x <= y
<1> SUFFICES ASSUME \A x \in T : \E y \in T : y < x PROVE FALSE
  OBVIOUS
<1> DEFINE U == {n \in Nat : \A x \in T : n <= x}
<1>1. 0 \in U /\ U \in SUBSET Nat
  OBVIOUS
<1>2. \A n \in U : n + 1 \in U
  <2> SUFFICES ASSUME NEW n \in U, NEW x \in T PROVE n + 1 <= x
    OBVIOUS
  <2>1. PICK y \in T : y < x
    OBVIOUS
  <2> QED
    BY <2>1
<1> HIDE DEF U
<1>3. U = Nat
  BY <1>1, <1>2, SetInduction
<1>4. PICK x \in T : TRUE
  OBVIOUS
<1>5. x + 1 \in U
  BY <1>3, <1>4
<1>6. x + 1 <= x
  BY <1>4, <1>5 DEF U
<1> QED
  BY <1>4, <1>6

\* The first of some slots is one of them.
LEMMA FirstIs ==
  ASSUME NEW S \in SUBSET (Slots \ {"magic"})
  PROVE  /\ S = {} => FirstOf(S) = Fist
         /\ S # {} => FirstOf(S) \in S /\ \A t \in S : Number[FirstOf(S)] <= Number[t]
<1> SUFFICES ASSUME S # {} PROVE \E s \in S : \A t \in S : Number[s] <= Number[t]
  BY DEF FirstOf
<1>1. \A s \in S : Number[s] \in Nat
  <2> SUFFICES ASSUME NEW s \in S PROVE Number[s] \in Nat
    OBVIOUS
  <2>1. \E i \in DOMAIN SlotOrder : SlotOrder[i] = s
    BY SlotFacts
  <2>2. DOMAIN SlotOrder \subseteq Nat
    BY OrderIs
  <2>3. Number[s] = CHOOSE i \in DOMAIN SlotOrder : SlotOrder[i] = s
    BY DEF Number
  <2> QED
    BY <2>1, <2>2, <2>3
<1> DEFINE T == {Number[s] : s \in S}
<1>2. T \in SUBSET Nat /\ T # {}
  BY <1>1
<1>3. PICK x \in T : \A y \in T : x <= y
  <2> HIDE DEF T
  <2> QED
    BY <1>2, LeastMember
<1>4. PICK s \in S : Number[s] = x
  BY <1>3
<1> QED
  BY <1>3, <1>4

--------------------------------------------------------------------------
(* Dressing: nothing leaves its slot *)

Same(c, b) == c \in Bodies /\ c.slots = b.slots

LEMMA BodyIs ==
  ASSUME NEW b \in Bodies
  PROVE  /\ b.slots \in [Slots -> Lots] /\ b.force \in [InForce -> Seq(Names)]
         /\ b.equipped \in Usable \union {"magic"} /\ b.quick \in [WeaponSlots -> Usable]
         /\ InForce \subseteq Slots /\ QuiverSlots \union WeaponSlots \subseteq InForce
         /\ \A s \in Slots : ~IsEmpty(b, s) => b.slots[s].name \in Names
         /\ \A s \in Slots : IsEmpty(b, s) => Kind(b, s) = "none"
         /\ \A s \in Slots : Kind(b, s) # "none" => ~IsEmpty(b, s)
         /\ \A s \in Slots : ~IsEmpty(b, s) => Kind(b, s) \in ItemKinds
<1>1. b.slots \in [Slots -> Lots]
  BY DEF Bodies
<1>2. ASSUME NEW s \in Slots, ~IsEmpty(b, s) PROVE b.slots[s].name \in Names /\ Kind(b, s) \in ItemKinds
  BY <1>1, <1>2, LotFacts, KindFacts DEF IsEmpty, Kind
<1>3. ASSUME NEW s \in Slots, IsEmpty(b, s) PROVE Kind(b, s) = "none"
  BY <1>3, KindFacts DEF IsEmpty, Kind, NoItem
<1> QED
  BY <1>1, <1>2, <1>3 DEF Bodies, InForce, Slots

LEMMA FindRangedIs ==
  ASSUME NEW b \in Bodies
  PROVE  \/ /\ FindRangedProjectile(b) \in QuiverSlots
            /\ Kind(b, FindRangedProjectile(b)) = "ammo"
            /\ ~IsEmpty(b, FindRangedProjectile(b))
         \/ /\ FindRangedProjectile(b) = Fist
            /\ \A s \in QuiverSlots : Kind(b, s) # "ammo"
<1> DEFINE S == {s \in QuiverSlots : Kind(b, s) = "ammo"}
<1>1. S \in SUBSET (Slots \ {"magic"})
  BY SlotFacts DEF Slots, InForce
<1>2. FindRangedProjectile(b) = FirstOf(S)
  BY DEF FindRangedProjectile
<1>3. /\ S = {} => FirstOf(S) = Fist
      /\ S # {} => FirstOf(S) \in S
  <2> HIDE DEF S
  <2> QED
    BY <1>1, FirstIs
<1>4. ASSUME NEW s \in S PROVE ~IsEmpty(b, s)
  BY <1>1, BodyIs
<1> QED
  BY <1>2, <1>3, <1>4

LEMMA FindTypedIs ==
  ASSUME NEW b \in Bodies
  PROVE  \/ /\ FindTypedRangedWeapon(b) \in WeaponSlots
            /\ Kind(b, FindTypedRangedWeapon(b)) = "bow"
            /\ ~IsEmpty(b, FindTypedRangedWeapon(b))
         \/ /\ FindTypedRangedWeapon(b) = Fist
            /\ \A s \in WeaponSlots : Kind(b, s) # "bow"
<1> DEFINE S == {s \in WeaponSlots : Kind(b, s) = "bow"}
<1>1. S \in SUBSET (Slots \ {"magic"})
  BY SlotFacts DEF Slots, InForce
<1>2. FindTypedRangedWeapon(b) = FirstOf(S)
  BY DEF FindTypedRangedWeapon
<1>3. /\ S = {} => FirstOf(S) = Fist
      /\ S # {} => FirstOf(S) \in S
  <2> HIDE DEF S
  <2> QED
    BY <1>1, FirstIs
<1>4. ASSUME NEW s \in S PROVE ~IsEmpty(b, s)
  BY <1>1, BodyIs
<1> QED
  BY <1>2, <1>3, <1>4

\* Putting in force once more, of the same item.
LEMMA AddedIs ==
  ASSUME NEW effects \in Seq(Names), NEW x \in Names
  PROVE  /\ PutInForce(effects, x) \in Seq(Names) /\ PutInForce(effects, x) # <<>>
         /\ (\A i \in DOMAIN effects : effects[i] = x) =>
              \A i \in DOMAIN PutInForce(effects, x) : PutInForce(effects, x)[i] = x
<1>1. CASE Len(effects) < MaxTimes
  <2>1. PutInForce(effects, x) = Append(effects, x)
    BY <1>1 DEF PutInForce
  <2> QED
    BY <2>1
<1>2. CASE ~(Len(effects) < MaxTimes)
  <2>1. PutInForce(effects, x) = effects
    BY <1>2 DEF PutInForce
  <2>2. effects # <<>>
    BY <1>2 DEF MaxTimes
  <2> QED
    BY <2>1, <2>2
<1> QED
  BY <1>1, <1>2

LEMMA AddKeeps ==
  ASSUME NEW b \in Bodies, NEW s \in InForce \union {Fist}
  PROVE  Same(AddSlotEffects(b, s), b)
<1>1. CASE s = Fist \/ IsEmpty(b, s)
  BY <1>1 DEF AddSlotEffects, Same
<1>2. CASE ~(s = Fist \/ IsEmpty(b, s))
  <2>1. s \in InForce /\ b.slots[s].name \in Names /\ b.force \in [InForce -> Seq(Names)]
    BY <1>2, BodyIs
  <2>2. [b.force EXCEPT ![s] = PutInForce(@, b.slots[s].name)] \in [InForce -> Seq(Names)]
    BY <2>1, AddedIs
  <2>3. AddSlotEffects(b, s) = [b EXCEPT !.force = [b.force EXCEPT ![s] = PutInForce(@, b.slots[s].name)]]
    BY <1>2 DEF AddSlotEffects
  <2> QED
    BY <2>2, <2>3 DEF Bodies, Same
<1> QED
  BY <1>1, <1>2

LEMMA RemoveKeeps ==
  ASSUME NEW b \in Bodies, NEW s \in InForce \union {Fist}
  PROVE  Same(RemoveSlotEffects(b, s), b)
<1>1. ASSUME s \in InForce PROVE [b.force EXCEPT ![s] = <<>>] \in [InForce -> Seq(Names)]
  BY <1>1, BodyIs
<1> QED
  BY <1>1 DEF RemoveSlotEffects, Bodies, Same

LEMMA SetEquippedKeeps ==
  ASSUME NEW b \in Bodies, NEW s \in Usable \union {"magic"}
  PROVE  Same(SetEquippedSlot(b, s), b)
<1>1. CASE ~IsEmpty(b, "magic") /\ s # "magic"
  BY <1>1 DEF SetEquippedSlot, Bodies, Same
<1>2. CASE ~(~IsEmpty(b, "magic") /\ s # "magic")
  <2> DEFINE used == IF s = Fist \/ IsEmpty(b, s) THEN {} ELSE {s, FindSlotRangedWeapon(b, s)}
             away == [t \in InForce |-> IF t \in {b.equipped, FindSlotRangedWeapon(b, b.equipped)}
                                        THEN <<>> ELSE b.force[t]]
             force == [t \in InForce |-> IF t \in used THEN PutInForce(away[t], b.slots[t].name)
                                         ELSE away[t]]
  <2>1. SetEquippedSlot(b, s) = [b EXCEPT !.equipped = IF used = {} THEN Fist ELSE s, !.force = force]
    BY <1>2 DEF SetEquippedSlot, PutAway, Bodies
  <2>2. away \in [InForce -> Seq(Names)]
    BY BodyIs
  <2>3. \A t \in InForce : t \in used => b.slots[t].name \in Names
    <3> SUFFICES ASSUME NEW t \in InForce, t \in used PROVE b.slots[t].name \in Names
      OBVIOUS
    <3>1. CASE t = s
      BY <3>1, BodyIs
    <3>2. CASE t # s
      <4>1. t = FindTypedRangedWeapon(b)
        BY <3>2, SlotFacts DEF FindSlotRangedWeapon, InForce, Slots
      <4> QED
        BY <4>1, SlotFacts, FindTypedIs, BodyIs
    <3> QED
      BY <3>1, <3>2
  <2> HIDE DEF away, used
  <2>4. force \in [InForce -> Seq(Names)]
    BY <2>2, <2>3, AddedIs
  <2> HIDE DEF force
  <2> QED
    BY <2>1, <2>4 DEF Bodies, Same, Usable
<1> QED
  BY <1>1, <1>2

\* What EquipItem sets out to use, and the button it presses.
TargetOf(b, s) == IF s # Fist /\ Kind(b, s) = "bow" THEN FindRangedProjectile(b) ELSE s
ButtonOf(b, s) == IF IsQuiver(s) THEN FindTypedRangedWeapon(b) ELSE s
Pressed(b, s) ==
  [b EXCEPT !.quick = [w \in WeaponSlots |-> IF w = ButtonOf(b, s) /\ TargetOf(b, s) # Fist
                                             THEN TargetOf(b, s) ELSE b.quick[w]]]

LEMMA EquipIs ==
  ASSUME NEW b \in Bodies, NEW s \in Slots \union {Fist}
  PROVE  \/ /\ s \in PackSlots \/ (s # Fist /\ IsEmpty(b, s))
            /\ EquipItem(b, s) = b
         \/ /\ s \in {"armour", "magic"} /\ ~IsEmpty(b, s)
            /\ EquipItem(b, s) = AddSlotEffects(b, s)
         \/ /\ s \in Usable /\ (s # Fist => ~IsEmpty(b, s))
            /\ TargetOf(b, s) = b.equipped \/ (ButtonOf(b, s) = Fist /\ s # Fist)
            /\ EquipItem(b, s) = b
         \/ /\ s \in Usable /\ (s # Fist => ~IsEmpty(b, s))
            /\ ~(TargetOf(b, s) = b.equipped \/ (ButtonOf(b, s) = Fist /\ s # Fist))
            /\ EquipItem(b, s) = SetEquippedSlot(Pressed(b, s), TargetOf(b, s))
<1>1. CASE s \in PackSlots \/ (s # Fist /\ IsEmpty(b, s))
  BY <1>1, SlotFacts DEF EquipItem
<1>2. CASE s \in {"armour", "magic"} /\ ~IsEmpty(b, s)
  BY <1>2, SlotFacts DEF EquipItem
<1>3. CASE /\ ~(s \in PackSlots \/ (s # Fist /\ IsEmpty(b, s)))
           /\ ~(s \in {"armour", "magic"} /\ ~IsEmpty(b, s))
  <2>1. s \in Usable /\ (s # Fist => ~IsEmpty(b, s))
    BY <1>3 DEF Slots, InForce, Usable, Fist
  <2>2. EquipItem(b, s) = IF TargetOf(b, s) = b.equipped \/ (ButtonOf(b, s) = Fist /\ s # Fist) THEN b
                          ELSE SetEquippedSlot(Pressed(b, s), TargetOf(b, s))
    BY <1>3 DEF EquipItem, TargetOf, ButtonOf, Pressed
  <2> QED
    BY <2>1, <2>2
<1> QED
  BY <1>1, <1>2, <1>3

LEMMA PressedIs ==
  ASSUME NEW b \in Bodies, NEW s \in Usable
  PROVE  /\ TargetOf(b, s) \in Usable /\ ButtonOf(b, s) \in WeaponSlots \union {Fist}
         /\ Pressed(b, s) \in Bodies /\ Pressed(b, s).slots = b.slots
         /\ Pressed(b, s).force = b.force /\ Pressed(b, s).equipped = b.equipped
<1>1. TargetOf(b, s) \in Usable
  BY FindRangedIs DEF TargetOf, Usable
<1>2. ButtonOf(b, s) \in WeaponSlots \union {Fist}
  BY FindTypedIs DEF ButtonOf, Usable, IsQuiver
<1>3. [w \in WeaponSlots |-> IF w = ButtonOf(b, s) /\ TargetOf(b, s) # Fist
                             THEN TargetOf(b, s) ELSE b.quick[w]] \in [WeaponSlots -> Usable]
  BY <1>1, BodyIs
<1> QED
  BY <1>1, <1>2, <1>3 DEF Pressed, Bodies

LEMMA EquipKeeps ==
  ASSUME NEW b \in Bodies, NEW s \in Slots \union {Fist}
  PROVE  Same(EquipItem(b, s), b)
<1>1. CASE EquipItem(b, s) = b
  BY <1>1 DEF Same
<1>2. CASE s \in {"armour", "magic"} /\ EquipItem(b, s) = AddSlotEffects(b, s)
  BY <1>2, AddKeeps DEF InForce
<1>3. CASE s \in Usable /\ EquipItem(b, s) = SetEquippedSlot(Pressed(b, s), TargetOf(b, s))
  BY <1>3, PressedIs, SetEquippedKeeps DEF Same
<1> QED
  BY <1>1, <1>2, <1>3, EquipIs

LEMMA BestIs ==
  ASSUME NEW b \in Bodies, NEW S \in SUBSET (Slots \ {"magic"}), NEW how \in {"melee", "ranged"}
  PROVE  \/ Best(b, S, how) = Fist
         \/ Best(b, S, how) \in S /\ Damage(b, Best(b, S, how), how) >= 0
<1> DEFINE T == {s \in S : /\ Damage(b, s, how) >= 0
                           /\ \A t \in S : Damage(b, t, how) <= Damage(b, s, how)}
<1>1. T \in SUBSET (Slots \ {"magic"})
  OBVIOUS
<1>2. Best(b, S, how) = FirstOf(T)
  BY DEF Best
<1>3. FirstOf(T) = Fist \/ FirstOf(T) \in T
  <2> HIDE DEF T
  <2> QED
    BY <1>1, FirstIs
<1> QED
  BY <1>2, <1>3

LEMMA CanRangedIs ==
  ASSUME NEW b \in Bodies
  PROVE  \/ CanEquipRanged(b) = Fist
         \/ /\ CanEquipRanged(b) \in QuiverSlots \union WeaponSlots
            /\ Damage(b, CanEquipRanged(b), "ranged") >= 0
<1> DEFINE seen == (QuiverSlots \union WeaponSlots) \ {Quivers[Len(Quivers)], Weapons[Len(Weapons)]}
<1>1. seen \in SUBSET (Slots \ {"magic"})
  BY SlotFacts DEF Slots, InForce
<1>2. CanEquipRanged(b) = IF \E s \in seen : IsCursed(b, s) THEN Fist ELSE Best(b, seen, "ranged")
  BY DEF CanEquipRanged
<1>3. Best(b, seen, "ranged") = Fist \/ (Best(b, seen, "ranged") \in seen
                                            /\ Damage(b, Best(b, seen, "ranged"), "ranged") >= 0)
  <2> HIDE DEF seen
  <2> QED
    BY <1>1, BestIs
<1> QED
  BY <1>2, <1>3

\* What EquipBestWeapon equips, if anything.
LEMMA BestWeaponIs ==
  ASSUME NEW b \in Bodies, NEW flags
  PROVE  \/ EquipBestWeapon(b, flags) = b
         \/ \E s \in Usable :
              /\ EquipBestWeapon(b, flags) = EquipItem(b, s)
              /\ s # Fist => ~IsEmpty(b, s)
              /\ "ranged" \notin flags => s \notin QuiverSlots
<1> DEFINE ranged == IF "ranged" \in flags THEN CanEquipRanged(b) ELSE Fist
           melee == IF "melee" \in flags THEN Best(b, WeaponSlots, "melee") ELSE Fist
           best == IF Damage(b, melee, "melee") > Damage(b, ranged, "ranged") THEN melee ELSE ranged
<1>1. EquipBestWeapon(b, flags) \in {b, EquipItem(b, best)}
  BY DEF EquipBestWeapon
<1>2. /\ ranged = Fist \/ (ranged \in QuiverSlots \union WeaponSlots /\ Damage(b, ranged, "ranged") >= 0)
      /\ "ranged" \notin flags => ranged = Fist
  BY CanRangedIs
<1>3. melee = Fist \/ (melee \in WeaponSlots /\ Damage(b, melee, "melee") >= 0)
  <2>1. WeaponSlots \in SUBSET (Slots \ {"magic"})
    BY SlotFacts DEF Slots, InForce
  <2> QED
    BY <2>1, BestIs
<1> HIDE DEF ranged, melee
<1>4. ASSUME NEW s \in Slots, NEW how \in {"melee", "ranged"}, Damage(b, s, how) >= 0
      PROVE  ~IsEmpty(b, s)
  <2>1. s # Fist /\ b.slots[s] \in Lots
    BY SlotFacts, BodyIs
  <2>2. b.slots[s].name \in Names \union {"none"}
    BY <2>1 DEF Lots
  <2>3. DamageOf[b.slots[s].name][how] >= 0
    BY <1>4, <2>1 DEF Damage
  <2>4. b.slots[s].name \in Names
    BY <2>2, <2>3, KindFacts
  <2> QED
    BY <2>4, LotFacts DEF IsEmpty, NoItem
<1>5. best \in Usable /\ (best # Fist => ~IsEmpty(b, best)) /\ ("ranged" \notin flags => best \notin QuiverSlots)
  BY <1>2, <1>3, <1>4, SlotFacts DEF Usable, Slots, InForce
<1> QED
  BY <1>1, <1>5

LEMMA BestWeaponKeeps ==
  ASSUME NEW b \in Bodies, NEW flags
  PROVE  Same(EquipBestWeapon(b, flags), b)
<1>1. Usable \subseteq Slots \union {Fist}
  BY DEF Usable, Slots, InForce
<1>2. CASE EquipBestWeapon(b, flags) = b
  BY <1>2 DEF Same
<1>3. CASE \E s \in Usable : EquipBestWeapon(b, flags) = EquipItem(b, s)
  BY <1>1, <1>3, EquipKeeps
<1> QED
  BY <1>2, <1>3, BestWeaponIs

--------------------------------------------------------------------------
(* Slots are emptied and filled *)

\* Only this slot holds something else.
Changed(c, b, s, lot) == c \in Bodies /\ c.slots = [b.slots EXCEPT ![s] = lot]

LEMMA KillKeeps ==
  ASSUME NEW b \in Bodies, NEW s \in Slots
  PROVE  Changed(KillSlot(b, s), b, s, NoItem)
<1> DEFINE bare == [b EXCEPT !.slots[s] = NoItem]
           gone == RemoveSlotEffects(bare, s)
<1>1. bare \in Bodies /\ bare.slots = [b.slots EXCEPT ![s] = NoItem]
  <2>1. [b.slots EXCEPT ![s] = NoItem] \in [Slots -> Lots]
    BY BodyIs, LotFacts
  <2> QED
    BY <2>1 DEF Bodies
<1> HIDE DEF bare
<1>2. ASSUME s \in InForce PROVE Same(gone, bare)
  BY <1>1, <1>2, RemoveKeeps
<1>3. ASSUME NEW c, Same(c, bare) PROVE Changed(c, b, s, NoItem)
  BY <1>1, <1>3 DEF Changed, Same
<1>4. CASE s \notin InForce
  <2>1. KillSlot(b, s) = bare
    BY <1>4 DEF KillSlot, bare, InForce, IsQuiver, IsWeapon
  <2> QED
    BY <1>1, <2>1 DEF Changed
<1>5. CASE s \in InForce
  <2>1. gone \in Bodies /\ Same(gone, bare)
    BY <1>2, <1>5 DEF Same
  <2>2. ASSUME NEW c, Same(c, gone) PROVE Same(c, bare)
    BY <2>1, <2>2 DEF Same
  <2> DEFINE emptied == QuiverEmptied(gone)
             taken == BowTaken(gone)
             worst == EquipBestWeapon(gone, {"melee", "ranged", "force"})
             fist == SetEquippedSlot(gone, Fist)
  <2>3. KillSlot(b, s) \in {gone, emptied, taken, worst, fist}
    BY <1>5 DEF KillSlot, bare
  <2> HIDE DEF gone
  <2>4. Same(worst, gone) /\ Same(fist, gone) /\ Same(gone, gone)
    BY <2>1, BestWeaponKeeps, SetEquippedKeeps DEF Same, Usable
  <2>5. Same(emptied, gone)
    <3> DEFINE c == RemoveSlotEffects(gone, FindTypedRangedWeapon(gone))
               next == FindRangedProjectile(gone)
    <3>1. emptied \in {EquipItem(c, next), EquipBestWeapon(c, {"melee"})}
      BY DEF QuiverEmptied
    <3>2. FindTypedRangedWeapon(gone) \in InForce \union {Fist} /\ next \in Slots \union {Fist}
      BY <2>1, FindTypedIs, FindRangedIs DEF InForce, Slots
    <3>3. Same(c, gone)
      BY <2>1, <3>2, RemoveKeeps
    <3> HIDE DEF c, next, emptied
    <3>4. Same(EquipItem(c, next), c) /\ Same(EquipBestWeapon(c, {"melee"}), c)
      BY <3>2, <3>3, EquipKeeps, BestWeaponKeeps DEF Same
    <3> QED
      BY <3>1, <3>3, <3>4 DEF Same
  <2>6. Same(taken, gone)
    <3> DEFINE next == IF FindTypedRangedWeapon(gone) = Fist THEN Fist ELSE FindRangedProjectile(gone)
    <3>1. taken \in {EquipItem(gone, next), EquipBestWeapon(gone, {"melee"})}
      BY DEF BowTaken
    <3>2. next \in Slots \union {Fist}
      BY <2>1, FindRangedIs DEF InForce, Slots
    <3> HIDE DEF next, taken
    <3> QED
      BY <2>1, <3>1, <3>2, EquipKeeps, BestWeaponKeeps
  <2> HIDE DEF emptied, taken, worst, fist
  <2>7. Same(KillSlot(b, s), gone)
    BY <2>3, <2>4, <2>5, <2>6
  <2> QED
    BY <1>3, <2>2, <2>7
<1> QED
  BY <1>4, <1>5

LEMMA RemoveItemKeeps ==
  ASSUME NEW b \in Bodies, NEW s \in Slots, NEW n \in 1 .. b.slots[s].n
  PROVE  LET lot == IF n = b.slots[s].n THEN NoItem ELSE [b.slots[s] EXCEPT !.n = @ - n]
         IN lot \in Lots /\ Changed(RemoveItem(b, s, n), b, s, lot)
<1>1. b.slots[s] \in Lots /\ b.slots[s].n \in Nat /\ b.slots \in [Slots -> Lots]
  BY BodyIs, LotFacts
<1>2. CASE n = b.slots[s].n
  BY <1>1, <1>2, KillKeeps, LotFacts DEF RemoveItem
<1>3. CASE n # b.slots[s].n
  <2> DEFINE lot == [b.slots[s] EXCEPT !.n = @ - n]
  <2>1. /\ b.slots[s].n > 1 /\ b.slots[s].n - n \in 1..MaxStack /\ ~(n >= b.slots[s].n)
        /\ MaxStack \in Nat
    BY <1>1, <1>3, LotFacts
  <2>2. b.slots[s].name # "none" /\ b.slots[s].name \in Names
    BY <1>1, <2>1, LotFacts
  <2>3. lot \in [name : Names \union {"none"}, n : 0 .. MaxStack]
        /\ lot.name = b.slots[s].name /\ lot.n = b.slots[s].n - n
    BY <1>1, <2>1, <2>2 DEF Lots
  <2>4. Stackable(b.slots[s])
    BY <1>1, <2>1 DEF Lots
  <2> HIDE DEF lot
  <2>5. lot \in Lots
    BY <2>1, <2>2, <2>3, <2>4 DEF Lots, Stackable
  <2>6. [b.slots EXCEPT ![s] = lot] \in [Slots -> Lots]
    BY <1>1, <2>5
  <2>7. RemoveItem(b, s, n) = [b EXCEPT !.slots = [b.slots EXCEPT ![s] = lot]]
    BY <2>1 DEF RemoveItem, lot
  <2>8. Changed(RemoveItem(b, s, n), b, s, lot)
    BY <2>6, <2>7 DEF Changed, Bodies
  <2> QED
    BY <1>3, <2>5, <2>8 DEF lot
<1> QED
  BY <1>2, <1>3

\* How much of an item there is of x.
Share(item, x) == IF item.name = x THEN item.n ELSE 0

LEMMA FilledIs ==
  ASSUME NEW b \in Bodies, NEW s \in Slots, NEW item \in Parts, item.n > 0
  PROVE  LET put == Filled(b, item, s)
         IN /\ put.left \in Parts /\ put.left.name = item.name
            /\ \E lot \in Lots :
                 /\ Changed(put.b, b, s, lot)
                 /\ put.b.force = b.force /\ put.b.equipped = b.equipped /\ put.b.quick = b.quick
                 /\ \A x \in Names : Share(lot, x) + Share(put.left, x)
                                       = Share(b.slots[s], x) + Share(item, x)
                 /\ \/ lot = b.slots[s] /\ put.left = item
                    \/ /\ IsEmpty(b, s) /\ lot = item /\ put.left.n = 0 /\ ~WhyCantEquip(b, s)
                    \/ /\ ~IsEmpty(b, s) /\ lot.name = item.name /\ b.slots[s].name = item.name
                       /\ put.left # item /\ Stackable(item)
<1> DEFINE put == Filled(b, item, s)
           room == MaxStack - b.slots[s].n
           chunk == IF item.n < room THEN item.n ELSE room
<1>1. /\ b.slots[s] \in Lots /\ b.slots[s].n \in 0..MaxStack /\ b.slots \in [Slots -> Lots]
      /\ MaxStack \in Nat /\ item.n \in 1..MaxStack /\ item.name \in Names
      /\ item \in Lots /\ "none" \notin Names
  BY BodyIs, LotFacts DEF Parts
<1>2. CASE IsEmpty(b, s) /\ ~WhyCantEquip(b, s)
  <2>1. /\ put.b = [b EXCEPT !.slots = [b.slots EXCEPT ![s] = item]]
        /\ put.left = [item EXCEPT !.n = 0]
    BY <1>2 DEF Filled
  <2>2. put.left \in Parts /\ put.left.name = item.name /\ put.left.n = 0
    BY <1>1, <2>1 DEF Parts
  <2>3. [b.slots EXCEPT ![s] = item] \in [Slots -> Lots]
    BY <1>1
  <2>4. /\ Changed(put.b, b, s, item)
        /\ put.b.force = b.force /\ put.b.equipped = b.equipped /\ put.b.quick = b.quick
    BY <2>1, <2>3 DEF Changed, Bodies
  <2>5. \A x \in Names : Share(item, x) + Share(put.left, x) = Share(b.slots[s], x) + Share(item, x)
    BY <1>1, <1>2, <2>2 DEF Share, IsEmpty, NoItem
  <2> QED
    BY <1>1, <1>2, <2>2, <2>4, <2>5
<1>3. CASE /\ ~(IsEmpty(b, s) /\ ~WhyCantEquip(b, s))
           /\ b.slots[s].name = item.name /\ Stackable(item)
           /\ chunk > 0 /\ ~WhyCantEquip(b, s)
  <2> DEFINE lot == [b.slots[s] EXCEPT !.n = @ + chunk]
  <2>1. /\ put.b = [b EXCEPT !.slots = [b.slots EXCEPT ![s] = lot]]
        /\ put.left = [item EXCEPT !.n = item.n - chunk]
    BY <1>3 DEF Filled, Merged
  <2>2. /\ chunk \in Nat /\ chunk > 0 /\ b.slots[s].n + chunk \in 1..MaxStack
        /\ item.n - chunk \in 0..MaxStack
    BY <1>1, <1>3
  <2> HIDE DEF chunk
  <2>3. put.left \in Parts /\ put.left.name = item.name /\ put.left.n = item.n - chunk
    BY <1>1, <1>3, <2>1, <2>2 DEF Parts, Stackable
  <2>4. lot \in [name : Names \union {"none"}, n : 0 .. MaxStack]
        /\ lot.name = item.name /\ lot.n = b.slots[s].n + chunk
    BY <1>1, <1>3, <2>2 DEF Lots
  <2> HIDE DEF lot
  <2>5. lot \in Lots
    BY <1>1, <1>3, <2>2, <2>4 DEF Lots, Stackable
  <2>6. [b.slots EXCEPT ![s] = lot] \in [Slots -> Lots]
    BY <1>1, <2>5
  <2>7. /\ Changed(put.b, b, s, lot)
        /\ put.b.force = b.force /\ put.b.equipped = b.equipped /\ put.b.quick = b.quick
    BY <2>1, <2>6 DEF Changed, Bodies
  <2>8. \A x \in Names : Share(lot, x) + Share(put.left, x) = Share(b.slots[s], x) + Share(item, x)
    BY <1>1, <1>3, <2>2, <2>3, <2>4 DEF Share
  <2>9. ~IsEmpty(b, s)
    BY <1>1, <1>3 DEF IsEmpty, NoItem
  <2>10. put.left # item
    BY <1>1, <2>2, <2>3
  <2> QED
    BY <1>3, <2>3, <2>4, <2>5, <2>7, <2>8, <2>9, <2>10
<1>4. CASE /\ ~(IsEmpty(b, s) /\ ~WhyCantEquip(b, s))
           /\ ~(/\ b.slots[s].name = item.name /\ Stackable(item)
                /\ chunk > 0 /\ ~WhyCantEquip(b, s))
  <2>1. put = [b |-> b, left |-> item]
    BY <1>4 DEF Filled
  <2>2. Changed(b, b, s, b.slots[s])
    BY <1>1 DEF Changed
  <2>3. put.b = b /\ put.left = item
    BY <2>1
  <2> QED
    BY <1>1, <2>2, <2>3
<1> QED
  BY <1>2, <1>3, <1>4

\* AddSlotItem's result, of which item.left is no part of the actor any more.
LEMMA AddSlotItemIs ==
  ASSUME NEW b \in Bodies, NEW s \in Slots, NEW item \in Parts, item.n > 0
  PROVE  LET put == AddSlotItem(b, item, s)
         IN /\ put \in [b : Bodies, left : Parts] /\ put.left.name = item.name
            /\ \E lot \in Lots :
                 /\ Changed(put.b, b, s, lot)
                 /\ \A x \in Names : Share(lot, x) + Share(put.left, x)
                                       = Share(b.slots[s], x) + Share(item, x)
                 /\ \/ lot = b.slots[s] /\ put.left = item
                    \/ IsEmpty(b, s) /\ lot = item /\ put.left.n = 0 /\ ~WhyCantEquip(b, s)
                    \/ ~IsEmpty(b, s) /\ lot.name = item.name /\ b.slots[s].name = item.name
<1> DEFINE put == Filled(b, item, s)
<1>1. /\ put.left \in Parts /\ put.left.name = item.name
      /\ \E lot \in Lots :
           /\ Changed(put.b, b, s, lot)
           /\ \A x \in Names : Share(lot, x) + Share(put.left, x)
                                 = Share(b.slots[s], x) + Share(item, x)
           /\ \/ lot = b.slots[s] /\ put.left = item
              \/ IsEmpty(b, s) /\ lot = item /\ put.left.n = 0 /\ ~WhyCantEquip(b, s)
              \/ ~IsEmpty(b, s) /\ lot.name = item.name /\ b.slots[s].name = item.name
  <2>1. /\ put.left \in Parts /\ put.left.name = item.name
        /\ \E lot \in Lots :
             /\ Changed(put.b, b, s, lot)
             /\ put.b.force = b.force /\ put.b.equipped = b.equipped /\ put.b.quick = b.quick
             /\ \A x \in Names : Share(lot, x) + Share(put.left, x)
                                   = Share(b.slots[s], x) + Share(item, x)
             /\ \/ lot = b.slots[s] /\ put.left = item
                \/ /\ IsEmpty(b, s) /\ lot = item /\ put.left.n = 0 /\ ~WhyCantEquip(b, s)
                \/ /\ ~IsEmpty(b, s) /\ lot.name = item.name /\ b.slots[s].name = item.name
                   /\ put.left # item /\ Stackable(item)
    BY FilledIs
  <2> HIDE DEF put
  <2> QED
    BY <2>1
<1>2. put = [b |-> put.b, left |-> put.left]
  BY DEF Filled, Merged
<1>3. AddSlotItem(b, item, s) \in {put, [b |-> EquipItem(put.b, s), left |-> put.left]}
  BY <1>2 DEF AddSlotItem
<1>4. put.b \in Bodies
  BY <1>1 DEF Changed
<1> HIDE DEF put
<1>5. Same(EquipItem(put.b, s), put.b)
  BY <1>4, EquipKeeps
<1>6. \A lot : Changed(put.b, b, s, lot) => Changed(EquipItem(put.b, s), b, s, lot)
  BY <1>5 DEF Same, Changed
<1> DEFINE other == [b |-> EquipItem(put.b, s), left |-> put.left]
<1>7. other.left = put.left /\ other.b = EquipItem(put.b, s)
  OBVIOUS
<1> HIDE DEF other
<1>8. AddSlotItem(b, item, s) = put \/ AddSlotItem(b, item, s) = other
  BY <1>3 DEF other
<1>9. put \in [b : Bodies, left : Parts] /\ other \in [b : Bodies, left : Parts]
  BY <1>1, <1>2, <1>4, <1>5 DEF Same, other
<1>10. CASE AddSlotItem(b, item, s) = put
  BY <1>1, <1>9, <1>10
<1>11. CASE AddSlotItem(b, item, s) = other
  <2> DEFINE res == AddSlotItem(b, item, s)
  <2>1. res = other
    BY <1>11
  <2> HIDE DEF res
  <2>2. res \in [b : Bodies, left : Parts] /\ res.left = put.left /\ res.b = EquipItem(put.b, s)
    BY <1>7, <1>9, <2>1
  <2>3. /\ res \in [b : Bodies, left : Parts] /\ res.left.name = item.name
        /\ \E lot \in Lots :
             /\ Changed(res.b, b, s, lot)
             /\ \A x \in Names : Share(lot, x) + Share(res.left, x)
                                   = Share(b.slots[s], x) + Share(item, x)
             /\ \/ lot = b.slots[s] /\ res.left = item
                \/ IsEmpty(b, s) /\ lot = item /\ res.left.n = 0 /\ ~WhyCantEquip(b, s)
                \/ ~IsEmpty(b, s) /\ lot.name = item.name /\ b.slots[s].name = item.name
    BY <1>1, <1>6, <2>2
  <2> QED
    BY <2>3 DEF res
<1> QED
  BY <1>8, <1>10, <1>11

LEMMA ReinitKeeps ==
  ASSUME NEW b \in Bodies
  PROVE  /\ Same(Reinit(b), b) /\ Reinit(b).force = b.force /\ Reinit(b).equipped = b.equipped
<1> DEFINE Lost(s) == \/ s # Fist /\ IsEmpty(b, s)
                      \/ IsQuiver(s) /\ FindTypedRangedWeapon(b) = Fist
           quick == [w \in DOMAIN b.quick |-> IF Lost(b.quick[w]) THEN Fist ELSE b.quick[w]]
<1>1. Reinit(b) = [b EXCEPT !.quick = quick]
  BY DEF Reinit
<1>2. quick \in [WeaponSlots -> Usable]
  BY BodyIs DEF Usable
<1> HIDE DEF quick
<1> QED
  BY <1>1, <1>2 DEF Bodies, Same

--------------------------------------------------------------------------
(* One after the other *)

\* f goes on from x as the F[n] say, and stays in X.
Steps(F, N, X) == F \in [1..N -> [X -> X]]
Goes(f, F, N, X, x) ==
  f \in [0..N -> X] /\ f[0] = x /\ \A n \in 1..N : f[n] = F[n][f[n - 1]]

LEMMA Iterates ==
  ASSUME NEW F, NEW N, NEW X, NEW x, Steps(F, N, X), N \in Nat, x \in X
  PROVE  \E f : Goes(f, F, N, X, x)
<1> SUFFICES \E f \in [0..N -> X] : f[0] = x /\ \A n \in 1..N : f[n] = F[n][f[n - 1]]
  BY DEF Goes
<1>0. F \in [1..N -> [X -> X]]
  BY DEF Steps
<1> DEFINE G(m) == {f \in [0..m -> X] : f[0] = x /\ \A n \in 1..m : f[n] = F[n][f[n - 1]]}
           T == {m \in Nat : m <= N => G(m) # {}}
<1>1. 0 \in T
  <2>1. [n \in 0..0 |-> x] \in G(0)
    OBVIOUS
  <2> QED
    BY <2>1
<1>2. ASSUME NEW m \in T PROVE m + 1 \in T
  <2> SUFFICES ASSUME m + 1 <= N PROVE G(m + 1) # {}
    OBVIOUS
  <2>1. m \in Nat /\ m <= N /\ m + 1 \in 1..N
    OBVIOUS
  <2>2. PICK f \in [0..m -> X] : f[0] = x /\ \A n \in 1..m : f[n] = F[n][f[n - 1]]
    BY <2>1
  <2> DEFINE g == [n \in 0..(m + 1) |-> IF n = m + 1 THEN F[m + 1][f[m]] ELSE f[n]]
  <2>3. f[m] \in X /\ F[m + 1][f[m]] \in X
    BY <1>0, <2>1, <2>2
  <2>4. g \in [0..(m + 1) -> X]
    BY <2>1, <2>2, <2>3
  <2>5. g[0] = x /\ \A n \in 1..(m + 1) : g[n] = F[n][g[n - 1]]
    BY <2>1, <2>2
  <2> HIDE DEF g
  <2> QED
    BY <2>4, <2>5
<1>3. T = Nat
  <2>1. T \in SUBSET Nat
    OBVIOUS
  <2> HIDE DEF T
  <2> QED
    BY <1>1, <1>2, <2>1, SetInduction
<1>4. N \in T
  BY <1>3
<1> QED
  BY <1>4

\* Whatever AddSlotItem keeps, AddToSlots keeps.
LEMMA AddToSlotsIn ==
  ASSUME NEW X, NEW b, NEW item, NEW seq, Len(seq) \in Nat, [b |-> b, left |-> item] \in X,
         \A r \in X : \A n \in 1..Len(seq) :
           r.left.n # 0 /\ Fits(r.left, seq[n]) => AddSlotItem(r.b, r.left, seq[n]) \in X
  PROVE  AddToSlots(b, item, seq) \in X
<1> DEFINE N == Len(seq)
           x == [b |-> b, left |-> item]
           step(r, n) == IF r.left.n = 0 \/ ~Fits(r.left, seq[n]) THEN r
                         ELSE AddSlotItem(r.b, r.left, seq[n])
           Puts(g) == [n \in 0..N |-> IF n = 0 THEN x ELSE step(g[n - 1], n)]
           put == CHOOSE g : g = Puts(g)
           F == [n \in 1..N |-> [r \in X |-> step(r, n)]]
<1>1. \A r \in X : \A n \in 1..N : step(r, n) \in X
  OBVIOUS
<1>2. AddToSlots(b, item, seq) = put[N]
  BY DEF AddToSlots
<1>3. F \in [1..N -> [X -> X]] /\ \A n \in 1..N : \A r \in X : F[n][r] = step(r, n)
  <2> HIDE DEF step
  <2> QED
    BY <1>1
<1> HIDE DEF step, F, x, N
<1>4. PICK f \in [0..N -> X] : f[0] = x /\ \A n \in 1..N : f[n] = F[n][f[n - 1]]
  <2>1. N \in Nat /\ x \in X
    BY DEF N, x
  <2>2. Steps(F, N, X)
    BY <1>3 DEF Steps
  <2>3. PICK f : Goes(f, F, N, X, x)
    BY <2>1, <2>2, Iterates
  <2> QED
    BY <2>3 DEF Goes
<1>5. N \in Nat
  BY DEF N
<1>6. \A n \in 0..N : f[n] = IF n = 0 THEN x ELSE step(f[n - 1], n)
  <2> SUFFICES ASSUME NEW n \in 1..N PROVE f[n] = step(f[n - 1], n)
    BY <1>4, <1>5
  <2>1. n - 1 \in 0..N
    BY <1>5
  <2>2. f[n - 1] \in X
    BY <1>4, <2>1
  <2> QED
    BY <1>3, <1>4, <2>2
<1>7. f = Puts(f)
  BY <1>6
<1>8. put = Puts(put)
  <2> HIDE DEF Puts
  <2> QED
    BY <1>7
<1>9. \A n \in 0..N : put[n] = IF n = 0 THEN x ELSE step(put[n - 1], n)
  <2> HIDE DEF put
  <2>1. \A n \in 0..N : put[n] = Puts(put)[n]
    <3> HIDE DEF Puts
    <3> QED
      BY <1>8
  <2> QED
    BY <2>1
<1> HIDE DEF put, Puts
<1> DEFINE T == {n \in Nat : n \in 0..N => put[n] \in X}
<1>10. 0 \in T
  BY <1>5, <1>9 DEF x
<1>11. ASSUME NEW n \in T PROVE n + 1 \in T
  <2> SUFFICES ASSUME n + 1 \in 0..N PROVE put[n + 1] \in X
    OBVIOUS
  <2>1. n \in 0..N /\ n + 1 # 0 /\ (n + 1) - 1 = n /\ n + 1 \in 1..N
    BY <1>5
  <2>2. put[n + 1] = step(put[n], n + 1)
    BY <1>9, <2>1
  <2>3. put[n] \in X
    BY <2>1
  <2> QED
    BY <1>1, <2>1, <2>2, <2>3
<1>12. T = Nat
  <2>1. T \in SUBSET Nat
    OBVIOUS
  <2> HIDE DEF T
  <2> QED
    BY <1>10, <1>11, <2>1, SetInduction
<1>13. N \in T /\ N \in 0..N
  BY <1>5, <1>12
<1> QED
  BY <1>2, <1>13

--------------------------------------------------------------------------
(* How much there is of everything *)

\* The single pieces of x in the slots of S.
Pieces(f, x, S) == {p \in S \X (1 .. MaxStack) : f[p[1]].name = x /\ p[2] <= f[p[1]].n}
Amount(f, x) == Cardinality(Pieces(f, x, Slots))

LEMMA SlotsAreFinite == IsFiniteSet(Slots)
<1> DEFINE n == Len(SlotOrder)
           R == {SlotOrder[i] : i \in 1..n}
<1>1. n \in Nat /\ DOMAIN SlotOrder = 1..n
  BY OrderIs
<1> HIDE DEF n
<1>2. IsFiniteSet(1..n)
  BY <1>1, Interval
<1>3. IsFiniteSet(R)
  <2> DEFINE f == [i \in 1..n |-> SlotOrder[i]]
  <2>1. f \in Surjection(1..n, R)
    BY DEF Surjection
  <2> HIDE DEF f, R
  <2> QED
    BY <1>2, <2>1, FS_Surjection
<1>4. Slots \ {"magic"} = R
  BY <1>1, SlotFacts
<1>5. Slots = R \union {"magic"}
  <2>1. "magic" \in Slots
    BY DEF Slots, InForce
  <2> QED
    BY <1>4, <2>1
<1> HIDE DEF R
<1> QED
  BY <1>3, <1>5, FS_AddElement

LEMMA OneSlot ==
  ASSUME NEW s, NEW n \in Nat
  PROVE  IsFiniteSet({s} \X (1..n)) /\ Cardinality({s} \X (1..n)) = n
<1>1. IsFiniteSet({s}) /\ Cardinality({s}) = 1
  BY FS_Singleton
<1>2. IsFiniteSet(1..n) /\ Cardinality(1..n) = n
  BY Interval
<1>3. /\ IsFiniteSet({s} \X (1..n))
      /\ Cardinality({s} \X (1..n)) = Cardinality({s}) * Cardinality(1..n)
  BY <1>1, <1>2, FS_Product
<1> QED
  BY <1>1, <1>2, <1>3

LEMMA AmountSplit ==
  ASSUME NEW f \in [Slots -> Lots], NEW s \in Slots, NEW x \in Names
  PROVE  /\ Cardinality(Pieces(f, x, Slots \ {s})) \in Nat
         /\ Amount(f, x) = Share(f[s], x) + Cardinality(Pieces(f, x, Slots \ {s}))
<1> DEFINE m == Share(f[s], x)
           P == {s} \X (1..m)
           R == Pieces(f, x, Slots \ {s})
           A == Pieces(f, x, Slots)
<1>1. MaxStack \in Nat /\ f[s].n \in 0..MaxStack /\ m \in 0..MaxStack /\ m \in Nat
  BY LotFacts DEF Share
<1>2. IsFiniteSet(Slots \X (1..MaxStack))
  <2>1. IsFiniteSet(1..MaxStack)
    BY <1>1, FS_Interval
  <2> QED
    BY <2>1, SlotsAreFinite, FS_Product
<1>3. A = R \union P /\ R \intersect P = {}
  <2>1. ASSUME NEW p, p \in A PROVE p \in R \/ p \in P
    BY <1>1, <2>1 DEF Pieces, Share
  <2>2. ASSUME NEW p, p \in R \/ p \in P PROVE p \in A
    BY <1>1, <2>2 DEF Pieces, Share
  <2>3. R \intersect P = {}
    BY DEF Pieces
  <2> QED
    BY <2>1, <2>2, <2>3
<1>4. R \subseteq A /\ A \subseteq Slots \X (1..MaxStack)
  BY DEF Pieces
<1>5. IsFiniteSet(A) /\ IsFiniteSet(R)
  BY <1>2, <1>4, FS_Subset
<1>6. IsFiniteSet(P) /\ Cardinality(P) = m
  BY <1>1, OneSlot
<1>7. Amount(f, x) = Cardinality(A)
  BY DEF Amount
<1> HIDE DEF P, R, A, m
<1>8. Cardinality(R \intersect P) = 0
  BY <1>3, FS_EmptySet
<1>9. Cardinality(A) = Cardinality(R) + Cardinality(P) - Cardinality(R \intersect P)
  BY <1>3, <1>5, <1>6, FS_Union
<1>10. Cardinality(R) \in Nat
  BY <1>5, FS_CardinalityType
<1> QED
  BY <1>1, <1>6, <1>7, <1>8, <1>9, <1>10 DEF m, R

\* What is put in one slot counts there only.
LEMMA AmountIs ==
  ASSUME NEW f \in [Slots -> Lots], NEW s \in Slots, NEW lot \in Lots, NEW x \in Names
  PROVE  /\ Amount(f, x) \in Nat /\ Amount([f EXCEPT ![s] = lot], x) \in Nat
         /\ Amount([f EXCEPT ![s] = lot], x) + Share(f[s], x) = Amount(f, x) + Share(lot, x)
<1> DEFINE g == [f EXCEPT ![s] = lot]
<1>1. g \in [Slots -> Lots] /\ g[s] = lot /\ \A t \in Slots \ {s} : g[t] = f[t]
  OBVIOUS
<1> HIDE DEF g
<1>2. Pieces(g, x, Slots \ {s}) = Pieces(f, x, Slots \ {s})
  BY <1>1 DEF Pieces
<1>3. Share(f[s], x) \in Nat /\ Share(lot, x) \in Nat
  BY LotFacts DEF Share
<1>4. /\ Cardinality(Pieces(f, x, Slots \ {s})) \in Nat
      /\ Amount(f, x) = Share(f[s], x) + Cardinality(Pieces(f, x, Slots \ {s}))
      /\ Amount(g, x) = Share(g[s], x) + Cardinality(Pieces(g, x, Slots \ {s}))
  BY <1>1, AmountSplit
<1> QED
  BY <1>1, <1>2, <1>3, <1>4 DEF g

LEMMA AmountNat ==
  ASSUME NEW b \in Bodies, NEW x \in Names
  PROVE  Amount(b.slots, x) \in Nat
<1>1. b.slots \in [Slots -> Lots] /\ "magic" \in Slots /\ NoItem \in Lots
  BY BodyIs, LotFacts DEF Slots, InForce
<1> QED
  BY <1>1, AmountIs

--------------------------------------------------------------------------
(* Nothing vanishes *)

\* Every item is in a slot for its kind.
InPlace(f) ==
  /\ \A s \in Slots \ {"magic"} : f[s] = NoItem \/ Fits(f[s], s)
  /\ f["magic"] = NoItem \/ KindOf[f["magic"].name] = "magic"

\* While an item is put away he and what is left of it have as many as before.
Total(r, x) == Amount(r.b.slots, x) + Share(r.left, x)
Along(b, item) ==
  {r \in [b : Bodies, left : Parts] :
     /\ r.left.name = item.name
     /\ InPlace(r.b.slots)
     /\ \A x \in Names : Total(r, x) = Amount(b.slots, x) + Share(item, x)}

LEMMA Counts ==
  ASSUME NEW x
  PROVE  /\ Share(NoItem, x) \in Nat
         /\ x \in Names => Share(NoItem, x) = 0
         /\ \A i \in Lots \union Parts : Share(i, x) \in Nat
<1>1. \A i \in Lots \union Parts \union {NoItem} : i.n \in Nat
  BY LotFacts DEF Lots, Parts, NoItem
<1> QED
  BY <1>1, ItemsAssumption DEF Share, NoItem

LEMMA InPlaceKeeps ==
  ASSUME NEW f \in [Slots -> Lots], InPlace(f), NEW s \in Slots \ {"magic"}, NEW lot \in Lots,
         lot = NoItem \/ Fits(lot, s)
  PROVE  InPlace([f EXCEPT ![s] = lot])
BY DEF InPlace, Slots, InForce

\* The bow fits a weapon slot, whatever is left of it.
LEMMA FitsByName ==
  ASSUME NEW i, NEW j, i.name = j.name, NEW s
  PROVE  Fits(i, s) <=> Fits(j, s)
BY DEF Fits

LEMMA PutKeeps ==
  ASSUME NEW b \in Bodies, InPlace(b.slots), NEW s \in Slots \ {"magic"},
         NEW item \in Parts, item.n > 0, Fits(item, s)
  PROVE  AddSlotItem(b, item, s) \in Along(b, item)
<1> DEFINE put == AddSlotItem(b, item, s)
<1>1. /\ put \in [b : Bodies, left : Parts] /\ put.left.name = item.name
      /\ \E lot \in Lots :
           /\ Changed(put.b, b, s, lot)
           /\ \A x \in Names : Share(lot, x) + Share(put.left, x)
                                 = Share(b.slots[s], x) + Share(item, x)
           /\ \/ lot = b.slots[s] /\ put.left = item
              \/ IsEmpty(b, s) /\ lot = item /\ put.left.n = 0 /\ ~WhyCantEquip(b, s)
              \/ ~IsEmpty(b, s) /\ lot.name = item.name /\ b.slots[s].name = item.name
  BY AddSlotItemIs
<1> HIDE DEF put
<1>2. PICK lot \in Lots :
           /\ Changed(put.b, b, s, lot)
           /\ \A x \in Names : Share(lot, x) + Share(put.left, x)
                                 = Share(b.slots[s], x) + Share(item, x)
           /\ \/ lot = b.slots[s] /\ put.left = item
              \/ IsEmpty(b, s) /\ lot = item /\ put.left.n = 0 /\ ~WhyCantEquip(b, s)
              \/ ~IsEmpty(b, s) /\ lot.name = item.name /\ b.slots[s].name = item.name
  BY <1>1
<1>3. b.slots \in [Slots -> Lots] /\ put.b.slots = [b.slots EXCEPT ![s] = lot]
  BY <1>2, BodyIs DEF Changed
<1>4. lot = NoItem \/ Fits(lot, s)
  <2>1. CASE lot = b.slots[s]
    BY <2>1 DEF InPlace
  <2>2. CASE lot.name = item.name
    BY <2>2, FitsByName
  <2> QED
    BY <1>2, <2>1, <2>2
<1>5. InPlace(put.b.slots)
  BY <1>3, <1>4, InPlaceKeeps
<1>6. ASSUME NEW x \in Names
      PROVE  Total(put, x) = Amount(b.slots, x) + Share(item, x)
  <2>1. /\ Amount(b.slots, x) \in Nat /\ Amount(put.b.slots, x) \in Nat
        /\ Amount(put.b.slots, x) + Share(b.slots[s], x) = Amount(b.slots, x) + Share(lot, x)
    BY <1>3, AmountIs
  <2>2. /\ Share(put.left, x) \in Nat /\ Share(item, x) \in Nat /\ Share(lot, x) \in Nat
        /\ Share(b.slots[s], x) \in Nat
    <3>1. put.left \in Parts /\ b.slots[s] \in Lots
      BY <1>1, <1>3
    <3> QED
      BY <3>1, Counts
  <2>3. Share(lot, x) + Share(put.left, x) = Share(b.slots[s], x) + Share(item, x)
    BY <1>2
  <2> DEFINE before == Amount(b.slots, x)
             after == Amount(put.b.slots, x)
             was == Share(b.slots[s], x)
             is == Share(lot, x)
             had == Share(item, x)
             has == Share(put.left, x)
  <2>4. /\ before \in Nat /\ after \in Nat /\ was \in Nat /\ is \in Nat /\ had \in Nat
        /\ has \in Nat /\ after + was = before + is /\ is + has = was + had
    BY <2>1, <2>2, <2>3
  <2> HIDE DEF before, after, was, is, had, has
  <2>5. after + has = before + had
    BY <2>4
  <2> QED
    BY <2>5 DEF Total, before, after, had, has
<1>7. put \in Along(b, item)
  BY <1>1, <1>5, <1>6 DEF Along
<1> QED
  BY <1>7 DEF put

LEMMA PutWhole ==
  ASSUME NEW b, NEW s, NEW item \in Parts, IsEmpty(b, s), ~WhyCantEquip(b, s)
  PROVE  AddSlotItem(b, item, s).left.n = 0
<1> DEFINE put == [b |-> [b EXCEPT !.slots[s] = item], left |-> [item EXCEPT !.n = 0]]
<1>1. Filled(b, item, s) = put
  BY DEF Filled
<1>2. put.left.n = 0
  BY DEF Parts
<1>3. put.left = [put EXCEPT !.b = EquipItem(put.b, s)].left
  OBVIOUS
<1> HIDE DEF put
<1>4. AddSlotItem(b, item, s) \in {put, [put EXCEPT !.b = EquipItem(put.b, s)]}
  BY <1>1 DEF AddSlotItem
<1> QED
  BY <1>2, <1>3, <1>4

LEMMA AddToSlotsKeeps ==
  ASSUME NEW b \in Bodies, InPlace(b.slots), NEW item \in Parts,
         NEW seq, Len(seq) \in Nat, \A n \in 1..Len(seq) : seq[n] \in Slots \ {"magic"}
  PROVE  AddToSlots(b, item, seq) \in Along(b, item)
<1> DEFINE X == Along(b, item)
<1>1. [b |-> b, left |-> item] \in X
  BY DEF Along, Total
<1>2. ASSUME NEW r \in X, NEW n \in 1..Len(seq), r.left.n # 0, Fits(r.left, seq[n])
      PROVE  AddSlotItem(r.b, r.left, seq[n]) \in X
  <2>1. /\ r.b \in Bodies /\ r.left \in Parts /\ r.left.name = item.name /\ InPlace(r.b.slots)
        /\ \A x \in Names : Total(r, x) = Amount(b.slots, x) + Share(item, x)
    BY DEF Along
  <2>2. r.left.n > 0
    BY <1>2, <2>1, LotFacts DEF Parts
  <2>3. AddSlotItem(r.b, r.left, seq[n]) \in Along(r.b, r.left)
    BY <1>2, <2>1, <2>2, PutKeeps
  <2> QED
    BY <2>1, <2>3 DEF Along, Total
<1> HIDE DEF X
<1>3. \A r \in X : \A n \in 1..Len(seq) :
        r.left.n # 0 /\ Fits(r.left, seq[n]) => AddSlotItem(r.b, r.left, seq[n]) \in X
  BY <1>2
<1>4. AddToSlots(b, item, seq) \in X
  BY <1>1, <1>3, AddToSlotsIn
<1> QED
  BY <1>4 DEF X

LEMMA PackKeeps ==
  ASSUME NEW b \in Bodies, InPlace(b.slots), NEW item \in Parts
  PROVE  AddToPack(b, item) \in Along(b, item)
<1>1. Len(Packs) \in Nat /\ DOMAIN Packs = 1..Len(Packs)
  BY OrderIs
<1>2. \A n \in 1..Len(Packs) : Packs[n] \in Slots \ {"magic"}
  BY <1>1, SlotFacts DEF PackSlots, Slots
<1> QED
  BY <1>1, <1>2, AddToSlotsKeeps DEF AddToPack

LEMMA WornKeeps ==
  ASSUME NEW b \in Bodies, InPlace(b.slots), NEW item \in Parts
  PROVE  AddToWorn(b, item) \in Along(b, item)
<1> DEFINE S == Slots \ {"magic"}
           seq == <<"armour">> \o Quivers \o Weapons
<1>1. Quivers \in Seq(S) /\ Weapons \in Seq(S) /\ <<"armour">> \in Seq(S)
  <2>1. QuiverSlots \subseteq S /\ WeaponSlots \subseteq S /\ "armour" \in S
    BY SlotFacts DEF Slots, InForce
  <2>2. Quivers \in Seq(QuiverSlots) /\ Weapons \in Seq(WeaponSlots)
    BY SlotsAssumption
  <2> HIDE DEF S
  <2> QED
    BY <2>1, <2>2
<1> HIDE DEF S
<1>2. seq \in Seq(S)
  BY <1>1
<1> HIDE DEF seq
<1>3. Len(seq) \in Nat /\ \A n \in 1..Len(seq) : seq[n] \in S
  BY <1>2
<1> QED
  BY <1>3, AddToSlotsKeeps DEF AddToWorn, S, seq

LEMMA KillCounts ==
  ASSUME NEW b \in Bodies, InPlace(b.slots), NEW s \in Slots
  PROVE  /\ KillSlot(b, s) \in Bodies /\ InPlace(KillSlot(b, s).slots)
         /\ KillSlot(b, s).slots = [b.slots EXCEPT ![s] = NoItem]
         /\ \A x \in Names : /\ Amount(KillSlot(b, s).slots, x) \in Nat
                             /\ Amount(KillSlot(b, s).slots, x) + Share(b.slots[s], x)
                                  = Amount(b.slots, x)
<1> DEFINE k == KillSlot(b, s)
<1>1. k \in Bodies /\ k.slots = [b.slots EXCEPT ![s] = NoItem]
  BY KillKeeps DEF Changed
<1> HIDE DEF k
<1>2. b.slots \in [Slots -> Lots] /\ NoItem \in Lots
  BY BodyIs, LotFacts
<1>3. InPlace(k.slots)
  BY <1>1, <1>2 DEF InPlace, Slots, InForce
<1>4. ASSUME NEW x \in Names
      PROVE  /\ Amount(k.slots, x) \in Nat
             /\ Amount(k.slots, x) + Share(b.slots[s], x) = Amount(b.slots, x)
  <2>1. /\ Amount(b.slots, x) \in Nat /\ Amount(k.slots, x) \in Nat
        /\ Amount(k.slots, x) + Share(b.slots[s], x) = Amount(b.slots, x) + Share(NoItem, x)
    BY <1>1, <1>2, AmountIs
  <2>2. Share(NoItem, x) = 0
    BY Counts
  <2> QED
    BY <2>1, <2>2
<1> QED
  BY <1>1, <1>3, <1>4 DEF k

LEMMA RemoveCounts ==
  ASSUME NEW b \in Bodies, InPlace(b.slots), NEW s \in Slots, NEW n \in 1 .. b.slots[s].n
  PROVE  /\ RemoveItem(b, s, n) \in Bodies /\ InPlace(RemoveItem(b, s, n).slots)
         /\ \A x \in Names :
              /\ Amount(RemoveItem(b, s, n).slots, x) \in Nat
              /\ Amount(RemoveItem(b, s, n).slots, x) + (IF b.slots[s].name = x THEN n ELSE 0)
                   = Amount(b.slots, x)
<1> DEFINE c == RemoveItem(b, s, n)
           lot == IF n = b.slots[s].n THEN NoItem ELSE [b.slots[s] EXCEPT !.n = @ - n]
<1>1. lot \in Lots /\ c \in Bodies /\ c.slots = [b.slots EXCEPT ![s] = lot]
  BY RemoveItemKeeps DEF Changed
<1>2. b.slots \in [Slots -> Lots] /\ b.slots[s].n \in Nat
  BY BodyIs, LotFacts
<1>3. lot = NoItem \/ lot.name = b.slots[s].name
  BY <1>2 DEF Lots
<1>4. ASSUME NEW x \in Names
      PROVE  Share(lot, x) + (IF b.slots[s].name = x THEN n ELSE 0) = Share(b.slots[s], x)
  <2>1. CASE n = b.slots[s].n
    BY <1>2, <2>1, Counts DEF Share
  <2>2. CASE n # b.slots[s].n
    <3>1. lot.name = b.slots[s].name /\ lot.n = b.slots[s].n - n
      BY <1>2, <2>2 DEF Lots
    <3> QED
      BY <1>2, <3>1 DEF Share
  <2> QED
    BY <2>1, <2>2
<1> HIDE DEF c, lot
<1>5. InPlace(c.slots)
  <2>1. ASSUME NEW t \in Slots \ {"magic"} PROVE c.slots[t] = NoItem \/ Fits(c.slots[t], t)
    <3>1. b.slots[t] = NoItem \/ Fits(b.slots[t], t)
      BY DEF InPlace
    <3>2. CASE t = s
      <4>1. c.slots[t] = lot
        BY <1>1, <1>2, <3>2
      <4>2. CASE b.slots[t] = NoItem
        BY <1>2, <3>2, <4>2 DEF NoItem
      <4> QED
        BY <1>3, <3>1, <3>2, <4>1, <4>2, FitsByName
    <3> QED
      BY <1>1, <1>2, <3>1, <3>2
  <2>2. c.slots["magic"] = NoItem \/ KindOf[c.slots["magic"].name] = "magic"
    <3>1. b.slots["magic"] = NoItem \/ KindOf[b.slots["magic"].name] = "magic"
      BY DEF InPlace
    <3>2. CASE s = "magic"
      <4>1. c.slots["magic"] = lot
        BY <1>1, <1>2, <3>2
      <4>2. CASE b.slots["magic"] = NoItem
        BY <1>2, <3>2, <4>2 DEF NoItem
      <4> QED
        BY <1>3, <3>1, <3>2, <4>1, <4>2
    <3>3. "magic" \in Slots
      BY DEF Slots, InForce
    <3> QED
      BY <1>1, <1>2, <3>1, <3>2, <3>3
  <2> QED
    BY <2>1, <2>2 DEF InPlace
<1>6. ASSUME NEW x \in Names
      PROVE  /\ Amount(c.slots, x) \in Nat
             /\ Amount(c.slots, x) + (IF b.slots[s].name = x THEN n ELSE 0) = Amount(b.slots, x)
  <2> DEFINE off == IF b.slots[s].name = x THEN n ELSE 0
             before == Amount(b.slots, x)
             after == Amount(c.slots, x)
             was == Share(b.slots[s], x)
             is == Share(lot, x)
  <2>1. /\ before \in Nat /\ after \in Nat /\ after + was = before + is
    BY <1>1, <1>2, AmountIs
  <2>2. was \in Nat /\ is \in Nat /\ off \in Nat
    BY <1>1, <1>2, Counts
  <2>3. is + off = was
    BY <1>4
  <2> HIDE DEF off, before, after, was, is
  <2>4. after + off = before
    BY <2>1, <2>2, <2>3
  <2> QED
    BY <2>1, <2>4 DEF off, before, after
<1> QED
  BY <1>1, <1>5, <1>6 DEF c

\* From its slot into the pack.
LEMMA PackedAway ==
  ASSUME NEW b \in Bodies, InPlace(b.slots), NEW s \in Slots, ~IsEmpty(b, s)
  PROVE  LET r == AddToPack(KillSlot(b, s), b.slots[s])
         IN /\ r.b \in Bodies /\ InPlace(r.b.slots) /\ r.left \in Parts
            /\ \A x \in Names : Total(r, x) = Amount(b.slots, x)
<1> DEFINE k == KillSlot(b, s)
           r == AddToPack(k, b.slots[s])
<1>1. b.slots[s] \in Parts
  BY BodyIs, LotFacts DEF IsEmpty
<1>2. /\ k \in Bodies /\ InPlace(k.slots)
      /\ \A x \in Names : Amount(k.slots, x) + Share(b.slots[s], x) = Amount(b.slots, x)
  BY KillCounts
<1> HIDE DEF k
<1>3. r \in Along(k, b.slots[s])
  BY <1>1, <1>2, PackKeeps
<1> HIDE DEF r
<1>4. /\ r.b \in Bodies /\ InPlace(r.b.slots) /\ r.left \in Parts
      /\ \A x \in Names : Total(r, x) = Amount(k.slots, x) + Share(b.slots[s], x)
  BY <1>3 DEF Along
<1>5. \A x \in Names : Total(r, x) = Amount(b.slots, x)
  BY <1>2, <1>4
<1> QED
  BY <1>4, <1>5 DEF r, k

\* What is left of it falls to the ground.
Piled(f, item) == IF item.n = 0 THEN f ELSE [f EXCEPT ![item.name] = @ + item.n]

LEMMA PiledIs ==
  ASSUME NEW f \in [Names -> Nat], NEW item \in Lots \union Parts
  PROVE  /\ Piled(f, item) \in [Names -> Nat]
         /\ \A x \in Names : Piled(f, item)[x] = f[x] + Share(item, x)
<1>1. item.n \in Nat /\ (item.n # 0 => item.name \in Names)
  BY LotFacts DEF Lots, Parts
<1> QED
  BY <1>1 DEF Piled, Share

--------------------------------------------------------------------------
(* A curse is lifted *)

Freeing(b, p) ==
  {r \in [b : Bodies, pile : [Names -> Nat]] :
     /\ InPlace(r.b.slots)
     /\ \A x \in Names : Amount(r.b.slots, x) + r.pile[x] = Amount(b.slots, x) + p[x]}

LEMMA FreedKeeps ==
  ASSUME NEW b \in Bodies, NEW p \in [Names -> Nat], NEW r \in Freeing(b, p), NEW s \in Slots
  PROVE  Freed(r, s) \subseteq Freeing(b, p)
<1>1. /\ r.b \in Bodies /\ r.pile \in [Names -> Nat] /\ InPlace(r.b.slots)
      /\ \A x \in Names : Amount(r.b.slots, x) + r.pile[x] = Amount(b.slots, x) + p[x]
  BY DEF Freeing
<1>2. CASE s \notin InForce \/ ~IsCursed(r.b, s)
  BY <1>2 DEF Freed
<1>3. CASE s \in InForce /\ IsCursed(r.b, s)
  <2> DEFINE packed == AddToPack(KillSlot(r.b, s), r.b.slots[s])
             then == [b |-> packed.b, pile |-> Piled(r.pile, packed.left)]
  <2>1. ~IsEmpty(r.b, s)
    BY <1>3, ItemsAssumption DEF IsCursed, CursedItems, IsEmpty, NoItem
  <2>2. Freed(r, s) = {then}
    BY <1>3 DEF Freed, Piled
  <2>3. /\ packed.b \in Bodies /\ InPlace(packed.b.slots) /\ packed.left \in Parts
        /\ \A x \in Names : Total(packed, x) = Amount(r.b.slots, x)
    BY <1>1, <2>1, PackedAway
  <2> HIDE DEF packed
  <2>4. /\ Piled(r.pile, packed.left) \in [Names -> Nat]
        /\ \A x \in Names : Piled(r.pile, packed.left)[x] = r.pile[x] + Share(packed.left, x)
    BY <1>1, <2>3, PiledIs
  <2>5. then.b = packed.b /\ then.pile = Piled(r.pile, packed.left)
        /\ then \in [b : Bodies, pile : [Names -> Nat]]
    BY <2>3, <2>4
  <2> HIDE DEF then
  <2>6. ASSUME NEW x \in Names
        PROVE  Amount(then.b.slots, x) + then.pile[x] = Amount(b.slots, x) + p[x]
    <3> DEFINE total == Amount(b.slots, x) + p[x]
               has == Amount(packed.b.slots, x)
               left == Share(packed.left, x)
               had == Amount(r.b.slots, x)
               lies == r.pile[x]
    <3>1. has + left = had /\ had + lies = total
      BY <1>1, <2>3 DEF Total
    <3>2. has \in Nat /\ left \in Nat /\ lies \in Nat
      BY <1>1, <2>3, AmountSplit, BodyIs, Counts, AmountIs
    <3>3. Amount(then.b.slots, x) + then.pile[x] = has + (lies + left)
      BY <2>4, <2>5
    <3> HIDE DEF total, has, left, had, lies
    <3>4. has + (lies + left) = total
      BY <3>1, <3>2
    <3> QED
      BY <3>3, <3>4 DEF total
  <2>7. then \in Freeing(b, p)
    BY <2>3, <2>5, <2>6 DEF Freeing
  <2> QED
    BY <2>2, <2>7
<1> QED
  BY <1>2, <1>3

\* RemoveCurse frees one slot after the other: what each of them keeps is kept.
LEMMA RemoveCurseIn ==
  ASSUME NEW Y, [b |-> worn, pile |-> pile] \in Y,
         \A r \in Y : \A s \in Slots \ {"magic"} : Freed(r, s) \subseteq Y, RemoveCurse
  PROVE  \E r \in Y : worn' = r.b /\ pile' = r.pile
<1> DEFINE X == SUBSET Y
           N == Len(SlotOrder)
           start == {[b |-> worn, pile |-> pile]}
           step(R, n) == UNION {Freed(r, SlotOrder[N + 1 - n]) : r \in R}
           Frees(g) == [n \in 0..N |-> IF n = 0 THEN start ELSE step(g[n - 1], n)]
           free == CHOOSE g : g = Frees(g)
           F == [n \in 1..N |-> [R \in X |-> step(R, n)]]
<1>1. \E r \in free[N] : worn' = r.b /\ pile' = r.pile
  BY DEF RemoveCurse
<1>2. start \in X
  OBVIOUS
<1>3. N \in Nat /\ \A n \in 1..N : SlotOrder[N + 1 - n] \in Slots \ {"magic"}
  <2>1. N \in Nat /\ DOMAIN SlotOrder = 1..N
    BY OrderIs
  <2> HIDE DEF N
  <2>2. \A n \in 1..N : N + 1 - n \in 1..N
    BY <2>1
  <2>3. \A i \in 1..N : SlotOrder[i] \in Slots \ {"magic"}
    BY <2>1, SlotFacts
  <2> QED
    BY <2>1, <2>2, <2>3
<1> HIDE DEF N, Frees
<1>4. \A n \in 1..N : \A R \in X : step(R, n) \in X
  <2> SUFFICES ASSUME NEW n \in 1..N, NEW R \in X, NEW q, q \in step(R, n) PROVE q \in Y
    OBVIOUS
  <2>1. PICK r \in R : q \in Freed(r, SlotOrder[N + 1 - n])
    OBVIOUS
  <2>2. r \in Y /\ SlotOrder[N + 1 - n] \in Slots \ {"magic"}
    BY <1>3
  <2> QED
    BY <2>1, <2>2
<1> HIDE DEF step, start
<1>5. F \in [1..N -> [X -> X]] /\ \A n \in 1..N : \A R \in X : F[n][R] = step(R, n)
  <2> HIDE DEF X
  <2> QED
    BY <1>4
<1> HIDE DEF F, X
<1>6. PICK f \in [0..N -> X] : f[0] = start /\ \A n \in 1..N : f[n] = F[n][f[n - 1]]
  <2>1. Steps(F, N, X)
    BY <1>5 DEF Steps
  <2>2. PICK f : Goes(f, F, N, X, start)
    BY <1>2, <1>3, <2>1, Iterates
  <2> QED
    BY <2>2 DEF Goes
<1>7. \A n \in 0..N : f[n] = IF n = 0 THEN start ELSE step(f[n - 1], n)
  <2> SUFFICES ASSUME NEW n \in 1..N PROVE f[n] = step(f[n - 1], n)
    BY <1>3, <1>6
  <2>1. n - 1 \in 0..N
    BY <1>3
  <2>2. f[n - 1] \in X
    BY <1>6, <2>1
  <2> QED
    BY <1>5, <1>6, <2>2
<1>8. f = Frees(f)
  BY <1>6, <1>7 DEF Frees
<1>9. free = Frees(free)
  BY <1>8
<1>10. \A n \in 0..N : free[n] = IF n = 0 THEN start ELSE step(free[n - 1], n)
  <2> HIDE DEF free
  <2>1. \A n \in 0..N : free[n] = Frees(free)[n]
    BY <1>9
  <2> QED
    BY <2>1 DEF Frees
<1> HIDE DEF free
<1> DEFINE T == {n \in Nat : n \in 0..N => free[n] \in X}
<1>11. 0 \in T
  BY <1>2, <1>3, <1>10
<1>12. ASSUME NEW n \in T PROVE n + 1 \in T
  <2> SUFFICES ASSUME n + 1 \in 0..N PROVE free[n + 1] \in X
    OBVIOUS
  <2>1. n \in 0..N /\ n + 1 # 0 /\ (n + 1) - 1 = n /\ n + 1 \in 1..N
    BY <1>3
  <2>2. free[n + 1] = step(free[n], n + 1)
    BY <1>10, <2>1
  <2>3. free[n] \in X
    BY <2>1
  <2> QED
    BY <1>4, <2>1, <2>2, <2>3
<1>13. T = Nat
  <2>1. T \in SUBSET Nat
    OBVIOUS
  <2> HIDE DEF T
  <2> QED
    BY <1>11, <1>12, <2>1, SetInduction
<1>14. free[N] \in X
  BY <1>3, <1>13
<1> QED
  BY <1>1, <1>14 DEF X

LEMMA RemoveCurseIs ==
  ASSUME worn \in Bodies, pile \in [Names -> Nat], InPlace(worn.slots), RemoveCurse
  PROVE  \E r \in Freeing(worn, pile) : worn' = r.b /\ pile' = r.pile
<1>1. [b |-> worn, pile |-> pile] \in Freeing(worn, pile)
  BY DEF Freeing
<1>2. \A r \in Freeing(worn, pile) : \A s \in Slots \ {"magic"} : Freed(r, s) \subseteq Freeing(worn, pile)
  BY FreedKeeps
<1> QED
  BY <1>1, <1>2, RemoveCurseIn

--------------------------------------------------------------------------
(* The invariant *)

\* What can be conjured comes and goes; of the rest there is what there was.
Mundane == {x \in Names : Items[x].kind # "magic"}
Count(b, i, p, u, x) == Amount(b.slots, x) + Share(i, x) + p[x] + u[x]
Proper(b, i, p, u) ==
  /\ b \in Bodies /\ InPlace(b.slots) /\ i \in Lots
  /\ p \in [Names -> Nat] /\ u \in [Names -> Nat]

ItemsInv ==
  /\ Proper(worn, hand, pile, spent)
  /\ \A x \in Mundane : Count(worn, hand, pile, spent, x) = Supply[x]

LEMMA StepCounts ==
  ASSUME ItemsInv, Proper(worn', hand', pile', spent'),
         \A x \in Mundane : Count(worn', hand', pile', spent', x) = Count(worn, hand, pile, spent, x)
  PROVE  ItemsInv'
<1>1. Mundane' = Mundane
  BY DEF Mundane
<1>2. \A x \in Mundane : Count(worn', hand', pile', spent', x) = Supply[x]
  BY DEF ItemsInv
<1>3. \A x : Count(worn, hand, pile, spent, x)' = Count(worn', hand', pile', spent', x)
  BY DEF Count, Amount, Pieces, Share
<1>4. Proper(worn, hand, pile, spent)' = Proper(worn', hand', pile', spent')
  BY DEF Proper, InPlace, Fits, Bodies, Lots, Usable
<1> QED
  BY <1>1, <1>2, <1>3, <1>4 DEF ItemsInv

\* He is dressed otherwise, with the same items.
LEMMA DressedOtherwise ==
  ASSUME ItemsInv, Same(worn', worn), UNCHANGED <<hand, pile, spent>>
  PROVE  ItemsInv'
<1>1. worn' \in Bodies /\ worn'.slots = worn.slots /\ hand' = hand /\ pile' = pile /\ spent' = spent
  BY DEF Same
<1>2. Proper(worn', hand', pile', spent')
  BY <1>1 DEF ItemsInv, Proper
<1>3. \A x \in Mundane : Count(worn', hand', pile', spent', x) = Count(worn, hand, pile, spent, x)
  BY <1>1 DEF Count
<1> QED
  BY <1>2, <1>3, StepCounts

LEMMA CountsHold ==
  ASSUME ItemsInv, NEW x \in Names
  PROVE  /\ Amount(worn.slots, x) \in Nat /\ Share(hand, x) \in Nat /\ pile[x] \in Nat
         /\ spent[x] \in Nat
<1>1. worn \in Bodies /\ hand \in Lots /\ pile \in [Names -> Nat] /\ spent \in [Names -> Nat]
  BY DEF ItemsInv, Proper
<1>2. worn.slots \in [Slots -> Lots] /\ "magic" \in Slots
  BY <1>1, BodyIs DEF Slots, InForce
<1> QED
  BY <1>1, <1>2, AmountIs, Counts

LEMMA InitCounts ==
  ASSUME InvInit
  PROVE  ItemsInv
<1>0. worn = [slots |-> [s \in Slots |-> NoItem], force |-> [s \in InForce |-> <<>>],
              equipped |-> Fist, quick |-> [w \in WeaponSlots |-> w]]
  BY DEF InvInit
<1>1. worn \in Bodies /\ \A s \in Slots : worn.slots[s] = NoItem
  BY <1>0, LotFacts DEF Bodies, Usable
<1>2. InPlace(worn.slots)
  BY <1>1 DEF InPlace, Slots, InForce
<1>3. Supply \in [Names -> Nat] /\ "none" \notin Names
  BY ItemsAssumption
<1>4. spent \in [Names -> Nat] /\ \A x \in Names : spent[x] <= Supply[x]
  BY ItemsAssumption DEF InvInit
<1>5. /\ spent \in [Names -> Nat]
      /\ pile = [x \in Names |-> Supply[x] - spent[x]]
  BY <1>3, <1>4 DEF InvInit
<1>6. pile \in [Names -> Nat]
  BY <1>3, <1>4, <1>5
<1>7. hand = NoItem
  BY DEF InvInit
<1>8. ASSUME NEW x \in Names PROVE Count(worn, hand, pile, spent, x) = Supply[x]
  <2>1. Pieces(worn.slots, x, Slots) = {}
    BY <1>1, <1>3 DEF Pieces, NoItem
  <2>2. Amount(worn.slots, x) = 0
    BY <2>1, FS_EmptySet DEF Amount
  <2>3. Share(hand, x) = 0
    BY <1>7, Counts
  <2>4. pile[x] + spent[x] = Supply[x] /\ pile[x] \in Nat /\ spent[x] \in Nat
    BY <1>3, <1>5, <1>6
  <2> QED
    BY <2>2, <2>3, <2>4 DEF Count
<1> QED
  BY <1>1, <1>2, <1>5, <1>6, <1>7, <1>8, LotFacts DEF ItemsInv, Proper, Mundane

--------------------------------------------------------------------------
(* The player's actions *)

LEMMA PickUpCounts ==
  ASSUME ItemsInv, PickUp
  PROVE  ItemsInv'
<1>0. PICK y \in Names : \E n \in 1 .. pile[y] :
        /\ hand' = [name |-> y, n |-> n]
        /\ n = 1 \/ (Stackable(hand') /\ n <= MaxStack)
        /\ pile' = [pile EXCEPT ![y] = @ - n]
  BY DEF PickUp
<1>1. PICK n \in 1 .. pile[y] :
        /\ hand' = [name |-> y, n |-> n]
        /\ n = 1 \/ (Stackable(hand') /\ n <= MaxStack)
        /\ pile' = [pile EXCEPT ![y] = @ - n]
  BY <1>0
<1>2. hand = NoItem /\ worn' = worn /\ spent' = spent
  BY DEF PickUp
<1>3. worn \in Bodies /\ InPlace(worn.slots) /\ pile \in [Names -> Nat] /\ spent \in [Names -> Nat]
  BY DEF ItemsInv, Proper
<1>4. n \in Nat /\ n > 0 /\ n <= pile[y] /\ n \in 1..MaxStack
  BY <1>1, <1>3, LotFacts
<1>5. hand' \in Lots
  BY <1>1, <1>4, LotFacts DEF Lots
<1>6. pile' \in [Names -> Nat]
  BY <1>1, <1>3, <1>4
<1>7. ASSUME NEW x \in Mundane
      PROVE  Count(worn', hand', pile', spent', x) = Count(worn, hand, pile, spent, x)
  <2>1. x \in Names
    BY DEF Mundane
  <2>2. Amount(worn.slots, x) \in Nat /\ spent[x] \in Nat /\ pile[x] \in Nat /\ Share(hand, x) = 0
    BY <1>2, <2>1, CountsHold, Counts
  <2>3. Share(hand', x) + pile'[x] = pile[x] /\ Share(hand', x) \in Nat /\ pile'[x] \in Nat
    BY <1>1, <1>3, <1>4, <2>1 DEF Share
  <2> QED
    BY <1>2, <2>2, <2>3 DEF Count
<1> QED
  BY <1>2, <1>3, <1>5, <1>6, <1>7, StepCounts DEF Proper

LEMMA DragItemCounts ==
  ASSUME ItemsInv, DragItem
  PROVE  ItemsInv'
<1>0. PICK s \in Slots : \E n \in 1 .. worn.slots[s].n :
        /\ worn' = Reinit(RemoveItem(worn, s, n))
        /\ hand' = [worn.slots[s] EXCEPT !.n = n]
  BY DEF DragItem
<1>1. PICK n \in 1 .. worn.slots[s].n :
        /\ worn' = Reinit(RemoveItem(worn, s, n))
        /\ hand' = [worn.slots[s] EXCEPT !.n = n]
  BY <1>0
<1>2. hand = NoItem /\ pile' = pile /\ spent' = spent
  BY DEF DragItem
<1>3. worn \in Bodies /\ InPlace(worn.slots) /\ pile \in [Names -> Nat] /\ spent \in [Names -> Nat]
  BY DEF ItemsInv, Proper
<1> DEFINE b == RemoveItem(worn, s, n)
<1>4. /\ b \in Bodies /\ InPlace(b.slots)
      /\ \A x \in Names :
           /\ Amount(b.slots, x) \in Nat
           /\ Amount(b.slots, x) + (IF worn.slots[s].name = x THEN n ELSE 0) = Amount(worn.slots, x)
  BY <1>3, RemoveCounts
<1>5. worn' = Reinit(b)
  BY <1>1
<1> HIDE DEF b
<1>6. worn' \in Bodies /\ worn'.slots = b.slots
  BY <1>4, <1>5, ReinitKeeps DEF Same
<1>7. worn.slots[s] \in Lots /\ n \in Nat /\ n > 0 /\ n <= worn.slots[s].n
      /\ worn.slots[s].n \in 0..MaxStack /\ MaxStack \in Nat
  BY <1>3, BodyIs, LotFacts
<1>8. worn.slots[s].name \in Names /\ worn.slots[s].name # "none"
  BY <1>7, LotFacts
<1>9. hand' = [name |-> worn.slots[s].name, n |-> n]
  BY <1>1, <1>7 DEF Lots
<1>10. hand' \in Lots
  BY <1>7, <1>8, <1>9 DEF Lots, Stackable
<1>11. ASSUME NEW x \in Mundane
      PROVE  Count(worn', hand', pile', spent', x) = Count(worn, hand, pile, spent, x)
  <2>1. x \in Names
    BY DEF Mundane
  <2>2. spent[x] \in Nat /\ pile[x] \in Nat /\ Share(hand, x) = 0
    BY <1>2, <2>1, CountsHold, Counts
  <2>3. Share(hand', x) = IF worn.slots[s].name = x THEN n ELSE 0
    BY <1>9 DEF Share
  <2>4. /\ Amount(b.slots, x) \in Nat
        /\ Amount(b.slots, x) + Share(hand', x) = Amount(worn.slots, x)
    BY <1>4, <2>1, <2>3
  <2>5. Amount(worn'.slots, x) + Share(hand', x) = Amount(worn.slots, x) + Share(hand, x)
    <3>1. worn'.slots = b.slots
      BY <1>6
    <3>2. Amount(worn.slots, x) \in Nat
      BY <2>1, CountsHold
    <3> QED
      BY <2>2, <2>4, <3>1, <3>2
  <2> QED
    BY <1>2, <2>5 DEF Count
<1> QED
  BY <1>2, <1>3, <1>4, <1>6, <1>10, <1>11, StepCounts DEF Proper

\* What is put away in his slots is no longer in the hand.
LEMMA PutAwayCounts ==
  ASSUME ItemsInv, hand # NoItem, NEW r \in Along(worn, hand),
         Same(worn', r.b), hand' = Carried(r.left), UNCHANGED <<pile, spent>>
  PROVE  ItemsInv'
<1>1. worn \in Bodies /\ InPlace(worn.slots) /\ pile \in [Names -> Nat] /\ spent \in [Names -> Nat]
  BY DEF ItemsInv, Proper
<1>2. /\ r.b \in Bodies /\ r.left \in Parts /\ InPlace(r.b.slots)
      /\ \A x \in Names : Amount(r.b.slots, x) + Share(r.left, x)
                            = Amount(worn.slots, x) + Share(hand, x)
  BY DEF Along, Total
<1>3. worn' \in Bodies /\ worn'.slots = r.b.slots
  BY DEF Same
<1>4. hand' \in Lots /\ \A x \in Names : Share(hand', x) = Share(r.left, x)
  <2>1. CASE r.left.n = 0
    <3>1. hand' = NoItem
      BY <2>1 DEF Carried
    <3> QED
      BY <2>1, <3>1, Counts, LotFacts DEF Share
  <2>2. CASE r.left.n # 0
    <3>1. hand' = r.left
      BY <2>2 DEF Carried
    <3>2. r.left.n > 0
      BY <1>2, <2>2, LotFacts DEF Parts
    <3> QED
      BY <1>2, <3>1, <3>2, LotFacts
  <2> QED
    BY <2>1, <2>2
<1>5. ASSUME NEW x \in Mundane
      PROVE  Count(worn', hand', pile', spent', x) = Count(worn, hand, pile, spent, x)
  <2>1. x \in Names
    BY DEF Mundane
  <2>2. Amount(worn'.slots, x) + Share(hand', x) = Amount(worn.slots, x) + Share(hand, x)
    BY <1>2, <1>3, <1>4, <2>1
  <2> QED
    BY <2>2 DEF Count
<1> QED
  BY <1>1, <1>2, <1>3, <1>4, <1>5, StepCounts DEF Proper

LEMMA DropDraggedCounts ==
  ASSUME ItemsInv, DropDraggedItem
  PROVE  ItemsInv'
<1>1. hand # NoItem /\ pile' = pile /\ spent' = spent
  BY DEF DropDraggedItem
<1>2. PICK s \in Slots \ {"magic"} :
        /\ Fits(hand, s)
        /\ \/ /\ AddSlotItem(worn, hand, s).left # hand
              /\ worn' = Reinit(AddSlotItem(worn, hand, s).b)
              /\ hand' = Carried(AddSlotItem(worn, hand, s).left)
           \/ /\ ~WhyCantEquip(worn, s) /\ CanUnequip(s)
              /\ worn' = Reinit(AddSlotItem(KillSlot(worn, s), hand, s).b)
              /\ hand' = worn.slots[s]
  BY DEF DropDraggedItem
<1>3. /\ worn \in Bodies /\ InPlace(worn.slots) /\ hand \in Lots
      /\ pile \in [Names -> Nat] /\ spent \in [Names -> Nat]
  BY DEF ItemsInv, Proper
<1>4. hand \in Parts /\ hand.n > 0
  BY <1>1, <1>3, LotFacts
<1>5. CASE /\ worn' = Reinit(AddSlotItem(worn, hand, s).b)
           /\ hand' = Carried(AddSlotItem(worn, hand, s).left)
  <2> DEFINE r == AddSlotItem(worn, hand, s)
  <2>1. r \in Along(worn, hand)
    BY <1>2, <1>3, <1>4, PutKeeps
  <2>2. worn' = Reinit(r.b) /\ hand' = Carried(r.left)
    BY <1>5
  <2> HIDE DEF r
  <2>3. Same(worn', r.b)
    BY <2>1, <2>2, ReinitKeeps DEF Along
  <2> QED
    BY <1>1, <2>1, <2>2, <2>3, PutAwayCounts
<1>6. CASE /\ ~WhyCantEquip(worn, s) /\ CanUnequip(s)
           /\ worn' = Reinit(AddSlotItem(KillSlot(worn, s), hand, s).b)
           /\ hand' = worn.slots[s]
  <2> DEFINE k == KillSlot(worn, s)
             r == AddSlotItem(k, hand, s)
  <2>1. /\ k \in Bodies /\ InPlace(k.slots) /\ k.slots = [worn.slots EXCEPT ![s] = NoItem]
        /\ \A x \in Names : /\ Amount(k.slots, x) \in Nat
                            /\ Amount(k.slots, x) + Share(worn.slots[s], x) = Amount(worn.slots, x)
    BY <1>3, KillCounts
  <2>2. worn' = Reinit(r.b)
    BY <1>6
  <2>3. worn.slots \in [Slots -> Lots] /\ "magic" \in Slots
    BY <1>3, BodyIs DEF Slots, InForce
  <2>4. IsEmpty(k, s) /\ ~WhyCantEquip(k, s)
    BY <1>6, <2>1, <2>3 DEF IsEmpty, WhyCantEquip
  <2> HIDE DEF k
  <2>5. r \in Along(k, hand)
    BY <1>2, <1>4, <2>1, PutKeeps
  <2>6. r.left.n = 0
    BY <1>4, <2>1, <2>4, PutWhole
  <2> HIDE DEF r
  <2>7. /\ r.b \in Bodies /\ InPlace(r.b.slots)
        /\ \A x \in Names : Amount(r.b.slots, x) + Share(r.left, x) = Amount(k.slots, x) + Share(hand, x)
    BY <2>5 DEF Along, Total
  <2>8. worn' \in Bodies /\ worn'.slots = r.b.slots
    BY <2>2, <2>7, ReinitKeeps DEF Same
  <2>9. hand' \in Lots /\ worn.slots[s] \in Lots
    BY <1>6, <2>3
  <2>10. ASSUME NEW x \in Mundane
         PROVE  Count(worn', hand', pile', spent', x) = Count(worn, hand, pile, spent, x)
    <3>1. x \in Names
      BY DEF Mundane
    <3>2. Share(r.left, x) = 0
      BY <2>6 DEF Share
    <3>3. /\ Amount(k.slots, x) \in Nat /\ Share(worn.slots[s], x) \in Nat
          /\ Share(hand, x) \in Nat /\ Amount(r.b.slots, x) \in Nat
      BY <1>3, <2>1, <2>3, <2>7, <2>9, <3>1, Counts, BodyIs, AmountIs
    <3>4. Amount(r.b.slots, x) = Amount(k.slots, x) + Share(hand, x)
      BY <2>7, <3>1, <3>2, <3>3
    <3>5. Amount(k.slots, x) + Share(worn.slots[s], x) = Amount(worn.slots, x)
      BY <2>1, <3>1
    <3>6. Amount(worn'.slots, x) + Share(hand', x) = Amount(worn.slots, x) + Share(hand, x)
      BY <1>6, <2>8, <3>3, <3>4, <3>5
    <3> QED
      BY <1>1, <3>6 DEF Count
  <2> QED
    BY <1>1, <1>3, <2>7, <2>8, <2>9, <2>10, StepCounts DEF Proper
<1> QED
  BY <1>2, <1>5, <1>6

LEMMA PaperdollCounts ==
  ASSUME ItemsInv, DropOnPaperdoll
  PROVE  ItemsInv'
<1>1. hand # NoItem /\ pile' = pile /\ spent' = spent
  BY DEF DropOnPaperdoll
<1>2. PICK r \in {AddToPack(worn, hand), AddToWorn(worn, hand)} :
        worn' = Reinit(r.b) /\ hand' = Carried(r.left)
  BY DEF DropOnPaperdoll
<1>3. worn \in Bodies /\ InPlace(worn.slots) /\ hand \in Lots
  BY DEF ItemsInv, Proper
<1>4. hand \in Parts
  BY <1>1, <1>3, LotFacts
<1>5. r \in Along(worn, hand)
  BY <1>2, <1>3, <1>4, PackKeeps, WornKeeps
<1>6. Same(worn', r.b)
  BY <1>2, <1>5, ReinitKeeps DEF Along
<1> QED
  BY <1>1, <1>2, <1>5, <1>6, PutAwayCounts

LEMMA DropOnGroundCounts ==
  ASSUME ItemsInv, DropOnGround
  PROVE  ItemsInv'
<1>1. pile' = Piled(pile, hand) /\ hand' = NoItem /\ worn' = worn /\ spent' = spent
  BY DEF DropOnGround, OnGround, Piled
<1>2. /\ worn \in Bodies /\ InPlace(worn.slots) /\ hand \in Lots
      /\ pile \in [Names -> Nat] /\ spent \in [Names -> Nat]
  BY DEF ItemsInv, Proper
<1>3. pile' \in [Names -> Nat] /\ \A x \in Names : pile'[x] = pile[x] + Share(hand, x)
  BY <1>1, <1>2, PiledIs
<1>4. ASSUME NEW x \in Mundane
      PROVE  Count(worn', hand', pile', spent', x) = Count(worn, hand, pile, spent, x)
  <2>1. x \in Names
    BY DEF Mundane
  <2>2. /\ Amount(worn.slots, x) \in Nat /\ Share(hand, x) \in Nat /\ pile[x] \in Nat
        /\ spent[x] \in Nat /\ Share(hand', x) = 0
    BY <1>1, <2>1, CountsHold, Counts
  <2> QED
    BY <1>1, <1>3, <2>1, <2>2 DEF Count
<1> QED
  BY <1>1, <1>2, <1>3, <1>4, StepCounts, LotFacts DEF Proper

LEMMA SelectCounts ==
  ASSUME ItemsInv, SelectWeapon
  PROVE  ItemsInv'
<1>1. PICK s \in {worn.quick[w] : w \in WeaponSlots} \union {Fist} : worn' = SetEquippedSlot(worn, s)
  BY DEF SelectWeapon
<1>2. worn \in Bodies
  BY DEF ItemsInv, Proper
<1>3. s \in Usable
  BY <1>2, BodyIs DEF Usable
<1>4. Same(worn', worn)
  BY <1>1, <1>2, <1>3, SetEquippedKeeps
<1> QED
  BY <1>4, DressedOtherwise DEF SelectWeapon

LEMMA EquipBestCounts ==
  ASSUME ItemsInv, EquipBest
  PROVE  ItemsInv'
<1>1. PICK flags : worn' = EquipBestWeapon(worn, flags)
  BY DEF EquipBest
<1>2. worn \in Bodies
  BY DEF ItemsInv, Proper
<1>3. Same(worn', worn)
  BY <1>1, <1>2, BestWeaponKeeps
<1> QED
  BY <1>3, DressedOtherwise DEF EquipBest

--------------------------------------------------------------------------
(* What happens to him *)

\* One piece of what is in a slot is used up.
LEMMA UseUpCounts ==
  ASSUME ItemsInv, NEW s \in Slots, worn.slots[s] # NoItem, NEW b \in Bodies, InPlace(b.slots),
         Same(worn', b), hand' = hand, pile' = pile, spent' = Used(worn.slots[s], 1),
         \A x \in Names : /\ Amount(b.slots, x) \in Nat
                          /\ Amount(b.slots, x) + (IF worn.slots[s].name = x THEN 1 ELSE 0)
                               = Amount(worn.slots, x)
  PROVE  ItemsInv'
<1>1. /\ worn \in Bodies /\ hand \in Lots /\ pile \in [Names -> Nat] /\ spent \in [Names -> Nat]
  BY DEF ItemsInv, Proper
<1>2. worn.slots[s].name \in Names
  BY <1>1, BodyIs, LotFacts
<1>3. /\ spent' \in [Names -> Nat]
      /\ \A x \in Names : spent'[x] = spent[x] + (IF worn.slots[s].name = x THEN 1 ELSE 0)
  BY <1>1, <1>2 DEF Used
<1>4. worn' \in Bodies /\ worn'.slots = b.slots
  BY DEF Same
<1>5. ASSUME NEW x \in Mundane
      PROVE  Count(worn', hand', pile', spent', x) = Count(worn, hand, pile, spent, x)
  <2> DEFINE one == IF worn.slots[s].name = x THEN 1 ELSE 0
             after == Amount(b.slots, x)
             before == Amount(worn.slots, x)
             i == Share(hand, x)
             p == pile[x]
             u == spent[x]
  <2>1. x \in Names
    BY DEF Mundane
  <2>2. i \in Nat /\ p \in Nat /\ u \in Nat /\ one \in Nat
    BY <2>1, CountsHold
  <2>3. after \in Nat /\ after + one = before
    BY <2>1
  <2>4. /\ Count(worn, hand, pile, spent, x) = before + i + p + u
        /\ Count(worn', hand', pile', spent', x) = after + i + p + (u + one)
    BY <1>3, <1>4, <2>1 DEF Count
  <2> HIDE DEF one, after, before, i, p, u
  <2> QED
    BY <2>2, <2>3, <2>4
<1> QED
  BY <1>1, <1>3, <1>4, <1>5, StepCounts DEF Proper

LEMMA ShootCounts ==
  ASSUME ItemsInv, Shoot
  PROVE  ItemsInv'
<1> DEFINE s == worn.equipped
           b == RemoveItem(worn, s, 1)
<1>1. /\ worn' \in {b, EquipBestWeapon(b, {"ranged"})}
      /\ spent' = Used(worn.slots[s], 1) /\ hand' = hand /\ pile' = pile
  BY DEF Shoot
<1>2. worn \in Bodies /\ InPlace(worn.slots)
  BY DEF ItemsInv, Proper
<1>3. s \in Slots /\ worn.slots[s] # NoItem
  BY DEF Shoot, Has, IsEmpty, IsQuiver, Slots, InForce
<1>4. 1 \in 1 .. worn.slots[s].n
  <2>1. worn.slots[s] \in Lots
    BY <1>2, <1>3, BodyIs
  <2> QED
    BY <1>3, <2>1, LotFacts
<1> HIDE DEF s
<1>5. /\ b \in Bodies /\ InPlace(b.slots)
      /\ \A x \in Names : /\ Amount(b.slots, x) \in Nat
                          /\ Amount(b.slots, x) + (IF worn.slots[s].name = x THEN 1 ELSE 0)
                               = Amount(worn.slots, x)
  BY <1>2, <1>3, <1>4, RemoveCounts
<1> HIDE DEF b
<1>6. Same(worn', b)
  BY <1>1, <1>5, BestWeaponKeeps DEF Same
<1> QED
  BY <1>1, <1>3, <1>5, <1>6, UseUpCounts

LEMMA BreakCounts ==
  ASSUME ItemsInv, BreakWeapon
  PROVE  ItemsInv'
<1> DEFINE s == worn.equipped
           b == KillSlot(worn, s)
<1>1. /\ worn' = EquipBestWeapon(b, {"melee"})
      /\ spent' = Used(worn.slots[s], 1) /\ hand' = hand /\ pile' = pile
  BY DEF BreakWeapon
<1>2. worn \in Bodies /\ InPlace(worn.slots)
  BY DEF ItemsInv, Proper
<1>3. s \in WeaponSlots /\ s \in Slots \ {"magic"} /\ worn.slots[s] # NoItem
  BY SlotFacts DEF BreakWeapon, Has, IsEmpty, IsWeapon, Slots, InForce
<1> HIDE DEF s
<1>4. worn.slots[s] \in Lots /\ worn.slots[s].n = 1
  <2>1. worn.slots[s] \in Lots
    BY <1>2, <1>3, BodyIs
  <2>2. Fits(worn.slots[s], s)
    BY <1>2, <1>3 DEF InPlace
  <2>3. ~Stackable(worn.slots[s])
    BY <1>3, <2>2, SlotFacts DEF Fits, Stackable, IsWeapon, IsQuiver
  <2> QED
    BY <1>3, <2>1, <2>3, LotFacts DEF Lots
<1>5. /\ b \in Bodies /\ InPlace(b.slots)
      /\ \A x \in Names : /\ Amount(b.slots, x) \in Nat
                          /\ Amount(b.slots, x) + Share(worn.slots[s], x) = Amount(worn.slots, x)
  BY <1>2, <1>3, KillCounts
<1> HIDE DEF b
<1>6. \A x : Share(worn.slots[s], x) = IF worn.slots[s].name = x THEN 1 ELSE 0
  BY <1>4 DEF Share
<1>7. Same(worn', b)
  BY <1>1, <1>5, BestWeaponKeeps
<1>8. \A x \in Names : /\ Amount(b.slots, x) \in Nat
                       /\ Amount(b.slots, x) + (IF worn.slots[s].name = x THEN 1 ELSE 0)
                            = Amount(worn.slots, x)
  BY <1>5, <1>6
<1> QED
  BY <1>1, <1>3, <1>5, <1>7, <1>8, UseUpCounts

\* What is conjured, or vanishes, counts for nothing.
LEMMA MagicCounts ==
  ASSUME ItemsInv, NEW lot \in Lots, lot = NoItem \/ KindOf[lot.name] = "magic",
         worn' \in Bodies, worn'.slots = [worn.slots EXCEPT !["magic"] = lot],
         UNCHANGED <<hand, pile, spent>>
  PROVE  ItemsInv'
<1>1. /\ worn \in Bodies /\ InPlace(worn.slots) /\ hand \in Lots
      /\ pile \in [Names -> Nat] /\ spent \in [Names -> Nat]
      /\ hand' = hand /\ pile' = pile /\ spent' = spent
  BY DEF ItemsInv, Proper
<1>2. worn.slots \in [Slots -> Lots] /\ "magic" \in Slots
  BY <1>1, BodyIs DEF Slots, InForce
<1>3. InPlace(worn'.slots)
  BY <1>1, <1>2 DEF InPlace
<1>4. ASSUME NEW x \in Mundane, NEW i \in Lots, i = NoItem \/ KindOf[i.name] = "magic"
      PROVE  Share(i, x) = 0
  BY <1>4, KindFacts, LotFacts, Counts DEF Share, Mundane
<1>5. ASSUME NEW x \in Mundane
      PROVE  Count(worn', hand', pile', spent', x) = Count(worn, hand, pile, spent, x)
  <2>1. x \in Names
    BY DEF Mundane
  <2>2. /\ Amount(worn'.slots, x) \in Nat /\ Amount(worn.slots, x) \in Nat
        /\ Amount(worn'.slots, x) + Share(worn.slots["magic"], x) = Amount(worn.slots, x) + Share(lot, x)
    BY <1>2, <2>1, AmountIs
  <2>3. Share(worn.slots["magic"], x) = 0 /\ Share(lot, x) = 0
    BY <1>1, <1>2, <1>4 DEF InPlace
  <2>4. Amount(worn'.slots, x) = Amount(worn.slots, x)
    BY <2>2, <2>3
  <2> QED
    BY <1>1, <2>4 DEF Count
<1> QED
  BY <1>1, <1>3, <1>5, StepCounts DEF Proper

LEMMA ConjureCounts ==
  ASSUME ItemsInv, Conjure
  PROVE  ItemsInv'
<1>1. PICK y \in Names :
        /\ Items[y].kind = "magic"
        /\ worn' = SetEquippedSlot([worn EXCEPT !.slots["magic"] = [name |-> y, n |-> 1]], "magic")
  BY DEF Conjure
<1> DEFINE lot == [name |-> y, n |-> 1]
           b == [worn EXCEPT !.slots = [worn.slots EXCEPT !["magic"] = lot]]
<1>2. worn \in Bodies /\ worn.slots \in [Slots -> Lots] /\ "magic" \in Slots
  BY BodyIs DEF ItemsInv, Proper, Slots, InForce
<1>3. lot \in Lots
  BY LotFacts DEF Lots
<1>4. KindOf[lot.name] = "magic"
  BY <1>1, KindFacts
<1>5. worn' = SetEquippedSlot(b, "magic")
  BY <1>1
<1> HIDE DEF lot
<1>6. b \in Bodies /\ b.slots = [worn.slots EXCEPT !["magic"] = lot]
  BY <1>2, <1>3 DEF Bodies
<1> HIDE DEF b
<1>7. worn' \in Bodies /\ worn'.slots = b.slots
  BY <1>5, <1>6, SetEquippedKeeps DEF Same
<1> QED
  BY <1>3, <1>4, <1>6, <1>7, MagicCounts DEF Conjure

LEMMA VanishCounts ==
  ASSUME ItemsInv, Vanish
  PROVE  ItemsInv'
<1> DEFINE b == KillSlot(worn, "magic")
<1>1. worn' \in {b, Reinit(b)}
  BY DEF Vanish
<1>2. worn \in Bodies /\ InPlace(worn.slots) /\ "magic" \in Slots
  BY DEF ItemsInv, Proper, Slots, InForce
<1>3. b \in Bodies /\ b.slots = [worn.slots EXCEPT !["magic"] = NoItem]
  BY <1>2, KillCounts
<1> HIDE DEF b
<1>4. worn' \in Bodies /\ worn'.slots = b.slots
  BY <1>1, <1>3, ReinitKeeps DEF Same
<1> QED
  BY <1>3, <1>4, MagicCounts, LotFacts DEF Vanish

LEMMA DestroyCounts ==
  ASSUME ItemsInv, DestroyItem
  PROVE  ItemsInv'
<1>1. PICK s \in Slots \ {"magic"} :
        /\ Has(s)
        /\ worn' \in {RemoveItem(worn, s, 1), Reinit(RemoveItem(worn, s, 1))}
        /\ spent' = Used(worn.slots[s], 1)
  BY DEF DestroyItem
<1> DEFINE b == RemoveItem(worn, s, 1)
<1>2. worn \in Bodies /\ InPlace(worn.slots) /\ worn.slots[s] # NoItem
  BY <1>1 DEF ItemsInv, Proper, Has, IsEmpty
<1>3. 1 \in 1 .. worn.slots[s].n
  BY <1>2, BodyIs, LotFacts
<1>4. /\ b \in Bodies /\ InPlace(b.slots)
      /\ \A x \in Names : /\ Amount(b.slots, x) \in Nat
                          /\ Amount(b.slots, x) + (IF worn.slots[s].name = x THEN 1 ELSE 0)
                               = Amount(worn.slots, x)
  BY <1>2, <1>3, RemoveCounts
<1>5. worn' \in {b, Reinit(b)}
  BY <1>1
<1> HIDE DEF b
<1>6. Same(worn', b)
  BY <1>4, <1>5, ReinitKeeps DEF Same
<1>7. hand' = hand /\ pile' = pile
  BY DEF DestroyItem
<1> QED
  BY <1>1, <1>2, <1>4, <1>6, <1>7, UseUpCounts

\* Every slot but that of a conjured weapon is searched.
LEMMA FindItemIs ==
  ASSUME worn \in Bodies, NEW x \in Names, FindItem(x) # Fist
  PROVE  FindItem(x) \in Slots \ {"magic"} /\ worn.slots[FindItem(x)].name = x /\ Has(FindItem(x))
<1> DEFINE S == {s \in Slots \ {"magic"} : worn.slots[s].name = x}
<1>1. S \in SUBSET (Slots \ {"magic"}) /\ FindItem(x) = FirstOf(S)
  BY DEF FindItem
<1>2. FirstOf(S) = Fist \/ FirstOf(S) \in S
  <2> HIDE DEF S
  <2> QED
    BY <1>1, FirstIs
<1>3. FindItem(x) \in S
  BY <1>1, <1>2
<1> QED
  BY <1>3, LotFacts DEF Has, IsEmpty, NoItem

LEMMA UnequipCounts ==
  ASSUME ItemsInv, UnequipByScript
  PROVE  ItemsInv'
<1>1. PICK y \in Names :
        /\ FindItem(y) # Fist
        /\ worn' = Reinit(AddToPack(KillSlot(worn, FindItem(y)), worn.slots[FindItem(y)]).b)
        /\ pile' = OnGround(AddToPack(KillSlot(worn, FindItem(y)), worn.slots[FindItem(y)]).left)
  BY DEF UnequipByScript
<1>2. /\ worn \in Bodies /\ InPlace(worn.slots) /\ hand \in Lots
      /\ pile \in [Names -> Nat] /\ spent \in [Names -> Nat]
  BY DEF ItemsInv, Proper
<1> DEFINE s == FindItem(y)
           r == AddToPack(KillSlot(worn, s), worn.slots[s])
<1>3. s \in Slots /\ ~IsEmpty(worn, s)
  BY <1>1, <1>2, FindItemIs DEF Has
<1>4. worn' = Reinit(r.b) /\ pile' = Piled(pile, r.left)
  BY <1>1 DEF OnGround, Piled
<1> HIDE DEF s
<1>5. /\ r.b \in Bodies /\ InPlace(r.b.slots) /\ r.left \in Parts
      /\ \A x \in Names : Total(r, x) = Amount(worn.slots, x)
  BY <1>2, <1>3, PackedAway
<1> HIDE DEF r
<1>6. worn' \in Bodies /\ worn'.slots = r.b.slots
  BY <1>4, <1>5, ReinitKeeps DEF Same
<1>7. pile' \in [Names -> Nat] /\ \A x \in Names : pile'[x] = pile[x] + Share(r.left, x)
  BY <1>2, <1>4, <1>5, PiledIs
<1>8. hand' = hand /\ spent' = spent
  BY DEF UnequipByScript
<1>9. ASSUME NEW x \in Mundane
      PROVE  Count(worn', hand', pile', spent', x) = Count(worn, hand, pile, spent, x)
  <2> DEFINE after == Amount(r.b.slots, x)
             before == Amount(worn.slots, x)
             left == Share(r.left, x)
             i == Share(hand, x)
             p == pile[x]
             u == spent[x]
  <2>1. x \in Names
    BY DEF Mundane
  <2>2. i \in Nat /\ p \in Nat /\ u \in Nat /\ left \in Nat /\ after \in Nat
    BY <1>5, <2>1, CountsHold, Counts, AmountNat
  <2>3. after + left = before
    BY <1>5, <2>1 DEF Total
  <2>4. /\ Count(worn, hand, pile, spent, x) = before + i + p + u
        /\ Count(worn', hand', pile', spent', x) = after + i + (p + left) + u
    BY <1>6, <1>7, <1>8, <2>1 DEF Count
  <2> HIDE DEF after, before, left, i, p, u
  <2> QED
    BY <2>2, <2>3, <2>4
<1> QED
  BY <1>2, <1>5, <1>6, <1>7, <1>8, <1>9, StepCounts DEF Proper

LEMMA RemoveCurseCounts ==
  ASSUME ItemsInv, RemoveCurse
  PROVE  ItemsInv'
<1>1. /\ worn \in Bodies /\ InPlace(worn.slots) /\ hand \in Lots
      /\ pile \in [Names -> Nat] /\ spent \in [Names -> Nat]
  BY DEF ItemsInv, Proper
<1>2. PICK r \in Freeing(worn, pile) : worn' = r.b /\ pile' = r.pile
  BY <1>1, RemoveCurseIs
<1>3. /\ worn' \in Bodies /\ InPlace(worn'.slots) /\ pile' \in [Names -> Nat]
      /\ \A x \in Names : Amount(worn'.slots, x) + pile'[x] = Amount(worn.slots, x) + pile[x]
  BY <1>2 DEF Freeing
<1>4. hand' = hand /\ spent' = spent
  BY DEF RemoveCurse
<1>5. ASSUME NEW x \in Mundane
      PROVE  Count(worn', hand', pile', spent', x) = Count(worn, hand, pile, spent, x)
  <2> DEFINE after == Amount(worn'.slots, x)
             before == Amount(worn.slots, x)
             i == Share(hand, x)
             p == pile[x]
             lies == pile'[x]
             u == spent[x]
  <2>1. x \in Names
    BY DEF Mundane
  <2>2. i \in Nat /\ p \in Nat /\ u \in Nat /\ lies \in Nat /\ after \in Nat /\ before \in Nat
    BY <1>1, <1>3, <2>1, CountsHold, AmountNat
  <2>3. after + lies = before + p
    BY <1>3, <2>1
  <2>4. /\ Count(worn, hand, pile, spent, x) = before + i + p + u
        /\ Count(worn', hand', pile', spent', x) = after + i + lies + u
    BY <1>4 DEF Count
  <2> HIDE DEF after, before, lies, i, p, u
  <2> QED
    BY <2>2, <2>3, <2>4
<1> QED
  BY <1>1, <1>3, <1>4, <1>5, StepCounts DEF Proper

LEMMA ReloadCounts ==
  ASSUME ItemsInv, Reload
  PROVE  ItemsInv'
<1> DEFINE bare == [worn EXCEPT !.force = [s \in InForce |-> <<>>]]
           dressed == EquipItem(AddSlotEffects(bare, "armour"), "magic")
           wields == EquipItem(dressed, dressed.equipped)
           chosen == IF IsWeapon(wields.equipped) THEN wields.quick[wields.equipped]
                     ELSE IF \E w \in WeaponSlots : wields.quick[w] = wields.equipped
                          THEN wields.equipped ELSE Fist
<1>1. worn' = SetEquippedSlot(wields, chosen)
  BY DEF Reload
<1>2. worn \in Bodies
  BY DEF ItemsInv, Proper
<1>3. bare \in Bodies /\ bare.slots = worn.slots
  <2>1. [s \in InForce |-> <<>>] \in [InForce -> Seq(Names)]
    OBVIOUS
  <2> QED
    BY <1>2, <2>1 DEF Bodies
<1> HIDE DEF bare
<1>4. Same(AddSlotEffects(bare, "armour"), bare)
  BY <1>3, AddKeeps DEF InForce
<1>5. dressed \in Bodies /\ dressed.slots = bare.slots
  BY <1>4, EquipKeeps DEF Same, Slots, InForce
<1> HIDE DEF dressed
<1>6. dressed.equipped \in Slots \union {Fist}
  BY <1>5, BodyIs DEF Usable, Slots, InForce
<1>7. wields \in Bodies /\ wields.slots = dressed.slots
  BY <1>5, <1>6, EquipKeeps DEF Same
<1> HIDE DEF wields
<1>8. chosen \in Usable
  BY <1>7, BodyIs DEF Usable, IsWeapon
<1> HIDE DEF chosen
<1>9. Same(worn', worn)
  BY <1>1, <1>3, <1>5, <1>7, <1>8, SetEquippedKeeps DEF Same
<1> QED
  BY <1>9, DressedOtherwise DEF Reload

\* Where one goes there is room for the other, in its place.
LEMMA ExchangeFits ==
  ASSUME NEW f \in [Slots -> Lots], InPlace(f), NEW s \in Slots \ {"magic"},
         NEW s2 \in (WeaponSlots \union {"armour"}) \ {s},
         f[s] # NoItem, f[s2] # NoItem, Fits(f[s], s2)
  PROVE  Fits(f[s2], s)
<1>1. s2 \in Slots \ {"magic"}
  BY SlotFacts DEF Slots, InForce
<1>2. Fits(f[s], s) /\ Fits(f[s2], s2)
  BY <1>1 DEF InPlace
<1>3. CASE s2 \in WeaponSlots
  <2>1. KindOf[f[s].name] \in {"sword", "bow"} /\ KindOf[f[s2].name] \in {"sword", "bow"}
    BY <1>2, <1>3, SlotFacts DEF Fits, IsWeapon, IsQuiver
  <2>2. s \in PackSlots \/ IsWeapon(s)
    BY <1>2, <2>1 DEF Fits
  <2> QED
    BY <2>1, <2>2 DEF Fits
<1>4. CASE s2 = "armour"
  <2>1. KindOf[f[s].name] = "armour"
    BY <1>2, <1>4, SlotFacts DEF Fits, IsWeapon, IsQuiver
  <2>2. s \in PackSlots
    BY <1>2, <1>4, <2>1 DEF Fits
  <2> QED
    BY <2>2 DEF Fits
<1> QED
  BY <1>3, <1>4

\* Into an empty slot it goes whole.
LEMMA PutWholeIs ==
  ASSUME NEW b \in Bodies, InPlace(b.slots), NEW s \in Slots \ {"magic"},
         NEW item \in Lots, item # NoItem, Fits(item, s), IsEmpty(b, s), IsEmpty(b, "magic")
  PROVE  LET c == AddSlotItem(b, item, s).b
         IN /\ c \in Bodies /\ InPlace(c.slots)
            /\ \A t \in Slots \ {s} : c.slots[t] = b.slots[t]
            /\ \A x \in Names : Amount(c.slots, x) = Amount(b.slots, x) + Share(item, x)
<1> DEFINE r == AddSlotItem(b, item, s)
<1>1. item \in Parts /\ item.n > 0
  BY LotFacts
<1>2. r \in Along(b, item)
  BY <1>1, PutKeeps
<1>3. r.left.n = 0
  BY <1>1, PutWhole DEF WhyCantEquip
<1>4. \E lot \in Lots : Changed(r.b, b, s, lot)
  BY <1>1, AddSlotItemIs
<1> HIDE DEF r
<1>5. /\ r.b \in Bodies /\ InPlace(r.b.slots)
      /\ \A x \in Names : Amount(r.b.slots, x) + Share(r.left, x) = Amount(b.slots, x) + Share(item, x)
  BY <1>2 DEF Along, Total
<1>6. \A t \in Slots \ {s} : r.b.slots[t] = b.slots[t]
  BY <1>4, BodyIs DEF Changed
<1>7. ASSUME NEW x \in Names PROVE Amount(r.b.slots, x) = Amount(b.slots, x) + Share(item, x)
  <2>1. Share(r.left, x) = 0 /\ Amount(r.b.slots, x) \in Nat
    BY <1>3, <1>5, AmountNat DEF Share
  <2> QED
    BY <1>5, <2>1
<1> QED
  BY <1>5, <1>6, <1>7 DEF r

LEMMA XEquipCounts ==
  ASSUME ItemsInv, XEquipItem
  PROVE  ItemsInv'
<1>1. IsEmpty(worn, "magic") /\ UNCHANGED <<hand, pile, spent>>
  BY DEF XEquipItem
<1>2. PICK y \in Names : FindItem(y) # Fist /\
        \E s2 \in (WeaponSlots \union {"armour"}) \ {FindItem(y)} :
          /\ Fits(worn.slots[FindItem(y)], s2)
          /\ \E one \in {KillSlot(worn, FindItem(y))} : \E bare \in {KillSlot(one, s2)} :
             \E set \in {AddSlotItem(bare, worn.slots[FindItem(y)], s2).b} :
             \E back \in {IF Has(s2) THEN AddSlotItem(set, worn.slots[s2], FindItem(y)).b ELSE set} :
             \E b \in {EquipItem(back, s2)} : worn' = Reinit(b)
  BY DEF XEquipItem
<1> DEFINE s == FindItem(y)
<1>3. PICK s2 \in (WeaponSlots \union {"armour"}) \ {s} :
          /\ Fits(worn.slots[s], s2)
          /\ \E one \in {KillSlot(worn, s)} : \E bare \in {KillSlot(one, s2)} :
             \E set \in {AddSlotItem(bare, worn.slots[s], s2).b} :
             \E back \in {IF Has(s2) THEN AddSlotItem(set, worn.slots[s2], s).b ELSE set} :
             \E b \in {EquipItem(back, s2)} : worn' = Reinit(b)
  BY <1>2
<1>4. worn \in Bodies /\ InPlace(worn.slots) /\ worn.slots \in [Slots -> Lots]
  BY BodyIs DEF ItemsInv, Proper
<1>5. s \in Slots \ {"magic"} /\ worn.slots[s] # NoItem
  BY <1>2, <1>4, FindItemIs DEF Has, IsEmpty
<1>6. s2 \in Slots \ {"magic"} /\ s2 # s
  BY SlotFacts DEF Slots, InForce
<1> HIDE DEF s
<1> DEFINE one == KillSlot(worn, s)
           bare == KillSlot(one, s2)
           set == AddSlotItem(bare, worn.slots[s], s2).b
           back == IF Has(s2) THEN AddSlotItem(set, worn.slots[s2], s).b ELSE set
<1>7. worn' = Reinit(EquipItem(back, s2))
  BY <1>3
<1>8. /\ one \in Bodies /\ InPlace(one.slots) /\ one.slots = [worn.slots EXCEPT ![s] = NoItem]
      /\ \A x \in Names : Amount(one.slots, x) + Share(worn.slots[s], x) = Amount(worn.slots, x)
  BY <1>4, <1>5, KillCounts
<1> HIDE DEF one
<1>9. /\ bare \in Bodies /\ InPlace(bare.slots) /\ bare.slots = [one.slots EXCEPT ![s2] = NoItem]
      /\ \A x \in Names : Amount(bare.slots, x) + Share(one.slots[s2], x) = Amount(one.slots, x)
  BY <1>6, <1>8, KillCounts
<1> HIDE DEF bare
<1>10. /\ IsEmpty(bare, s) /\ IsEmpty(bare, s2) /\ IsEmpty(bare, "magic")
       /\ one.slots[s2] = worn.slots[s2]
  <2>1. one.slots \in [Slots -> Lots] /\ "magic" \in Slots
    BY <1>8, BodyIs DEF Slots, InForce
  <2> QED
    BY <1>1, <1>4, <1>5, <1>6, <1>8, <1>9, <2>1 DEF IsEmpty
<1>11. /\ set \in Bodies /\ InPlace(set.slots)
       /\ \A t \in Slots \ {s2} : set.slots[t] = bare.slots[t]
       /\ \A x \in Names : Amount(set.slots, x) = Amount(bare.slots, x) + Share(worn.slots[s], x)
  <2>1. worn.slots[s] \in Lots /\ worn.slots[s] # NoItem /\ Fits(worn.slots[s], s2)
    BY <1>3, <1>4, <1>5
  <2> DEFINE item == worn.slots[s]
             c == AddSlotItem(bare, item, s2).b
  <2>2. item \in Lots /\ item # NoItem /\ Fits(item, s2)
    BY <2>1
  <2> HIDE DEF item
  <2>3. /\ c \in Bodies /\ InPlace(c.slots)
        /\ \A t \in Slots \ {s2} : c.slots[t] = bare.slots[t]
        /\ \A x \in Names : Amount(c.slots, x) = Amount(bare.slots, x) + Share(item, x)
    BY <1>6, <1>9, <1>10, <2>2, PutWholeIs
  <2>4. c = set
    BY DEF item
  <2> HIDE DEF c, set
  <2> QED
    BY <2>3, <2>4 DEF item
<1> HIDE DEF set
<1>12. /\ back \in Bodies /\ InPlace(back.slots)
       /\ \A x \in Names : Amount(back.slots, x) = Amount(set.slots, x) + Share(worn.slots[s2], x)
  <2>1. CASE Has(s2)
    <3>1. worn.slots[s2] \in Lots /\ worn.slots[s2] # NoItem
      BY <1>4, <1>6, <2>1 DEF Has, IsEmpty
    <3>2. Fits(worn.slots[s2], s)
      BY <1>3, <1>4, <1>5, <3>1, ExchangeFits
    <3>3. IsEmpty(set, s) /\ IsEmpty(set, "magic")
      <4>1. "magic" \in Slots \ {s2} /\ s \in Slots \ {s2}
        BY <1>5, <1>6 DEF Slots, InForce
      <4> QED
        BY <1>10, <1>11, <4>1 DEF IsEmpty
    <3>4. back = AddSlotItem(set, worn.slots[s2], s).b
      BY <2>1
    <3> QED
      BY <1>5, <1>11, <3>1, <3>2, <3>3, <3>4, PutWholeIs
  <2>2. CASE ~Has(s2)
    <3>1. back = set /\ worn.slots[s2] = NoItem
      BY <2>2 DEF Has, IsEmpty
    <3> HIDE DEF back
    <3>2. ASSUME NEW x \in Names
          PROVE  Amount(back.slots, x) = Amount(set.slots, x) + Share(worn.slots[s2], x)
      <4>1. Share(worn.slots[s2], x) = 0 /\ Amount(set.slots, x) \in Nat
        BY <1>11, <3>1, AmountNat, Counts
      <4> QED
        BY <3>1, <4>1
    <3> QED
      BY <1>11, <3>1, <3>2
  <2> QED
    BY <2>1, <2>2
<1> HIDE DEF back
<1>13. worn' \in Bodies /\ worn'.slots = back.slots
  BY <1>6, <1>7, <1>12, EquipKeeps, ReinitKeeps DEF Same
<1>14. ASSUME NEW x \in Mundane
       PROVE  Count(worn', hand', pile', spent', x) = Count(worn, hand, pile, spent, x)
  <2> DEFINE a0 == Amount(worn.slots, x)
             a1 == Amount(one.slots, x)
             a2 == Amount(bare.slots, x)
             a3 == Amount(set.slots, x)
             a4 == Amount(back.slots, x)
             i1 == Share(worn.slots[s], x)
             i2 == Share(worn.slots[s2], x)
  <2>1. x \in Names
    BY DEF Mundane
  <2>2. /\ a0 \in Nat /\ a1 \in Nat /\ a2 \in Nat /\ a3 \in Nat /\ a4 \in Nat
        /\ i1 \in Nat /\ i2 \in Nat
    BY <1>4, <1>5, <1>6, <1>8, <1>9, <1>11, <1>12, <2>1, AmountNat, Counts
  <2>3. a1 + i1 = a0 /\ a2 + i2 = a1 /\ a3 = a2 + i1 /\ a4 = a3 + i2
    BY <1>8, <1>9, <1>10, <1>11, <1>12, <2>1
  <2> HIDE DEF a0, a1, a2, a3, a4, i1, i2
  <2>4. a4 = a0
    BY <2>2, <2>3
  <2> QED
    BY <1>1, <1>13, <2>4 DEF Count, a0, a4
<1>15. hand' = hand /\ pile' = pile /\ spent' = spent
  BY <1>1
<1>16. Proper(worn', hand', pile', spent')
  BY <1>12, <1>13, <1>15 DEF ItemsInv, Proper
<1> QED
  BY <1>14, <1>16, StepCounts

--------------------------------------------------------------------------
(* The slots keep their kinds, and nothing is lost *)

LEMMA ItemsInvHolds == InvSpec => []ItemsInv
<1>1. InvInit => ItemsInv
  BY InitCounts
<1>2. ItemsInv /\ [InvNext]_invVars => ItemsInv'
  <2> SUFFICES ASSUME ItemsInv, [InvNext]_invVars PROVE ItemsInv'
    OBVIOUS
  <2>1. CASE PickUp \/ DragItem \/ DropDraggedItem \/ DropOnPaperdoll \/ DropOnGround
    BY <2>1, PickUpCounts, DragItemCounts, DropDraggedCounts, PaperdollCounts, DropOnGroundCounts
  <2>2. CASE SelectWeapon \/ EquipBest \/ Shoot \/ BreakWeapon \/ Conjure \/ Vanish
    BY <2>2, SelectCounts, EquipBestCounts, ShootCounts, BreakCounts, ConjureCounts, VanishCounts
  <2>3. CASE DestroyItem \/ UnequipByScript \/ XEquipItem \/ RemoveCurse \/ Reload
    BY <2>3, DestroyCounts, UnequipCounts, XEquipCounts, RemoveCurseCounts, ReloadCounts
  <2>4. CASE UNCHANGED invVars
    <3>1. Same(worn', worn) /\ UNCHANGED <<hand, pile, spent>>
      BY <2>4 DEF invVars, ItemsInv, Proper, Same
    <3> QED
      BY <3>1, DressedOtherwise
  <2> QED
    BY <2>1, <2>2, <2>3, <2>4 DEF InvNext
<1> QED
  BY <1>1, <1>2, PTL DEF InvSpec

\* Every item is in a slot for its kind (Inventory::ItemFitsSlot's answer when it
\* was put there, by way of AddSlotItem), a weapon in the slot of a conjured one
\* was conjured, and nowhere is more of an item than a slot takes.
InventoryType ==
  /\ worn \in Bodies /\ InPlace(worn.slots) /\ hand \in Lots
  /\ pile \in [Names -> Nat] /\ spent \in [Names -> Nat]

THEOREM InventoryTypeCorrect == InvSpec => []InventoryType
<1>1. ItemsInv => InventoryType
  BY DEF ItemsInv, Proper, InventoryType
<1> QED
  BY <1>1, ItemsInvHolds, PTL

\* No item is lost or multiplied on its way between slots, hand and ground,
\* whatever of core/Inventory.cpp's calls moves it (NothingVanishes).
THEOREM NothingEverVanishes == InvSpec => []NothingVanishes
<1>1. ItemsInv => NothingVanishes
  <2> SUFFICES ASSUME ItemsInv, NEW x \in {y \in Names : Items[y].kind # "magic"}
               PROVE  Cardinality({p \in Slots \X (1 .. MaxStack) :
                                     worn.slots[p[1]].name = x /\ p[2] <= worn.slots[p[1]].n})
                        + (IF hand.name = x THEN hand.n ELSE 0) + pile[x] + spent[x] = Supply[x]
    BY DEF NothingVanishes
  <2>1. Count(worn, hand, pile, spent, x) = Supply[x]
    BY DEF ItemsInv, Mundane
  <2> QED
    BY <2>1 DEF Count, Amount, Pieces, Share
<1> QED
  BY <1>1, ItemsInvHolds, PTL

--------------------------------------------------------------------------
(* No effect lingers: how he is dressed at the end of every call *)

\* Effects are of the item in their slot, which is armour, in use, or a bow.
TrueTo(b) == \A s \in InForce : \A i \in DOMAIN b.force[s] : b.force[s][i] = b.slots[s].name
Own(b) ==
  \A s \in InForce : b.force[s] # <<>> => s \in {"armour", b.equipped} \/ Kind(b, s) = "bow"

\* Armour is in force; a conjured weapon is so and in use.
Armoured(b) == ~IsEmpty(b, "armour") => b.force["armour"] # <<>>
Conjured(b) == ~IsEmpty(b, "magic") => b.equipped = "magic" /\ b.force["magic"] # <<>>

\* A weapon slot in use is in force, and so has a weapon in it.
InHand(b) == b.equipped \in WeaponSlots => b.force[b.equipped] # <<>>

Neat(b) == TrueTo(b) /\ Own(b) /\ Armoured(b) /\ Conjured(b)
Tidy(b) == Neat(b) /\ InHand(b)

\* But for the slot in use, which is about to be put away.
NeatOtherwise(b) ==
  \A s \in InForce \ {b.equipped} :
    /\ \A i \in DOMAIN b.force[s] : b.force[s][i] = b.slots[s].name
    /\ b.force[s] # <<>> => s = "armour" \/ Kind(b, s) = "bow"

\* Where the same is in the slots, the same is found there.
LEMMA SameSlots ==
  ASSUME NEW b, NEW c, c.slots = b.slots
  PROVE  /\ FindTypedRangedWeapon(c) = FindTypedRangedWeapon(b)
         /\ FindRangedProjectile(c) = FindRangedProjectile(b)
         /\ \A s : /\ IsEmpty(c, s) <=> IsEmpty(b, s)
                   /\ Kind(c, s) = Kind(b, s)
                   /\ IsCursed(c, s) <=> IsCursed(b, s)
                   /\ FindSlotRangedWeapon(c, s) = FindSlotRangedWeapon(b, s)
BY DEF FindTypedRangedWeapon, FindRangedProjectile, FindSlotRangedWeapon, IsEmpty, Kind, IsCursed

\* And the buttons do not matter.
LEMMA TidyAlike ==
  ASSUME NEW b, NEW c, c.slots = b.slots, c.force = b.force, c.equipped = b.equipped
  PROVE  /\ Neat(b) => Neat(c) /\ NeatOtherwise(c)
         /\ InHand(b) => InHand(c)
         /\ Tidy(b) => Tidy(c)
<1>1. /\ TrueTo(b) => TrueTo(c)
      /\ Own(b) => Own(c)
      /\ Armoured(b) => Armoured(c)
      /\ Conjured(b) => Conjured(c)
      /\ InHand(b) => InHand(c)
      /\ TrueTo(b) /\ Own(b) => NeatOtherwise(c)
  BY SameSlots DEF TrueTo, Own, Armoured, Conjured, InHand, NeatOtherwise
<1> QED
  BY <1>1 DEF Neat, Tidy

\* What is put in force is its slot's.
LEMMA AddTidies ==
  ASSUME NEW b \in Bodies, NEW s \in {"armour", "magic"}, ~IsEmpty(b, s),
         TrueTo(b), Own(b), ~IsEmpty(b, "magic") => b.equipped = "magic",
         s # "armour" => Armoured(b)
  PROVE  /\ AddSlotEffects(b, s).slots = b.slots
         /\ AddSlotEffects(b, s).equipped = b.equipped
         /\ AddSlotEffects(b, s).force = [b.force EXCEPT ![s] = PutInForce(@, b.slots[s].name)]
         /\ TrueTo(AddSlotEffects(b, s)) /\ Own(AddSlotEffects(b, s))
         /\ Armoured(AddSlotEffects(b, s))
         /\ (s = "magic" \/ Conjured(b)) => Conjured(AddSlotEffects(b, s))
         /\ InHand(b) => InHand(AddSlotEffects(b, s))
<1> DEFINE c == AddSlotEffects(b, s)
<1>1. /\ s \in InForce /\ s # Fist /\ s \notin WeaponSlots /\ b.slots[s].name \in Names
      /\ b.force \in [InForce -> Seq(Names)] /\ b.equipped \in Usable \union {"magic"}
  BY BodyIs, SlotFacts DEF InForce, Slots
<1>2. c = [b EXCEPT !.force = [b.force EXCEPT ![s] = PutInForce(@, b.slots[s].name)]]
  BY <1>1 DEF AddSlotEffects
<1>3. /\ c.slots = b.slots /\ c.equipped = b.equipped
      /\ c.force = [b.force EXCEPT ![s] = PutInForce(@, b.slots[s].name)]
  BY <1>2 DEF Bodies
<1> HIDE DEF c
<1>4. \A t \in InForce : c.force[t] = IF t = s THEN PutInForce(b.force[t], b.slots[t].name) ELSE b.force[t]
  BY <1>1, <1>3
<1>5. /\ PutInForce(b.force[s], b.slots[s].name) # <<>>
      /\ \A i \in DOMAIN PutInForce(b.force[s], b.slots[s].name) :
           PutInForce(b.force[s], b.slots[s].name)[i] = b.slots[s].name
  <2>1. b.force[s] \in Seq(Names) /\ b.slots[s].name \in Names
    BY <1>1
  <2>2. \A i \in DOMAIN b.force[s] : b.force[s][i] = b.slots[s].name
    BY <1>1 DEF TrueTo
  <2> QED
    BY <2>1, <2>2, AddedIs
<1>6. TrueTo(c)
  BY <1>3, <1>4, <1>5 DEF TrueTo
<1>7. Own(c)
  BY <1>3, <1>4, SameSlots DEF Own
<1>8. Armoured(c)
  BY <1>3, <1>4, <1>5, SameSlots DEF Armoured, InForce
<1>9. (s = "magic" \/ Conjured(b)) => Conjured(c)
  BY <1>3, <1>4, <1>5, SameSlots DEF Conjured, InForce
<1>10. InHand(b) => InHand(c)
  BY <1>1, <1>3, <1>4 DEF InHand, InForce
<1> QED
  BY <1>3, <1>6, <1>7, <1>8, <1>9, <1>10 DEF c

\* Whatever comes to be used, its effects and its bow's are in force, and those
\* of what was used are not.
LEMMA SetTidy ==
  ASSUME NEW b \in Bodies, NEW s \in Usable \union {"magic"},
         NeatOtherwise(b), Armoured(b), s # "magic" => Neat(b)
  PROVE  Tidy(SetEquippedSlot(b, s))
<1> DEFINE c == SetEquippedSlot(b, s)
<1>0. /\ "magic" \notin WeaponSlots /\ "armour" \notin WeaponSlots /\ "armour" \notin QuiverSlots
      /\ "magic" \notin QuiverSlots
      /\ Fist \notin InForce /\ "armour" \in InForce /\ "magic" \in InForce /\ "magic" # "armour"
      /\ WeaponSlots \subseteq InForce /\ QuiverSlots \subseteq InForce
      /\ QuiverSlots \intersect WeaponSlots = {} /\ Fist \notin WeaponSlots
      /\ b.equipped \in Usable \union {"magic"} /\ "armour" # Fist
  BY BodyIs, SlotFacts DEF InForce, Slots
<1>1. CASE ~IsEmpty(b, "magic") /\ s # "magic"
  <2>1. c = [b EXCEPT !.equipped = "magic"] /\ b.equipped = "magic"
    BY <1>1 DEF SetEquippedSlot, Neat, Conjured
  <2>2. c.slots = b.slots /\ c.force = b.force /\ c.equipped = b.equipped
    BY <2>1 DEF Bodies
  <2>3. InHand(b)
    BY <1>0, <2>1 DEF InHand
  <2> QED
    BY <1>1, <2>2, <2>3, TidyAlike DEF Tidy
<1>2. CASE ~(~IsEmpty(b, "magic") /\ s # "magic")
  <2> DEFINE used == IF s = Fist \/ IsEmpty(b, s) THEN {} ELSE {s, FindSlotRangedWeapon(b, s)}
             away == [t \in InForce |-> IF t \in {b.equipped, FindSlotRangedWeapon(b, b.equipped)}
                                        THEN <<>> ELSE b.force[t]]
             force == [t \in InForce |-> IF t \in used THEN PutInForce(away[t], b.slots[t].name)
                                         ELSE away[t]]
  <2>1. c = [b EXCEPT !.equipped = IF used = {} THEN Fist ELSE s, !.force = force]
    BY <1>2 DEF SetEquippedSlot, PutAway, Bodies
  <2>2. c.slots = b.slots /\ c.force = force /\ c.equipped = IF used = {} THEN Fist ELSE s
    BY <2>1 DEF Bodies
  <2>3. \A t \in InForce : /\ away[t] \in Seq(Names)
                           /\ \A i \in DOMAIN away[t] : away[t][i] = b.slots[t].name
                           /\ away[t] # <<>> => t = "armour" \/ Kind(b, t) = "bow"
    BY BodyIs DEF NeatOtherwise
  <2>4. \A x \in {b.equipped, s} : /\ FindSlotRangedWeapon(b, x) \in WeaponSlots \union {Fist}
                                   /\ FindSlotRangedWeapon(b, x) # Fist =>
                                        /\ Kind(b, FindSlotRangedWeapon(b, x)) = "bow"
                                        /\ ~IsEmpty(b, FindSlotRangedWeapon(b, x))
    BY <1>0, FindTypedIs DEF FindSlotRangedWeapon
  <2>5. \A t \in InForce : t \in used => ~IsEmpty(b, t) /\ b.slots[t].name \in Names
    <3>1. \A t \in InForce : t \in used => ~IsEmpty(b, t)
      BY <1>0, <2>4
    <3> HIDE DEF used
    <3> QED
      BY <3>1, BodyIs
  <2>6. away["armour"] = b.force["armour"] /\ "armour" \notin used
    <3>1. "armour" \notin {b.equipped, FindSlotRangedWeapon(b, b.equipped)}
      BY <1>0, <2>4 DEF Usable
    <3>2. "armour" # s /\ "armour" # FindSlotRangedWeapon(b, s)
      BY <1>0, <2>4 DEF Usable
    <3> QED
      BY <1>0, <3>1, <3>2
  <2>7. \A t \in used : t = s \/ t = Fist \/ Kind(b, t) = "bow"
    BY <2>4
  <2>8. used # {} => s \in used
    OBVIOUS
  <2>9. used = {} => s = Fist \/ IsEmpty(b, s)
    OBVIOUS
  <2> HIDE DEF c, used, away
  <2>10. \A t \in InForce : t \in used => /\ PutInForce(away[t], b.slots[t].name) # <<>>
                                          /\ \A i \in DOMAIN PutInForce(away[t], b.slots[t].name) :
                                               PutInForce(away[t], b.slots[t].name)[i] = b.slots[t].name
    BY <2>3, <2>5, AddedIs
  <2>11. \A t \in InForce : c.force[t] = IF t \in used THEN PutInForce(away[t], b.slots[t].name) ELSE away[t]
    BY <2>2
  <2> HIDE DEF force
  <2>12. TrueTo(c)
    BY <2>2, <2>3, <2>10, <2>11 DEF TrueTo
  <2>13. Own(c)
    <3> SUFFICES ASSUME NEW t \in InForce, c.force[t] # <<>>
                 PROVE  t \in {"armour", c.equipped} \/ Kind(c, t) = "bow"
      BY DEF Own
    <3>1. Kind(c, t) = Kind(b, t)
      BY <2>2, SameSlots
    <3>2. CASE t \in used
      BY <1>0, <2>2, <2>7, <3>1, <3>2
    <3>3. CASE t \notin used
      BY <2>3, <2>11, <3>1, <3>3
    <3> QED
      BY <3>2, <3>3
  <2>14. Armoured(c)
    BY <1>0, <2>2, <2>6, <2>11, SameSlots DEF Armoured
  <2>15. Conjured(c)
    <3> SUFFICES ASSUME ~IsEmpty(c, "magic") PROVE c.equipped = "magic" /\ c.force["magic"] # <<>>
      BY DEF Conjured
    <3>1. ~IsEmpty(b, "magic") /\ s = "magic"
      BY <1>2, <2>2, SameSlots
    <3>2. used # {}
      BY <2>9, <3>1, SlotFacts DEF Fist
    <3> QED
      BY <1>0, <2>2, <2>8, <2>10, <2>11, <3>1, <3>2
  <2>16. InHand(c)
    <3> SUFFICES ASSUME c.equipped \in WeaponSlots PROVE c.force[c.equipped] # <<>>
      BY DEF InHand
    <3>1. used # {} /\ c.equipped = s /\ s \in used /\ s \in InForce
      BY <1>0, <2>2, <2>8
    <3> QED
      BY <2>10, <2>11, <3>1
  <2> QED
    BY <2>12, <2>13, <2>14, <2>15, <2>16 DEF Tidy, Neat, c
<1> QED
  BY <1>1, <1>2

\* What EquipItem leaves.
LEMMA EquipTidy ==
  ASSUME NEW b \in Bodies, NEW s \in Slots \union {Fist}, Neat(b)
  PROVE  /\ Neat(EquipItem(b, s))
         /\ InHand(b) => Tidy(EquipItem(b, s))
<1>1. CASE EquipItem(b, s) = b
  BY <1>1 DEF Tidy
<1>2. CASE s \in {"armour", "magic"} /\ ~IsEmpty(b, s) /\ EquipItem(b, s) = AddSlotEffects(b, s)
  <2>1. ~IsEmpty(b, "magic") => b.equipped = "magic"
    BY DEF Neat, Conjured
  <2> QED
    BY <1>2, <2>1, AddTidies DEF Neat, Tidy
<1>3. CASE s \in Usable /\ EquipItem(b, s) = SetEquippedSlot(Pressed(b, s), TargetOf(b, s))
  <2> DEFINE p == Pressed(b, s)
             t == TargetOf(b, s)
  <2>1. p \in Bodies /\ p.slots = b.slots /\ p.force = b.force /\ p.equipped = b.equipped
        /\ t \in Usable
    BY <1>3, PressedIs
  <2> HIDE DEF p, t
  <2>2. Neat(p) /\ NeatOtherwise(p) /\ Armoured(p)
    BY <2>1, TidyAlike DEF Neat
  <2>3. Tidy(SetEquippedSlot(p, t))
    BY <2>1, <2>2, SetTidy
  <2> QED
    BY <1>3, <2>3 DEF Tidy, p, t
<1> QED
  BY <1>1, <1>2, <1>3, EquipIs

LEMMA BestTidy ==
  ASSUME NEW b \in Bodies, NEW flags, Tidy(b)
  PROVE  Tidy(EquipBestWeapon(b, flags))
<1>1. Usable \subseteq Slots \union {Fist}
  BY DEF Usable, Slots, InForce
<1>2. CASE EquipBestWeapon(b, flags) = b
  BY <1>2
<1>3. CASE \E s \in Usable : EquipBestWeapon(b, flags) = EquipItem(b, s)
  BY <1>1, <1>3, EquipTidy DEF Tidy
<1> QED
  BY <1>2, <1>3, BestWeaponIs

--------------------------------------------------------------------------
(* No effect lingers: slots are emptied and filled *)

\* The slot is empty, and nothing of it is in force.
Gone(b, s) == RemoveSlotEffects([b EXCEPT !.slots[s] = NoItem], s)

LEMMA GoneIs ==
  ASSUME NEW b \in Bodies, NEW s \in InForce, Tidy(b)
  PROVE  /\ Gone(b, s) \in Bodies /\ Gone(b, s).slots = [b.slots EXCEPT ![s] = NoItem]
         /\ Gone(b, s).force = [b.force EXCEPT ![s] = <<>>] /\ Gone(b, s).equipped = b.equipped
         /\ Neat(Gone(b, s)) /\ NeatOtherwise(Gone(b, s))
         /\ s # b.equipped \/ s \notin WeaponSlots => Tidy(Gone(b, s))
<1> DEFINE g == Gone(b, s)
<1>1. /\ b.slots \in [Slots -> Lots] /\ b.force \in [InForce -> Seq(Names)] /\ s \in Slots
      /\ s # Fist /\ InForce \subseteq Slots
  BY BodyIs, SlotFacts DEF Slots
<1>2. g = [b EXCEPT !.slots = [b.slots EXCEPT ![s] = NoItem],
                    !.force = [b.force EXCEPT ![s] = <<>>]]
  BY <1>1 DEF Gone, RemoveSlotEffects, Bodies
<1>3. /\ [b.slots EXCEPT ![s] = NoItem] \in [Slots -> Lots]
      /\ [b.force EXCEPT ![s] = <<>>] \in [InForce -> Seq(Names)]
  BY <1>1, LotFacts
<1>4. /\ g \in Bodies /\ g.slots = [b.slots EXCEPT ![s] = NoItem]
      /\ g.force = [b.force EXCEPT ![s] = <<>>] /\ g.equipped = b.equipped
  BY <1>2, <1>3 DEF Bodies
<1> HIDE DEF g
<1>5. /\ \A t \in InForce : g.force[t] = IF t = s THEN <<>> ELSE b.force[t]
      /\ \A t \in InForce \ {s} : g.slots[t] = b.slots[t]
      /\ IsEmpty(g, s)
  BY <1>1, <1>4 DEF IsEmpty
<1>6. \A t \in InForce \ {s} : /\ Kind(g, t) = Kind(b, t)
                               /\ IsEmpty(g, t) <=> IsEmpty(b, t)
  BY <1>5 DEF Kind, IsEmpty
<1>7. TrueTo(g)
  BY <1>5 DEF TrueTo, Tidy, Neat
<1>8. Own(g)
  BY <1>4, <1>5, <1>6 DEF Own, Tidy, Neat
<1>9. Armoured(g)
  BY <1>5, <1>6 DEF Armoured, Tidy, Neat, InForce
<1>10. Conjured(g)
  BY <1>4, <1>5, <1>6 DEF Conjured, Tidy, Neat, InForce
<1>11. s # b.equipped \/ s \notin WeaponSlots => InHand(g)
  BY <1>4, <1>5 DEF InHand, Tidy, InForce
<1>12. Neat(g) /\ NeatOtherwise(g)
  BY <1>7, <1>8, <1>9, <1>10, TidyAlike DEF Neat
<1> QED
  BY <1>4, <1>11, <1>12 DEF Tidy, g

LEMMA KillTidy ==
  ASSUME NEW b \in Bodies, NEW s \in Slots, Tidy(b)
  PROVE  KillSlot(b, s) \in Bodies /\ Tidy(KillSlot(b, s))
<1>0. KillSlot(b, s) \in Bodies
  BY KillKeeps DEF Changed
<1>1. CASE s \notin InForce
  <2> DEFINE c == [b EXCEPT !.slots[s] = NoItem]
  <2>1. KillSlot(b, s) = c
    BY <1>1 DEF KillSlot, InForce, IsQuiver, IsWeapon
  <2>2. /\ b.slots \in [Slots -> Lots] /\ c.slots = [b.slots EXCEPT ![s] = NoItem]
        /\ c.force = b.force /\ c.equipped = b.equipped
    BY DEF Bodies
  <2> HIDE DEF c
  <2>3. \A t \in InForce : c.slots[t] = b.slots[t]
    BY <1>1, <2>2 DEF Slots
  <2>4. \A t \in InForce : /\ Kind(c, t) = Kind(b, t)
                           /\ IsEmpty(c, t) <=> IsEmpty(b, t)
    BY <2>3 DEF Kind, IsEmpty
  <2>5. TrueTo(c) /\ Own(c) /\ Armoured(c) /\ Conjured(c) /\ InHand(c)
    BY <2>2, <2>3, <2>4 DEF Tidy, Neat, TrueTo, Own, Armoured, Conjured, InHand, InForce
  <2> QED
    BY <1>0, <2>1, <2>5 DEF Tidy, Neat
<1>2. CASE s \in InForce
  <2> DEFINE g == Gone(b, s)
  <2>1. /\ g \in Bodies /\ g.slots = [b.slots EXCEPT ![s] = NoItem]
        /\ g.force = [b.force EXCEPT ![s] = <<>>] /\ g.equipped = b.equipped
        /\ Neat(g) /\ NeatOtherwise(g)
        /\ s # b.equipped \/ s \notin WeaponSlots => Tidy(g)
    BY <1>2, GoneIs
  <2> HIDE DEF g
  <2>2. CASE IsQuiver(s) /\ b.equipped = s
    <3> DEFINE bow == FindTypedRangedWeapon(g)
               bare == RemoveSlotEffects(g, bow)
               next == FindRangedProjectile(g)
    <3>1. KillSlot(b, s) = IF next # Fist THEN EquipItem(bare, next)
                           ELSE EquipBestWeapon(bare, {"melee"})
      <4>1. KillSlot(b, s) = QuiverEmptied(g)
        BY <1>2, <2>2, SlotFacts DEF KillSlot, g, Gone, IsQuiver, IsWeapon
      <4> QED
        BY <4>1 DEF QuiverEmptied
    <3>2. bow \in WeaponSlots \union {Fist} /\ next \in Slots \union {Fist}
      BY <2>1, FindTypedIs, FindRangedIs DEF Slots, InForce
    <3>3. Tidy(g) /\ b.equipped \notin WeaponSlots
      BY <2>1, <2>2, SlotFacts DEF IsQuiver
    <3>4. bare \in Bodies /\ Tidy(bare)
      <4>1. CASE bow = Fist
        BY <2>1, <3>3, <4>1 DEF RemoveSlotEffects
      <4>2. CASE bow # Fist
        <5>1. bow \in WeaponSlots /\ bow \in InForce /\ bow # "armour" /\ bow # "magic"
          BY <3>2, <4>2, SlotFacts DEF InForce
        <5>2. bare = [g EXCEPT !.force = [g.force EXCEPT ![bow] = <<>>]]
          BY <4>2 DEF RemoveSlotEffects
        <5>3. g.force \in [InForce -> Seq(Names)]
          BY <2>1, BodyIs
        <5> HIDE DEF bow
        <5>4. [g.force EXCEPT ![bow] = <<>>] \in [InForce -> Seq(Names)]
          BY <5>1, <5>3
        <5>5. /\ bare \in Bodies /\ bare.slots = g.slots /\ bare.equipped = g.equipped
              /\ bare.force = [g.force EXCEPT ![bow] = <<>>]
          BY <2>1, <5>2, <5>4 DEF Bodies
        <5> HIDE DEF bare
        <5>6. \A t \in InForce : bare.force[t] = IF t = bow THEN <<>> ELSE g.force[t]
          BY <5>1, <5>3, <5>5
        <5>7. TrueTo(bare) /\ Own(bare)
          BY <3>3, <5>5, <5>6, SameSlots DEF Tidy, Neat, TrueTo, Own
        <5>8. Armoured(bare) /\ Conjured(bare)
          BY <3>3, <5>1, <5>5, <5>6, SameSlots DEF Tidy, Neat, Armoured, Conjured, InForce
        <5>9. InHand(bare)
          BY <2>1, <3>3, <5>5 DEF InHand
        <5> QED
          BY <5>5, <5>7, <5>8, <5>9 DEF Tidy, Neat
      <4> QED
        BY <4>1, <4>2
    <3> HIDE DEF bare, next, bow
    <3>5. Tidy(EquipItem(bare, next)) /\ Tidy(EquipBestWeapon(bare, {"melee"}))
      BY <3>2, <3>4, EquipTidy, BestTidy DEF Tidy
    <3> QED
      BY <1>0, <3>1, <3>5
  <2>3. CASE IsWeapon(s) /\ b.equipped = s
    <3>1. KillSlot(b, s) = SetEquippedSlot(g, Fist)
      BY <1>2, <2>3, SlotFacts DEF KillSlot, g, Gone, IsWeapon, IsQuiver
    <3>2. Tidy(SetEquippedSlot(g, Fist))
      BY <2>1, SetTidy DEF Usable, Neat
    <3> QED
      BY <1>0, <3>1, <3>2
  <2>4. CASE ~((IsQuiver(s) \/ IsWeapon(s)) /\ b.equipped = s)
    <3>1. Tidy(g)
      BY <2>1, <2>4 DEF IsWeapon
    <3> DEFINE best == EquipBestWeapon(g, {"melee", "ranged", "force"})
               taken == BowTaken(g)
    <3>2. KillSlot(b, s) \in {g, best, taken}
      BY <1>2, <2>4 DEF KillSlot, g, Gone
    <3>3. Tidy(best)
      BY <2>1, <3>1, BestTidy
    <3>4. Tidy(taken)
      <4> DEFINE next == IF FindTypedRangedWeapon(g) = Fist THEN Fist ELSE FindRangedProjectile(g)
      <4>1. taken \in {EquipItem(g, next), EquipBestWeapon(g, {"melee"})}
        BY DEF BowTaken
      <4>2. next \in Slots \union {Fist}
        BY <2>1, FindRangedIs DEF Slots, InForce
      <4> HIDE DEF next, taken
      <4> QED
        BY <2>1, <3>1, <4>1, <4>2, EquipTidy, BestTidy DEF Tidy
    <3> HIDE DEF best, taken
    <3> QED
      BY <1>0, <3>1, <3>2, <3>3, <3>4
  <2> QED
    BY <2>2, <2>3, <2>4
<1> QED
  BY <1>1, <1>2

\* The name in the slot is what matters.
LEMMA RenamedTidy ==
  ASSUME NEW b \in Bodies, NEW c \in Bodies, NEW s \in Slots, NEW lot \in Lots, Tidy(b),
         Changed(c, b, s, lot), c.force = b.force, c.equipped = b.equipped,
         lot.name = b.slots[s].name
  PROVE  Tidy(c)
<1>1. b.slots \in [Slots -> Lots] /\ c.slots = [b.slots EXCEPT ![s] = lot] /\ InForce \subseteq Slots
  BY BodyIs DEF Changed
<1>2. \A t \in InForce : c.slots[t].name = b.slots[t].name
  BY <1>1
<1>3. \A t \in InForce : /\ Kind(c, t) = Kind(b, t)
                         /\ IsEmpty(c, t) <=> IsEmpty(b, t)
  <2> TAKE t \in InForce
  <2>1. c.slots[t] \in Lots /\ b.slots[t] \in Lots
    BY <1>1, BodyIs
  <2> QED
    BY <1>2, <2>1, LotFacts DEF Kind, IsEmpty
<1>4. TrueTo(c) /\ Own(c)
  BY <1>2, <1>3 DEF Tidy, Neat, TrueTo, Own
<1>5. Armoured(c) /\ Conjured(c) /\ InHand(c)
  BY <1>3 DEF Tidy, Neat, Armoured, Conjured, InHand, InForce
<1> QED
  BY <1>4, <1>5 DEF Tidy, Neat

LEMMA RemoveTidy ==
  ASSUME NEW b \in Bodies, NEW s \in Slots, NEW n \in 1 .. b.slots[s].n, Tidy(b)
  PROVE  RemoveItem(b, s, n) \in Bodies /\ Tidy(RemoveItem(b, s, n))
<1>1. b.slots[s] \in Lots /\ b.slots[s].n \in Nat
  BY BodyIs, LotFacts
<1>2. CASE n = b.slots[s].n
  BY <1>1, <1>2, KillTidy DEF RemoveItem
<1>3. CASE n # b.slots[s].n
  <2> DEFINE lot == [b.slots[s] EXCEPT !.n = @ - n]
             c == RemoveItem(b, s, n)
  <2>1. lot \in Lots /\ Changed(c, b, s, lot)
    BY <1>3, RemoveItemKeeps
  <2>2. c = [b EXCEPT !.slots[s].n = @ - n]
    BY <1>1, <1>3 DEF RemoveItem
  <2>3. c.force = b.force /\ c.equipped = b.equipped
    BY <2>2 DEF Bodies
  <2>4. lot.name = b.slots[s].name
    BY <1>1 DEF Lots
  <2>5. c \in Bodies
    BY <2>1 DEF Changed
  <2> HIDE DEF lot, c
  <2>6. Tidy(c)
    BY <2>1, <2>3, <2>4, <2>5, RenamedTidy
  <2> QED
    BY <2>5, <2>6 DEF c
<1> QED
  BY <1>2, <1>3

\* What is put into an empty slot is not in force there yet.
LEMMA FilledTidy ==
  ASSUME NEW b \in Bodies, NEW c \in Bodies, NEW s \in Slots \ {"magic"}, NEW lot \in Lots, Tidy(b),
         Changed(c, b, s, lot), c.force = b.force, c.equipped = b.equipped,
         IsEmpty(b, s), lot # NoItem
  PROVE  TrueTo(c) /\ Own(c) /\ Conjured(c) /\ InHand(c) /\ (s # "armour" => Armoured(c))
<1>1. /\ b.slots \in [Slots -> Lots] /\ c.slots = [b.slots EXCEPT ![s] = lot] /\ InForce \subseteq Slots
      /\ b.force \in [InForce -> Seq(Names)] /\ "magic" \in InForce /\ "armour" \in InForce
  BY BodyIs DEF Changed, InForce
<1>2. \A t \in InForce \ {s} : c.slots[t] = b.slots[t]
  BY <1>1
<1>3. \A t \in InForce \ {s} : /\ Kind(c, t) = Kind(b, t)
                               /\ IsEmpty(c, t) <=> IsEmpty(b, t)
  BY <1>2 DEF Kind, IsEmpty
<1>4. ASSUME s \in InForce PROVE b.force[s] = <<>>
  <2>1. b.force[s] \in Seq(Names)
    BY <1>1, <1>4
  <2>2. \A i \in DOMAIN b.force[s] : b.force[s][i] = "none"
    BY <1>4 DEF Tidy, Neat, TrueTo, IsEmpty, NoItem
  <2>3. \A i \in DOMAIN b.force[s] : b.force[s][i] \in Names
    BY <2>1
  <2>4. DOMAIN b.force[s] = {}
    BY <2>2, <2>3, LotFacts
  <2>5. Len(b.force[s]) \in Nat /\ 1 .. Len(b.force[s]) = {}
    BY <2>1, <2>4, LenProperties
  <2>6. Len(b.force[s]) = 0
    BY <2>5
  <2> QED
    BY <2>1, <2>6, EmptySeq
<1>5. TrueTo(c)
  <2> SUFFICES ASSUME NEW t \in InForce, NEW i \in DOMAIN b.force[t]
               PROVE  b.force[t][i] = c.slots[t].name
    BY DEF TrueTo
  <2>1. t # s
    BY <1>4
  <2> QED
    BY <1>2, <2>1 DEF Tidy, Neat, TrueTo
<1>6. Own(c)
  BY <1>3, <1>4 DEF Tidy, Neat, Own
<1>7. Conjured(c)
  BY <1>1, <1>3 DEF Tidy, Neat, Conjured
<1>8. InHand(c) /\ (s # "armour" => Armoured(c))
  BY <1>1, <1>3 DEF Tidy, Neat, InHand, Armoured
<1> QED
  BY <1>5, <1>6, <1>7, <1>8

LEMMA AddSlotTidy ==
  ASSUME NEW b \in Bodies, NEW s \in Slots \ {"magic"}, NEW item \in Parts, item.n > 0, Tidy(b)
  PROVE  AddSlotItem(b, item, s) \in [b : Bodies, left : Parts] /\ Tidy(AddSlotItem(b, item, s).b)
<1> DEFINE put == Filled(b, item, s)
<1>1. AddSlotItem(b, item, s) \in [b : Bodies, left : Parts]
  BY AddSlotItemIs
<1>2. PICK lot \in Lots :
        /\ Changed(put.b, b, s, lot)
        /\ put.b.force = b.force /\ put.b.equipped = b.equipped
        /\ \/ lot = b.slots[s] /\ put.left = item
           \/ /\ IsEmpty(b, s) /\ lot = item /\ put.left.n = 0
           \/ /\ ~IsEmpty(b, s) /\ lot.name = item.name /\ b.slots[s].name = item.name
              /\ put.left # item
  <2>1. \E lot \in Lots :
             /\ Changed(put.b, b, s, lot)
             /\ put.b.force = b.force /\ put.b.equipped = b.equipped /\ put.b.quick = b.quick
             /\ \A x \in Names : Share(lot, x) + Share(put.left, x)
                                   = Share(b.slots[s], x) + Share(item, x)
             /\ \/ lot = b.slots[s] /\ put.left = item
                \/ /\ IsEmpty(b, s) /\ lot = item /\ put.left.n = 0 /\ ~WhyCantEquip(b, s)
                \/ /\ ~IsEmpty(b, s) /\ lot.name = item.name /\ b.slots[s].name = item.name
                   /\ put.left # item /\ Stackable(item)
    BY FilledIs
  <2> HIDE DEF put
  <2> QED
    BY <2>1
<1>3. put.b \in Bodies
  BY <1>2 DEF Changed
<1>4. put = [b |-> put.b, left |-> put.left]
  BY DEF Filled, Merged
<1>5. AddSlotItem(b, item, s) \in {put, [b |-> EquipItem(put.b, s), left |-> put.left]}
      /\ (put.left # item => AddSlotItem(b, item, s) = [b |-> EquipItem(put.b, s), left |-> put.left])
  BY <1>4 DEF AddSlotItem
<1>6. put.left = item => lot = b.slots[s]
  BY <1>2
<1> HIDE DEF put
<1> DEFINE r == AddSlotItem(b, item, s)
<1>7. r.b \in {put.b, EquipItem(put.b, s)} /\ (put.left # item => r.b = EquipItem(put.b, s))
  <2>1. [b |-> EquipItem(put.b, s), left |-> put.left].b = EquipItem(put.b, s)
    OBVIOUS
  <2> QED
    BY <1>5, <2>1
<1> HIDE DEF r
<1>8. item \in Lots /\ item # NoItem /\ item.n # 0
  BY LotFacts
<1>9. CASE put.left = item
  <2>1. Tidy(put.b)
    BY <1>2, <1>3, <1>6, <1>9, RenamedTidy
  <2>2. Tidy(EquipItem(put.b, s))
    BY <1>3, <2>1, EquipTidy DEF Tidy
  <2> QED
    BY <1>1, <1>7, <2>1, <2>2 DEF r
<1>10. CASE put.left # item
  <2>1. r.b = EquipItem(put.b, s)
    BY <1>7, <1>10
  <2>2. CASE lot.name = b.slots[s].name
    <3>1. Tidy(put.b)
      BY <1>2, <1>3, <2>2, RenamedTidy
    <3> QED
      BY <1>1, <1>3, <2>1, <3>1, EquipTidy DEF Tidy, r
  <2>3. CASE IsEmpty(b, s) /\ lot = item
    <3>1. /\ TrueTo(put.b) /\ Own(put.b) /\ Conjured(put.b) /\ InHand(put.b)
          /\ s # "armour" => Armoured(put.b)
      BY <1>2, <1>3, <1>8, <2>3, FilledTidy
    <3>2. CASE s # "armour"
      <4>1. Neat(put.b)
        BY <3>1, <3>2 DEF Neat
      <4> QED
        BY <1>1, <1>3, <2>1, <3>1, <4>1, EquipTidy DEF r
    <3>3. CASE s = "armour"
      <4>1. put.b.slots[s] = item
        BY <1>2, <2>3, BodyIs DEF Changed
      <4>2. ~IsEmpty(put.b, "armour")
        BY <1>8, <3>3, <4>1 DEF IsEmpty
      <4>3. EquipItem(put.b, s) = AddSlotEffects(put.b, "armour")
        <5>1. "armour" \notin PackSlots /\ "armour" # Fist
          BY SlotFacts DEF Fist
        <5> QED
          BY <3>3, <4>2, <5>1 DEF EquipItem
      <4>4. Tidy(AddSlotEffects(put.b, "armour"))
        <5>1. ~IsEmpty(put.b, "magic") => put.b.equipped = "magic"
          BY <3>1 DEF Conjured
        <5> QED
          BY <1>3, <3>1, <4>2, <5>1, AddTidies DEF Tidy, Neat
      <4> QED
        BY <1>1, <2>1, <4>3, <4>4 DEF r
    <3> QED
      BY <3>2, <3>3
  <2> QED
    BY <1>2, <1>10, <2>2, <2>3
<1> QED
  BY <1>9, <1>10

LEMMA AddToSlotsTidy ==
  ASSUME NEW b \in Bodies, NEW item \in Parts, Tidy(b),
         NEW seq, Len(seq) \in Nat, \A n \in 1..Len(seq) : seq[n] \in Slots \ {"magic"}
  PROVE  /\ AddToSlots(b, item, seq) \in [b : Bodies, left : Parts]
         /\ Tidy(AddToSlots(b, item, seq).b)
<1> DEFINE X == {r \in [b : Bodies, left : Parts] : Tidy(r.b)}
<1>1. [b |-> b, left |-> item] \in X
  OBVIOUS
<1>2. ASSUME NEW r \in X, NEW n \in 1..Len(seq), r.left.n # 0, Fits(r.left, seq[n])
      PROVE  AddSlotItem(r.b, r.left, seq[n]) \in X
  <2>1. r.b \in Bodies /\ r.left \in Parts /\ Tidy(r.b)
    OBVIOUS
  <2>2. r.left.n > 0
    BY <1>2, <2>1, LotFacts DEF Parts
  <2> QED
    BY <2>1, <2>2, AddSlotTidy
<1> HIDE DEF X
<1>3. \A r \in X : \A n \in 1..Len(seq) :
        r.left.n # 0 /\ Fits(r.left, seq[n]) => AddSlotItem(r.b, r.left, seq[n]) \in X
  BY <1>2
<1>4. AddToSlots(b, item, seq) \in X
  BY <1>1, <1>3, AddToSlotsIn
<1> QED
  BY <1>4 DEF X

LEMMA PackTidy ==
  ASSUME NEW b \in Bodies, NEW item \in Parts, Tidy(b)
  PROVE  AddToPack(b, item) \in [b : Bodies, left : Parts] /\ Tidy(AddToPack(b, item).b)
<1>1. Len(Packs) \in Nat /\ DOMAIN Packs = 1..Len(Packs)
  BY OrderIs
<1>2. \A n \in 1..Len(Packs) : Packs[n] \in Slots \ {"magic"}
  BY <1>1, SlotFacts DEF PackSlots, Slots
<1> QED
  BY <1>1, <1>2, AddToSlotsTidy DEF AddToPack

LEMMA WornTidy ==
  ASSUME NEW b \in Bodies, NEW item \in Parts, Tidy(b)
  PROVE  AddToWorn(b, item) \in [b : Bodies, left : Parts] /\ Tidy(AddToWorn(b, item).b)
<1> DEFINE S == Slots \ {"magic"}
           seq == <<"armour">> \o Quivers \o Weapons
<1>1. Quivers \in Seq(S) /\ Weapons \in Seq(S) /\ <<"armour">> \in Seq(S)
  <2>1. QuiverSlots \subseteq S /\ WeaponSlots \subseteq S /\ "armour" \in S
    BY SlotFacts DEF Slots, InForce
  <2>2. Quivers \in Seq(QuiverSlots) /\ Weapons \in Seq(WeaponSlots)
    BY SlotsAssumption
  <2> HIDE DEF S
  <2> QED
    BY <2>1, <2>2
<1> HIDE DEF S
<1>2. seq \in Seq(S)
  BY <1>1
<1> HIDE DEF seq
<1>3. Len(seq) \in Nat /\ \A n \in 1..Len(seq) : seq[n] \in S
  BY <1>2
<1> QED
  BY <1>3, AddToSlotsTidy DEF AddToWorn, S, seq

--------------------------------------------------------------------------
(* No effect lingers: every call *)

LEMMA ReinitTidy ==
  ASSUME NEW b \in Bodies, Tidy(b)
  PROVE  Tidy(Reinit(b))
BY ReinitKeeps, TidyAlike DEF Same

LEMMA WornIs ==
  ASSUME ItemsInv
  PROVE  worn \in Bodies /\ hand \in Lots /\ (hand # NoItem => hand \in Parts /\ hand.n > 0)
BY LotFacts DEF ItemsInv, Proper

LEMMA DragItemTidy ==
  ASSUME ItemsInv, Tidy(worn), DragItem
  PROVE  Tidy(worn')
<1>1. PICK s \in Slots : \E n \in 1 .. worn.slots[s].n : worn' = Reinit(RemoveItem(worn, s, n))
  BY DEF DragItem
<1> QED
  BY <1>1, WornIs, RemoveTidy, ReinitTidy

LEMMA DropDraggedTidy ==
  ASSUME ItemsInv, Tidy(worn), DropDraggedItem
  PROVE  Tidy(worn')
<1>1. PICK s \in Slots \ {"magic"} :
        \/ worn' = Reinit(AddSlotItem(worn, hand, s).b)
        \/ worn' = Reinit(AddSlotItem(KillSlot(worn, s), hand, s).b)
  BY DEF DropDraggedItem
<1>2. worn \in Bodies /\ hand \in Parts /\ hand.n > 0
  BY WornIs DEF DropDraggedItem
<1>3. KillSlot(worn, s) \in Bodies /\ Tidy(KillSlot(worn, s))
  BY <1>2, KillTidy
<1>4. \A b \in {worn, KillSlot(worn, s)} :
        AddSlotItem(b, hand, s) \in [b : Bodies, left : Parts] /\ Tidy(AddSlotItem(b, hand, s).b)
  BY <1>2, <1>3, AddSlotTidy
<1> QED
  BY <1>1, <1>4, ReinitTidy

LEMMA PaperdollTidy ==
  ASSUME ItemsInv, Tidy(worn), DropOnPaperdoll
  PROVE  Tidy(worn')
<1>1. PICK r \in {AddToPack(worn, hand), AddToWorn(worn, hand)} : worn' = Reinit(r.b)
  BY DEF DropOnPaperdoll
<1>2. worn \in Bodies /\ hand \in Parts
  BY WornIs DEF DropOnPaperdoll
<1>3. r \in [b : Bodies, left : Parts] /\ Tidy(r.b)
  BY <1>1, <1>2, PackTidy, WornTidy
<1> QED
  BY <1>1, <1>3, ReinitTidy

LEMMA SelectTidy ==
  ASSUME ItemsInv, Tidy(worn), SelectWeapon
  PROVE  Tidy(worn')
<1>1. PICK s \in {worn.quick[w] : w \in WeaponSlots} \union {Fist} : worn' = SetEquippedSlot(worn, s)
  BY DEF SelectWeapon
<1>2. worn \in Bodies
  BY WornIs
<1>3. s \in Usable
  BY <1>2, BodyIs DEF Usable
<1>4. NeatOtherwise(worn) /\ Armoured(worn) /\ Neat(worn)
  BY TidyAlike DEF Tidy, Neat
<1> QED
  BY <1>1, <1>2, <1>3, <1>4, SetTidy

LEMMA ShootTidy ==
  ASSUME ItemsInv, Tidy(worn), Shoot
  PROVE  Tidy(worn')
<1> DEFINE b == RemoveItem(worn, worn.equipped, 1)
<1>1. worn' \in {b, EquipBestWeapon(b, {"ranged"})}
  BY DEF Shoot
<1>2. worn.equipped \in Slots /\ worn.slots[worn.equipped] # NoItem
  BY DEF Shoot, Has, IsEmpty, IsQuiver, Slots, InForce
<1>3. 1 \in 1 .. worn.slots[worn.equipped].n
  <2>1. worn.slots[worn.equipped] \in Lots
    BY <1>2, WornIs, BodyIs
  <2> QED
    BY <1>2, <2>1, LotFacts
<1>4. b \in Bodies /\ Tidy(b)
  BY <1>2, <1>3, WornIs, RemoveTidy
<1> HIDE DEF b
<1> QED
  BY <1>1, <1>4, BestTidy

LEMMA BreakTidy ==
  ASSUME ItemsInv, Tidy(worn), BreakWeapon
  PROVE  Tidy(worn')
<1>1. worn' = EquipBestWeapon(KillSlot(worn, worn.equipped), {"melee"})
  BY DEF BreakWeapon
<1>2. worn.equipped \in Slots
  BY DEF BreakWeapon, IsWeapon, Slots, InForce
<1> QED
  BY <1>1, <1>2, WornIs, KillTidy, BestTidy

LEMMA ConjureTidy ==
  ASSUME ItemsInv, Tidy(worn), Conjure
  PROVE  Tidy(worn')
<1>1. PICK y \in Names :
        worn' = SetEquippedSlot([worn EXCEPT !.slots["magic"] = [name |-> y, n |-> 1]], "magic")
  BY DEF Conjure
<1> DEFINE lot == [name |-> y, n |-> 1]
           b == [worn EXCEPT !.slots = [worn.slots EXCEPT !["magic"] = lot]]
<1>2. /\ worn \in Bodies /\ worn.slots \in [Slots -> Lots] /\ "magic" \in InForce
      /\ worn.force \in [InForce -> Seq(Names)] /\ InForce \subseteq Slots /\ InPlace(worn.slots)
      /\ "armour" \in InForce \ {"magic"}
  BY BodyIs DEF ItemsInv, Proper, InForce
<1>3. lot \in Lots
  BY LotFacts DEF Lots
<1>4. worn' = SetEquippedSlot(b, "magic")
  BY <1>1
<1> HIDE DEF lot
<1>5. /\ b \in Bodies /\ b.slots = [worn.slots EXCEPT !["magic"] = lot]
      /\ b.force = worn.force /\ b.equipped = worn.equipped
  BY <1>2, <1>3 DEF Bodies
<1> HIDE DEF b
<1>6. \A t \in InForce \ {"magic"} : /\ b.slots[t] = worn.slots[t]
                                     /\ Kind(b, t) = Kind(worn, t)
                                     /\ IsEmpty(b, t) <=> IsEmpty(worn, t)
  BY <1>2, <1>5 DEF Kind, IsEmpty
<1>7. worn.equipped # "magic" => worn.force["magic"] = <<>>
  <2>1. Kind(worn, "magic") # "bow"
    BY <1>2, KindFacts DEF InPlace, Kind, NoItem
  <2> QED
    BY <1>2, <2>1 DEF Tidy, Neat, Own
<1>8. NeatOtherwise(b)
  <2> SUFFICES ASSUME NEW t \in InForce \ {worn.equipped}
               PROVE  /\ \A i \in DOMAIN worn.force[t] : worn.force[t][i] = b.slots[t].name
                      /\ worn.force[t] # <<>> => t = "armour" \/ Kind(b, t) = "bow"
    BY <1>5 DEF NeatOtherwise
  <2>1. CASE t = "magic"
    BY <1>7, <2>1
  <2>2. CASE t # "magic"
    BY <1>6, <2>2 DEF Tidy, Neat, TrueTo, Own
  <2> QED
    BY <2>1, <2>2
<1>9. Armoured(b)
  BY <1>2, <1>5, <1>6 DEF Tidy, Neat, Armoured
<1> QED
  BY <1>4, <1>5, <1>8, <1>9, SetTidy

LEMMA VanishTidy ==
  ASSUME ItemsInv, Tidy(worn), Vanish
  PROVE  Tidy(worn')
<1>1. worn' \in {KillSlot(worn, "magic"), Reinit(KillSlot(worn, "magic"))}
  BY DEF Vanish
<1>2. "magic" \in Slots
  BY DEF Slots, InForce
<1> QED
  BY <1>1, <1>2, WornIs, KillTidy, ReinitTidy

LEMMA DestroyTidy ==
  ASSUME ItemsInv, Tidy(worn), DestroyItem
  PROVE  Tidy(worn')
<1>1. PICK s \in Slots \ {"magic"} :
        /\ Has(s)
        /\ worn' \in {RemoveItem(worn, s, 1), Reinit(RemoveItem(worn, s, 1))}
  BY DEF DestroyItem
<1>2. 1 \in 1 .. worn.slots[s].n
  <2>1. worn.slots[s] \in Lots /\ worn.slots[s] # NoItem
    BY <1>1, WornIs, BodyIs DEF Has, IsEmpty
  <2> QED
    BY <2>1, LotFacts
<1> QED
  BY <1>1, <1>2, WornIs, RemoveTidy, ReinitTidy

LEMMA UnequipTidy ==
  ASSUME ItemsInv, Tidy(worn), UnequipByScript
  PROVE  Tidy(worn')
<1>1. PICK y \in Names :
        /\ FindItem(y) # Fist
        /\ worn' = Reinit(AddToPack(KillSlot(worn, FindItem(y)), worn.slots[FindItem(y)]).b)
  BY DEF UnequipByScript
<1>2. FindItem(y) \in Slots /\ Has(FindItem(y))
  BY <1>1, WornIs, FindItemIs
<1>3. worn.slots[FindItem(y)] \in Parts
  BY <1>2, WornIs, BodyIs, LotFacts DEF Has, IsEmpty
<1> QED
  BY <1>1, <1>2, <1>3, WornIs, KillTidy, PackTidy, ReinitTidy

LEMMA XEquipTidy ==
  ASSUME ItemsInv, Tidy(worn), XEquipItem
  PROVE  Tidy(worn')
<1>1. PICK s \in {FindItem(x) : x \in Names} \ {Fist},
           s2 \in WeaponSlots \union {"armour"} :
        \E one \in {KillSlot(worn, s)} : \E bare \in {KillSlot(one, s2)} :
        \E set \in {AddSlotItem(bare, worn.slots[s], s2).b} :
        \E back \in {IF Has(s2) THEN AddSlotItem(set, worn.slots[s2], s).b ELSE set} :
        \E b \in {EquipItem(back, s2)} :
          worn' = Reinit(b)
  BY DEF XEquipItem
<1>2. /\ worn \in Bodies /\ worn.slots \in [Slots -> Lots]
      /\ s \in Slots \ {"magic"} /\ Has(s) /\ s2 \in Slots \ {"magic"}
  <2>1. worn \in Bodies /\ worn.slots \in [Slots -> Lots]
    BY WornIs, BodyIs
  <2>2. PICK x \in Names : s = FindItem(x) /\ FindItem(x) # Fist
    OBVIOUS
  <2>3. s \in Slots \ {"magic"} /\ Has(s)
    BY <2>1, <2>2, FindItemIs
  <2>4. s2 \in Slots \ {"magic"}
    BY SlotFacts DEF Slots, InForce
  <2> QED
    BY <2>1, <2>3, <2>4
<1>3. \A t \in Slots : Has(t) => worn.slots[t] \in Parts /\ worn.slots[t].n > 0
  BY <1>2, LotFacts DEF Has, IsEmpty
<1> DEFINE one == KillSlot(worn, s)
           bare == KillSlot(one, s2)
           set == AddSlotItem(bare, worn.slots[s], s2).b
           back == IF Has(s2) THEN AddSlotItem(set, worn.slots[s2], s).b ELSE set
<1>4. worn' = Reinit(EquipItem(back, s2))
  BY <1>1
<1>5. one \in Bodies /\ Tidy(one)
  BY <1>2, KillTidy
<1> HIDE DEF one
<1>6. bare \in Bodies /\ Tidy(bare)
  BY <1>2, <1>5, KillTidy
<1> HIDE DEF bare
<1>7. set \in Bodies /\ Tidy(set)
  <2>1. AddSlotItem(bare, worn.slots[s], s2) \in [b : Bodies, left : Parts] /\ Tidy(set)
    BY <1>2, <1>3, <1>6, AddSlotTidy
  <2> QED
    BY <2>1
<1> HIDE DEF set
<1>8. back \in Bodies /\ Tidy(back)
  <2>1. Has(s2) => /\ AddSlotItem(set, worn.slots[s2], s) \in [b : Bodies, left : Parts]
                   /\ Tidy(AddSlotItem(set, worn.slots[s2], s).b)
    BY <1>2, <1>3, <1>7, AddSlotTidy
  <2> QED
    BY <1>7, <2>1
<1> HIDE DEF back
<1>9. EquipItem(back, s2) \in Bodies /\ Tidy(EquipItem(back, s2))
  BY <1>2, <1>8, EquipKeeps, EquipTidy DEF Same, Tidy
<1> QED
  BY <1>4, <1>9, ReinitTidy

LEMMA RemoveCurseTidy ==
  ASSUME ItemsInv, Tidy(worn), RemoveCurse
  PROVE  Tidy(worn')
<1> DEFINE Y == {r \in Freeing(worn, pile) : Tidy(r.b)}
<1>1. worn \in Bodies /\ pile \in [Names -> Nat] /\ InPlace(worn.slots)
  BY DEF ItemsInv, Proper
<1>2. [b |-> worn, pile |-> pile] \in Y
  BY <1>1 DEF Freeing
<1>3. ASSUME NEW r \in Y, NEW s \in Slots \ {"magic"} PROVE Freed(r, s) \subseteq Y
  <2>1. Freed(r, s) \subseteq Freeing(worn, pile)
    BY <1>1, FreedKeeps
  <2>2. r.b \in Bodies /\ Tidy(r.b)
    BY DEF Freeing
  <2>3. ASSUME NEW q \in Freed(r, s) PROVE Tidy(q.b)
    <3>1. CASE s \notin InForce \/ ~IsCursed(r.b, s)
      BY <2>2, <2>3, <3>1 DEF Freed
    <3>2. CASE s \in InForce /\ IsCursed(r.b, s)
      <4> DEFINE packed == AddToPack(KillSlot(r.b, s), r.b.slots[s])
      <4>1. q.b = packed.b
        BY <2>3, <3>2 DEF Freed
      <4>2. r.b.slots[s] \in Parts
        <5>1. ~IsEmpty(r.b, s) /\ r.b.slots[s] \in Lots
          BY <2>2, <3>2, BodyIs, ItemsAssumption DEF IsCursed, CursedItems, IsEmpty, NoItem
        <5> QED
          BY <5>1, LotFacts DEF IsEmpty
      <4>3. Tidy(packed.b)
        BY <2>2, <4>2, KillTidy, PackTidy
      <4> QED
        BY <4>1, <4>3
    <3> QED
      BY <3>1, <3>2
  <2> QED
    BY <2>1, <2>3
<1>4. \A r \in Y : Tidy(r.b)
  OBVIOUS
<1>5. \A r \in Y : \A s \in Slots \ {"magic"} : Freed(r, s) \subseteq Y
  BY <1>3
<1> HIDE DEF Y
<1>6. \E r \in Y : worn' = r.b /\ pile' = r.pile
  BY <1>2, <1>5, RemoveCurseIn
<1> QED
  BY <1>4, <1>6

LEMMA ReloadTidy ==
  ASSUME ItemsInv, Tidy(worn), Reload
  PROVE  Tidy(worn')
<1> DEFINE bare == [worn EXCEPT !.force = [s \in InForce |-> <<>>]]
           armed == AddSlotEffects(bare, "armour")
           dressed == EquipItem(armed, "magic")
           wields == EquipItem(dressed, dressed.equipped)
           chosen == IF IsWeapon(wields.equipped) THEN wields.quick[wields.equipped]
                     ELSE IF \E w \in WeaponSlots : wields.quick[w] = wields.equipped
                          THEN wields.equipped ELSE Fist
<1>1. worn' = SetEquippedSlot(wields, chosen)
  BY DEF Reload
<1>2. /\ worn \in Bodies /\ "armour" \in InForce /\ "magic" \in InForce /\ Fist \notin Slots
      /\ "magic" \notin PackSlots /\ "magic" # Fist /\ "armour" # Fist /\ "magic" # "armour"
  BY WornIs, SlotFacts DEF InForce, Fist
<1>3. /\ bare \in Bodies /\ bare.slots = worn.slots /\ bare.equipped = worn.equipped
      /\ bare.force = [s \in InForce |-> <<>>]
  <2>1. [s \in InForce |-> <<>>] \in [InForce -> Seq(Names)]
    OBVIOUS
  <2> QED
    BY <1>2, <2>1 DEF Bodies
<1> HIDE DEF bare
<1>4. TrueTo(bare) /\ Own(bare) /\ (~IsEmpty(bare, "magic") => bare.equipped = "magic")
  <2>1. ~IsEmpty(worn, "magic") => worn.equipped = "magic"
    BY DEF Tidy, Neat, Conjured
  <2>2. TrueTo(bare) /\ Own(bare)
    BY <1>3 DEF TrueTo, Own
  <2> QED
    BY <1>3, <2>1, <2>2, SameSlots
<1>5. /\ armed \in Bodies /\ armed.slots = bare.slots /\ armed.equipped = bare.equipped
      /\ TrueTo(armed) /\ Own(armed) /\ Armoured(armed)
  <2>1. CASE IsEmpty(bare, "armour")
    BY <1>2, <1>3, <1>4, <2>1 DEF AddSlotEffects, Armoured
  <2>2. CASE ~IsEmpty(bare, "armour")
    BY <1>2, <1>3, <1>4, <2>2, AddTidies, AddKeeps DEF Same
  <2> QED
    BY <2>1, <2>2
<1> HIDE DEF armed
<1>6. dressed \in Bodies /\ dressed.slots = armed.slots /\ Neat(dressed)
  <2>1. CASE IsEmpty(armed, "magic")
    <3>1. dressed = armed
      BY <1>2, <2>1 DEF EquipItem
    <3> QED
      BY <1>5, <2>1, <3>1 DEF Neat, Conjured
  <2>2. CASE ~IsEmpty(armed, "magic")
    <3>1. dressed = AddSlotEffects(armed, "magic")
      BY <1>2, <2>2 DEF EquipItem
    <3>2. armed.equipped = "magic"
      BY <1>4, <1>5, <2>2, SameSlots
    <3>3. dressed.slots = armed.slots /\ Neat(dressed)
      BY <1>5, <2>2, <3>1, <3>2, AddTidies DEF Neat
    <3> QED
      BY <1>2, <1>5, <3>1, <3>3, AddKeeps DEF Same
  <2> QED
    BY <2>1, <2>2
<1> HIDE DEF dressed
<1>7. dressed.equipped \in Slots \union {Fist}
  BY <1>6, BodyIs DEF Usable, Slots, InForce
<1>8. wields \in Bodies /\ Neat(wields)
  BY <1>6, <1>7, EquipKeeps, EquipTidy DEF Same
<1> HIDE DEF wields
<1>9. chosen \in Usable
  BY <1>8, BodyIs DEF Usable, IsWeapon
<1> HIDE DEF chosen
<1>10. NeatOtherwise(wields) /\ Armoured(wields)
  BY <1>8, TidyAlike DEF Neat
<1> QED
  BY <1>1, <1>8, <1>9, <1>10, SetTidy

LEMMA InitTidy ==
  ASSUME InvInit
  PROVE  Tidy(worn)
<1>1. worn = [slots |-> [s \in Slots |-> NoItem], force |-> [s \in InForce |-> <<>>],
              equipped |-> Fist, quick |-> [w \in WeaponSlots |-> w]]
  BY DEF InvInit
<1>2. /\ worn.slots = [s \in Slots |-> NoItem] /\ worn.force = [s \in InForce |-> <<>>]
      /\ worn.equipped = Fist
  BY <1>1
<1>3. IsEmpty(worn, "armour") /\ IsEmpty(worn, "magic")
  BY <1>2 DEF IsEmpty, Slots, InForce
<1> QED
  BY <1>2, <1>3, SlotFacts DEF Tidy, Neat, TrueTo, Own, Armoured, Conjured, InHand

\* Whatever is dragged, exchanged, merged, shot, broken, conjured, freed of a
\* curse or loaded, and whatever the items are, several bows and cursed ones
\* included: no effect outlives what it comes from, and nothing worn or in hand
\* is without its effects (Inventory::AddSlotEffects, RemoveSlotEffects).
THEOREM NothingEverLingers == InvSpec => []NothingLingers
<1>1. InvInit => Tidy(worn)
  BY InitTidy
<1>2. ItemsInv /\ Tidy(worn) /\ [InvNext]_invVars => Tidy(worn)'
  <2> SUFFICES ASSUME ItemsInv, Tidy(worn), [InvNext]_invVars PROVE Tidy(worn')
    BY DEF Tidy, Neat, TrueTo, Own, Armoured, Conjured, InHand, IsEmpty, Kind
  <2>1. CASE DragItem \/ DropDraggedItem \/ DropOnPaperdoll
    BY <2>1, DragItemTidy, DropDraggedTidy, PaperdollTidy
  <2>2. CASE UNCHANGED worn
    BY <2>2
  <2>3. CASE PickUp \/ DropOnGround \/ UNCHANGED invVars
    BY <2>2, <2>3 DEF PickUp, DropOnGround, invVars
  <2>4. CASE SelectWeapon \/ EquipBest \/ Shoot \/ BreakWeapon \/ Conjure \/ Vanish
    BY <2>4, SelectTidy, WornIs, BestTidy, ShootTidy, BreakTidy, ConjureTidy, VanishTidy
       DEF EquipBest
  <2>5. CASE DestroyItem \/ UnequipByScript \/ XEquipItem \/ RemoveCurse \/ Reload
    BY <2>5, DestroyTidy, UnequipTidy, XEquipTidy, RemoveCurseTidy, ReloadTidy
  <2> QED
    BY <2>1, <2>3, <2>4, <2>5 DEF InvNext
<1>3. ItemsInv /\ Tidy(worn) => NothingLingers
  <2> SUFFICES ASSUME Tidy(worn), NEW s \in InForce
               PROVE  /\ \A i \in DOMAIN worn.force[s] : worn.force[s][i] = worn.slots[s].name
                      /\ worn.force[s] # <<>> => s \in {"armour", worn.equipped} \/ Kind(worn, s) = "bow"
                      /\ Has(s) /\ (s \in {"armour", "magic"} \/ (IsWeapon(s) /\ s = worn.equipped))
                           => worn.force[s] # <<>>
    BY DEF NothingLingers
  <2> QED
    BY DEF Tidy, Neat, TrueTo, Own, Armoured, Conjured, InHand, Has, IsWeapon
<1> QED
  BY <1>1, <1>2, <1>3, ItemsInvHolds, PTL DEF InvSpec
=============================================================================
