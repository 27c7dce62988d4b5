-------------------------- MODULE SaveGamesProofs --------------------------
(***************************************************************************)
(* Proofs about SafeSpec, for any areas, names and numbers of slots: the  *)
(* areas that are retained can be extracted and are nowhere else, and      *)
(* saving and loading keep the promise of WorldSaves.                      *)
(***************************************************************************)
EXTENDS SaveGames, FiniteSetTheorems, TLAPS

--------------------------------------------------------------------------
(* The inductive invariant *)

\* What of a save is written at a step of CreateSaveGame.
WrittenAt ==
  [p \in {"worldmap", "compress", "game", "preview"} |->
     CASE p = "worldmap" -> {}
       [] p = "compress" -> {"wmp"}
       [] p = "game"     -> {"wmp", "sav"}
       [] p = "preview"  -> {"wmp", "sav", "gam"}]

\* What is listed is complete.
DiskInv == \A s \in Slots : Listable(disk[s]) => disk[s].files = Files

\* The window shows what is whole, but for what has been deleted in it.
WindowInv ==
  window =>
    /\ phase \in {"menu", "play"}
    /\ \A s \in listed : disk[s].there => Listable(disk[s])

\* How far CreateSaveGame has come.
SaveInv ==
  /\ phase \in {"menu", "play"} => save = NoSave
  /\ phase = "delete" => save.old \in Slots
  /\ phase \in DOMAIN WrittenAt =>
       disk[save.target].there /\ disk[save.target].files = WrittenAt[phase]

\* The save that is running is whole, and saving leaves it alone unless it is
\* the one that is replaced.
Rewriting == save.override /\ phase \in {"path", "worldmap", "compress", "game", "preview"}

RunInv ==
  /\ save.override => running # None
  /\ running # None =>
       /\ phase # "menu" /\ running \in listed
       /\ ~Rewriting => Listable(disk[running])
       /\ save.override => save.target = running
       /\ save.override /\ phase = "delete" => save.old = running
       /\ ~save.override => save.target # running /\ save.old # running

\* From the dump to the new file the blob has what is retained, and nothing else.
Dumping == save.override /\ phase \in {"delete", "path", "worldmap", "compress"}

BlobInv ==
  /\ ~Dumping => newLocated = Nowhere
  /\ Dumping =>
       /\ \A a \in Areas : newLocated[a] # 0 <=> located[a] # 0
       /\ \A a \in Retained :
            newLocated[a] \in DOMAIN blob /\ blob[newLocated[a]].area = a
       /\ \A i \in DOMAIN blob :
            blob[i].area \in Retained /\ newLocated[blob[i].area] = i
  /\ save.override /\ phase = "delete" =>
       \A a \in Retained : blob[newLocated[a]].version = Extracted(a)

\* An area is in one place, and what is retained leads there.
PlaceInv ==
  /\ running = None => Retained = {}
  /\ phase = "menu" => running = None
  /\ \A a \in Retained : cached[a] = Nothing /\ loaded[a] = Nothing
  /\ ~Moving => \A a \in Retained :
       located[a] \in DOMAIN disk[running].sav
         /\ disk[running].sav[located[a]].area = a

\* What is being written is the world.
CopyInv ==
  /\ phase = "compress" => \A a \in InMemory : cached[a] = loaded[a]
  /\ phase \in {"game", "preview"} => Unpacked(disk[save.target].sav) = World

IInv ==
  /\ SavesTypeOK /\ DiskInv /\ WindowInv /\ SaveInv /\ RunInv
  /\ BlobInv /\ PlaceInv /\ SavedOnce /\ CopyInv

--------------------------------------------------------------------------
(* Numbers, and the first entry of an area *)

\* Induction over the natural numbers, for a set: were some k missing from T,
\* n + 1 would put the members of T up to k, one to one, in fewer places.
LEMMA SetInduction ==
  ASSUME NEW T \in SUBSET Nat, 0 \in T, \A n \in T : n + 1 \in T
  PROVE  T = Nat
<1> SUFFICES ASSUME NEW k \in Nat, k \notin T PROVE FALSE
  OBVIOUS
<1> DEFINE S == T \cap 0..k
           f == [n \in S |-> n + 1]
<1>1. 0 \in S /\ \A n \in S : n + 1 \in S \ {0}
  OBVIOUS
<1>2. IsFiniteSet(0..k)
  BY FS_Interval
<1>3. /\ IsFiniteSet(S) /\ IsFiniteSet(S \ {0})
      /\ Cardinality(S \ {0}) = Cardinality(S) - 1
  <2>1. S \in SUBSET 0..k
    OBVIOUS
  <2> HIDE DEF S
  <2>2. IsFiniteSet(S)
    BY <1>2, <2>1, FS_Subset
  <2> QED
    BY <1>1, <2>2, FS_RemoveElement
<1>4. Cardinality(S \ {0}) < Cardinality(S)
  BY <1>3, FS_CardinalityType
<1>5. f \in [S -> S \ {0}]
  BY <1>1
<1>6. PICK m \in S, n \in S : m # n /\ f[m] = f[n]
  <2> HIDE DEF S, f
  <2> QED
    BY <1>3, <1>4, <1>5, FS_PigeonHole
<1> QED
  BY <1>6

\* A set of natural numbers that is not empty has a least one.
LEMMA LeastMember ==
  ASSUME NEW T \in SUBSET Nat, T # {}
  PROVE  Min(T) \in T /\ \A y \in T : Min(T) <= y
<1>1. \E x \in T : \A y \in T : x <= y
  <2> SUFFICES ASSUME \A x \in T : \E y \in T : y < x PROVE FALSE
    OBVIOUS
  <2> DEFINE U == {n \in Nat : \A x \in T : n <= x}
  <2>1. 0 \in U /\ U \in SUBSET Nat
    OBVIOUS
  <2>2. \A n \in U : n + 1 \in U
    OBVIOUS
  <2>3. U = Nat
    <3> HIDE DEF U
    <3> QED
      BY <2>1, <2>2, SetInduction
  <2>4. PICK x \in T : TRUE
    OBVIOUS
  <2>5. x + 1 \in U
    BY <2>3
  <2> QED
    BY <2>5
<1> QED
  BY <1>1 DEF Min

\* And a greatest one, if it is bounded.
LEMMA GreatestMember ==
  ASSUME NEW T \in SUBSET Nat, T # {}, NEW m \in Nat, \A x \in T : x <= m
  PROVE  Max(T) \in T /\ \A y \in T : y <= Max(T)
<1> DEFINE D == {m - x : x \in T}
<1>1. D \in SUBSET Nat /\ D # {}
  <2>1. \A x \in T : x \in Nat /\ m - x \in Nat
    OBVIOUS
  <2> QED
    BY <2>1
<1>2. Min(D) \in D /\ \A d \in D : Min(D) <= d
  <2> HIDE DEF D
  <2> QED
    BY <1>1, LeastMember
<1>3. PICK x \in T : Min(D) = m - x
  BY <1>2
<1>4. \A y \in T : y <= x
  <2> TAKE y \in T
  <2>1. m - x <= m - y /\ x \in Nat /\ y \in Nat
    BY <1>2, <1>3
  <2> QED
    BY <2>1
<1> QED
  BY <1>4 DEF Max

\* The larger of a number and 0.
LEMMA MaxWithZero ==
  ASSUME NEW v \in Int
  PROVE  Max({v, 0}) = IF v >= 0 THEN v ELSE 0
<1>1. \E x \in {v, 0} : \A y \in {v, 0} : x >= y
  OBVIOUS
<1>2. Max({v, 0}) \in {v, 0} /\ \A y \in {v, 0} : Max({v, 0}) >= y
  BY <1>1 DEF Max
<1> QED
  BY <1>2

\* FirstOf finds an entry of the area if there is one.
LEMMA FirstOfFinds ==
  ASSUME NEW s \in Seq(Entries), NEW a
  PROVE  /\ FirstOf(s, a) \in 0..Len(s)
         /\ FirstOf(s, a) = 0 <=> \A i \in DOMAIN s : s[i].area # a
         /\ FirstOf(s, a) # 0 => FirstOf(s, a) \in DOMAIN s /\ s[FirstOf(s, a)].area = a
<1> DEFINE I == {i \in 1..Len(s) : s[i].area = a}
<1>1. FirstOf(s, a) = IF I # {} THEN Min(I) ELSE 0
  BY DEF FirstOf, SelectInSeq
<1>2. I \in SUBSET Nat
  OBVIOUS
<1>3. I # {} => Min(I) \in I
  <2> HIDE DEF I
  <2> QED
    BY <1>2, LeastMember
<1> QED
  BY <1>1, <1>3

\* Where no area is there twice, it finds the one.
LEMMA FirstOfIs ==
  ASSUME NEW s \in Seq(Entries), NEW i \in DOMAIN s,
         \A j \in DOMAIN s : s[j].area = s[i].area => j = i
  PROVE  FirstOf(s, s[i].area) = i
BY FirstOfFinds

\* Slots are told apart by number and name.
LEMMA SlotFacts ==
  /\ \A s \in Slots : s.id \in 1..MaxId /\ s.name \in Names \cup {Quick} /\ s = Slot(s.id, s.name)
  /\ \A s, t \in Slots : s.id = t.id /\ s.name = t.name => s = t
  /\ \A s \in Slots : s.name = Quick => s = Slot(QuickId, Quick)
  /\ Slot(QuickId, Quick) \in Slots
  /\ \A i \in 1..MaxId, n \in Names : Slot(i, n) \in Slots
  /\ \A i, n : Slot(i, n).id = i /\ Slot(i, n).name = n
<1>1. \A i, n : Slot(i, n).id = i /\ Slot(i, n).name = n
  BY DEF Slot
<1>2. \A s \in Slots :
        s = Slot(QuickId, Quick) \/ \E i \in 1..MaxId, n \in Names : s = Slot(i, n)
  BY DEF Slots
<1>3. QuickId \in 1..MaxId /\ Quick \notin Names
  BY NamesAssumption, SaveBoundsAssumption DEF QuickId
<1>4. Slot(QuickId, Quick) \in Slots /\ \A i \in 1..MaxId, n \in Names : Slot(i, n) \in Slots
  BY DEF Slots
<1>5. \A s \in Slots : s.id \in 1..MaxId /\ s.name \in Names \cup {Quick} /\ s = Slot(s.id, s.name)
  BY <1>1, <1>2, <1>3
<1> QED
  BY <1>1, <1>2, <1>3, <1>4, <1>5

\* None is not a slot.
LEMMA NoneFacts == None \notin Slots
BY NoneAssumption

--------------------------------------------------------------------------
(* The members of a set in some order *)

\* Every member of a finite set is in each of its orders, at one place.
LEMMA OrdersAreComplete ==
  ASSUME NEW S, IsFiniteSet(S), NEW order \in SetToSeqs(S)
  PROVE  /\ Cardinality(S) \in Nat /\ order \in [1..Cardinality(S) -> S]
         /\ order \in Seq(S) /\ Len(order) = Cardinality(S)
         /\ \A i, j \in DOMAIN order : order[i] = order[j] => i = j
         /\ \A x \in S : \E i \in DOMAIN order : order[i] = x
<1> DEFINE D == 1..Cardinality(S)
<1>1. Cardinality(S) \in Nat
  BY FS_CardinalityType
<1>2. order \in [D -> S] /\ \A i, j \in D : i # j => order[i] # order[j]
  BY DEF SetToSeqs
<1>3. order \in Injection(D, S)
  BY <1>2 DEF Injection, IsInjective
<1>4. Cardinality(D) = Cardinality(S)
  BY <1>1, FS_Interval
<1>5. order \in Surjection(D, S)
  <2> HIDE DEF D
  <2> QED
    BY <1>3, <1>4, FS_Injection
<1>6. \A x \in S : \E i \in D : order[i] = x
  BY <1>5 DEF Surjection
<1>7. order \in Seq(S) /\ Len(order) = Cardinality(S) /\ DOMAIN order = D
  BY <1>1, <1>2
<1> QED
  BY <1>1, <1>2, <1>6, <1>7

\* One entry for each of some areas, in some order.
LEMMA OrdersOfEntries ==
  ASSUME NEW T \in SUBSET Areas, NEW f \in [T -> Versions],
         NEW order \in SetToSeqs({Entry(a, f[a]) : a \in T})
  PROVE  /\ order \in Seq(Entries)
         /\ \A i, j \in DOMAIN order : order[i].area = order[j].area => i = j
         /\ \A i \in DOMAIN order : order[i].area \in T
                                   /\ order[i].version = f[order[i].area]
         /\ \A a \in T : \E i \in DOMAIN order : order[i].area = a
<1> DEFINE S == {Entry(a, f[a]) : a \in T}
           g == [a \in T |-> Entry(a, f[a])]
<1>1. g \in Surjection(T, S) /\ order \in SetToSeqs(S)
  BY DEF Surjection
<1>2. IsFiniteSet(T)
  BY AreasAssumption, FS_Subset
<1>3. IsFiniteSet(S)
  <2> HIDE DEF S, g
  <2> QED
    BY <1>1, <1>2, FS_Surjection
<1>4. \A x \in S : x \in Entries /\ x.area \in T /\ x.version = f[x.area]
  BY DEF Entry, Entries
<1>5. \A x, y \in S : x.area = y.area => x = y
  BY DEF Entry
<1>6. \A a \in T : Entry(a, f[a]) \in S /\ Entry(a, f[a]).area = a
  BY DEF Entry
<1>7. /\ order \in Seq(S) /\ \A i \in DOMAIN order : order[i] \in S
      /\ \A i, j \in DOMAIN order : order[i] = order[j] => i = j
      /\ \A x \in S : \E i \in DOMAIN order : order[i] = x
  <2> HIDE DEF S
  <2> QED
    BY <1>1, <1>3, OrdersAreComplete
<1> HIDE DEF S
<1>8. order \in Seq(Entries)
  BY <1>4, <1>7
<1> QED
  BY <1>4, <1>5, <1>6, <1>7, <1>8

--------------------------------------------------------------------------
(* The invariant holds at the start and whenever a game begins or ends *)

\* The values a game begins and ends with have their types.
LEMMA StartTypes ==
  /\ NoSave \in Making /\ NoDirectory \in Directory /\ NoDirectory.files = {}
  /\ NoSave.target = None /\ <<>> \in Seq(Entries)
  /\ Nowhere \in [Areas -> Nat] /\ NoAreas \in [Areas -> Versions \cup {Nothing}]
  /\ 0 \in Versions /\ Versions \subseteq Nat /\ Nothing \notin Versions
<1>1. NoSave \in Making /\ NoSave.target = None
  BY DEF NoSave, Making
<1>2. NoDirectory \in Directory /\ NoDirectory.files = {} /\ <<>> \in Seq(Entries)
  BY DEF NoDirectory, Directory
<1>3. 0 \in Versions /\ Versions \subseteq Nat /\ Nothing \notin Versions
  BY SaveBoundsAssumption DEF Versions, Nothing
<1> QED
  BY <1>1, <1>2, <1>3 DEF Nowhere, NoAreas

\* Nothing is listed, saved or located.
LEMMA InitHolds == SaveInit => IInv
<1> SUFFICES ASSUME SaveInit PROVE IInv
  OBVIOUS
<1>1. \A s \in Slots : disk[s] = NoDirectory
  BY DEF SaveInit
<1>2. Retained = {} /\ ~Dumping /\ ~Moving /\ ~Rewriting
  BY DEF SaveInit, Retained, Nowhere, Dumping, Moving, Rewriting, NoSave
<1>3. \A s \in Slots : ~Listable(disk[s]) /\ ~disk[s].there
  BY <1>1 DEF Listable, NoDirectory
<1>4. SavesTypeOK
  BY <1>1, StartTypes DEF SaveInit, SavesTypeOK, Phases
<1>5. DiskInv
  BY <1>3 DEF SaveInit, DiskInv
<1>6. WindowInv /\ RunInv /\ BlobInv /\ PlaceInv /\ CopyInv
  BY <1>2 DEF SaveInit, WindowInv, RunInv, BlobInv, PlaceInv, CopyInv, NoSave
<1>7. SaveInv
  BY DEF SaveInit, SaveInv, NoSave, WrittenAt
<1>8. SavedOnce
  BY <1>1 DEF SavedOnce, NoDirectory
<1> QED
  BY <1>4, <1>5, <1>6, <1>7, <1>8 DEF IInv

\* Whatever ends the game leaves a directory that is not listed, or that was.
LEMMA EndedPreserves ==
  ASSUME SavesTypeOK, DiskInv, SavedOnce, GameEnded, listed' \subseteq listed,
         disk' \in [Slots -> Directory], \A s \in Slots : disk'[s].files # {} => disk'[s].there,
         DiskInv', SavedOnce'
  PROVE  IInv'
<1>1. /\ phase' = "menu" /\ ~window' /\ save' = NoSave /\ running' = None
      /\ located' = Nowhere /\ newLocated' = Nowhere
  BY DEF GameEnded, GameStarted
<1>2. Retained' = {} /\ ~Dumping' /\ ~Moving' /\ ~Rewriting'
  BY <1>1 DEF Retained, Nowhere, Dumping, Moving, Rewriting, NoSave
<1>3. WindowInv' /\ RunInv' /\ BlobInv' /\ PlaceInv' /\ CopyInv'
  BY <1>1, <1>2 DEF WindowInv, RunInv, BlobInv, PlaceInv, CopyInv, NoSave
<1>4. SaveInv'
  BY <1>1 DEF SaveInv, NoSave, WrittenAt
<1>5. SavesTypeOK'
  BY <1>1, StartTypes DEF SavesTypeOK, Phases, GameEnded, GameStarted
<1> QED
  BY <1>3, <1>4, <1>5 DEF IInv

\* QuitGame keeps the invariant: only the saves on the disk stay.
LEMMA QuitPreserves == IInv /\ QuitGame => IInv'
<1> SUFFICES ASSUME IInv, QuitGame PROVE IInv'
  OBVIOUS
<1>1. GameEnded /\ disk' = disk /\ listed' = listed
  BY DEF QuitGame
<1>2. disk' \in [Slots -> Directory] /\ \A s \in Slots : disk'[s].files # {} => disk'[s].there
  BY <1>1 DEF IInv, SavesTypeOK
<1>3. DiskInv' /\ SavedOnce'
  BY <1>1 DEF IInv, DiskInv, SavedOnce
<1>4. listed' \subseteq listed
  BY <1>1
<1> QED
  BY <1>1, <1>2, <1>3, <1>4, EndedPreserves DEF IInv

\* The end of the program, at any step of saving, keeps the invariant.
LEMMA DiePreserves == IInv /\ Die => IInv'
<1> SUFFICES ASSUME IInv, Die PROVE IInv'
  OBVIOUS
<1>1. GameEnded /\ disk' = disk /\ listed' = {}
  BY DEF Die
<1>2. disk' \in [Slots -> Directory] /\ \A s \in Slots : disk'[s].files # {} => disk'[s].there
  BY <1>1 DEF IInv, SavesTypeOK
<1>3. DiskInv' /\ SavedOnce'
  BY <1>1 DEF IInv, DiskInv, SavedOnce
<1>4. listed' \subseteq listed
  BY <1>1
<1> QED
  BY <1>1, <1>2, <1>3, <1>4, EndedPreserves DEF IInv

\* Where a torn save is not listed any more, it may as well be empty.
LEMMA DieDeletingIs ==
  ASSUME ~TornDelete, IInv, NEW s \in Slots, DieDeleting(s)
  PROVE  \E d \in Torn(disk[s]) : d.files = {} /\ disk' = [disk EXCEPT ![s] = d]
<1>1. PICK d \in Torn(disk[s]) :
        (d.files = {} \/ Listable(d)) /\ disk' = [disk EXCEPT ![s] = d]
  BY DEF DieDeleting
<1>2. disk'[s] = d
  BY <1>1 DEF IInv, SavesTypeOK
<1>3. d.files # disk[s].files
  <2>1. \A kept \in (SUBSET disk[s].files) \ {disk[s].files} : kept # disk[s].files
    OBVIOUS
  <2> QED
    BY <1>1, <2>1 DEF Torn
<1>4. ~Listable(d)
  BY <1>2, <1>3 DEF TornDelete
<1> QED
  BY <1>1, <1>4

\* A save is deleted whole, or is not listed any more.
LEMMA DieDeletingPreserves ==
  ASSUME ~TornDelete, IInv, NEW s \in Slots, DieDeleting(s)
  PROVE  IInv'
<1>1. PICK d \in Torn(disk[s]) : d.files = {} /\ disk' = [disk EXCEPT ![s] = d]
  BY DieDeletingIs
<1>2. GameEnded /\ listed' = {}
  BY DEF DieDeleting
<1>3. disk \in [Slots -> Directory] /\ disk[s].there
  BY DEF IInv, SavesTypeOK, DieDeleting
<1>4. d = [there |-> TRUE, files |-> {}, sav |-> <<>>]
  BY <1>1, <1>3 DEF Torn
<1>5. d \in Directory /\ ~Listable(d)
  BY <1>4 DEF Directory, Listable, Entries
<1>6. \A t \in Slots : disk'[t] = IF t = s THEN d ELSE disk[t]
  BY <1>1, <1>3
<1>7. disk' \in [Slots -> Directory] /\ \A t \in Slots : disk'[t].files # {} => disk'[t].there
  BY <1>1, <1>3, <1>4, <1>5 DEF IInv, SavesTypeOK
<1>8. DiskInv'
  BY <1>2, <1>3, <1>4, <1>5, <1>6 DEF IInv, DiskInv
<1>9. SavedOnce'
  BY <1>4, <1>6 DEF IInv, SavedOnce
<1> QED
  BY <1>2, <1>7, <1>8, <1>9, EndedPreserves DEF IInv

--------------------------------------------------------------------------
(* Games begin, and areas come and go *)

\* In the menu and in play nothing is being saved.
LEMMA NotSaving ==
  ASSUME IInv, phase \in {"menu", "play"}
  PROVE  save = NoSave /\ save.override = FALSE /\ ~Moving /\ ~Dumping /\ ~Rewriting
         /\ newLocated = Nowhere
BY DEF IInv, SaveInv, NoSave, Moving, Dumping, Rewriting, BlobInv

\* What the file of a save registers leads to entries of it.
LEMMA RegisteredLeads ==
  ASSUME NEW entries \in Seq(Entries)
  PROVE  /\ Registered(entries) \in [Areas -> Nat]
         /\ \A a \in Areas : Registered(entries)[a] # 0 =>
              /\ Registered(entries)[a] \in DOMAIN entries
              /\ entries[Registered(entries)[a]].area = a
<1>1. \A a \in Areas : Registered(entries)[a] = FirstOf(entries, a)
  BY DEF Registered
<1> QED
  BY <1>1, FirstOfFinds DEF Registered

\* Starting a new game keeps the invariant.
LEMMA NewGamePreserves == IInv /\ NewGame => IInv'
<1> SUFFICES ASSUME IInv, NewGame PROVE IInv'
  OBVIOUS
<1>1. /\ phase = "menu" /\ phase' = "play" /\ ~window /\ running' = None
      /\ located' = Nowhere /\ newLocated' = Nowhere /\ cached' = NoAreas
      /\ loaded' = NoAreas /\ blob' = <<>>
      /\ UNCHANGED <<disk, listed, window, save, changes>>
  BY DEF NewGame, GameStarted
<1>2. save = NoSave /\ save.override = FALSE
  BY <1>1, NotSaving
<1>3. Retained' = {} /\ ~Dumping' /\ ~Moving' /\ ~Rewriting'
  BY <1>1, <1>2 DEF Retained, Nowhere, Dumping, Moving, Rewriting
<1>4. SavesTypeOK'
  BY <1>1, StartTypes DEF IInv, SavesTypeOK, Phases
<1>5. DiskInv' /\ WindowInv' /\ SavedOnce'
  BY <1>1 DEF IInv, DiskInv, WindowInv, SavedOnce
<1>6. SaveInv'
  BY <1>1, <1>2 DEF IInv, SaveInv, NoSave, WrittenAt
<1>7. RunInv' /\ BlobInv' /\ PlaceInv' /\ CopyInv'
  BY <1>1, <1>2, <1>3 DEF RunInv, BlobInv, PlaceInv, CopyInv
<1> QED
  BY <1>4, <1>5, <1>6, <1>7 DEF IInv

\* Loading a save keeps the invariant: its archive becomes the place of what is retained.
LEMMA LoadPreserves ==
  ASSUME IInv, NEW s \in Slots, LoadGame(s)
  PROVE  IInv'
<1>1. /\ phase' = "play" /\ window' = FALSE /\ running' = s
      /\ located' = Registered(disk[s].sav) /\ newLocated' = Nowhere /\ cached' = NoAreas
      /\ loaded' = NoAreas /\ blob' = <<>>
      /\ UNCHANGED <<disk, listed, save, changes>>
      /\ window /\ s \in listed /\ {"wmp", "gam"} \subseteq disk[s].files
  BY DEF LoadGame, GameStarted
<1>2. phase \in {"menu", "play"}
  BY <1>1 DEF IInv, WindowInv
<1>3. save = NoSave /\ save.override = FALSE
  BY <1>2, NotSaving
<1>4. disk[s] \in Directory /\ disk[s].sav \in Seq(Entries)
  BY DEF IInv, SavesTypeOK, Directory
<1>5. Listable(disk[s])
  BY <1>1 DEF IInv, SavesTypeOK, WindowInv
<1>6. ~Dumping' /\ ~Moving' /\ ~Rewriting'
  BY <1>1, <1>3 DEF Dumping, Moving, Rewriting
<1>7. s # None /\ NoSave.target = None /\ NoSave.old = None /\ NoSave.override = FALSE
  BY NoneFacts DEF NoSave
<1>8. SavesTypeOK'
  <2>1. Registered(disk[s].sav) \in [Areas -> Nat]
    BY <1>4, RegisteredLeads
  <2> QED
    BY <1>1, <1>2, <2>1, StartTypes DEF IInv, SavesTypeOK, Phases
<1>9. DiskInv' /\ WindowInv' /\ SavedOnce'
  BY <1>1 DEF IInv, DiskInv, WindowInv, SavedOnce
<1>10. SaveInv'
  BY <1>1, <1>3 DEF IInv, SaveInv, NoSave, WrittenAt
<1>11. RunInv' /\ BlobInv' /\ CopyInv'
  BY <1>1, <1>3, <1>5, <1>6, <1>7 DEF RunInv, BlobInv, CopyInv
<1>12. PlaceInv'
  BY <1>1, <1>4, <1>7, RegisteredLeads DEF PlaceInv, Retained, NoAreas
<1> QED
  BY <1>8, <1>9, <1>10, <1>11, <1>12 DEF IInv

\* What is extracted has a version.
LEMMA ExtractedTypes ==
  ASSUME IInv, NEW a \in Retained, ~Moving
  PROVE  a \in Areas /\ running \in Slots /\ disk[running] \in Directory
         /\ disk[running].sav \in Seq(Entries) /\ Extracted(a) \in Versions
<1>1. a \in Areas /\ running \in Slots
  BY DEF IInv, PlaceInv, Retained, SavesTypeOK
<1>2. disk[running] \in Directory /\ disk[running].sav \in Seq(Entries)
  BY <1>1 DEF IInv, SavesTypeOK, Directory
<1>3. located[a] \in DOMAIN disk[running].sav
  BY DEF IInv, PlaceInv
<1>4. disk[running].sav[located[a]] \in Entries
  BY <1>2, <1>3
<1> QED
  BY <1>1, <1>2, <1>4 DEF Extracted, Entries

\* Entering an area keeps the invariant, whether it is extracted, in the cache or new.
LEMMA EnterPreserves ==
  ASSUME IInv, NEW a \in Areas, Enter(a)
  PROVE  IInv'
<1>1. /\ Playing /\ phase = "play" /\ ~window /\ loaded[a] = Nothing
      /\ UNCHANGED <<disk, listed, window, phase, save, running, newLocated, blob, changes>>
  BY DEF Enter, Playing, InMemory
<1>2. save.override = FALSE /\ ~Moving /\ ~Dumping /\ ~Rewriting /\ ~Moving' /\ ~Dumping' /\ ~Rewriting'
  BY <1>1, NotSaving DEF Moving, Dumping, Rewriting
<1>3. \E v \in Versions, w \in Versions \cup {Nothing} :
        /\ located' = [located EXCEPT ![a] = 0]
        /\ cached' = [cached EXCEPT ![a] = w]
        /\ loaded' = [loaded EXCEPT ![a] = v]
  <2>1. CASE a \in Retained
    BY <1>2, <2>1, ExtractedTypes DEF Enter
  <2>2. CASE a \notin Retained
    <3>1. cached[a] \in Versions \cup {Nothing} /\ cached \in [Areas -> Versions \cup {Nothing}]
          /\ located \in [Areas -> Nat] /\ located[a] = 0
      BY <2>2 DEF IInv, SavesTypeOK, Retained
    <3>2. Max({cached[a], 0}) \in Versions
      BY <3>1, StartTypes, MaxWithZero DEF Nothing, Versions
    <3> QED
      BY <2>2, <3>1, <3>2 DEF Enter
  <2> QED
    BY <2>1, <2>2
<1>4. PICK v \in Versions, w \in Versions \cup {Nothing} :
        /\ located' = [located EXCEPT ![a] = 0]
        /\ cached' = [cached EXCEPT ![a] = w]
        /\ loaded' = [loaded EXCEPT ![a] = v]
  BY <1>3
<1>5. SavesTypeOK'
  BY <1>1, <1>4 DEF IInv, SavesTypeOK
<1>6. DiskInv' /\ WindowInv' /\ SavedOnce' /\ SaveInv' /\ CopyInv'
  BY <1>1 DEF IInv, DiskInv, WindowInv, SavedOnce, SaveInv, CopyInv
<1>7. RunInv' /\ BlobInv'
  BY <1>1, <1>2 DEF IInv, RunInv, BlobInv
<1>8. Retained' = Retained \ {a} /\ \A b \in Retained' :
         located'[b] = located[b] /\ loaded'[b] = loaded[b] /\ cached'[b] = cached[b]
  BY <1>4 DEF IInv, SavesTypeOK, Retained
<1>9. PlaceInv'
  BY <1>1, <1>2, <1>8 DEF IInv, PlaceInv
<1> QED
  BY <1>5, <1>6, <1>7, <1>9 DEF IInv

\* Leaving an area keeps the invariant: its file goes to the cache.
LEMMA LeavePreserves ==
  ASSUME IInv, NEW a \in Areas, Leave(a)
  PROVE  IInv'
<1>1. /\ Playing /\ phase = "play" /\ loaded[a] # Nothing
      /\ cached' = [cached EXCEPT ![a] = loaded[a]]
      /\ loaded' = [loaded EXCEPT ![a] = Nothing]
      /\ UNCHANGED <<disk, listed, window, phase, save, running, located, newLocated, blob,
                     changes>>
  BY DEF Leave, Playing, InMemory
<1>2. ~Moving /\ ~Dumping /\ ~Rewriting /\ ~Moving' /\ ~Dumping' /\ ~Rewriting'
  BY <1>1, NotSaving DEF Moving, Dumping, Rewriting
<1>3. SavesTypeOK'
  BY <1>1 DEF IInv, SavesTypeOK
<1>4. DiskInv' /\ WindowInv' /\ SavedOnce' /\ SaveInv' /\ CopyInv'
  BY <1>1 DEF IInv, DiskInv, WindowInv, SavedOnce, SaveInv, CopyInv
<1>5. RunInv' /\ BlobInv'
  BY <1>1, <1>2 DEF IInv, RunInv, BlobInv
<1>6. Retained' = Retained /\ a \notin Retained
  BY <1>1 DEF IInv, PlaceInv, Retained
<1>7. PlaceInv'
  BY <1>1, <1>2, <1>6 DEF IInv, PlaceInv, SavesTypeOK
<1> QED
  BY <1>3, <1>4, <1>5, <1>7 DEF IInv

\* A change to a loaded area keeps the invariant.
LEMMA ChangePreserves ==
  ASSUME IInv, NEW a \in Areas, Change(a)
  PROVE  IInv'
<1>1. /\ phase = "play" /\ loaded[a] # Nothing /\ changes' = changes + 1
      /\ changes < MaxChanges /\ loaded' = [loaded EXCEPT ![a] = changes']
      /\ UNCHANGED <<disk, listed, window, phase, save, running, located, newLocated, blob,
                     cached>>
  BY DEF Change, Playing, InMemory
<1>2. ~Moving /\ ~Dumping /\ ~Rewriting /\ ~Moving' /\ ~Dumping' /\ ~Rewriting'
  BY <1>1, NotSaving DEF Moving, Dumping, Rewriting
<1>3. changes' \in Versions
  BY <1>1, SaveBoundsAssumption DEF IInv, SavesTypeOK, Versions
<1>4. SavesTypeOK'
  BY <1>1, <1>3 DEF IInv, SavesTypeOK
<1>5. DiskInv' /\ WindowInv' /\ SavedOnce' /\ SaveInv' /\ CopyInv'
  BY <1>1 DEF IInv, DiskInv, WindowInv, SavedOnce, SaveInv, CopyInv
<1>6. RunInv' /\ BlobInv'
  BY <1>1, <1>2 DEF IInv, RunInv, BlobInv
<1>7. Retained' = Retained /\ a \notin Retained
  BY <1>1 DEF IInv, PlaceInv, Retained
<1>8. PlaceInv'
  BY <1>1, <1>2, <1>7 DEF IInv, PlaceInv, SavesTypeOK
<1> QED
  BY <1>4, <1>5, <1>6, <1>8 DEF IInv

--------------------------------------------------------------------------
(* The window *)

LEMMA OpenWindowPreserves == IInv /\ OpenWindow => IInv'
<1> SUFFICES ASSUME IInv, OpenWindow PROVE IInv'
  OBVIOUS
<1>1. /\ phase \in {"menu", "play"} /\ window' = TRUE
      /\ listed' = {s \in Slots : Listable(disk[s])}
      /\ UNCHANGED <<disk, phase, save, running, located, newLocated, blob, cached, loaded,
                     changes>>
  BY DEF OpenWindow, memory
<1>2. ~Moving /\ ~Dumping /\ ~Rewriting /\ ~Moving' /\ ~Dumping' /\ ~Rewriting'
  BY <1>1, NotSaving DEF Moving, Dumping, Rewriting
<1>3. \A s \in Slots : Listable(disk[s]) => disk[s].there
  BY DEF Listable, IInv, SavesTypeOK
<1>4. SavesTypeOK'
  BY <1>1 DEF IInv, SavesTypeOK
<1>5. DiskInv' /\ SavedOnce'
  BY <1>1, <1>3 DEF IInv, DiskInv, SavedOnce
<1>6. WindowInv'
  BY <1>1 DEF WindowInv
<1>7. SaveInv' /\ CopyInv'
  BY <1>1 DEF IInv, SaveInv, CopyInv
<1>8. RunInv'
  BY <1>1, <1>2 DEF IInv, RunInv, SavesTypeOK
<1>9. BlobInv' /\ PlaceInv'
  BY <1>1, <1>2 DEF IInv, BlobInv, PlaceInv, Retained
<1> QED
  BY <1>4, <1>5, <1>6, <1>7, <1>8, <1>9 DEF IInv

\* Closing the list of saves keeps the invariant.
LEMMA CloseWindowPreserves == IInv /\ CloseWindow => IInv'
<1> SUFFICES ASSUME IInv, CloseWindow PROVE IInv'
  OBVIOUS
<1>1. /\ window' = FALSE
      /\ UNCHANGED <<disk, listed, phase, save, running, located, newLocated, blob, cached,
                     loaded, changes>>
  BY DEF CloseWindow, memory
<1>2. SavesTypeOK' /\ DiskInv' /\ WindowInv' /\ SavedOnce' /\ SaveInv'
  BY <1>1 DEF IInv, SavesTypeOK, DiskInv, WindowInv, SavedOnce, SaveInv
<1>3. UNCHANGED <<Retained, InMemory, World, Moving, Dumping, Rewriting>>
  BY <1>1 DEF Retained, InMemory, World, Moving, Dumping, Rewriting, Source, Place
<1>4. RunInv' /\ BlobInv' /\ PlaceInv' /\ CopyInv'
  BY <1>1, <1>3 DEF IInv, RunInv, BlobInv, PlaceInv, CopyInv, Extracted
<1> QED
  BY <1>2, <1>4 DEF IInv

\* The window deletes any save but the one that runs, and keeps the invariant.
LEMMA DeletePreserves ==
  ASSUME ~RunningDeleted, IInv, NEW s \in Slots, Delete(s)
  PROVE  IInv'
<1>1. /\ window /\ s \in listed /\ disk[s].there /\ s # running
      /\ disk' = [disk EXCEPT ![s] = NoDirectory]
      /\ UNCHANGED <<listed, window, phase, save, running, located, newLocated, blob, cached,
                     loaded, changes>>
  BY NoneFacts DEF Delete, memory, RunningDeleted
<1>2. phase \in {"menu", "play"} /\ save = NoSave /\ save.override = FALSE
      /\ ~Moving /\ ~Dumping /\ ~Rewriting /\ ~Moving' /\ ~Dumping' /\ ~Rewriting'
  BY <1>1, NotSaving DEF Moving, Dumping, Rewriting, IInv, WindowInv
<1>3. disk \in [Slots -> Directory]
      /\ \A t \in Slots : disk'[t] = IF t = s THEN NoDirectory ELSE disk[t]
  BY <1>1 DEF IInv, SavesTypeOK
<1>4. ~Listable(NoDirectory) /\ ~NoDirectory.there /\ DOMAIN NoDirectory.sav = {}
  BY DEF Listable, NoDirectory
<1>5. SavesTypeOK'
  BY <1>1, <1>3, <1>4, StartTypes DEF IInv, SavesTypeOK
<1>6. DiskInv' /\ WindowInv' /\ SavedOnce'
  BY <1>1, <1>2, <1>3, <1>4 DEF IInv, DiskInv, WindowInv, SavedOnce
<1>7. SaveInv' /\ CopyInv'
  BY <1>1, <1>2 DEF IInv, SaveInv, CopyInv, NoSave, WrittenAt
<1>8. RunInv' /\ BlobInv'
  BY <1>1, <1>2, <1>3 DEF IInv, RunInv, BlobInv, SavesTypeOK
<1>9. PlaceInv'
  <2>1. Retained' = Retained /\ (Retained # {} => running \in Slots)
    BY <1>1 DEF Retained, IInv, PlaceInv, SavesTypeOK
  <2> QED
    BY <1>1, <1>2, <1>3, <2>1 DEF IInv, PlaceInv
<1> QED
  BY <1>5, <1>6, <1>7, <1>8, <1>9 DEF IInv

--------------------------------------------------------------------------
(* CreateSaveGame begins *)

\* The dump has one entry for every area that is retained, and knows where.
LEMMA DumpIsWhole ==
  ASSUME IInv, ~Moving, NEW order \in SetToSeqs(Retained), NEW b,
         b = [i \in DOMAIN order |-> Entry(order[i], Extracted(order[i]))]
  PROVE  /\ b \in Seq(Entries) /\ Registered(b) \in [Areas -> Nat]
         /\ \A a \in Areas : Registered(b)[a] # 0 <=> a \in Retained
         /\ \A a \in Retained :
              /\ Registered(b)[a] \in DOMAIN b /\ b[Registered(b)[a]].area = a
              /\ b[Registered(b)[a]].version = Extracted(a)
         /\ \A i \in DOMAIN b : b[i].area \in Retained /\ Registered(b)[b[i].area] = i
<1>1. Retained \in SUBSET Areas /\ IsFiniteSet(Retained)
  BY AreasAssumption, FS_Subset DEF Retained
<1>2. /\ order \in Seq(Retained)
      /\ \A i, j \in DOMAIN order : order[i] = order[j] => i = j
      /\ \A x \in Retained : \E i \in DOMAIN order : order[i] = x
  BY <1>1, OrdersAreComplete
<1>3. /\ DOMAIN order = 1..Len(order) /\ Len(order) \in Nat
      /\ \A i \in DOMAIN order : order[i] \in Retained
  BY <1>2
<1>4. \A a \in Retained : a \in Areas /\ Extracted(a) \in Versions
  BY ExtractedTypes
<1>5. \A i \in DOMAIN order : Entry(order[i], Extracted(order[i])) \in Entries
  BY <1>3, <1>4 DEF Entry, Entries
<1>6. b \in Seq(Entries) /\ DOMAIN b = DOMAIN order
  BY <1>3, <1>5
<1>7. \A i \in DOMAIN b : b[i].area = order[i] /\ b[i].version = Extracted(order[i])
  BY <1>6 DEF Entry
<1>8. \A a \in Areas : Registered(b)[a] = FirstOf(b, a)
  BY DEF Registered
<1>9. \A i \in DOMAIN b : b[i].area \in Retained /\ Registered(b)[b[i].area] = i
  <2> TAKE i \in DOMAIN b
  <2>1. \A j \in DOMAIN b : b[j].area = b[i].area => j = i
    BY <1>2, <1>6, <1>7
  <2>2. FirstOf(b, b[i].area) = i
    BY <1>6, <2>1, FirstOfIs
  <2> QED
    BY <1>1, <1>3, <1>6, <1>7, <1>8, <2>2
<1>10. \A a \in Areas : Registered(b)[a] # 0 <=> a \in Retained
  <2> TAKE a \in Areas
  <2>1. FirstOf(b, a) = 0 <=> \A i \in DOMAIN b : b[i].area # a
    BY <1>6, FirstOfFinds
  <2> QED
    BY <1>2, <1>3, <1>6, <1>7, <1>8, <2>1
<1>11. \A a \in Retained :
         /\ Registered(b)[a] \in DOMAIN b /\ b[Registered(b)[a]].area = a
         /\ b[Registered(b)[a]].version = Extracted(a)
  <2> TAKE a \in Retained
  <2>1. PICK i \in DOMAIN b : b[i].area = a /\ b[i].version = Extracted(a)
    BY <1>2, <1>6, <1>7
  <2> QED
    BY <1>9, <2>1
<1>12. Registered(b) \in [Areas -> Nat]
  BY <1>6, RegisteredLeads
<1> QED
  BY <1>6, <1>9, <1>10, <1>11, <1>12

\* Where it is not mistaken, the save that is running is replaced by itself.
LEMMA ReplacedByItself ==
  ASSUME ~RunningMistaken, ~StaleBlob, NEW old, NEW target, CreateSaveGame(old, target)
  PROVE  /\ IsRunning(old) => old = running /\ target = running
         /\ ~(IsRunning(old) /\ Retained = {} /\ blob # <<>>)
<1>1. phase = "play" /\ save' = [old |-> old, target |-> target, override |-> IsRunning(old)]
  BY DEF CreateSaveGame
<1> QED
  BY <1>1 DEF RunningMistaken, StaleBlob, Overriding

\* Whatever is made, it begins with a dump if it replaces the save that is
\* running, and the dump is whole.
LEMMA DumpedKeepsBlob ==
  ASSUME ~RunningMistaken, ~StaleBlob, IInv, NEW old, NEW target, CreateSaveGame(old, target)
  PROVE  /\ blob' \in Seq(Entries) /\ newLocated' \in [Areas -> Nat]
         /\ BlobInv'
<1>1. /\ phase = "play" /\ ~(IsRunning(old) /\ Retained = {} /\ blob # <<>>)
      /\ Dumped(old) /\ phase' = IF old = None THEN "path" ELSE "delete"
      /\ save'.override = IsRunning(old)
      /\ UNCHANGED <<disk, listed, running, located, cached, loaded, changes>>
  BY ReplacedByItself DEF CreateSaveGame
<1>2. ~Moving /\ newLocated = Nowhere
  BY <1>1, NotSaving
<1>3. Retained' = Retained /\ \A a \in Areas : Extracted(a)' = Extracted(a)
  BY <1>1 DEF Retained, Extracted
<1>4. blob \in Seq(Entries) /\ newLocated \in [Areas -> Nat]
  BY DEF IInv, SavesTypeOK
<1>5. CASE ~IsRunning(old)
  <2>1. UNCHANGED <<blob, newLocated>> /\ ~Dumping' /\ ~save'.override
    BY <1>1, <1>5 DEF Dumped, Dumping
  <2> QED
    BY <1>2, <1>4, <2>1 DEF BlobInv, Nowhere
<1>6. CASE IsRunning(old) /\ Retained = {}
  <2>1. blob' = <<>> /\ newLocated' = Nowhere
    BY <1>1, <1>2, <1>6 DEF Dumped
  <2>2. \A a \in Areas : located[a] = 0
    BY <1>6 DEF Retained
  <2> QED
    BY <1>1, <1>3, <1>4, <1>6, <1>2, <2>1, <2>2 DEF BlobInv, Nowhere
<1>7. CASE IsRunning(old) /\ Retained # {}
  <2>1. PICK order \in SetToSeqs(Retained) :
          /\ blob' = [i \in DOMAIN order |-> Entry(order[i], Extracted(order[i]))]
          /\ newLocated' = Registered(blob')
    BY <1>1, <1>7 DEF Dumped
  <2>2. /\ blob' \in Seq(Entries) /\ newLocated' \in [Areas -> Nat]
        /\ \A a \in Areas : newLocated'[a] # 0 <=> a \in Retained
        /\ \A a \in Retained :
             /\ newLocated'[a] \in DOMAIN blob' /\ blob'[newLocated'[a]].area = a
             /\ blob'[newLocated'[a]].version = Extracted(a)
        /\ \A i \in DOMAIN blob' :
             blob'[i].area \in Retained /\ newLocated'[blob'[i].area] = i
    <3> DEFINE b == blob'
    <3>1. b = [i \in DOMAIN order |-> Entry(order[i], Extracted(order[i]))]
      BY <2>1
    <3>2. newLocated' = Registered(b)
      BY <2>1
    <3> HIDE DEF b
    <3>3. /\ b \in Seq(Entries) /\ Registered(b) \in [Areas -> Nat]
          /\ \A a \in Areas : Registered(b)[a] # 0 <=> a \in Retained
          /\ \A a \in Retained :
               /\ Registered(b)[a] \in DOMAIN b /\ b[Registered(b)[a]].area = a
               /\ b[Registered(b)[a]].version = Extracted(a)
          /\ \A i \in DOMAIN b : b[i].area \in Retained /\ Registered(b)[b[i].area] = i
      BY <1>2, <3>1, DumpIsWhole
    <3> QED
      BY <3>2, <3>3 DEF b
  <2>3. Dumping'
    BY <1>1, <1>7 DEF Dumping, IsRunning
  <2>4. \A a \in Areas : a \in Retained <=> located'[a] # 0
    BY <1>1 DEF Retained
  <2>5. \A a \in Retained : a \in Areas
    BY DEF Retained
  <2> QED
    BY <1>3, <2>2, <2>3, <2>4, <2>5 DEF BlobInv
<1> QED
  BY <1>5, <1>6, <1>7

\* What the ways to save have in common: the slot is one, and is not that of
\* the save that is running unless that goes.
Fitting(old, target) ==
  /\ target \in Slots /\ old \in Slots \cup {None}
  /\ running # None /\ ~IsRunning(old) => target # running /\ old # running

\* The beginning of CreateSaveGame keeps the invariant, for an old save that is in the list
\* and a slot that fits it.
LEMMA CreatePreserves ==
  ASSUME ~RunningMistaken, ~StaleBlob, IInv, NEW old, NEW target,
         CreateSaveGame(old, target), Fitting(old, target)
  PROVE  IInv'
<1>1. /\ phase = "play" /\ phase' = IF old = None THEN "path" ELSE "delete"
      /\ save' = [old |-> old, target |-> target, override |-> IsRunning(old)]
      /\ window' = FALSE
      /\ UNCHANGED <<disk, listed, running, located, cached, loaded, changes>>
  BY DEF CreateSaveGame
<1>2. /\ save'.old = old /\ save'.target = target /\ save'.override = IsRunning(old)
      /\ save' \in Making
  <2>1. IsRunning(old) \in BOOLEAN
    BY DEF IsRunning
  <2> QED
    BY <1>1, <2>1 DEF Fitting, Making
<1>3. ~Moving /\ ~Rewriting
  BY <1>1, NotSaving
<1>4. /\ IsRunning(old) => old # None /\ running # None /\ phase' = "delete"
      /\ phase' \in {"path", "delete"}
  BY <1>1 DEF IsRunning
<1>5. ~Moving' /\ ~Rewriting'
  BY <1>2, <1>4 DEF Moving, Rewriting
<1>6. /\ blob' \in Seq(Entries) /\ newLocated' \in [Areas -> Nat] /\ BlobInv'
  BY DumpedKeepsBlob
<1>7. SavesTypeOK'
  <2>1. target # None
    BY NoneFacts DEF Fitting
  <2> QED
    BY <1>1, <1>2, <1>4, <1>6, <2>1 DEF IInv, SavesTypeOK, Phases
<1>8. DiskInv' /\ WindowInv' /\ SavedOnce'
  BY <1>1 DEF IInv, DiskInv, WindowInv, SavedOnce
<1>9. SaveInv'
  BY <1>1, <1>2, <1>4 DEF SaveInv, Fitting, WrittenAt
<1>10. RunInv'
  <2>1. running # None => phase = "play" /\ running \in listed /\ Listable(disk[running])
    BY <1>1, <1>3 DEF IInv, RunInv
  <2> QED
    BY <1>1, <1>2, <1>4, <1>5, <2>1, ReplacedByItself DEF RunInv, Fitting
<1>11. PlaceInv'
  <2>1. Retained' = Retained
    BY <1>1 DEF Retained
  <2> QED
    BY <1>1, <1>3, <1>4, <1>5, <2>1 DEF IInv, PlaceInv
<1>12. CopyInv'
  BY <1>4 DEF CopyInv
<1> QED
  BY <1>6, <1>7, <1>8, <1>9, <1>10, <1>11, <1>12 DEF IInv

\* The quick save's slot is another's only if a save of its number is listed.
LEMMA QuickFits ==
  ASSUME IInv, NEW old, old \in Existing \/ (old = None /\ Existing = {})
  PROVE  Fitting(old, Slot(QuickId, Quick))
<1>1. Slot(QuickId, Quick) \in Slots /\ Slot(QuickId, Quick).id = QuickId
  BY SlotFacts
<1>2. running # None => running \in listed
  BY DEF IInv, RunInv
<1>3. old \in Slots \cup {None} /\ (old # None => old.id = QuickId)
  BY DEF Existing, IInv, SavesTypeOK
<1>4. ASSUME running # None, ~IsRunning(old)
      PROVE  Slot(QuickId, Quick) # running /\ old # running
  <2>1. CASE old = None
    <3>1. Existing = {}
      BY <2>1, NoneFacts DEF Existing, IInv, SavesTypeOK
    <3>2. running.id # QuickId
      BY <1>2, <1>4, <3>1 DEF Existing
    <3> QED
      BY <1>1, <1>4, <2>1, <3>2
  <2>2. CASE old # None
    BY <1>1, <1>3, <1>4, <2>2 DEF IsRunning
  <2> QED
    BY <2>1, <2>2
<1> QED
  BY <1>1, <1>3, <1>4 DEF Fitting

\* A quick save keeps the invariant.
LEMMA QuickSavePreserves ==
  ASSUME ~RunningMistaken, ~StaleBlob, IInv, QuickSave
  PROVE  IInv'
<1>1. PICK old \in IF Existing = {} THEN {None} ELSE Existing :
        CreateSaveGame(old, Slot(QuickId, Quick))
  BY DEF QuickSave
<1>2. old \in Existing \/ (old = None /\ Existing = {})
  BY <1>1
<1> QED
  BY <1>1, <1>2, QuickFits, CreatePreserves

\* A new save has a number above all that are listed.
LEMMA NewFits ==
  ASSUME IInv, NEW n \in Names, FreeIds(n) # {}
  PROVE  Fitting(None, Slot(Min(FreeIds(n)), n))
<1> DEFINE i == Min(FreeIds(n))
           T == {FirstId} \cup {s.id + 1 : s \in listed}
           t == Slot(i, n)
<1>1. listed \subseteq Slots /\ MaxId \in Nat
  BY SaveBoundsAssumption DEF IInv, SavesTypeOK
<1>2. \A s \in listed : s.id + 1 \in Nat /\ s.id + 1 <= MaxId + 1 /\ s.id \in Nat
  BY <1>1, SlotFacts
<1>3. T \in SUBSET Nat /\ T # {} /\ (\A x \in T : x <= MaxId + 1) /\ MaxId + 1 \in Nat
  BY <1>1, <1>2, SaveBoundsAssumption DEF FirstId
<1>4. Max(T) \in T /\ \A y \in T : y <= Max(T)
  <2> HIDE DEF T
  <2> QED
    BY <1>3, GreatestMember
<1>5. FirstFree \in Nat /\ FirstFree >= FirstId /\ \A s \in listed : s.id + 1 <= FirstFree
  BY <1>3, <1>4 DEF FirstFree
<1>6. FreeIds(n) \in SUBSET Nat
  BY <1>1, <1>5 DEF FreeIds
<1>7. i \in FreeIds(n)
  BY <1>6, LeastMember
<1>8. i \in FirstFree..MaxId /\ i \in 1..MaxId
  BY <1>1, <1>5, <1>7 DEF FreeIds, FirstId
<1> HIDE DEF i
<1>9. t \in Slots /\ t.id = i
  BY <1>8, SlotFacts
<1>10. \A s \in listed : s.id # t.id
  BY <1>2, <1>5, <1>8, <1>9
<1>11. running # None => running # t
  BY <1>10 DEF IInv, RunInv
<1> HIDE DEF t
<1>12. Fitting(None, t)
  BY <1>9, <1>11 DEF Fitting
<1> QED
  BY <1>12 DEF t, i

\* A save in a new slot keeps the invariant: its number is past all that are listed.
LEMMA SaveNewPreserves ==
  ASSUME ~RunningMistaken, ~StaleBlob, IInv, NEW n \in Names, SaveNew(n)
  PROVE  IInv'
<1>1. FreeIds(n) # {} /\ CreateSaveGame(None, Slot(Min(FreeIds(n)), n))
  BY DEF SaveNew
<1> QED
  BY <1>1, NewFits, CreatePreserves

\* A save over a listed one keeps the invariant.
LEMMA SaveOverPreserves ==
  ASSUME ~RunningMistaken, ~StaleBlob, IInv, NEW s \in Slots, NEW n \in Names \cup {Quick},
         Slot(s.id, n) \in Slots, SaveOver(s, n)
  PROVE  IInv'
<1> DEFINE t == Slot(s.id, n)
<1>1. CreateSaveGame(s, t)
  BY DEF SaveOver
<1>2. t \in Slots /\ t.id = s.id
  BY SlotFacts
<1> HIDE DEF t
<1>3. Fitting(s, t)
  BY <1>2, NoneFacts DEF Fitting, IsRunning
<1> QED
  BY <1>1, <1>3, CreatePreserves

--------------------------------------------------------------------------
(* CreateSaveGame goes on *)

\* A step of it works on a directory, not on the window.
LEMMA AtWork ==
  ASSUME IInv, phase \notin {"menu", "play"}
  PROVE  /\ save.target \in Slots /\ ~window /\ disk \in [Slots -> Directory]
         /\ phase = "delete" => save.old \in Slots
<1>1. save.target \in Slots
  BY DEF IInv, SavesTypeOK, Making
<1> QED
  BY <1>1 DEF IInv, SavesTypeOK, WindowInv, SaveInv

\* CreateSaveGame's removal of the old save keeps the invariant.
LEMMA DeleteSaveGamePreserves == IInv /\ DeleteSaveGame => IInv'
<1> SUFFICES ASSUME IInv, DeleteSaveGame PROVE IInv'
  OBVIOUS
<1>1. /\ phase = "delete" /\ phase' = "path"
      /\ disk' = [disk EXCEPT ![save.old] = NoDirectory]
      /\ UNCHANGED <<listed, window, save, running, located, newLocated, blob, cached, loaded,
                     changes>>
  BY DEF DeleteSaveGame, memory
<1>2. save.old \in Slots /\ save.target \in Slots /\ ~window /\ disk \in [Slots -> Directory]
  BY <1>1, AtWork
<1>3. \A s \in Slots : disk'[s] = IF s = save.old THEN NoDirectory ELSE disk[s]
  BY <1>1, <1>2
<1>4. ~Listable(NoDirectory) /\ ~NoDirectory.there /\ DOMAIN NoDirectory.sav = {}
  BY DEF Listable, NoDirectory
<1>5. /\ ~Moving /\ ~Rewriting /\ (Dumping' <=> Dumping)
      /\ (Moving' <=> save.override) /\ (Rewriting' <=> save.override)
  BY <1>1 DEF Moving, Rewriting, Dumping
<1>6. SavesTypeOK'
  BY <1>1, <1>2, <1>3, <1>4, StartTypes DEF IInv, SavesTypeOK, Phases
<1>7. DiskInv' /\ WindowInv' /\ SavedOnce'
  BY <1>1, <1>2, <1>3, <1>4 DEF IInv, DiskInv, WindowInv, SavedOnce
<1>8. SaveInv'
  BY <1>1, <1>2, <1>3, <1>4 DEF IInv, SaveInv, WrittenAt
<1>9. RunInv'
  BY <1>1, <1>2, <1>3, <1>5 DEF IInv, RunInv, SavesTypeOK
<1>10. Retained' = Retained /\ (Retained # {} => running # None /\ running \in Slots)
  BY <1>1 DEF Retained, IInv, PlaceInv, SavesTypeOK
<1>11. BlobInv'
  BY <1>1, <1>5, <1>10 DEF IInv, BlobInv
<1>12. PlaceInv'
  BY <1>1, <1>3, <1>5, <1>10 DEF IInv, PlaceInv, RunInv
<1>13. CopyInv'
  BY <1>1 DEF CopyInv
<1> QED
  BY <1>6, <1>7, <1>8, <1>9, <1>11, <1>12, <1>13 DEF IInv

\* CreateSaveGame's emptying of the directory keeps the invariant.
LEMMA CreateSavePathPreserves == IInv /\ CreateSavePath => IInv'
<1> SUFFICES ASSUME IInv, CreateSavePath PROVE IInv'
  OBVIOUS
<1> DEFINE new == [NoDirectory EXCEPT !.there = TRUE]
<1>1. /\ phase = "path" /\ phase' = "worldmap"
      /\ disk' = [disk EXCEPT ![save.target] = new]
      /\ UNCHANGED <<listed, window, save, running, located, newLocated, blob, cached, loaded,
                     changes>>
  BY DEF CreateSavePath, memory
<1>2. save.target \in Slots /\ ~window /\ disk \in [Slots -> Directory]
  BY <1>1, AtWork
<1>3. /\ new \in Directory /\ new.there /\ new.files = {} /\ DOMAIN new.sav = {}
      /\ ~Listable(new)
  <2>1. NoDirectory.sav = <<>>
    BY DEF NoDirectory
  <2>2. /\ new \in Directory /\ new.there /\ new.files = {} /\ new.sav = <<>>
    BY <2>1, StartTypes DEF Directory
  <2> QED
    BY <2>2 DEF Listable
<1> HIDE DEF new
<1>4. \A s \in Slots : disk'[s] = IF s = save.target THEN new ELSE disk[s]
  BY <1>1, <1>2
<1>5. /\ (Dumping' <=> Dumping) /\ (Moving' <=> Moving) /\ (Rewriting' <=> Rewriting)
      /\ (Moving <=> save.override) /\ (Rewriting <=> save.override)
  BY <1>1 DEF Moving, Rewriting, Dumping
<1>6. SavesTypeOK'
  BY <1>1, <1>2, <1>3, <1>4 DEF IInv, SavesTypeOK, Phases
<1>7. DiskInv' /\ WindowInv' /\ SavedOnce'
  BY <1>1, <1>2, <1>3, <1>4 DEF IInv, DiskInv, WindowInv, SavedOnce, SaveInv, SavesTypeOK
<1>8. SaveInv'
  BY <1>1, <1>2, <1>3, <1>4 DEF IInv, SaveInv, WrittenAt
<1>9. RunInv'
  BY <1>1, <1>2, <1>4, <1>5 DEF IInv, RunInv, SavesTypeOK
<1>10. Retained' = Retained /\ (Retained # {} => running # None /\ running \in Slots)
  BY <1>1 DEF Retained, IInv, PlaceInv, SavesTypeOK
<1>11. BlobInv'
  BY <1>1, <1>5, <1>10 DEF IInv, BlobInv
<1>12. PlaceInv'
  BY <1>1, <1>4, <1>5, <1>10 DEF IInv, PlaceInv, RunInv
<1>13. CopyInv'
  BY <1>1 DEF CopyInv
<1> QED
  BY <1>6, <1>7, <1>8, <1>9, <1>11, <1>12, <1>13 DEF IInv

\* Writing one more file to the target.
LEMMA WrittenIs ==
  ASSUME IInv, phase \in DOMAIN WrittenAt, NEW file \in Files
  PROVE  /\ Written(file) \in [Slots -> Directory]
         /\ \A s \in Slots \ {save.target} : Written(file)[s] = disk[s]
         /\ Written(file)[save.target].files = WrittenAt[phase] \cup {file}
         /\ Written(file)[save.target].there
         /\ Written(file)[save.target].sav = disk[save.target].sav
<1>1. save.target \in Slots /\ disk \in [Slots -> Directory]
  BY AtWork DEF WrittenAt
<1>2. disk[save.target] \in Directory /\ disk[save.target].there
      /\ disk[save.target].files = WrittenAt[phase]
  BY <1>1 DEF IInv, SaveInv
<1>3. Written(file)[save.target] = [disk[save.target] EXCEPT !.files = @ \cup {file}]
  BY <1>1 DEF Written
<1>4. [disk[save.target] EXCEPT !.files = @ \cup {file}] \in Directory
  BY <1>2 DEF Directory
<1> QED
  BY <1>1, <1>2, <1>3, <1>4 DEF Written, Directory

\* What a step that writes one file leaves as it was, and what it must still show.
LEMMA WritingPreserves ==
  ASSUME IInv, phase \in DOMAIN WrittenAt, phase' \in DOMAIN WrittenAt,
         disk' \in [Slots -> Directory],
         disk'[save.target].there, disk'[save.target].files = WrittenAt[phase'],
         \A s \in Slots \ {save.target} : disk'[s] = disk[s],
         UNCHANGED <<listed, window, save, running>>
  PROVE  /\ DiskInv' /\ WindowInv' /\ SaveInv' /\ RunInv'
         /\ \A s \in Slots : disk'[s].files # {} => disk'[s].there
         /\ phase' \in Phases /\ (save.target = None <=> phase' \in {"menu", "play"})
<1>1. save.target \in Slots /\ ~window /\ save.target # None
  BY AtWork, NoneFacts DEF WrittenAt
<1>2. \A p \in DOMAIN WrittenAt :
        /\ p \in {"worldmap", "compress", "game", "preview"}
        /\ "bmp" \notin WrittenAt[p]
  BY DEF WrittenAt
<1>3. ~Listable(disk'[save.target])
  BY <1>2 DEF Listable
<1>4. /\ ~Listable(disk[save.target]) /\ disk[save.target].there
  BY <1>2 DEF IInv, SaveInv, Listable
<1>5. DiskInv'
  BY <1>1, <1>3, <1>4 DEF IInv, DiskInv
<1>6. WindowInv'
  BY <1>1 DEF WindowInv
<1>7. SaveInv'
  BY <1>1, <1>2, <1>3 DEF IInv, SaveInv
<1>8. RunInv'
  <2>1. (Rewriting' <=> save.override) /\ (Rewriting <=> save.override)
    BY <1>2 DEF Rewriting
  <2>2. running # None => running \in Slots /\ running \in listed
                       /\ (~save.override => Listable(disk[running]))
    BY <2>1 DEF IInv, RunInv, SavesTypeOK
  <2>3. phase' # "menu" /\ phase' # "delete"
    BY <1>2
  <2> QED
    BY <2>1, <2>2, <2>3 DEF IInv, RunInv
<1>9. /\ \A s \in Slots : disk'[s].files # {} => disk'[s].there
      /\ phase' \in Phases /\ (save.target = None <=> phase' \in {"menu", "play"})
  BY <1>1, <1>2 DEF IInv, SavesTypeOK, Phases
<1> QED
  BY <1>5, <1>6, <1>7, <1>8, <1>9

\* Writing the world map keeps the invariant.
LEMMA WriteWorldMapPreserves == IInv /\ WriteWorldMap => IInv'
<1> SUFFICES ASSUME IInv, WriteWorldMap PROVE IInv'
  OBVIOUS
<1>1. /\ phase = "worldmap" /\ phase' = "compress" /\ disk' = Written("wmp")
      /\ cached' = [a \in Areas |-> IF a \in InMemory THEN loaded[a] ELSE cached[a]]
      /\ UNCHANGED <<listed, window, save, running, located, newLocated, blob, loaded, changes>>
  BY DEF WriteWorldMap
<1>2. /\ phase \in DOMAIN WrittenAt /\ phase' \in DOMAIN WrittenAt /\ "wmp" \in Files
      /\ WrittenAt[phase'] = WrittenAt[phase] \cup {"wmp"}
  BY <1>1 DEF WrittenAt, Files
<1>3. /\ disk' \in [Slots -> Directory] /\ save.target \in Slots
      /\ \A s \in Slots \ {save.target} : disk'[s] = disk[s]
      /\ disk'[save.target].sav = disk[save.target].sav
      /\ disk'[save.target].there /\ disk'[save.target].files = WrittenAt[phase']
  BY <1>1, <1>2, WrittenIs, AtWork
<1>4. /\ DiskInv' /\ WindowInv' /\ SaveInv' /\ RunInv'
      /\ \A s \in Slots : disk'[s].files # {} => disk'[s].there
      /\ phase' \in Phases /\ (save.target = None <=> phase' \in {"menu", "play"})
  BY <1>1, <1>2, <1>3, WritingPreserves
<1>5. SavesTypeOK'
  BY <1>1, <1>3, <1>4 DEF IInv, SavesTypeOK
<1>6. SavedOnce'
  BY <1>3 DEF IInv, SavedOnce
<1>7. /\ (Dumping' <=> Dumping) /\ (Moving' <=> Moving) /\ (Moving <=> save.override)
      /\ Retained' = Retained /\ (Retained # {} => running # None /\ running \in Slots)
  BY <1>1 DEF Moving, Dumping, Retained, IInv, PlaceInv, SavesTypeOK
<1>8. BlobInv'
  BY <1>1, <1>7 DEF IInv, BlobInv
<1>9. PlaceInv'
  <2>1. \A a \in Retained : cached'[a] = Nothing /\ loaded[a] = Nothing
    BY <1>1 DEF IInv, PlaceInv, InMemory, Retained
  <2> QED
    BY <1>1, <1>3, <1>7, <2>1 DEF IInv, PlaceInv, RunInv
<1>10. CopyInv'
  BY <1>1 DEF CopyInv, InMemory
<1> QED
  BY <1>4, <1>5, <1>6, <1>8, <1>9, <1>10 DEF IInv

\* Where the world is: what is retained is in the file of the running save, or
\* in the blob, and what is neither there nor in memory is in the cache, if at all.
WorldInParts ==
  [a \in Areas |-> IF a \in Retained THEN Source[Place(a)].version
                   ELSE IF loaded[a] # Nothing THEN loaded[a]
                   ELSE IF cached[a] # Nothing THEN cached[a] ELSE 0]

\* The world, area by area, from where each area is.
LEMMA WorldIs == SavesTypeOK /\ PlaceInv => World = WorldInParts
<1> SUFFICES ASSUME SavesTypeOK, PlaceInv, NEW a \in Areas PROVE World[a] = WorldInParts[a]
  BY DEF World, WorldInParts
<1>1. a \in Retained => a \notin InMemory
  BY DEF PlaceInv, InMemory, Retained
<1>2. cached[a] \in Versions \cup {Nothing}
  BY DEF SavesTypeOK
<1>3. cached[a] \in Int /\ (cached[a] >= 0 <=> cached[a] # Nothing)
  BY <1>2, SaveBoundsAssumption DEF Nothing, Versions
<1>4. Max({cached[a], 0}) = IF cached[a] # Nothing THEN cached[a] ELSE 0
  BY <1>3, MaxWithZero
<1>5. World[a] = IF a \in InMemory THEN loaded[a]
                 ELSE IF a \in Retained THEN Source[Place(a)].version
                 ELSE Max({cached[a], 0})
  BY DEF World
<1>6. a \in InMemory <=> loaded[a] # Nothing
  BY DEF InMemory
<1> QED
  BY <1>1, <1>4, <1>5, <1>6 DEF WorldInParts

\* Every area of the world has a version.
LEMMA WorldHasVersions ==
  ASSUME IInv
  PROVE  World \in [Areas -> Versions]
<1>1. \A a \in Retained : Source[Place(a)] \in Entries
  <2> TAKE a \in Retained
  <2>1. CASE Moving
    BY <2>1 DEF IInv, SavesTypeOK, BlobInv, Source, Place, Moving, Dumping
  <2>2. CASE ~Moving
    <3>1. disk[running].sav \in Seq(Entries) /\ located[a] \in DOMAIN disk[running].sav
      BY <2>2, ExtractedTypes DEF IInv, PlaceInv
    <3> QED
      BY <2>2, <3>1 DEF Source, Place
  <2> QED
    BY <2>1, <2>2
<1>2. \A a \in Retained : Source[Place(a)].version \in Versions
  BY <1>1 DEF Entries
<1>3. \A a \in Areas : World[a] \in Versions
  BY <1>2, StartTypes, WorldIs DEF IInv, SavesTypeOK, WorldInParts
<1> QED
  BY <1>3 DEF World

\* Writing a file to a directory that is not read keeps the world.
LEMMA WorldStays ==
  ASSUME IInv, SavesTypeOK', PlaceInv', ~Moving, ~Moving', UNCHANGED <<running, located, loaded, cached>>,
         running # None => disk'[running].sav = disk[running].sav
  PROVE  World' = World
<1>1. Retained' = Retained /\ (Retained # {} => running # None)
  BY DEF Retained, IInv, PlaceInv
<1>2. \A a \in Retained : Source'[Place(a)'] = Source[Place(a)]
  BY <1>1 DEF Source, Place
<1>3. World = WorldInParts /\ World' = WorldInParts'
  <2>1. (SavesTypeOK /\ PlaceInv => World = WorldInParts)'
    BY WorldIs, PTL
  <2> QED
    BY <2>1, WorldIs DEF IInv
<1> QED
  BY <1>1, <1>2, <1>3 DEF WorldInParts

\* Writing the game keeps the invariant.
LEMMA WriteGamePreserves == IInv /\ WriteGame => IInv'
<1> SUFFICES ASSUME IInv, WriteGame PROVE IInv'
  OBVIOUS
<1>1. /\ phase = "game" /\ phase' = "preview" /\ disk' = Written("gam")
      /\ UNCHANGED <<listed, window, save, running, located, newLocated, blob, cached, loaded,
                     changes>>
  BY DEF WriteGame, memory
<1>2. /\ phase \in DOMAIN WrittenAt /\ phase' \in DOMAIN WrittenAt /\ "gam" \in Files
      /\ WrittenAt[phase'] = WrittenAt[phase] \cup {"gam"}
  BY <1>1 DEF WrittenAt, Files
<1>3. /\ disk' \in [Slots -> Directory] /\ save.target \in Slots
      /\ \A s \in Slots \ {save.target} : disk'[s] = disk[s]
      /\ disk'[save.target].sav = disk[save.target].sav
      /\ disk'[save.target].there /\ disk'[save.target].files = WrittenAt[phase']
  BY <1>1, <1>2, WrittenIs, AtWork
<1>4. /\ DiskInv' /\ WindowInv' /\ SaveInv' /\ RunInv'
      /\ \A s \in Slots : disk'[s].files # {} => disk'[s].there
      /\ phase' \in Phases /\ (save.target = None <=> phase' \in {"menu", "play"})
  BY <1>1, <1>2, <1>3, WritingPreserves
<1>5. SavesTypeOK'
  BY <1>1, <1>3, <1>4 DEF IInv, SavesTypeOK
<1>6. SavedOnce'
  BY <1>3 DEF IInv, SavedOnce
<1>7. /\ ~Dumping /\ ~Dumping' /\ ~Moving /\ ~Moving'
      /\ Retained' = Retained /\ (running # None => running \in Slots)
      /\ (Retained # {} => running # None)
  BY <1>1 DEF Moving, Dumping, Retained, IInv, PlaceInv, SavesTypeOK
<1>8. BlobInv'
  BY <1>1, <1>7 DEF IInv, BlobInv
<1>9. running # None => disk'[running].sav = disk[running].sav
  BY <1>3, <1>7
<1>10. PlaceInv'
  BY <1>1, <1>7, <1>9 DEF IInv, PlaceInv
<1>11. World' = World
  BY <1>1, <1>5, <1>7, <1>9, <1>10, WorldStays
<1>12. CopyInv'
  <2>1. Unpacked(disk[save.target].sav) = World
    BY <1>1 DEF IInv, CopyInv
  <2>2. Unpacked(disk[save.target].sav)' = Unpacked(disk[save.target].sav)
    BY <1>1, <1>3 DEF Unpacked
  <2> QED
    BY <1>1, <1>11, <2>1, <2>2 DEF CopyInv
<1> QED
  BY <1>4, <1>5, <1>6, <1>8, <1>10, <1>12 DEF IInv

\* Whatever ends a save that did not replace the one that is running, or that
\* has been written to the end.
LEMMA FinishingPreserves ==
  ASSUME IInv, phase \notin {"menu", "play", "delete"}, phase' = "play", save' = NoSave,
         disk' \in [Slots -> Directory],
         \A s \in Slots : disk'[s].files # {} => disk'[s].there,
         \A s \in Slots : disk'[s].sav = disk[s].sav,
         UNCHANGED <<listed, window, running, located, newLocated, blob, cached, loaded, changes>>,
         DiskInv', ~Dumping, running # None => Listable(disk'[running])
  PROVE  IInv'
<1>1. /\ NoSave.override = FALSE /\ NoSave.target = None /\ NoSave.old = None
      /\ ~window /\ save'.override = FALSE
  BY AtWork DEF NoSave
<1>2. ~Dumping' /\ ~Moving' /\ ~Rewriting' /\ ~Moving
  BY <1>1 DEF Dumping, Moving, Rewriting
<1>3. SavesTypeOK'
  BY <1>1, StartTypes DEF IInv, SavesTypeOK, Phases
<1>4. WindowInv' /\ SavedOnce'
  BY <1>1 DEF IInv, WindowInv, SavedOnce
<1>5. SaveInv'
  BY <1>1 DEF SaveInv, WrittenAt
<1>6. RunInv'
  BY <1>1, <1>2 DEF IInv, RunInv
<1>7. Retained' = Retained /\ (running # None => running \in Slots)
  BY DEF Retained, IInv, SavesTypeOK
<1>8. BlobInv' /\ PlaceInv'
  BY <1>1, <1>2, <1>7 DEF IInv, BlobInv, PlaceInv
<1>9. CopyInv'
  BY DEF CopyInv
<1> QED
  BY <1>3, <1>4, <1>5, <1>6, <1>8, <1>9 DEF IInv

\* Writing the preview, after which the directory is a save, keeps the invariant.
LEMMA WritePreviewPreserves == IInv /\ WritePreview => IInv'
<1> SUFFICES ASSUME IInv, WritePreview PROVE IInv'
  OBVIOUS
<1>1. /\ phase = "preview" /\ phase' = "play" /\ save' = NoSave /\ disk' = Written("bmp")
      /\ UNCHANGED <<listed, window, running, located, newLocated, blob, cached, loaded,
                     changes>>
  BY DEF WritePreview, memory
<1>2. /\ phase \in DOMAIN WrittenAt /\ "bmp" \in Files
      /\ WrittenAt[phase] \cup {"bmp"} = Files
  BY <1>1 DEF WrittenAt, Files
<1>3. /\ disk' \in [Slots -> Directory] /\ save.target \in Slots
      /\ \A s \in Slots \ {save.target} : disk'[s] = disk[s]
      /\ disk'[save.target].sav = disk[save.target].sav
      /\ disk'[save.target].there /\ disk'[save.target].files = Files
  BY <1>1, <1>2, WrittenIs, AtWork
<1>4. \A s \in Slots : disk'[s].sav = disk[s].sav /\ (disk'[s].files # {} => disk'[s].there)
  BY <1>3 DEF IInv, SavesTypeOK
<1>5. DiskInv'
  BY <1>3 DEF IInv, DiskInv
<1>6. ~Dumping
  BY <1>1 DEF Dumping
<1>7. Listable(disk'[save.target])
  BY <1>3 DEF Listable, Files
<1>8. running # None => Listable(disk'[running])
  BY <1>1, <1>3, <1>7 DEF IInv, RunInv, Rewriting, SavesTypeOK
<1> QED
  BY <1>1, <1>3, <1>4, <1>5, <1>6, <1>8, FinishingPreserves

\* A file that cannot be written ends saving and keeps the invariant.
LEMMA FailPreserves ==
  ASSUME ~RunningFails, IInv, Fail
  PROVE  IInv'
<1>1. /\ phase \in {"path", "worldmap", "compress", "game", "preview"} /\ ~save.override
      /\ phase' = "play" /\ save' = NoSave
      /\ UNCHANGED <<disk, listed, window, running, located, newLocated, blob, cached, loaded,
                     changes>>
  BY DEF Fail, memory, RunningFails
<1>2. ~Dumping /\ ~Rewriting
  BY <1>1 DEF Dumping, Rewriting
<1>3. /\ disk' \in [Slots -> Directory] /\ DiskInv'
      /\ \A s \in Slots : disk'[s].sav = disk[s].sav /\ (disk'[s].files # {} => disk'[s].there)
      /\ running # None => Listable(disk'[running])
  BY <1>1, <1>2 DEF IInv, SavesTypeOK, DiskInv, RunInv
<1> QED
  BY <1>1, <1>2, <1>3, FinishingPreserves

--------------------------------------------------------------------------
(* The areas are packed *)

\* No area is in a list of entries twice.
Single(entries) ==
  \A i, j \in DOMAIN entries : entries[i].area = entries[j].area => i = j

\* Two lists that share no area are one after the other, and nothing else.
LEMMA JoinedEntries ==
  ASSUME NEW s \in Seq(Entries), NEW t \in Seq(Entries), Single(s), Single(t),
         \A i \in DOMAIN s, j \in DOMAIN t : s[i].area # t[j].area
  PROVE  /\ s \o t \in Seq(Entries) /\ Single(s \o t)
         /\ \A i \in DOMAIN (s \o t) :
              \/ \E j \in DOMAIN s : (s \o t)[i] = s[j]
              \/ \E j \in DOMAIN t : (s \o t)[i] = t[j]
         /\ \A j \in DOMAIN s : j \in DOMAIN (s \o t) /\ (s \o t)[j] = s[j]
         /\ \A j \in DOMAIN t :
              Len(s) + j \in DOMAIN (s \o t) /\ (s \o t)[Len(s) + j] = t[j]
<1>1. /\ s \o t \in Seq(Entries) /\ Len(s \o t) = Len(s) + Len(t)
      /\ Len(s) \in Nat /\ Len(t) \in Nat
      /\ DOMAIN s = 1..Len(s) /\ DOMAIN t = 1..Len(t) /\ DOMAIN (s \o t) = 1..Len(s) + Len(t)
  OBVIOUS
<1>2. \A i \in 1..Len(s) + Len(t) :
        (s \o t)[i] = IF i <= Len(s) THEN s[i] ELSE t[i - Len(s)]
  BY <1>1
<1>3. \A j \in DOMAIN s : j \in DOMAIN (s \o t) /\ (s \o t)[j] = s[j]
  BY <1>1, <1>2
<1>4. \A j \in DOMAIN t :
        Len(s) + j \in DOMAIN (s \o t) /\ (s \o t)[Len(s) + j] = t[j]
  BY <1>1, <1>2
<1>5. \A i \in DOMAIN (s \o t) :
        \/ i \in DOMAIN s /\ (s \o t)[i] = s[i]
        \/ i - Len(s) \in DOMAIN t /\ (s \o t)[i] = t[i - Len(s)]
  BY <1>1, <1>2
<1>6. Single(s \o t)
  <2> SUFFICES ASSUME NEW i \in DOMAIN (s \o t), NEW j \in DOMAIN (s \o t),
                      (s \o t)[i].area = (s \o t)[j].area
               PROVE  i = j
    BY DEF Single
  <2>1. i \in Int /\ j \in Int
    BY <1>1
  <2>2. CASE i \in DOMAIN s /\ (s \o t)[i] = s[i]
    BY <1>5, <2>2 DEF Single
  <2>3. CASE i - Len(s) \in DOMAIN t /\ (s \o t)[i] = t[i - Len(s)]
    <3>1. j - Len(s) \in DOMAIN t /\ (s \o t)[j] = t[j - Len(s)]
      BY <1>5, <2>3
    <3>2. i - Len(s) = j - Len(s)
      BY <2>3, <3>1 DEF Single
    <3> QED
      BY <1>1, <2>1, <3>2
  <2> QED
    BY <1>5, <2>2, <2>3
<1> QED
  BY <1>1, <1>3, <1>4, <1>5, <1>6

\* The two parts of a list, before and after a place in it.
LEMMA CutEntries ==
  ASSUME NEW s \in Seq(Entries), Single(s), NEW k \in 0..Len(s)
  PROVE  /\ SubSeq(s, 1, k) \in Seq(Entries) /\ SubSeq(s, k + 1, Len(s)) \in Seq(Entries)
         /\ Len(SubSeq(s, 1, k)) = k
         /\ Single(SubSeq(s, 1, k)) /\ Single(SubSeq(s, k + 1, Len(s)))
         /\ \A i \in DOMAIN SubSeq(s, 1, k) : i \in DOMAIN s /\ SubSeq(s, 1, k)[i] = s[i]
         /\ \A i \in DOMAIN SubSeq(s, k + 1, Len(s)) :
              k + i \in DOMAIN s /\ SubSeq(s, k + 1, Len(s))[i] = s[k + i]
         /\ \A i \in DOMAIN s :
              \/ i \in DOMAIN SubSeq(s, 1, k)
              \/ i - k \in DOMAIN SubSeq(s, k + 1, Len(s))
         /\ \A i \in DOMAIN SubSeq(s, 1, k), j \in DOMAIN SubSeq(s, k + 1, Len(s)) :
              SubSeq(s, 1, k)[i].area # SubSeq(s, k + 1, Len(s))[j].area
<1> DEFINE b == SubSeq(s, 1, k)
           e == SubSeq(s, k + 1, Len(s))
<1>1. Len(s) \in Nat /\ k \in Nat /\ k <= Len(s) /\ DOMAIN s = 1..Len(s)
  OBVIOUS
<1>2. /\ b \in Seq(Entries) /\ Len(b) = k /\ DOMAIN b = 1..k
      /\ \A i \in 1..k : b[i] = s[i]
  BY <1>1
<1>3. /\ e \in Seq(Entries) /\ DOMAIN e = 1..(Len(s) - k)
      /\ \A i \in 1..(Len(s) - k) : e[i] = s[k + i]
  BY <1>1
<1> HIDE DEF b, e
<1>4. \A i \in DOMAIN b : i \in DOMAIN s /\ b[i] = s[i] /\ i <= k /\ i \in Nat
  BY <1>1, <1>2
<1>5. \A i \in DOMAIN e : k + i \in DOMAIN s /\ e[i] = s[k + i] /\ i > 0 /\ i \in Nat
  BY <1>1, <1>3
<1>6. \A i \in DOMAIN s : i \in DOMAIN b \/ i - k \in DOMAIN e
  BY <1>1, <1>2, <1>3
<1>7. Single(b)
  BY <1>4 DEF Single
<1>8. Single(e)
  <2> SUFFICES ASSUME NEW i \in DOMAIN e, NEW j \in DOMAIN e, e[i].area = e[j].area
               PROVE  i = j
    BY DEF Single
  <2>1. k + i = k + j
    BY <1>5 DEF Single
  <2> QED
    BY <1>1, <1>5, <2>1
<1>9. \A i \in DOMAIN b, j \in DOMAIN e : b[i].area # e[j].area
  <2> SUFFICES ASSUME NEW i \in DOMAIN b, NEW j \in DOMAIN e, b[i].area = e[j].area
               PROVE  FALSE
    OBVIOUS
  <2>1. i = k + j
    BY <1>4, <1>5 DEF Single
  <2> QED
    BY <1>1, <1>4, <1>5, <2>1
<1> QED
  BY <1>2, <1>3, <1>4, <1>5, <1>6, <1>7, <1>8, <1>9 DEF b, e

\* The files of the cache, once each.
LEMMA CacheFiles ==
  ASSUME SavesTypeOK, NEW files \in CacheOrders
  PROVE  /\ files \in Seq(Entries) /\ Single(files)
         /\ \A i \in DOMAIN files :
              /\ files[i].area \in Areas /\ cached[files[i].area] # Nothing
              /\ files[i].version = cached[files[i].area]
         /\ \A a \in Areas : cached[a] # Nothing => \E i \in DOMAIN files : files[i].area = a
<1> DEFINE T == {b \in Areas : cached[b] # Nothing}
           f == [a \in T |-> cached[a]]
<1>1. T \in SUBSET Areas /\ f \in [T -> Versions]
  BY DEF SavesTypeOK
<1>2. {Entry(a, cached[a]) : a \in T} = {Entry(a, f[a]) : a \in T}
  OBVIOUS
<1>3. files \in SetToSeqs({Entry(a, f[a]) : a \in T})
  BY <1>2 DEF CacheOrders
<1>4. /\ files \in Seq(Entries)
      /\ \A i, j \in DOMAIN files : files[i].area = files[j].area => i = j
      /\ \A i \in DOMAIN files : files[i].area \in T /\ files[i].version = f[files[i].area]
      /\ \A a \in T : \E i \in DOMAIN files : files[i].area = a
  <2> HIDE DEF T, f
  <2> QED
    BY <1>1, <1>3, OrdersOfEntries
<1> QED
  BY <1>4 DEF Single

\* What CompressSave makes of the world.
Packed(entries) ==
  /\ entries \in Seq(Entries) /\ Single(entries) /\ Saved(entries)
  /\ \A i \in DOMAIN entries : entries[i].version = World[entries[i].area]
  /\ \A a \in Areas : World[a] # 0 => \E i \in DOMAIN entries : entries[i].area = a
  /\ located' \in [Areas -> Nat] /\ newLocated' = Nowhere
  /\ \A a \in Areas : located'[a] # 0 <=> located[a] # 0
  /\ ~save.override => located' = located
  /\ save.override => \A a \in Retained :
       located'[a] \in DOMAIN entries /\ entries[located'[a]].area = a

\* While a save is packed, what is in memory is in the cache as well.
LEMMA WorldToPack ==
  ASSUME IInv, phase = "compress", NEW a \in Areas
  PROVE  /\ a \in Retained => World[a] = Source[Place(a)].version /\ cached[a] = Nothing
         /\ a \notin Retained => World[a] = IF cached[a] # Nothing THEN cached[a] ELSE 0
<1>1. World[a] = WorldInParts[a]
  BY WorldIs DEF IInv
<1>2. loaded[a] # Nothing => cached[a] = loaded[a]
  BY DEF IInv, CopyInv, InMemory
<1>3. a \in Retained => cached[a] = Nothing
  BY DEF IInv, PlaceInv
<1> QED
  BY <1>1, <1>2, <1>3 DEF WorldInParts

\* To another slot: what is retained is copied from the running save.
LEMMA RetainedArePacked ==
  ASSUME IInv, phase = "compress", ~save.override, CompressRetained
  PROVE  \E entries : Packed(entries)
<1>1. PICK copied \in SetToSeqs({Entry(a, Extracted(a)) : a \in Retained}),
           files \in CacheOrders : Saved(copied \o files)
  BY DEF CompressRetained
<1>2. located' = located /\ newLocated' = newLocated
  BY DEF CompressRetained
<1>3. ~Moving /\ ~Dumping
  BY DEF Moving, Dumping
<1> DEFINE f == [a \in Retained |-> Extracted(a)]
<1>4. Retained \in SUBSET Areas /\ f \in [Retained -> Versions]
  BY <1>3, ExtractedTypes DEF Retained
<1>5. {Entry(a, Extracted(a)) : a \in Retained} = {Entry(a, f[a]) : a \in Retained}
  OBVIOUS
<1>6. copied \in SetToSeqs({Entry(a, f[a]) : a \in Retained})
  BY <1>1, <1>5
<1>7. /\ copied \in Seq(Entries)
      /\ \A i, j \in DOMAIN copied : copied[i].area = copied[j].area => i = j
      /\ \A i \in DOMAIN copied : copied[i].area \in Retained
                                 /\ copied[i].version = f[copied[i].area]
      /\ \A a \in Retained : \E i \in DOMAIN copied : copied[i].area = a
  <2> HIDE DEF f
  <2> QED
    BY <1>4, <1>6, OrdersOfEntries
<1>8. Single(copied)
  BY <1>7 DEF Single
<1>9. /\ files \in Seq(Entries) /\ Single(files)
      /\ \A i \in DOMAIN files :
           /\ files[i].area \in Areas /\ cached[files[i].area] # Nothing
           /\ files[i].version = cached[files[i].area]
      /\ \A a \in Areas : cached[a] # Nothing => \E i \in DOMAIN files : files[i].area = a
  BY CacheFiles DEF IInv
<1>10. \A i \in DOMAIN copied : copied[i].version = World[copied[i].area]
  <2> TAKE i \in DOMAIN copied
  <2>1. copied[i].area \in Retained /\ copied[i].area \in Areas
    BY <1>4, <1>7
  <2>2. copied[i].version = Extracted(copied[i].area)
    BY <1>7, <2>1
  <2> QED
    BY <1>3, <2>1, <2>2, WorldToPack DEF Extracted, Source, Place
<1>11. \A i \in DOMAIN files :
         files[i].area \notin Retained /\ files[i].version = World[files[i].area]
  BY <1>9, WorldToPack
<1>12. \A a \in Areas : World[a] # 0 =>
         (\E i \in DOMAIN copied : copied[i].area = a) \/ \E i \in DOMAIN files : files[i].area = a
  BY <1>7, <1>9, WorldToPack
<1>13. \A i \in DOMAIN copied, j \in DOMAIN files : copied[i].area # files[j].area
  BY <1>7, <1>11
<1>14. copied \in Seq(Entries) /\ files \in Seq(Entries) /\ Single(files)
  BY <1>7, <1>9
<1> DEFINE entries == copied \o files
<1>15. /\ entries \in Seq(Entries) /\ Single(entries)
       /\ \A i \in DOMAIN entries : \/ \E j \in DOMAIN copied : entries[i] = copied[j]
                                    \/ \E j \in DOMAIN files : entries[i] = files[j]
       /\ \A j \in DOMAIN copied : j \in DOMAIN entries /\ entries[j] = copied[j]
       /\ \A j \in DOMAIN files :
            Len(copied) + j \in DOMAIN entries /\ entries[Len(copied) + j] = files[j]
  BY <1>8, <1>13, <1>14, JoinedEntries, ZenonT(30)
<1> HIDE DEF entries
<1>16. \A i \in DOMAIN entries : entries[i].version = World[entries[i].area]
  BY <1>10, <1>11, <1>15
<1>17. \A a \in Areas : World[a] # 0 => \E i \in DOMAIN entries : entries[i].area = a
  BY <1>12, <1>15
<1>18. located' \in [Areas -> Nat] /\ newLocated' = Nowhere
  BY <1>2, <1>3 DEF IInv, SavesTypeOK, BlobInv
<1>19. Saved(entries)
  BY <1>1 DEF entries
<1> QED
  BY <1>2, <1>15, <1>16, <1>17, <1>18, <1>19 DEF Packed

\* Over the running save: what is retained comes from the blob.
LEMMA BlobIsPacked ==
  ASSUME IInv, phase = "compress", save.override, CompressBlob
  PROVE  \E entries : Packed(entries)
<1>0. PICK files \in CacheOrders : \E k \in 0..Len(files) :
        /\ Saved(SubSeq(files, 1, k) \o blob \o SubSeq(files, k + 1, Len(files)))
        /\ IF blob = <<>> THEN UNCHANGED <<located, newLocated>>
           ELSE located' = Moved(k) /\ newLocated' = Nowhere
  BY DEF CompressBlob
<1>1. PICK k \in 0..Len(files) :
        /\ Saved(SubSeq(files, 1, k) \o blob \o SubSeq(files, k + 1, Len(files)))
        /\ IF blob = <<>> THEN UNCHANGED <<located, newLocated>>
           ELSE located' = Moved(k) /\ newLocated' = Nowhere
  BY <1>0
<1>2. Moving /\ Dumping
  BY DEF Moving, Dumping
<1>3. /\ files \in Seq(Entries) /\ Single(files)
      /\ \A i \in DOMAIN files :
           /\ files[i].area \in Areas /\ cached[files[i].area] # Nothing
           /\ files[i].version = cached[files[i].area]
      /\ \A a \in Areas : cached[a] # Nothing => \E i \in DOMAIN files : files[i].area = a
  BY CacheFiles DEF IInv
<1>4. /\ blob \in Seq(Entries) /\ newLocated \in [Areas -> Nat] /\ located \in [Areas -> Nat]
      /\ \A a \in Areas : newLocated[a] # 0 <=> located[a] # 0
      /\ \A a \in Retained :
           a \in Areas /\ newLocated[a] \in DOMAIN blob /\ blob[newLocated[a]].area = a
      /\ \A i \in DOMAIN blob :
           blob[i].area \in Retained /\ newLocated[blob[i].area] = i
  BY <1>2 DEF IInv, SavesTypeOK, BlobInv, Retained
<1>5. Single(blob)
  BY <1>4 DEF Single
<1>6. \A i \in DOMAIN blob : blob[i].version = World[blob[i].area]
  BY <1>2, <1>4, WorldToPack DEF Source, Place
<1>7. \A i \in DOMAIN files :
        files[i].area \notin Retained /\ files[i].version = World[files[i].area]
  BY <1>3, WorldToPack
<1>8. \A a \in Areas : World[a] # 0 =>
        (\E i \in DOMAIN blob : blob[i].area = a) \/ \E i \in DOMAIN files : files[i].area = a
  BY <1>3, <1>4, WorldToPack
<1> DEFINE b == SubSeq(files, 1, k)
           e == SubSeq(files, k + 1, Len(files))
           bb == b \o blob
           entries == bb \o e
<1>9. /\ b \in Seq(Entries) /\ e \in Seq(Entries) /\ Len(b) = k /\ Single(b) /\ Single(e)
      /\ \A i \in DOMAIN b : i \in DOMAIN files /\ b[i] = files[i]
      /\ \A i \in DOMAIN e : k + i \in DOMAIN files /\ e[i] = files[k + i]
      /\ \A i \in DOMAIN files : i \in DOMAIN b \/ i - k \in DOMAIN e
      /\ \A i \in DOMAIN b, j \in DOMAIN e : b[i].area # e[j].area
  BY <1>3, CutEntries
<1>10. Saved(entries)
  BY <1>1
<1> HIDE DEF b, e
<1>11. \A i \in DOMAIN b, j \in DOMAIN blob : b[i].area # blob[j].area
  BY <1>4, <1>7, <1>9
<1>12. /\ bb \in Seq(Entries) /\ Single(bb)
       /\ \A i \in DOMAIN bb : \/ \E j \in DOMAIN b : bb[i] = b[j]
                               \/ \E j \in DOMAIN blob : bb[i] = blob[j]
       /\ \A j \in DOMAIN b : j \in DOMAIN bb /\ bb[j] = b[j]
       /\ \A j \in DOMAIN blob : k + j \in DOMAIN bb /\ bb[k + j] = blob[j]
  <2>1. b \in Seq(Entries) /\ blob \in Seq(Entries) /\ Single(b)
    BY <1>4, <1>9
  <2>2. /\ bb \in Seq(Entries) /\ Single(bb)
        /\ \A i \in DOMAIN bb : \/ \E j \in DOMAIN b : bb[i] = b[j]
                                \/ \E j \in DOMAIN blob : bb[i] = blob[j]
        /\ \A j \in DOMAIN b : j \in DOMAIN bb /\ bb[j] = b[j]
        /\ \A j \in DOMAIN blob : Len(b) + j \in DOMAIN bb /\ bb[Len(b) + j] = blob[j]
    BY <1>5, <1>11, <2>1, JoinedEntries, ZenonT(30)
  <2> HIDE DEF bb
  <2> QED
    BY <1>9, <2>2
<1> HIDE DEF bb
<1>13. \A i \in DOMAIN bb, j \in DOMAIN e : bb[i].area # e[j].area
  BY <1>4, <1>7, <1>9, <1>12
<1>14. /\ entries \in Seq(Entries) /\ Single(entries)
       /\ \A i \in DOMAIN entries : \/ \E j \in DOMAIN bb : entries[i] = bb[j]
                                    \/ \E j \in DOMAIN e : entries[i] = e[j]
       /\ \A j \in DOMAIN bb : j \in DOMAIN entries /\ entries[j] = bb[j]
       /\ \A j \in DOMAIN e :
            Len(bb) + j \in DOMAIN entries /\ entries[Len(bb) + j] = e[j]
  BY <1>9, <1>12, <1>13, JoinedEntries
<1> HIDE DEF entries
<1>15. \A i \in DOMAIN entries : entries[i].version = World[entries[i].area]
  <2>1. \A i \in DOMAIN b : b[i].version = World[b[i].area]
    BY <1>7, <1>9
  <2>2. \A i \in DOMAIN e : e[i].version = World[e[i].area]
    BY <1>7, <1>9
  <2>3. \A i \in DOMAIN bb : bb[i].version = World[bb[i].area]
    BY <1>6, <1>12, <2>1
  <2> QED
    BY <1>14, <2>2, <2>3
<1>16. \A i \in DOMAIN files : \E j \in DOMAIN entries : entries[j].area = files[i].area
  <2> TAKE i \in DOMAIN files
  <2>1. CASE i \in DOMAIN b
    BY <1>9, <1>12, <1>14, <2>1
  <2>2. CASE i - k \in DOMAIN e
    <3>1. i \in Int /\ k \in Int /\ k + (i - k) = i
      BY <1>3
    <3>2. e[i - k] = files[i]
      BY <1>9, <2>2, <3>1
    <3> QED
      BY <1>14, <2>2, <3>2
  <2> QED
    BY <1>9, <2>1, <2>2
<1>17. \A j \in DOMAIN blob : k + j \in DOMAIN entries /\ entries[k + j] = blob[j]
  BY <1>12, <1>14
<1>18. \A a \in Areas : World[a] # 0 => \E i \in DOMAIN entries : entries[i].area = a
  BY <1>8, <1>16, <1>17
<1>19. CASE blob = <<>>
  <2>1. Retained = {}
    BY <1>4, <1>19
  <2>2. \A a \in Areas : newLocated[a] = 0
    BY <1>4, <2>1 DEF Retained
  <2>3. newLocated = Nowhere
    BY <1>4, <2>2 DEF Nowhere
  <2> QED
    BY <1>1, <1>4, <1>10, <1>14, <1>15, <1>18, <1>19, <2>1, <2>3 DEF Packed
<1>20. CASE blob # <<>>
  <2>1. located' = Moved(k) /\ newLocated' = Nowhere /\ k \in Nat
    BY <1>1, <1>20
  <2>2. \A a \in Areas : located'[a] = IF newLocated[a] = 0 THEN 0 ELSE newLocated[a] + k
    BY <2>1 DEF Moved
  <2>3. located' \in [Areas -> Nat] /\ \A a \in Areas : located'[a] # 0 <=> located[a] # 0
    BY <1>4, <2>1, <2>2 DEF Moved
  <2>4. \A a \in Retained : located'[a] \in DOMAIN entries /\ entries[located'[a]].area = a
    <3> TAKE a \in Retained
    <3>1. newLocated[a] # 0 /\ newLocated[a] \in Nat /\ located'[a] = k + newLocated[a]
      BY <1>4, <2>1, <2>2 DEF Retained
    <3> QED
      BY <1>4, <1>17, <3>1
  <2> QED
    BY <1>10, <1>14, <1>15, <1>18, <2>1, <2>3, <2>4 DEF Packed
<1> QED
  BY <1>19, <1>20

\* Unpacking gives back what was packed.
LEMMA UnpackedIsPacked ==
  ASSUME IInv, NEW entries, Packed(entries)
  PROVE  Unpacked(entries) = World
<1> SUFFICES ASSUME NEW a \in Areas PROVE Unpacked(entries)[a] = World[a]
  BY DEF Unpacked, World
<1>1. entries \in Seq(Entries)
  BY DEF Packed
<1>2. Unpacked(entries)[a] =
        IF FirstOf(entries, a) = 0 THEN 0 ELSE entries[FirstOf(entries, a)].version
  BY DEF Unpacked
<1>3. CASE FirstOf(entries, a) = 0
  BY <1>1, <1>2, <1>3, FirstOfFinds DEF Packed
<1>4. CASE FirstOf(entries, a) # 0
  BY <1>1, <1>2, <1>4, FirstOfFinds DEF Packed
<1> QED
  BY <1>3, <1>4

\* Packing moves what is retained, if the running save is replaced, and keeps the world.
LEMMA CompressSavePreserves == IInv /\ CompressSave => IInv' /\ World' = World
<1> SUFFICES ASSUME IInv, CompressSave PROVE IInv' /\ World' = World
  OBVIOUS
<1>1. /\ phase = "compress" /\ phase' = "game"
      /\ UNCHANGED <<listed, window, save, running, blob, cached, loaded, changes>>
  BY DEF CompressSave
<1>2. PICK entries : Packed(entries)
  BY <1>1, RetainedArePacked, BlobIsPacked DEF CompressSave
<1>3. /\ phase \in DOMAIN WrittenAt /\ phase' \in DOMAIN WrittenAt /\ "sav" \in Files
      /\ WrittenAt[phase'] = WrittenAt[phase] \cup {"sav"}
  BY <1>1 DEF WrittenAt, Files
<1>4. save.target \in Slots
  BY <1>1, AtWork
<1>5. entries \in Seq(Entries) /\ Single(entries) /\ Saved(entries)
  BY <1>2 DEF Packed
<1>6. /\ disk' \in [Slots -> Directory]
      /\ \A s \in Slots \ {save.target} : disk'[s] = disk[s]
      /\ disk'[save.target].sav = entries
      /\ disk'[save.target].there /\ disk'[save.target].files = WrittenAt[phase']
  <2> DEFINE w == Written("sav")
  <2>1. /\ w \in [Slots -> Directory] /\ w[save.target] \in Directory
        /\ \A s \in Slots \ {save.target} : w[s] = disk[s]
        /\ w[save.target].files = WrittenAt[phase'] /\ w[save.target].there
    BY <1>3, <1>4, WrittenIs
  <2>2. disk' = [w EXCEPT ![save.target].sav = entries]
    BY <1>5 DEF Saved
  <2> HIDE DEF w
  <2>3. disk'[save.target] = [w[save.target] EXCEPT !.sav = entries]
    BY <1>4, <2>1, <2>2
  <2>4. /\ [w[save.target] EXCEPT !.sav = entries] \in Directory
        /\ [w[save.target] EXCEPT !.sav = entries].sav = entries
        /\ [w[save.target] EXCEPT !.sav = entries].files = w[save.target].files
        /\ [w[save.target] EXCEPT !.sav = entries].there = w[save.target].there
    BY <1>5, <2>1 DEF Directory
  <2>5. \A s \in Slots \ {save.target} : disk'[s] = w[s]
    BY <1>4, <2>1, <2>2
  <2>6. disk' \in [Slots -> Directory]
    BY <1>4, <2>1, <2>2, <2>4
  <2> QED
    BY <2>1, <2>3, <2>4, <2>5, <2>6
<1>7. /\ DiskInv' /\ WindowInv' /\ SaveInv' /\ RunInv'
      /\ \A s \in Slots : disk'[s].files # {} => disk'[s].there
      /\ phase' \in Phases /\ (save.target = None <=> phase' \in {"menu", "play"})
  BY <1>1, <1>3, <1>6, WritingPreserves
<1>8. located' \in [Areas -> Nat] /\ newLocated' = Nowhere
  BY <1>2 DEF Packed
<1>9. SavesTypeOK'
  BY <1>1, <1>6, <1>7, <1>8, StartTypes DEF IInv, SavesTypeOK
<1>10. SavedOnce'
  BY <1>5, <1>6 DEF IInv, SavedOnce, Single
<1>11. /\ Retained' = Retained /\ ~Moving' /\ ~Dumping'
       /\ (Moving <=> save.override)
  BY <1>1, <1>2 DEF Packed, Retained, Moving, Dumping
<1>12. BlobInv'
  BY <1>1, <1>8, <1>11 DEF BlobInv
<1>13. /\ save.override => running = save.target
       /\ running # None => running \in Slots
       /\ running # None /\ ~save.override => running # save.target
       /\ Retained # {} => running # None
  BY DEF IInv, RunInv, SavesTypeOK, PlaceInv
<1>14. \A a \in Retained :
         /\ located'[a] \in DOMAIN disk'[running].sav
         /\ disk'[running].sav[located'[a]].area = a
         /\ disk'[running].sav[located'[a]].version = World[a]
  <2> TAKE a \in Retained
  <2>1. a \in Areas
    BY DEF Retained
  <2>2. CASE save.override
    <3>1. located'[a] \in DOMAIN entries /\ entries[located'[a]].area = a
      BY <1>2, <2>2 DEF Packed
    <3>2. entries[located'[a]].version = World[a]
      BY <1>2, <3>1 DEF Packed
    <3> QED
      BY <1>6, <1>13, <2>2, <3>1, <3>2
  <2>3. CASE ~save.override
    <3>1. located' = located /\ disk'[running].sav = disk[running].sav
      BY <1>2, <1>6, <1>13, <2>3 DEF Packed
    <3>2. World[a] = disk[running].sav[located[a]].version
      BY <1>1, <1>11, <2>1, <2>3, WorldToPack DEF Source, Place
    <3> QED
      BY <1>11, <2>3, <3>1, <3>2 DEF IInv, PlaceInv
  <2> QED
    BY <2>2, <2>3
<1>15. PlaceInv'
  BY <1>1, <1>11, <1>14 DEF IInv, PlaceInv
<1>16. World' = World
  <2>1. (SavesTypeOK /\ PlaceInv => World = WorldInParts)'
    BY WorldIs, PTL
  <2>2. World = WorldInParts /\ World' = WorldInParts'
    BY <1>9, <1>15, <2>1, WorldIs DEF IInv
  <2>3. Source' = disk'[running].sav /\ \A a \in Retained : Place(a)' = located'[a]
    BY <1>1, <1>11 DEF Source, Place
  <2>4. \A a \in Retained : Source'[Place(a)'].version = World[a]
    BY <1>14, <2>3
  <2> QED
    BY <1>1, <1>11, <2>2, <2>4 DEF WorldInParts
<1>17. CopyInv'
  <2>1. Unpacked(entries) = World
    BY <1>2, UnpackedIsPacked
  <2>2. Unpacked(disk[save.target].sav)' = Unpacked(entries)
    BY <1>1, <1>6 DEF Unpacked
  <2> QED
    BY <1>1, <1>16, <2>1, <2>2 DEF CopyInv
<1> QED
  BY <1>7, <1>9, <1>10, <1>12, <1>15, <1>16, <1>17 DEF IInv

--------------------------------------------------------------------------
(* Theorems *)

LEMMA StepPreserves ==
  ASSUME IInv, [SaveNext /\ ~Mishap]_saveVars
  PROVE  IInv'
<1>0. CASE SaveNext /\ ~Mishap
  <2>0. /\ ~RunningMistaken /\ ~StaleBlob /\ ~RunningDeleted
        /\ ~RunningFails /\ ~TornDelete
    BY <1>0 DEF Mishap
  <2>1. CASE NewGame
    BY <2>1, NewGamePreserves
  <2>2. CASE QuitGame
    BY <2>2, QuitPreserves
  <2>3. CASE Die
    BY <2>3, DiePreserves
  <2>4. CASE OpenWindow
    BY <2>4, OpenWindowPreserves
  <2>5. CASE CloseWindow
    BY <2>5, CloseWindowPreserves
  <2>6. CASE QuickSave
    BY <2>6, <2>0, QuickSavePreserves
  <2>7. CASE DeleteSaveGame
    BY <2>7, DeleteSaveGamePreserves
  <2>8. CASE CreateSavePath
    BY <2>8, CreateSavePathPreserves
  <2>9. CASE WriteWorldMap
    BY <2>9, WriteWorldMapPreserves
  <2>10. CASE CompressSave
    BY <2>10, CompressSavePreserves
  <2>11. CASE WriteGame
    BY <2>11, WriteGamePreserves
  <2>12. CASE WritePreview
    BY <2>12, WritePreviewPreserves
  <2>13. CASE Fail
    BY <2>13, <2>0, FailPreserves
  <2>14. ASSUME NEW a \in Areas, Enter(a) \/ Leave(a) \/ Change(a) PROVE IInv'
    BY <2>14, EnterPreserves, LeavePreserves, ChangePreserves
  <2>15. ASSUME NEW n \in Names, SaveNew(n) PROVE IInv'
    BY <2>15, <2>0, SaveNewPreserves
  <2>16. ASSUME NEW s \in Slots, LoadGame(s) \/ Delete(s) \/ DieDeleting(s) PROVE IInv'
    BY <2>16, <2>0, LoadPreserves, DeletePreserves, DieDeletingPreserves
  <2>17. ASSUME NEW s \in Slots, NEW n \in Names \cup {Quick},
                Slot(s.id, n) \in Slots, SaveOver(s, n)
         PROVE  IInv'
    BY <2>17, <2>0, SaveOverPreserves
  <2> QED
    BY <1>0, <2>1, <2>2, <2>3, <2>4, <2>5, <2>6, <2>7, <2>8, <2>9, <2>10, <2>11, <2>12, <2>13,
       <2>14, <2>15, <2>16, <2>17
       DEF SaveNext
<1>1. CASE UNCHANGED saveVars
  <2>1. UNCHANGED <<disk, listed, window, phase, save, running, located, newLocated, blob, cached,
                    loaded, changes>>
    BY <1>1 DEF saveVars, memory
  <2>2. SavesTypeOK' /\ DiskInv' /\ WindowInv' /\ SaveInv' /\ RunInv' /\ SavedOnce'
    BY <2>1 DEF IInv, SavesTypeOK, DiskInv, WindowInv, SaveInv, RunInv, SavedOnce, Rewriting
  <2>3. BlobInv' /\ PlaceInv' /\ CopyInv'
    BY <2>1 DEF IInv, BlobInv, PlaceInv, CopyInv, Retained, InMemory, Dumping, Moving, Extracted,
           World, Source, Place, Unpacked
  <2> QED
    BY <2>2, <2>3 DEF IInv
<1> QED
  BY <1>0, <1>1

\* The conjunction of types, disk, running save, blob, places and saves that
\* every step of SaveGameIterator, the extractor and the game keeps.
THEOREM InvHolds == SafeSpec => []IInv
<1>1. IInv /\ [SaveNext /\ ~Mishap]_saveVars => IInv'
  BY StepPreserves
<1> QED
  BY InitHolds, <1>1, PTL DEF SafeSpec

\* Every variable of saving and loading keeps its type, and CreateSaveGame
\* has a save to make as long as it runs.
THEOREM TypeCorrect == SafeSpec => []SavesTypeOK
<1>1. IInv => SavesTypeOK
  BY DEF IInv
<1> QED
  BY <1>1, InvHolds, PTL

\* Whatever has been loaded, entered, left, saved, overwritten, deleted, cut
\* short or not been written, every area that is retained leads to its own
\* entry of a file that is there (SaveGameAREExtractor::extractByEntry), for any
\* areas, names and numbers.
THEOREM LocationsAlwaysLead == SafeSpec => []LocationsLead
<1>1. IInv => LocationsLead
  <2> SUFFICES ASSUME IInv, NEW a \in Retained
               PROVE  /\ Moving \/ Opens
                      /\ Place(a) \in DOMAIN Source
                      /\ Source[Place(a)].area = a
    BY DEF LocationsLead
  <2>1. CASE Moving
    BY <2>1 DEF IInv, BlobInv, Moving, Dumping, Place, Source
  <2>2. CASE ~Moving
    <3>1. running # None /\ running \in Slots
      BY DEF IInv, PlaceInv, SavesTypeOK
    <3>2. "sav" \in disk[running].files
      <4>1. CASE Rewriting
        <5>1. phase \in {"game", "preview"} /\ running = save.target
          BY <2>2, <3>1, <4>1 DEF Moving, Rewriting, IInv, RunInv
        <5>2. phase \in DOMAIN WrittenAt /\ "sav" \in WrittenAt[phase]
          BY <5>1 DEF WrittenAt
        <5> QED
          BY <5>1, <5>2 DEF IInv, SaveInv
      <4>2. CASE ~Rewriting
        BY <3>1, <4>2 DEF IInv, RunInv, DiskInv, Files
      <4> QED
        BY <4>1, <4>2
    <3> QED
      BY <2>2, <3>1, <3>2 DEF Opens, IInv, PlaceInv, Place, Source
  <2> QED
    BY <2>1, <2>2
<1> QED
  BY <1>1, InvHolds, PTL

--------------------------------------------------------------------------
(* What waits in the save that runs is nowhere else *)

\* A location for what has been dumped is held only while it is being saved.
Deferred == save.override /\ phase \in {"delete", "path", "worldmap", "compress"}

KeptInv ==
  /\ KeptOnce
  /\ located = [a \in Areas |-> located[a]] /\ newLocated = [a \in Areas |-> newLocated[a]]
  /\ cached = [a \in Areas |-> cached[a]] /\ loaded = [a \in Areas |-> loaded[a]]
  /\ \A a \in Areas : newLocated[a] # 0 => Deferred /\ a \in Retained /\ blob # <<>>
  /\ phase \in {"menu", "play"} => save = NoSave
  /\ window => phase \in {"menu", "play"}

\* To replace the cache of areas at one of them.
LEMMA AtOneArea ==
  ASSUME NEW f, f = [a \in Areas |-> f[a]], NEW b \in Areas, NEW v
  PROVE  /\ [f EXCEPT ![b] = v] = [a \in Areas |-> [f EXCEPT ![b] = v][a]]
         /\ \A a \in Areas : [f EXCEPT ![b] = v][a] = IF a = b THEN v ELSE f[a]
OBVIOUS

\* FirstOf is not 0 for what is there only, whatever the versions are.
LEMMA RegisteredIsThere ==
  ASSUME NEW entries, NEW n \in Nat, DOMAIN entries = 1..n, Len(entries) = n, NEW a,
         FirstOf(entries, a) # 0
  PROVE  n # 0 /\ \E i \in 1..n : entries[i].area = a
<1> DEFINE I == {i \in 1..Len(entries) : entries[i].area = a}
<1>1. FirstOf(entries, a) = IF I # {} THEN Min(I) ELSE 0
  BY DEF FirstOf, SelectInSeq
<1>2. PICK i \in I : TRUE
  BY <1>1
<1> QED
  BY <1>2

\* What is dumped is what is retained.
LEMMA DumpsRetained ==
  ASSUME NEW old, Dumped(old), ~(UNCHANGED <<blob, newLocated>>)
  PROVE  /\ IsRunning(old) /\ newLocated' = [a \in Areas |-> newLocated'[a]]
         /\ \A a \in Areas : newLocated'[a] # 0 => a \in Retained /\ blob' # <<>>
<1>1. PICK order \in SetToSeqs(Retained) :
        /\ blob' = [i \in DOMAIN order |-> Entry(order[i], Extracted(order[i]))]
        /\ newLocated' = Registered(blob')
  BY DEF Dumped
<1>2. IsFiniteSet(Retained)
  BY AreasAssumption, FS_Subset DEF Retained
<1>3. Cardinality(Retained) \in Nat /\ order \in [1..Cardinality(Retained) -> Retained]
  BY <1>2, OrdersAreComplete
<1> DEFINE n == Cardinality(Retained)
<1>4. DOMAIN blob' = 1..n /\ Len(blob') = n /\ \A i \in 1..n : blob'[i].area \in Retained
  <2>1. blob' = [i \in 1..n |-> Entry(order[i], Extracted(order[i]))]
    BY <1>1, <1>3
  <2>2. \A i \in 1..n : blob'[i].area = order[i]
    BY <2>1 DEF Entry
  <2> QED
    BY <1>3, <2>1, <2>2
<1>5. ASSUME NEW a \in Areas, newLocated'[a] # 0
      PROVE  a \in Retained /\ blob' # <<>>
  <2>1. FirstOf(blob', a) # 0
    BY <1>1, <1>5 DEF Registered
  <2>2. n # 0 /\ \E i \in 1..n : blob'[i].area = a
    BY <1>3, <1>4, <2>1, RegisteredIsThere
  <2> QED
    BY <1>3, <1>4, <2>2
<1> QED
  BY <1>1, <1>5 DEF Dumped, Registered

\* The first state, and the steps that begin or end a game.
LEMMA KeptStarts ==
  ASSUME NEW s, NEW places, GameStarted(s, places), places = [a \in Areas |-> places[a]],
         save' = NoSave, phase' \in {"menu", "play"}
  PROVE  KeptInv'
BY DEF GameStarted, KeptInv, KeptOnce, Retained, Nowhere, NoAreas, Nothing

\* CreateSaveGame begins.
LEMMA CreateKeeps ==
  ASSUME KeptInv, NEW old, NEW target, CreateSaveGame(old, target)
  PROVE  KeptInv'
<1>1. /\ phase = "play" /\ Dumped(old) /\ phase' \in {"path", "delete"}
      /\ save' = [old |-> old, target |-> target, override |-> IsRunning(old)]
      /\ window' = FALSE /\ UNCHANGED <<located, cached, loaded>>
  BY DEF CreateSaveGame
<1>2. save'.override = IsRunning(old)
  BY <1>1
<1>3. \A a \in Areas : newLocated[a] = 0
  BY <1>1 DEF KeptInv, Deferred
<1>4. \A a \in Areas : newLocated'[a] # 0 => Deferred' /\ a \in Retained' /\ blob' # <<>>
  BY <1>1, <1>2, <1>3, DumpsRetained DEF Deferred, Retained
<1>5. newLocated' = [a \in Areas |-> newLocated'[a]]
  BY <1>1, DumpsRetained DEF KeptInv
<1> QED
  BY <1>1, <1>4, <1>5 DEF KeptInv, KeptOnce, Retained

\* CompressSave moves the locations with what has been dumped.
LEMMA CompressKeeps ==
  ASSUME KeptInv, CompressSave
  PROVE  KeptInv'
<1>1. /\ phase = "compress" /\ phase' = "game"
      /\ UNCHANGED <<save, window, running, blob, cached, loaded>>
  BY DEF CompressSave
<1>2. CASE UNCHANGED <<located, newLocated>> /\ \A a \in Areas : newLocated[a] = 0
  BY <1>1, <1>2 DEF KeptInv, KeptOnce, Retained
<1>3. CASE save.override /\ blob # <<>>
  <2>1. PICK k \in Nat : located' = Moved(k) /\ newLocated' = Nowhere
    BY <1>3 DEF CompressSave, CompressBlob
  <2>2. \A a \in Areas : located'[a] # 0 => a \in Retained
    BY <2>1 DEF Moved, KeptInv
  <2> QED
    BY <1>1, <2>1, <2>2 DEF KeptInv, KeptOnce, Retained, Moved, Nowhere
<1>4. CASE ~save.override
  BY <1>2, <1>4 DEF CompressSave, CompressRetained, KeptInv, Deferred
<1>5. CASE save.override /\ blob = <<>>
  BY <1>2, <1>5 DEF CompressSave, CompressBlob, KeptInv
<1> QED
  BY <1>3, <1>4, <1>5

\* Every other step, but the failing of the save that runs.
LEMMA KeptStep ==
  ASSUME KeptInv, [SaveNext /\ ~RunningFails]_saveVars
  PROVE  KeptInv'
<1>1. CASE /\ UNCHANGED <<located, newLocated, blob, cached, loaded, phase, save>>
           /\ window' => window \/ phase \in {"menu", "play"}
  BY <1>1 DEF KeptInv, KeptOnce, Retained, Deferred
<1>2. CASE UNCHANGED saveVars
  BY <1>1, <1>2 DEF saveVars, memory
<1> SUFFICES ASSUME SaveNext, ~RunningFails PROVE KeptInv'
  BY <1>2
<1>3. CASE NewGame
  BY <1>3, KeptStarts DEF NewGame, Nowhere, KeptInv
<1>4. CASE QuitGame \/ Die
  BY <1>4, KeptStarts DEF QuitGame, Die, GameEnded, Nowhere
<1>5. CASE OpenWindow \/ CloseWindow
  BY <1>1, <1>5 DEF OpenWindow, CloseWindow, memory
<1>6. CASE QuickSave
  BY <1>6, CreateKeeps DEF QuickSave
<1>7. CASE DeleteSaveGame \/ CreateSavePath
  BY <1>7 DEF DeleteSaveGame, CreateSavePath, memory, KeptInv, KeptOnce, Retained, Deferred
<1>8. CASE WriteWorldMap
  <2>1. \A a \in Areas : loaded[a] = Nothing => cached'[a] = cached[a]
    BY <1>8 DEF WriteWorldMap, InMemory
  <2> QED
    BY <1>8, <2>1 DEF WriteWorldMap, KeptInv, KeptOnce, Retained, Deferred
<1>9. CASE CompressSave
  BY <1>9, CompressKeeps
<1>10. CASE WriteGame
  BY <1>10 DEF WriteGame, memory, KeptInv, KeptOnce, Retained, Deferred
<1>11. CASE WritePreview
  BY <1>11 DEF WritePreview, memory, KeptInv, KeptOnce, Retained, Deferred
<1>12. CASE Fail
  BY <1>12 DEF Fail, RunningFails, memory, KeptInv, KeptOnce, Retained, Deferred
<1>13. ASSUME NEW a \in Areas, Enter(a) PROVE KeptInv'
  <2>1. /\ phase = "play" /\ UNCHANGED <<newLocated, blob, window, phase, save>>
    BY <1>13 DEF Enter, Playing
  <2>2. \A b \in Areas : newLocated[b] = 0
    BY <2>1 DEF KeptInv, Deferred
  <2>3. \E v : \/ /\ located' = [located EXCEPT ![a] = 0]
                  /\ cached' = [cached EXCEPT ![a] = v] /\ loaded' = [loaded EXCEPT ![a] = v]
               \/ /\ a \notin Retained /\ loaded' = [loaded EXCEPT ![a] = v]
                  /\ UNCHANGED <<located, cached>>
    BY <1>13 DEF Enter
  <2> QED
    BY <2>1, <2>2, <2>3, AtOneArea DEF KeptInv, KeptOnce, Retained
<1>14. ASSUME NEW a \in Areas, Leave(a) PROVE KeptInv'
  <2>1. /\ loaded[a] # Nothing /\ cached' = [cached EXCEPT ![a] = loaded[a]]
        /\ loaded' = [loaded EXCEPT ![a] = Nothing]
        /\ UNCHANGED <<located, newLocated, blob, window, phase, save>>
    BY <1>14 DEF Leave, InMemory
  <2> QED
    BY <2>1, AtOneArea DEF KeptInv, KeptOnce, Retained, Deferred
<1>15. ASSUME NEW a \in Areas, Change(a) PROVE KeptInv'
  <2>1. /\ loaded[a] # Nothing /\ loaded' = [loaded EXCEPT ![a] = changes']
        /\ UNCHANGED <<located, newLocated, blob, cached, window, phase, save>>
    BY <1>15 DEF Change, InMemory
  <2> QED
    BY <2>1, AtOneArea DEF KeptInv, KeptOnce, Retained, Deferred
<1>16. ASSUME NEW n \in Names, SaveNew(n) PROVE KeptInv'
  BY <1>16, CreateKeeps DEF SaveNew
<1>17. ASSUME NEW s \in Slots, NEW n \in Names \cup {Quick}, SaveOver(s, n) PROVE KeptInv'
  BY <1>17, CreateKeeps DEF SaveOver
<1>18. ASSUME NEW s \in Slots, LoadGame(s) PROVE KeptInv'
  <2>1. /\ GameStarted(s, Registered(disk[s].sav)) /\ phase' = "play"
        /\ save' = NoSave
    BY <1>18 DEF LoadGame, KeptInv
  <2> QED
    BY <1>18, <2>1, KeptStarts DEF Registered
<1>19. ASSUME NEW s \in Slots, Delete(s) PROVE KeptInv'
  BY <1>1, <1>19 DEF Delete, memory
<1>20. ASSUME NEW s \in Slots, DieDeleting(s) PROVE KeptInv'
  BY <1>20, KeptStarts DEF DieDeleting, GameEnded, Nowhere
<1> QED
  BY <1>3, <1>4, <1>5, <1>6, <1>7, <1>8, <1>9, <1>10, <1>11, <1>12, <1>13, <1>14, <1>15,
     <1>16, <1>17, <1>18, <1>19, <1>20
     DEF SaveNext

\* An area that waits in the save that runs is neither in memory nor in the
\* cache, so that it is never written twice from there: not after the running
\* save is deleted, renamed, taken for another, or replaced with an old blob in
\* the cache; only if it cannot be written again is this not known.
THEOREM AlwaysKeptOnce == UnfailingSpec => []KeptOnce
<1>1. SaveInit => KeptInv
  BY DEF SaveInit, KeptInv, KeptOnce, Retained, Nowhere, NoAreas
<1>2. KeptInv /\ [SaveNext /\ ~RunningFails]_saveVars => KeptInv'
  BY KeptStep
<1>3. KeptInv => KeptOnce
  BY DEF KeptInv
<1> QED
  BY <1>1, <1>2, <1>3, PTL DEF UnfailingSpec

--------------------------------------------------------------------------
(* SaveGames implements WorldSaves *)

\* The mapping.
Played == IF phase = "menu" THEN None ELSE World
Kept == [s \in Slots |-> IF Listable(disk[s]) THEN Unpacked(disk[s].sav) ELSE None]

\* What is played and what is kept, read off the parts of the world.
LEMMA WorldsAre ==
  ASSUME IInv, IInv'
  PROVE  /\ World = WorldInParts /\ World' = WorldInParts'
         /\ World \in [Areas -> Versions] /\ World # None
<1>1. (SavesTypeOK /\ PlaceInv => World = WorldInParts)'
  BY WorldIs, PTL
<1> QED
  BY <1>1, WorldIs, WorldHasVersions, NoneAssumption DEF IInv

\* A save is kept exactly if it is listed.
LEMMA KeptIs ==
  ASSUME IInv, NEW s \in Slots
  PROVE  /\ Listable(disk[s]) => Kept[s] = Unpacked(disk[s].sav) /\ Kept[s] # None
         /\ ~Listable(disk[s]) => Kept[s] = None
<1>1. disk[s] \in Directory /\ disk[s].sav \in Seq(Entries)
  BY DEF IInv, SavesTypeOK, Directory
<1>2. Unpacked(disk[s].sav) \in [Areas -> Versions]
  <2> SUFFICES ASSUME NEW a \in Areas PROVE Unpacked(disk[s].sav)[a] \in Versions
    BY DEF Unpacked
  <2>1. FirstOf(disk[s].sav, a) # 0 => disk[s].sav[FirstOf(disk[s].sav, a)] \in Entries
    BY <1>1, FirstOfFinds
  <2> QED
    BY <2>1, StartTypes DEF Unpacked, Entries
<1>3. Unpacked(disk[s].sav) # None
  BY <1>2, NoneAssumption
<1> QED
  BY <1>3 DEF Kept

\* A save that is removed is one that is kept no more.
LEMMA KeptLoses ==
  ASSUME IInv, NEW t \in Slots, NEW d, ~Listable(d), disk' = [disk EXCEPT ![t] = d]
  PROVE  /\ Kept' = [Kept EXCEPT ![t] = None] /\ Kept'[t] = None
         /\ ~Listable(disk[t]) => Kept' = Kept
<1>1. \A s \in Slots : disk'[s] = IF s = t THEN d ELSE disk[s]
  BY DEF IInv, SavesTypeOK
<1>2. \A s \in Slots : Kept'[s] = IF s = t THEN None ELSE Kept[s]
  BY <1>1 DEF Kept, Unpacked
<1> QED
  BY <1>2 DEF Kept

\* To delete a save is to lose it, if it was kept.
LEMMA LosesOrStutters ==
  ASSUME IInv, NEW t \in Slots, NEW d, ~Listable(d), disk' = [disk EXCEPT ![t] = d],
         Played' \in {Played, None}
  PROVE  Simple!Next \/ (UNCHANGED <<Played, Kept>>)
<1>1. CASE Listable(disk[t])
  <2>1. Simple!Lose(t)
    BY <1>1, KeptIs, KeptLoses DEF Simple!Lose, Played, Kept
  <2> QED
    BY <2>1 DEF Simple!Next
<1>2. CASE ~Listable(disk[t]) /\ Played' = Played
  BY <1>2, KeptLoses
<1>3. CASE ~Listable(disk[t]) /\ Played' = None
  <2>1. Simple!End
    BY <1>3, KeptLoses DEF Simple!End, Played, Kept
  <2> QED
    BY <2>1 DEF Simple!Next
<1> QED
  BY <1>1, <1>2, <1>3

\* The first state is one of WorldSaves.
LEMMA SimpleStarts == SaveInit => Simple!Init
<1> SUFFICES ASSUME SaveInit PROVE Simple!Init
  OBVIOUS
<1>1. phase = "menu" /\ \A s \in Slots : ~Listable(disk[s])
  BY DEF SaveInit, Listable, NoDirectory
<1> QED
  BY <1>1 DEF Simple!Init

\* NewGame starts a new world.
LEMMA NewGameStarts ==
  ASSUME IInv, IInv', NewGame
  PROVE  Simple!Start
<1>1. /\ phase = "menu" /\ phase' = "play" /\ disk' = disk
      /\ located' = Nowhere /\ loaded' = NoAreas /\ cached' = NoAreas
  BY DEF NewGame, GameStarted
<1>2. \A a \in Areas : World'[a] = 0
  BY <1>1, WorldsAre DEF WorldInParts, Retained, Nowhere, NoAreas
<1>3. World' = [a \in Areas |-> 0]
  BY <1>2, WorldsAre DEF WorldInParts
<1>4. Played = None /\ Played' = World' /\ Kept' = Kept
  BY <1>1 DEF Played, Kept, Unpacked
<1> QED
  BY <1>3, <1>4 DEF Simple!Start, Simple!New, Played, Kept

\* LoadGame starts the world that was kept.
LEMMA LoadLoads ==
  ASSUME IInv, IInv', NEW s \in Slots, LoadGame(s)
  PROVE  Simple!Load(s)
<1>1. /\ phase' = "play" /\ disk' = disk /\ running' = s /\ save' = save
      /\ located' = Registered(disk[s].sav) /\ loaded' = NoAreas /\ cached' = NoAreas
      /\ window /\ s \in listed /\ disk[s].files # {}
  BY DEF LoadGame, GameStarted
<1>2. Listable(disk[s])
  BY <1>1 DEF IInv, SavesTypeOK, WindowInv
<1>3. ~Moving'
  BY <1>1 DEF Moving
<1>4. \A a \in Areas : World'[a] = Unpacked(disk[s].sav)[a]
  <2> TAKE a \in Areas
  <2>1. located'[a] = FirstOf(disk[s].sav, a)
    BY <1>1 DEF Registered
  <2>2. a \in Retained' <=> located'[a] # 0
    BY DEF Retained
  <2>3. Source' = disk[s].sav /\ Place(a)' = located'[a]
    BY <1>1, <1>3 DEF Source, Place
  <2> QED
    BY <1>1, <2>1, <2>2, <2>3, WorldsAre DEF WorldInParts, NoAreas, Unpacked
<1>5. World' = Unpacked(disk[s].sav)
  BY <1>4, WorldsAre DEF WorldInParts, Unpacked
<1>6. Played' = World' /\ Kept' = Kept
  BY <1>1 DEF Played, Kept, Unpacked
<1> QED
  BY <1>2, <1>5, <1>6, KeptIs DEF Simple!Load, Played, Kept

\* Change changes the world that is played.
LEMMA ChangeChanges ==
  ASSUME IInv, IInv', NEW a \in Areas, Change(a)
  PROVE  Simple!Change(a)
<1>1. /\ phase = "play" /\ loaded[a] # Nothing /\ changes' = changes + 1
      /\ changes < MaxChanges /\ loaded' = [loaded EXCEPT ![a] = changes']
      /\ UNCHANGED <<disk, phase, save, running, located, newLocated, blob, cached>>
  BY DEF Change, Playing, InMemory
<1>2. changes' \in 1..MaxChanges /\ changes' # Nothing
  BY <1>1, SaveBoundsAssumption DEF IInv, SavesTypeOK, Versions, Nothing
<1>3. Retained' = Retained /\ a \notin Retained
  BY <1>1 DEF IInv, PlaceInv, Retained
<1>4. \A b \in Areas : loaded'[b] = IF b = a THEN changes' ELSE loaded[b]
  BY <1>1 DEF IInv, SavesTypeOK
<1>5. Source' = Source /\ \A b \in Areas : Place(b)' = Place(b)
  BY <1>1 DEF Source, Place, Moving
<1>6. \A b \in Areas : World'[b] = IF b = a THEN changes' ELSE World[b]
  BY <1>1, <1>2, <1>3, <1>4, <1>5, WorldsAre DEF WorldInParts
<1>7. World' = [World EXCEPT ![a] = changes']
  BY <1>6, WorldsAre DEF WorldInParts
<1>8. Played = World /\ Played' = World' /\ Kept' = Kept
  BY <1>1 DEF Played, Kept, Unpacked
<1> QED
  BY <1>2, <1>7, <1>8, WorldsAre DEF Simple!Change, Played, Kept

\* The steps that move an area, or write about it, and do not change the world.
LEMMA EnterStutters ==
  ASSUME IInv, IInv', NEW a \in Areas, Enter(a)
  PROVE  World' = World /\ Kept' = Kept
<1>1. /\ phase = "play" /\ loaded[a] = Nothing
      /\ UNCHANGED <<disk, phase, save, running, newLocated, blob, changes>>
  BY DEF Enter, Playing, InMemory
<1>2. ~Moving /\ ~Moving'
  BY <1>1, NotSaving DEF Moving
<1>3. Source' = Source /\ \A b \in Areas : Place(b) = located[b] /\ Place(b)' = located'[b]
  BY <1>1, <1>2 DEF Source, Place
<1>4. \A b \in Areas \ {a} : /\ located'[b] = located[b] /\ loaded'[b] = loaded[b]
                             /\ cached'[b] = cached[b]
  BY DEF Enter, IInv, SavesTypeOK
<1>5. \A b \in Areas : (b \in Retained <=> located[b] # 0) /\ (b \in Retained' <=> located'[b] # 0)
  BY DEF Retained
<1>6. World'[a] = World[a]
  <2>1. CASE a \in Retained
    <3>1. Extracted(a) \in Versions /\ Extracted(a) # Nothing
      BY <1>2, <2>1, ExtractedTypes, StartTypes
    <3>2. located'[a] = 0 /\ loaded'[a] = Extracted(a)
      BY <2>1 DEF Enter, IInv, SavesTypeOK
    <3>3. World'[a] = Extracted(a)
      BY <1>5, <3>1, <3>2, WorldsAre DEF WorldInParts
    <3>4. World[a] = Extracted(a)
      BY <1>2, <1>3, <2>1, WorldsAre DEF WorldInParts, Source, Extracted
    <3> QED
      BY <3>3, <3>4
  <2>2. CASE a \notin Retained
    <3>1. cached[a] \in Int /\ (cached[a] >= 0 <=> cached[a] # Nothing)
      <4>1. cached[a] \in Versions \cup {Nothing}
        BY DEF IInv, SavesTypeOK
      <4> QED
        BY <4>1, SaveBoundsAssumption DEF Nothing, Versions
    <3>2. Max({cached[a], 0}) = IF cached[a] # Nothing THEN cached[a] ELSE 0
      BY <3>1, MaxWithZero
    <3>3. located' = located /\ loaded'[a] = Max({cached[a], 0})
      BY <2>2 DEF Enter, IInv, SavesTypeOK
    <3>4. loaded'[a] # Nothing
      BY <3>1, <3>2, <3>3 DEF Nothing
    <3> QED
      BY <1>1, <1>5, <2>2, <3>2, <3>3, <3>4, WorldsAre DEF WorldInParts
  <2> QED
    BY <2>1, <2>2
<1>7. \A b \in Areas : World'[b] = World[b]
  BY <1>3, <1>4, <1>5, <1>6, WorldsAre DEF WorldInParts
<1> QED
  BY <1>1, <1>7, WorldsAre DEF Kept, Unpacked, WorldInParts

\* Leaving an area changes no world.
LEMMA LeaveStutters ==
  ASSUME IInv, IInv', NEW a \in Areas, Leave(a)
  PROVE  World' = World /\ Kept' = Kept
<1>1. /\ loaded[a] # Nothing
      /\ cached' = [cached EXCEPT ![a] = loaded[a]] /\ loaded' = [loaded EXCEPT ![a] = Nothing]
      /\ UNCHANGED <<disk, phase, save, running, located, newLocated, blob, changes>>
  BY DEF Leave, InMemory
<1>2. Source' = Source /\ Retained' = Retained /\ \A b \in Areas : Place(b)' = Place(b)
  BY <1>1 DEF Source, Place, Moving, Retained
<1>3. \A b \in Areas : /\ loaded'[b] = IF b = a THEN Nothing ELSE loaded[b]
                       /\ cached'[b] = IF b = a THEN loaded[a] ELSE cached[b]
  BY <1>1 DEF IInv, SavesTypeOK
<1>4. \A b \in Areas : World'[b] = World[b]
  BY <1>1, <1>2, <1>3, WorldsAre DEF WorldInParts
<1> QED
  BY <1>1, <1>4, WorldsAre DEF Kept, Unpacked, WorldInParts

\* The world does not depend on what is not read.
LEMMA WorldSame ==
  ASSUME IInv, IInv', UNCHANGED <<running, located, newLocated, loaded, cached>>,
         \A a \in Retained : Source'[Place(a)'].version = Source[Place(a)].version
  PROVE  World' = World
BY WorldsAre DEF WorldInParts, Retained

\* The beginning of CreateSaveGame changes no world.
LEMMA CreateStutters ==
  ASSUME IInv, IInv', NEW old, NEW target, CreateSaveGame(old, target)
  PROVE  World' = World /\ Kept' = Kept
<1>1. /\ phase = "play" /\ phase' = IF old = None THEN "path" ELSE "delete"
      /\ save' = [old |-> old, target |-> target, override |-> IsRunning(old)]
      /\ UNCHANGED <<disk, listed, running, located, cached, loaded, changes>>
  BY Zenon DEF CreateSaveGame
<1>2. ~Moving /\ ~Moving'
  BY <1>1, NotSaving DEF Moving, IsRunning
<1> QED
  BY <1>1, <1>2, WorldStays DEF Kept, Unpacked, IInv

\* DeleteSaveGame leaves the world that is played as it is.
LEMMA DeleteSaveGameKeepsWorld ==
  ASSUME IInv, IInv', DeleteSaveGame
  PROVE  World' = World
<1>1. /\ phase = "delete" /\ phase' = "path"
      /\ disk' = [disk EXCEPT ![save.old] = NoDirectory]
      /\ UNCHANGED <<save, running, located, newLocated, blob, cached, loaded>>
  BY DEF DeleteSaveGame, memory
<1>2. CASE save.override
  <2>1. ~Moving /\ Moving'
    BY <1>1, <1>2 DEF Moving
  <2>2. \A a \in Retained : Source'[Place(a)'].version = Source[Place(a)].version
    BY <1>1, <1>2, <2>1 DEF IInv, BlobInv, Source, Place, Extracted
  <2> QED
    BY <1>1, <2>2, WorldSame
<1>3. CASE ~save.override
  <2>1. ~Moving /\ ~Moving'
    BY <1>1, <1>3 DEF Moving
  <2>2. running # None => disk'[running].sav = disk[running].sav
    BY <1>1, <1>3 DEF IInv, RunInv, SavesTypeOK
  <2> QED
    BY <1>1, <2>1, <2>2, WorldStays DEF IInv
<1> QED
  BY <1>2, <1>3

\* Emptying the directory leaves the world that is played as it is.
LEMMA CreateSavePathKeepsWorld ==
  ASSUME IInv, IInv', CreateSavePath
  PROVE  World' = World
<1>1. /\ phase = "path" /\ phase' = "worldmap"
      /\ \E d : disk' = [disk EXCEPT ![save.target] = d]
      /\ UNCHANGED <<save, running, located, newLocated, blob, cached, loaded>>
  BY DEF CreateSavePath, memory
<1>2. CASE save.override
  <2>1. Moving /\ Moving'
    BY <1>1, <1>2 DEF Moving
  <2>2. \A a \in Retained : Source'[Place(a)'].version = Source[Place(a)].version
    BY <1>1, <2>1 DEF Source, Place
  <2> QED
    BY <1>1, <2>2, WorldSame
<1>3. CASE ~save.override
  <2>1. ~Moving /\ ~Moving'
    BY <1>1, <1>3 DEF Moving
  <2>2. running # None => disk'[running].sav = disk[running].sav
    BY <1>1, <1>3 DEF IInv, RunInv, SavesTypeOK
  <2> QED
    BY <1>1, <2>1, <2>2, WorldStays DEF IInv
<1> QED
  BY <1>2, <1>3

\* A file of a save that is not listed yet, nor after, is no loss.
LEMMA KeptStays ==
  ASSUME IInv, IInv', phase \in DOMAIN WrittenAt, phase' \in DOMAIN WrittenAt, save' = save,
         \A s \in Slots \ {save.target} : disk'[s] = disk[s]
  PROVE  Kept' = Kept
<1>1. ~Listable(disk[save.target]) /\ ~Listable(disk'[save.target])
  <2>1. \A p \in DOMAIN WrittenAt : "bmp" \notin WrittenAt[p]
    BY DEF WrittenAt
  <2> QED
    BY <2>1 DEF IInv, SaveInv, Listable
<1> QED
  BY <1>1 DEF Kept, Unpacked

\* Writing the world map changes no world.
LEMMA WriteWorldMapStutters ==
  ASSUME IInv, IInv', WriteWorldMap
  PROVE  World' = World /\ Kept' = Kept
<1>1. /\ phase = "worldmap" /\ phase' = "compress" /\ disk' = Written("wmp")
      /\ cached' = [a \in Areas |-> IF a \in InMemory THEN loaded[a] ELSE cached[a]]
      /\ UNCHANGED <<save, running, located, newLocated, blob, loaded>>
  BY DEF WriteWorldMap
<1>2. phase \in DOMAIN WrittenAt /\ phase' \in DOMAIN WrittenAt /\ "wmp" \in Files
  BY <1>1 DEF WrittenAt, Files
<1>3. \A s \in Slots \ {save.target} : disk'[s] = disk[s]
  BY <1>1, <1>2, WrittenIs
<1>4. Retained' = Retained /\ (Moving' <=> Moving) /\ (Moving <=> save.override)
  BY <1>1 DEF Retained, Moving
<1>5. \A a \in Retained : Source'[Place(a)'].version = Source[Place(a)].version
  <2>1. CASE Moving
    BY <1>1, <1>4, <2>1 DEF Source, Place
  <2>2. CASE ~Moving
    <3>1. running # None => disk'[running] = disk[running]
      BY <1>3, <1>4, <2>2 DEF IInv, RunInv, SavesTypeOK
    <3> QED
      BY <1>1, <1>4, <2>2, <3>1 DEF Source, Place, IInv, PlaceInv
  <2> QED
    BY <2>1, <2>2
<1>6. \A a \in Areas : loaded[a] = Nothing => cached'[a] = cached[a]
  BY <1>1 DEF InMemory
<1> QED
  BY <1>1, <1>2, <1>3, <1>4, <1>5, <1>6, WorldsAre, KeptStays DEF WorldInParts

\* Writing the game changes no world.
LEMMA WriteGameStutters ==
  ASSUME IInv, IInv', WriteGame
  PROVE  World' = World /\ Kept' = Kept
<1>1. /\ phase = "game" /\ phase' = "preview" /\ disk' = Written("gam")
      /\ UNCHANGED <<save, running, located, newLocated, blob, cached, loaded>>
  BY DEF WriteGame, memory
<1>2. phase \in DOMAIN WrittenAt /\ phase' \in DOMAIN WrittenAt /\ "gam" \in Files
  BY <1>1 DEF WrittenAt, Files
<1>3. \A s \in Slots : disk'[s].sav = disk[s].sav
  BY <1>1, <1>2, WrittenIs
<1>4. ~Moving /\ ~Moving' /\ (running # None => running \in Slots)
  BY <1>1 DEF Moving, IInv, SavesTypeOK
<1>5. World' = World
  BY <1>1, <1>3, <1>4, WorldStays DEF IInv
<1> QED
  BY <1>1, <1>2, <1>5, WrittenIs, KeptStays

\* A failure of saving changes no world.
LEMMA FailStutters ==
  ASSUME IInv, IInv', Fail, ~RunningFails
  PROVE  World' = World /\ Kept' = Kept
<1>1. ~save.override /\ save' = NoSave /\ UNCHANGED <<disk, running, located, cached, loaded>>
  BY DEF Fail, RunningFails, memory
<1>2. ~Moving /\ ~Moving'
  BY <1>1 DEF Moving, NoSave
<1> QED
  BY <1>1, <1>2, WorldStays DEF Kept, Unpacked, IInv

\* The last file makes the save: it is the world that is played.
LEMMA WritePreviewKeeps ==
  ASSUME IInv, IInv', WritePreview
  PROVE  Simple!Next
<1>1. /\ phase = "preview" /\ phase' = "play" /\ save' = NoSave /\ disk' = Written("bmp")
      /\ UNCHANGED <<running, located, newLocated, blob, cached, loaded>>
  BY DEF WritePreview, memory
<1>2. /\ phase \in DOMAIN WrittenAt /\ "bmp" \in Files
      /\ WrittenAt[phase] \cup {"bmp"} = Files /\ "bmp" \notin WrittenAt[phase]
  BY <1>1 DEF WrittenAt, Files
<1>3. /\ save.target \in Slots
      /\ \A s \in Slots \ {save.target} : disk'[s] = disk[s]
      /\ \A s \in Slots : disk'[s].sav = disk[s].sav
      /\ disk'[save.target].files = Files
  BY <1>1, <1>2, WrittenIs, AtWork
<1>4. ~Moving /\ ~Moving' /\ (running # None => running \in Slots)
  BY <1>1 DEF Moving, NoSave, IInv, SavesTypeOK
<1>5. World' = World
  BY <1>1, <1>3, <1>4, WorldStays DEF IInv
<1>6. ~Listable(disk[save.target]) /\ Listable(disk'[save.target])
  BY <1>2, <1>3 DEF Listable, Files, IInv, SaveInv
<1>7. Unpacked(disk[save.target].sav) = World
  BY <1>1 DEF IInv, CopyInv
<1>8. \A s \in Slots : Kept'[s] = IF s = save.target THEN World ELSE Kept[s]
  BY <1>3, <1>6, <1>7 DEF Kept, Unpacked
<1>9. Kept' = [Kept EXCEPT ![save.target] = World]
  BY <1>8 DEF Kept
<1>10. Played = World /\ Played' = World
  BY <1>1, <1>5 DEF Played
<1>11. Simple!Keep(save.target)
  BY <1>3, <1>6, <1>8, <1>9, <1>10, WorldsAre, KeptIs DEF Simple!Keep, Played, Kept
<1> QED
  BY <1>3, <1>11 DEF Simple!Next

\* Every step is one of WorldSaves, or changes nothing there.
LEMMA SimpleSteps ==
  ASSUME IInv, IInv', [SaveNext /\ ~Mishap]_saveVars
  PROVE  Simple!Next \/ UNCHANGED <<Played, Kept>>
<1>0. CASE UNCHANGED saveVars
  BY <1>0 DEF saveVars, memory, Played, Kept, Unpacked, World, InMemory, Retained, Source, Place, Moving
<1> SUFFICES ASSUME SaveNext, ~RunningDeleted, ~RunningFails, ~TornDelete
             PROVE  Simple!Next \/ UNCHANGED <<Played, Kept>>
  BY <1>0 DEF Mishap
<1>1. CASE World' = World /\ Kept' = Kept /\ (phase = "menu" <=> phase' = "menu")
  BY <1>1 DEF Played
<1>2. CASE NewGame
  BY <1>2, NewGameStarts DEF Simple!Next
<1>3. ASSUME GameEnded, disk' = disk PROVE Simple!Next
  <2>1. Played' = None /\ Kept' = Kept
    BY <1>3 DEF GameEnded, Played, Kept, Unpacked
  <2>2. Simple!End
    BY <2>1 DEF Simple!End, Played, Kept
  <2> QED
    BY <2>2 DEF Simple!Next
<1>4. CASE QuitGame \/ Die
  BY <1>3, <1>4 DEF QuitGame, Die
<1>5. CASE OpenWindow \/ CloseWindow
  <2>1. UNCHANGED <<disk, phase, save, running, located, newLocated, blob, cached, loaded>>
    BY <1>5 DEF OpenWindow, CloseWindow, memory
  <2> QED
    BY <2>1 DEF Played, Kept, Unpacked, World, InMemory, Retained, Source, Place, Moving
<1>6. ASSUME NEW old, NEW target, CreateSaveGame(old, target)
      PROVE  UNCHANGED <<Played, Kept>>
  <2>1. phase = "play" /\ phase' \in {"path", "delete"}
    BY <1>6 DEF CreateSaveGame
  <2> QED
    BY <1>6, <2>1, CreateStutters DEF Played
<1>7. CASE QuickSave
  BY <1>6, <1>7 DEF QuickSave
<1>8. ASSUME NEW n \in Names, SaveNew(n) PROVE UNCHANGED <<Played, Kept>>
  BY <1>6, <1>8 DEF SaveNew
<1>9. ASSUME NEW s \in Slots, NEW n \in Names \cup {Quick}, SaveOver(s, n)
      PROVE  UNCHANGED <<Played, Kept>>
  BY <1>6, <1>9 DEF SaveOver
<1>10. ~Listable(NoDirectory) /\ ~Listable([NoDirectory EXCEPT !.there = TRUE])
  <2>1. NoDirectory.files = {} /\ [NoDirectory EXCEPT !.there = TRUE].files = NoDirectory.files
    BY StartTypes DEF Directory
  <2> QED
    BY <2>1 DEF Listable
<1>11. CASE DeleteSaveGame
  <2>1. phase = "delete" /\ phase' = "path" /\ disk' = [disk EXCEPT ![save.old] = NoDirectory]
    BY <1>11 DEF DeleteSaveGame
  <2>2. save.old \in Slots /\ Played' = Played
    BY <1>11, <2>1, AtWork, DeleteSaveGameKeepsWorld DEF Played
  <2> QED
    BY <1>10, <2>1, <2>2, LosesOrStutters
<1>12. CASE CreateSavePath
  <2>1. /\ phase = "path" /\ phase' = "worldmap"
        /\ disk' = [disk EXCEPT ![save.target] = [NoDirectory EXCEPT !.there = TRUE]]
    BY <1>12 DEF CreateSavePath
  <2>2. save.target \in Slots /\ Played' = Played
    BY <1>12, <2>1, AtWork, CreateSavePathKeepsWorld DEF Played
  <2> QED
    BY <1>10, <2>1, <2>2, LosesOrStutters
<1>13. CASE WriteWorldMap
  BY <1>1, <1>13, WriteWorldMapStutters DEF WriteWorldMap
<1>14. CASE CompressSave
  <2>1. /\ phase = "compress" /\ phase' = "game" /\ save' = save
        /\ phase \in DOMAIN WrittenAt /\ phase' \in DOMAIN WrittenAt
    BY <1>14 DEF CompressSave, WrittenAt
  <2>2. PICK entries : Saved(entries)
    BY <1>14, <2>1, RetainedArePacked, BlobIsPacked DEF CompressSave, Packed
  <2>3. \A t \in Slots \ {save.target} : disk'[t] = disk[t]
    BY <2>1, <2>2, WrittenIs DEF Files, Saved
  <2> QED
    BY <1>1, <1>14, <2>1, <2>3, KeptStays, CompressSavePreserves
<1>15. CASE WriteGame
  BY <1>1, <1>15, WriteGameStutters DEF WriteGame
<1>16. CASE WritePreview
  BY <1>16, WritePreviewKeeps
<1>17. CASE Fail
  <2>1. phase # "menu" /\ phase' # "menu"
    BY <1>17 DEF Fail
  <2> QED
    BY <1>1, <1>17, <2>1, FailStutters
<1>18. ASSUME NEW a \in Areas, Enter(a) \/ Leave(a)
       PROVE  UNCHANGED <<Played, Kept>>
  <2>1. phase' = phase
    BY <1>18 DEF Enter, Leave
  <2> QED
    BY <1>18, <2>1, EnterStutters, LeaveStutters DEF Played
<1>19. ASSUME NEW a \in Areas, Change(a) PROVE Simple!Next
  BY <1>19, ChangeChanges DEF Simple!Next
<1>20. ASSUME NEW s \in Slots, LoadGame(s) PROVE Simple!Next
  BY <1>20, LoadLoads DEF Simple!Next
<1>21. ASSUME NEW s \in Slots, Delete(s) PROVE Simple!Next \/ UNCHANGED <<Played, Kept>>
  <2>1. /\ window /\ s # running /\ disk' = [disk EXCEPT ![s] = NoDirectory]
        /\ UNCHANGED <<phase, save, running, located, newLocated, blob, cached, loaded>>
    BY <1>21, NoneFacts DEF Delete, RunningDeleted, memory
  <2>2. ~Moving /\ ~Moving'
    BY <2>1, NotSaving DEF IInv, WindowInv, Moving
  <2>3. running # None => disk'[running].sav = disk[running].sav
    BY <2>1 DEF IInv, SavesTypeOK
  <2>4. World' = World
    BY <2>1, <2>2, <2>3, WorldStays DEF IInv
  <2> QED
    BY <1>10, <2>1, <2>4, LosesOrStutters DEF Played
<1>22. ASSUME NEW s \in Slots, DieDeleting(s) PROVE Simple!Next \/ UNCHANGED <<Played, Kept>>
  <2>1. PICK d : d.files = {} /\ disk' = [disk EXCEPT ![s] = d]
    BY <1>22, DieDeletingIs
  <2>2. ~Listable(d)
    BY <2>1 DEF Listable
  <2>3. Played' = None
    BY <1>22 DEF DieDeleting, GameEnded, Played
  <2> QED
    BY <2>1, <2>2, <2>3, LosesOrStutters
<1> QED
  BY <1>2, <1>4, <1>5, <1>7, <1>8, <1>9, <1>11, <1>12, <1>13, <1>14, <1>15, <1>16, <1>17, <1>18,
     <1>19, <1>20, <1>21, <1>22
     DEF SaveNext

\* Whatever is listed reads back as the world that was being played when it was
\* saved, until it is deleted or replaced; and no step of saving, of loading or
\* of walking from one area to another changes the world itself.
THEOREM SavingImplementsWorldSaves == SafeSpec => SavesTheWorld
<1>1. IInv /\ IInv' /\ [SaveNext /\ ~Mishap]_saveVars => [Simple!Next]_<<Played, Kept>>
  BY SimpleSteps
<1>2. IInv /\ IInv' /\ [SaveNext /\ ~Mishap]_saveVars =>
        [Simple!Next]_<<IF phase = "menu" THEN None ELSE World,
                        [s \in Slots |-> IF Listable(disk[s]) THEN Unpacked(disk[s].sav) ELSE None]>>
  BY <1>1 DEF Played, Kept
<1> QED
  BY SimpleStarts, <1>2, InvHolds, PTL DEF SafeSpec, SavesTheWorld, Simple!Spec
=============================================================================
