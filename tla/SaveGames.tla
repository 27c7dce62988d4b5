------------------------------ MODULE SaveGames ------------------------------
(***************************************************************************)
(* Saving and loading (core/SaveGameIterator.cpp) with the areas that are  *)
(* left in the file of the loaded save until somebody enters them          *)
(* (core/SaveGameAREExtractor.cpp, plugins/SAVImporter).                   *)
(*                                                                         *)
(* The state of an area is where it was last put: in memory if the area is *)
(* loaded, in the save that is running if it is located there, in the      *)
(* cache directory otherwise, or else in the game's own data.  An area's   *)
(* contents are a version number.  CreateSaveGame is one action for each   *)
(* file it removes or writes, since the program may end in between.        *)
(***************************************************************************)
EXTENDS Integers, Sequences, FiniteSets, SequencesExt, FiniteSetsExt

CONSTANTS
  Areas,
  Names,      \* the names the player gives to saves
  Quick,      \* the name of the quick save
  None,       \* no save, no area
  MaxId,      \* bound: the highest number of a slot
  MaxChanges  \* bound: changes made to areas

ASSUME NamesAssumption == Quick \notin Names /\ None \notin Areas
ASSUME AreasAssumption == IsFiniteSet(Areas)
ASSUME SaveBoundsAssumption == MaxId \in Nat /\ MaxId >= 2 /\ MaxChanges \in Nat

QuickId == 1            \* rows of savegame.2da have the first numbers
FirstId == 2
Slot(i, n) == [id |-> i, name |-> n]
Slots == {Slot(QuickId, Quick)} \cup {Slot(i, n) : i \in 1..MaxId, n \in Names}
Nothing == -1           \* no version: the area is not there
Versions == 0..MaxChanges
Files == {"wmp", "sav", "gam", "bmp"}

\* None is neither a save nor what one holds.
ASSUME NoneAssumption == None \notin Slots /\ None \notin [Areas -> Versions]

VARIABLES
  disk,       \* the directory of every slot
  listed,     \* SaveGameIterator::save_slots
  window,     \* the list of saves is on the screen
  phase,      \* "menu", "play", or what CreateSaveGame does next
  save,       \* what CreateSaveGame works on
  running,    \* SaveGameAREExtractor::saveGame
  located,    \* areLocations: the entry of an area in that save, or 0
  newLocated, \* newAreLocations
  blob,       \* the entries in the cache's ares.blb; empty if there is none
  cached,     \* the .are files in the cache
  loaded,     \* Game::Maps; the party is in one of them
  changes     \* how many changes there have been

memory == <<running, located, newLocated, blob, cached, loaded>>
saveVars == <<disk, listed, window, phase, save, memory, changes>>

NoSave == [old |-> None, target |-> None, override |-> FALSE]
NoDirectory == [there |-> FALSE, files |-> {}, sav |-> <<>>]
Nowhere == [a \in Areas |-> 0]
NoAreas == [a \in Areas |-> Nothing]

SaveInit ==
  /\ disk = [s \in Slots |-> NoDirectory]
  /\ listed = {} /\ window = FALSE
  /\ phase = "menu" /\ save = NoSave
  /\ running = None /\ located = Nowhere /\ newLocated = Nowhere
  /\ blob = <<>> /\ cached = NoAreas /\ loaded = NoAreas
  /\ changes = 0

Entry(a, v) == [area |-> a, version |-> v]
FirstOf(entries, a) == SelectInSeq(entries, LAMBDA e : e.area = a)
Listable(d) == {"wmp", "bmp"} \subseteq d.files
Retained == {a \in Areas : located[a] # 0}
Playing == phase = "play" /\ ~window

\* GetSave opens the file by its path.
Opens == running # None /\ "sav" \in disk[running].files
Extracted(a) == disk[running].sav[located[a]].version

--------------------------------------------------------------------------
(* Beginning and ending a game *)

\* LoadGame empties the cache; DecompressSaveGame registers what it meets.
Registered(entries) == [a \in Areas |-> FirstOf(entries, a)]

GameStarted(s, places) ==
  /\ running' = s /\ located' = places /\ newLocated' = Nowhere
  /\ blob' = <<>> /\ cached' = NoAreas /\ loaded' = NoAreas

NewGame ==
  /\ phase = "menu" /\ ~window /\ phase' = "play"
  /\ GameStarted(None, Nowhere)
  /\ UNCHANGED <<disk, listed, window, save, changes>>

LoadGame(s) ==
  /\ window /\ s \in listed /\ {"wmp", "gam"} \subseteq disk[s].files
  /\ window' = FALSE /\ phase' = "play"
  /\ GameStarted(s, Registered(disk[s].sav))
  /\ UNCHANGED <<disk, listed, save, changes>>

GameEnded ==
  /\ phase' = "menu" /\ window' = FALSE /\ save' = NoSave
  /\ GameStarted(None, Nowhere)
  /\ UNCHANGED changes

\* QuitGame leads to the menu; what it leaves to LoadGame to clear is cleared here.
QuitGame == Playing /\ GameEnded /\ UNCHANGED <<disk, listed>>

\* The program ends, at any step of saving too, and is started again.
Die == phase # "menu" /\ GameEnded /\ listed' = {} /\ UNCHANGED disk

--------------------------------------------------------------------------
(* The world *)

InMemory == {a \in Areas : loaded[a] # Nothing}

\* mutant: extractByEntry leaves the location registered.
EnterKeepsLocation(a) ==
  /\ Playing /\ a \notin InMemory
  /\ \/ /\ a \in Retained /\ Opens
        /\ cached' = [cached EXCEPT ![a] = Extracted(a)]
        /\ loaded' = [loaded EXCEPT ![a] = Extracted(a)]
     \/ /\ a \notin Retained
        /\ loaded' = [loaded EXCEPT ![a] = Max({cached[a], 0})]
        /\ UNCHANGED cached
  /\ UNCHANGED <<disk, listed, window, phase, save, running, located, newLocated,
                 blob, changes>>

\* LoadMap: an area that is not in memory is extracted if it is located.
Enter(a) ==
  /\ Playing /\ a \notin InMemory
  /\ \/ /\ a \in Retained /\ Opens
        /\ located' = [located EXCEPT ![a] = 0]
        /\ cached' = [cached EXCEPT ![a] = Extracted(a)]
        /\ loaded' = [loaded EXCEPT ![a] = Extracted(a)]
     \/ /\ a \notin Retained
        /\ loaded' = [loaded EXCEPT ![a] = Max({cached[a], 0})]
        /\ UNCHANGED <<located, cached>>
  /\ UNCHANGED <<disk, listed, window, phase, save, running, newLocated, blob, changes>>

\* DelMap swaps out an area the party is not in.
Leave(a) ==
  /\ Playing /\ a \in InMemory /\ InMemory # {a}
  /\ cached' = [cached EXCEPT ![a] = loaded[a]]
  /\ loaded' = [loaded EXCEPT ![a] = Nothing]
  /\ UNCHANGED <<disk, listed, window, phase, save, running, located, newLocated,
                 blob, changes>>

Change(a) ==
  /\ Playing /\ a \in InMemory /\ changes < MaxChanges
  /\ changes' = changes + 1
  /\ loaded' = [loaded EXCEPT ![a] = changes']
  /\ UNCHANGED <<disk, listed, window, phase, save, running, located, newLocated,
                 blob, cached>>

--------------------------------------------------------------------------
(* The list of saves *)

OpenWindow ==
  /\ phase \in {"menu", "play"} /\ ~window /\ window' = TRUE
  /\ listed' = {s \in Slots : Listable(disk[s])}
  /\ UNCHANGED <<disk, phase, save, memory, changes>>

CloseWindow ==
  /\ window /\ window' = FALSE
  /\ UNCHANGED <<disk, listed, phase, save, memory, changes>>

\* The script drops the save from its own list; save_slots keeps it.
Delete(s) ==
  /\ window /\ s \in listed /\ disk[s].there
  /\ disk' = [disk EXCEPT ![s] = NoDirectory]
  /\ UNCHANGED <<listed, window, phase, save, memory, changes>>

--------------------------------------------------------------------------
(* CreateSaveGame *)

IsRunning(s) == s # None /\ running # None /\ s.id = running.id

\* createCacheBlob, if the save that goes is the one that is running: it
\* fails if that cannot be opened, and leaves an old blob if nothing is retained.
Dumped(old) ==
  IF IsRunning(old) /\ Retained # {}
  THEN /\ Opens
       /\ \E order \in SetToSeqs(Retained) :
            /\ blob' = [i \in DOMAIN order |-> Entry(order[i], Extracted(order[i]))]
            /\ newLocated' = Registered(blob')
  ELSE UNCHANGED <<blob, newLocated>>

CreateSaveGame(old, target) ==
  /\ phase = "play" /\ InMemory # {}
  /\ Dumped(old)
  /\ save' = [old |-> old, target |-> target, override |-> IsRunning(old)]
  /\ phase' = IF old = None THEN "path" ELSE "delete"
  /\ window' = FALSE
  /\ UNCHANGED <<disk, listed, running, located, cached, loaded, changes>>

Existing == {s \in listed : s.id = QuickId}

QuickSave ==
  /\ ~window
  /\ \E old \in IF Existing = {} THEN {None} ELSE Existing :
       CreateSaveGame(old, Slot(QuickId, Quick))

\* One more than the numbers that are listed, and no directory of that name.
FirstFree == Max({FirstId} \cup {s.id + 1 : s \in listed})
FreeIds(n) == {i \in FirstFree..MaxId : ~disk[Slot(i, n)].there}

SaveNew(n) ==
  /\ window /\ FreeIds(n) # {}
  /\ CreateSaveGame(None, Slot(Min(FreeIds(n)), n))

SaveOver(s, n) ==
  /\ window /\ s \in listed /\ disk[s].there
  /\ CreateSaveGame(s, Slot(s.id, n))

DeleteSaveGame ==
  /\ phase = "delete" /\ phase' = "path"
  /\ disk' = [disk EXCEPT ![save.old] = NoDirectory]
  /\ UNCHANGED <<listed, window, save, memory, changes>>

CreateSavePath ==
  /\ phase = "path" /\ phase' = "worldmap"
  /\ disk' = [disk EXCEPT ![save.target] = [NoDirectory EXCEPT !.there = TRUE]]
  /\ UNCHANGED <<listed, window, save, memory, changes>>

Written(file) == [disk EXCEPT ![save.target].files = @ \cup {file}]

\* mutant: areas in memory are not swapped out.
WriteWorldMapOnly ==
  /\ phase = "worldmap" /\ phase' = "compress"
  /\ disk' = Written("wmp")
  /\ UNCHANGED <<listed, window, save, memory, changes>>

\* DoSaveGame swaps out every area in memory and begins with the world map.
WriteWorldMap ==
  /\ phase = "worldmap" /\ phase' = "compress"
  /\ cached' = [a \in Areas |-> IF a \in InMemory THEN loaded[a] ELSE cached[a]]
  /\ disk' = Written("wmp")
  /\ UNCHANGED <<listed, window, save, running, located, newLocated, blob, loaded,
                 changes>>

\* The files of the cache in any order of the directory.
CacheOrders ==
  SetToSeqs({Entry(a, cached[a]) : a \in {b \in Areas : cached[b] # Nothing}})

Saved(entries) ==
  disk' = [Written("sav") EXCEPT ![save.target].sav = entries]

\* copyRetainedAREs to another save, then the cache.
CompressRetained ==
  /\ running # None => Opens
  /\ \E copied \in SetToSeqs({Entry(a, Extracted(a)) : a \in Retained}) :
       \E files \in CacheOrders : Saved(copied \o files)
  /\ UNCHANGED <<located, newLocated>>

\* mutant: the offset of the blob in the file is not added.
MovedNot(offset) == newLocated

\* The blob somewhere among the cache's files; updateSaveGame adds its offset.
Moved(offset) == [a \in Areas |-> IF newLocated[a] = 0 THEN 0 ELSE newLocated[a] + offset]

CompressBlob ==
  \E files \in CacheOrders : \E k \in 0..Len(files) :
    /\ Saved(SubSeq(files, 1, k) \o blob \o SubSeq(files, k + 1, Len(files)))
    /\ IF blob = <<>> THEN UNCHANGED <<located, newLocated>>
       ELSE located' = Moved(k) /\ newLocated' = Nowhere

CompressSave ==
  /\ phase = "compress" /\ phase' = "game"
  /\ IF save.override THEN CompressBlob ELSE CompressRetained
  /\ UNCHANGED <<listed, window, save, running, blob, cached, loaded, changes>>

WriteGame ==
  /\ phase = "game" /\ phase' = "preview"
  /\ disk' = Written("gam")
  /\ UNCHANGED <<listed, window, save, memory, changes>>

WritePreview ==
  /\ phase = "preview" /\ phase' = "play" /\ save' = NoSave
  /\ disk' = Written("bmp")
  /\ UNCHANGED <<listed, window, memory, changes>>

\* A file or a directory cannot be written.
Fail ==
  /\ phase \in {"path", "worldmap", "compress", "game", "preview"}
  /\ phase' = "play" /\ save' = NoSave
  /\ UNCHANGED <<disk, listed, window, memory, changes>>

\* DelTree removes the files of a directory in any order.  What is left of one
\* that is not listed is never read, so that one outcome stands for all of those.
Deleting(s) ==
  \/ window /\ s \in listed
  \/ phase = "delete" /\ s = save.old
  \/ phase = "path" /\ s = save.target

Torn(d) ==
  {[there |-> TRUE, files |-> kept, sav |-> IF "sav" \in kept THEN d.sav ELSE <<>>] :
     kept \in (SUBSET d.files) \ {d.files}}

DieDeleting(s) ==
  /\ Deleting(s) /\ disk[s].there
  /\ \E d \in Torn(disk[s]) :
       /\ d.files = {} \/ Listable(d)
       /\ disk' = [disk EXCEPT ![s] = d]
  /\ GameEnded /\ listed' = {}

--------------------------------------------------------------------------
SaveNext ==
  \/ NewGame \/ QuitGame \/ Die \/ OpenWindow \/ CloseWindow \/ QuickSave
  \/ DeleteSaveGame \/ CreateSavePath \/ WriteWorldMap \/ CompressSave
  \/ WriteGame \/ WritePreview \/ Fail
  \/ \E a \in Areas : Enter(a) \/ Leave(a) \/ Change(a)
  \/ \E n \in Names : SaveNew(n)
  \/ \E s \in Slots : LoadGame(s) \/ Delete(s) \/ DieDeleting(s)
  \/ \E s \in Slots, n \in Names \cup {Quick} : Slot(s.id, n) \in Slots /\ SaveOver(s, n)

SaveSpec == SaveInit /\ [][SaveNext]_saveVars

--------------------------------------------------------------------------
(* What the code does not survive, each a step of SaveNext: the save       *)
(* that is running is deleted in the window; it is taken for another of    *)
(* its number, or renamed; it is replaced when nothing is left in it, with *)
(* an old blob still in the cache; it cannot be written again; or the      *)
(* program ends while it deletes a save, which stays listed.               *)

Overriding == phase = "play" /\ save'.override

RunningDeleted == running # None /\ Delete(running)
RunningMistaken == Overriding /\ {save'.old, save'.target} # {running}
StaleBlob == Overriding /\ Retained = {} /\ blob # <<>>
RunningFails == save.override /\ Fail
TornDelete ==
  \E s \in Slots : disk'[s] # disk[s] /\ Listable(disk'[s]) /\ DieDeleting(s)

Mishap == RunningDeleted \/ RunningMistaken \/ StaleBlob \/ RunningFails \/ TornDelete

\* Everything else that the program does.
SafeSpec == SaveInit /\ [][SaveNext /\ ~Mishap]_saveVars

\* Everything but the failing of the save that is running.
UnfailingSpec == SaveInit /\ [][SaveNext /\ ~RunningFails]_saveVars

--------------------------------------------------------------------------
(* Properties *)

Entries == [area : Areas, version : Versions]
Directory == [there : BOOLEAN, files : SUBSET Files, sav : Seq(Entries)]
Phases == {"menu", "play", "delete", "path", "worldmap", "compress", "game", "preview"}
Making == [old : Slots \cup {None}, target : Slots \cup {None}, override : BOOLEAN]

\* Every variable keeps its type; a step of CreateSaveGame has a save to make.
SavesTypeOK ==
  /\ disk \in [Slots -> Directory]
  /\ \A s \in Slots : disk[s].files # {} => disk[s].there
  /\ listed \subseteq Slots /\ window \in BOOLEAN /\ phase \in Phases
  /\ save \in Making
  /\ save.target = None <=> phase \in {"menu", "play"}
  /\ running \in Slots \cup {None}
  /\ located \in [Areas -> Nat] /\ newLocated \in [Areas -> Nat]
  /\ blob \in Seq(Entries)
  /\ cached \in [Areas -> Versions \cup {Nothing}]
  /\ loaded \in [Areas -> Versions \cup {Nothing}]
  /\ changes \in Versions

\* While CreateSaveGame replaces the save that is running, the areas that are
\* retained are in the blob only.
Moving == save.override /\ phase \in {"path", "worldmap", "compress"}
Source == IF Moving THEN blob ELSE disk[running].sav
Place(a) == IF Moving THEN newLocated[a] ELSE located[a]

\* Every area that is retained can be extracted at any time: its location
\* leads to its own entry in a file that is there, whatever has been saved,
\* overwritten or deleted since the game was loaded (extractByEntry seeks to
\* the location without looking at what it finds).
LocationsLead ==
  \A a \in Retained :
    /\ Moving \/ Opens
    /\ Place(a) \in DOMAIN Source
    /\ Source[Place(a)].area = a

\* No save holds an area twice: DecompressSaveGame would take the first of
\* them and forget the other, which may be the newer one.
SavedOnce ==
  \A s \in Slots : \A i, j \in DOMAIN disk[s].sav :
    disk[s].sav[i].area = disk[s].sav[j].area => i = j

\* An area that waits in the save that runs is nowhere else.
KeptOnce == \A a \in Retained : cached[a] = Nothing /\ loaded[a] = Nothing

--------------------------------------------------------------------------
(* The promise of WorldSaves *)

Unpacked(entries) ==
  [a \in Areas |-> LET i == FirstOf(entries, a)
                   IN IF i = 0 THEN 0 ELSE entries[i].version]

World ==
  [a \in Areas |-> IF a \in InMemory THEN loaded[a]
                   ELSE IF a \in Retained THEN Source[Place(a)].version
                   ELSE Max({cached[a], 0})]

Simple == INSTANCE WorldSaves WITH
  MaxVersion <- MaxChanges,
  world <- IF phase = "menu" THEN None ELSE World,
  saves <- [s \in Slots |-> IF Listable(disk[s]) THEN Unpacked(disk[s].sav) ELSE None]

\* Whatever is listed reads back as the world that was saved, and what has
\* not been entered since loading is not lost by saving, in any order of
\* entering, leaving, saving, overwriting, failing and crashing.
SavesTheWorld == Simple!Spec
=============================================================================
