# A verification project for GemRB

GemRB is an engine for the games of the Infinity family (Baldur's Gate, Icewind
Dale, Planescape: Torment). This directory holds TLA+ models of the parts of it
that keep state and whose steps interleave, the TLC runs that check them, and
TLAPS proofs about them. Paths are relative to `src/gemrb/` unless they begin
with `tests/`, which is `src/gemrb/tests/`.

1. [The system](#1-the-system)
2. [Modules and code](#2-modules-and-code)
3. [Runs](#3-runs)
4. [Proofs](#4-proofs)
5. [Where the code and its words disagree](#5-where-the-code-and-its-words-disagree)
6. [Plan](#6-plan)

## 1. The system

One thread, `main`, runs the game: `Interface::Main` draws, reads input and
calls `Game::UpdateScripts` and, through it, the update of every scriptable,
again and again. There are four other threads: the log's (`Logger`), the music
loop's (`MusicLoop`), the ambient sounds' (`AmbientMgr`), and whatever threads
the audio library calls back on. Most of the program is therefore sequential,
and most of what is hard in it is *protocol*: who may change the plan of whom,
in what order files are replaced, which of two objects owns the speaker.

### Components

| Component | State it keeps | Operations | What is hard | What makes it correct |
|---|---|---|---|---|
| SDL music ring buffer (`plugins/SDLAudio/RingBuffer.h`) | cells, two runners with a round bit | `Fill`, `Consume`, `Reset` | copies run outside the lock | a queue: nothing lost, repeated, overwritten unread |
| Script engine (`core/Scriptable/Scriptable.cpp`, `core/GameScript/`) | per scriptable: action queue, current action, its countdown, two marks that forbid interruption | script tick, responses, overrides, clearing, orders, cutscenes | every scriptable changes the others' plans, mid-turn | protected actions survive, plans keep their order, actions end, locks are lifted |
| Music (`core/Audio/MusicLoop.cpp`, `plugins/MUSImporter`, `plugins/SDLAudio/SDLAudio.cpp`, `plugins/MVEPlayer`) | playlist position, loaded piece, hook to the speaker, whether the feeder waits | switch, end, play, movie, quit | three threads, one recursive mutex, one hook for two kinds of owner | what is loaded is hooked; nothing is cut; nobody waits for ever |
| Log (`core/Logging`) | message queue, writers, running | log, add a writer, flush, destroy | sleeping and waking of the thread | order, nothing lost, the end is reached |
| Sound buffer cache (`core/LRUCache.h`) | a map, and a list linked through its entries | `SetAt`, `Touch`, `Remove`, `evict` | pointer surgery at the ends of the list | list = map, bounded, least recently used first |
| Saved games (`core/SaveGameIterator.cpp`, `core/SaveGameAREExtractor.cpp`, `plugins/SAVImporter`) | directories, list on the screen, cache, places of areas inside the file of the loaded save | new game, load, save new / over / quick, delete | areas stay in the file of a save that may itself be replaced; the program may die anywhere | a save reads back as what was saved; locations lead to their area |
| Ambient sounds (`core/Audio/AmbientMgr.cpp`) | sources, a player thread, whether ambients are on | activate, deactivate, tick | main stops what another thread is about to play | silence after `Deactivate`; no deadlock |
| SDL sound channels (`plugins/SDLAudio/ChannelManager.cpp`, `SDLAudio.cpp`) | the owner of every channel; of every source, the channel it was given; a buffer cache per thread | play, stop, fade, replace, evict, the mixer's report that a channel is done | the end is reported from another thread, under SDL's lock; ownership is remembered twice | a channel has one owner, who is the one that is heard |
| Path finding (`core/PathFinder.cpp`, `core/BucketPriorityQueue.h`) | closed cells, parents, distances, buckets in one array | find a path, push, pop | Theta* gives parents out of sight of the cell; buckets without ends; static storage | paths are walkable; where there is a way, one is found; the cheapest first; it ends |
| Traversability cache (`core/TraversabilityCache.cpp`) | per point a count and an occupant; per actor what it last looked like | update before the first search of a frame | actors move, die, change and are freed between two updates | counts are those of the actors who stand there; no occupant is a dead pointer |
| Movement (`core/Scriptable/Movable.cpp`) | path, destination, bump state | walk, bump, stop | actors in each other's way | the path is given up or finished |
| Inventory, stores (`core/Inventory.cpp`, `core/Store.cpp`) | slots, stacks, equipped slot, quick weapons, effects in force | drag, drop, select, shoot, break, conjure, remove a curse, load | every call puts effects in force and takes them away by hand | nothing duplicated or lost; the effects in force are those of what is worn |
| Effect queue (`core/EffectQueue.cpp`) | effects with timing, base and modified statistics | add, refresh, remove, expire, save | opcodes change the queue while it is walked, and refresh within a refresh | each effect acts in its time and no other; a refresh computes the same statistic as the one before |
| Spellbook (`core/Spellbook.cpp`) | known and memorised spells | learn, memorise, deplete, recharge | limits | memorised never exceeds slots |
| Game, areas, spawns, dialogs, projectiles, world map, timers | the world | joining, loading areas, doors, talking, exploding, travelling | order of callbacks | party and area lists agree |
| User interface, GUI scripts, importers, resources, drivers | windows, files | drawing, converting | input and output | outside this project |

`PROJECT.json` lists each with its sources and says what is modelled. They meet
in a few places:

* Scripts, dialogs, the player and cutscenes all act on the *plans* of the
  scriptables; movement, spells and inventory are what single actions do.
* Opcodes of effects take off what the actor wears and conjure weapons; wearing
  puts effects in front of the queue and refreshes the actor.
* Walking looks for paths; the search map and the traversability cache tell the
  search where the others are.
* Sounds of the main thread and of the ambients' share SDL's channels, whose
  mixer reports each end on its own thread.
* The playlist calls the music loop; the loop's thread calls the playlist back
  when a piece ends; both call the stream handle of the audio driver, whose
  callback reads the ring buffer on the audio library's thread. Movies call the
  same driver.
* The area list of `Game` asks the extractor for an area before it looks into
  the cache; the save importer tells the extractor where areas are; the iterator
  tells it which save is about to disappear.

### What is hard to test

Forty hazards are listed in `PROJECT.json`, each at its line, with the
properties that cover it. They are of five sorts: threads that interleave (the
ring's unlocked copies, the notify without a lock, the stop between reclaim and
feed, the channel that is given away); scriptables that act on each other
between two frames; files that are replaced while part of the running game still
lives in them; lists that change while they are walked (effects, slots, the
crowd); and structures at their limits. Hazards that were met and that no
property covers are in section 5, with the reason.

## 2. Modules and code

`PROJECT.json`'s `map` gives the lines of each definition. A comment before each
definition of a module says which function it is. Variables have the names of
the fields wherever there is such a field.

### RingBuffer, SampleFifo

`RingBuffer` has one action per stretch between two lock operations: `FillBegin`
(snapshot under the mutex), `FillFirst` and `FillSecond` (the two unlocked
copies, up to the end of the buffer and from its start), `FillPublish`; the same
four for `Consume`; and `Reset`. `fill` and `consume` hold the locals of a call
in progress, its snapshot of the other's runner among them. A sample is
represented by its number in the stream, so that order, loss and repetition can
be told apart. `SampleFifo` is the abstract specification: a bounded queue that
is written and read in pieces. `ImplementsFifo` is the refinement, whose mapping
reads the unread cells in order. What a read returns is the history variable
`copied`: the samples in the order in which `Consume` copied them out. Where it
puts them is `memory`, and that this is another order, once the read wraps, is
the finding of `ring_read`; the refinement is about which samples leave the
ring, and when.

There is one producer (the music mutex is held around `Feed`) and one consumer
(the callback). `Reset` happens with neither in progress: its caller `Reclaim`
holds both the callback's mutex and the music loop's.

### ScriptablePlan, ActionQueue

`ScriptablePlan` is what one scriptable does to its own record: `Release`
(`ReleaseCurrentAction`), `ClearActions` with its skip modes, `Given` and
`QueuedInFront` (`AddAction`, `AddActionInFront`), `Overridden`
(`HandleActionOverride`), and `Performed`, which has one case for each *way* an
action function treats the queue: at once; counting down; casting; fleeing with
the interrupt lock; turning with a wait; escaping and replacing itself; going
back to the front of the queue; locking and unlocking. The several hundred
actions of the table fall into these. The four rule sets (`Rules`) stand for the
feature flags that change queue behaviour.

`ActionQueue` composes them: `who` is the scriptable whose turn it is, `phase`
where its turn is. `BeginScripts` is the head of `ExecuteScript` with its
guards, `BlockSkipped`, `BlockDeclined` and `BlockChosen` are one look at a
block of `GameScript::Update` (the condition is nondeterministic), `Respond`
hands out one action of a response, `StartActions`, `PlanEmpty` and
`ProcessAction` are `ProcessActions`. Between turns, `Order` is the player and
`SceneBegin`, `SceneAdd`, `SceneEnd` are a cutscene. `BeginWithoutScripts` is
the turn of a scriptable whose scripts do not run: it is not its tick, a dialog
is on, and so on. The model does not say in which order scriptables take turns,
so that every order the code can produce is included.

An action has an `id` when a script owns it, because the code compares pointers:
`SameObject` is true only of the same object, and a copy has `id` 0.

### MusicStream

Every thread has a program, a sequence of steps; a call puts the steps of the
callee in front (`Call`). This keeps re-entry under the recursive mutex as it is
in the code: the loop's thread plays the next piece from within `FillBuffers`'
caller, and the main thread loads one with the same function. `depth` is the
mutex. The hook is `handle`, `fillWait` says whether a stream's feeder may wait,
and `Callback` is SDL's thread. The ring buffer is a counter here, which is what
`RingBuffer` justifies. Movies have stream handles of their own, and the new one
is made before the old one is destroyed, as in `Interface::PlayMovie`.

### Logger

`queueLock` is implied by the thread being `drowsy` (between its look at the
predicate and its falling asleep) and `writerLock` by its `writing`; who logs
holds either only during one step. The destructor is three steps, the notify
among them, none under a lock. Condition variables may wake up spuriously.

### LRUCache, LruOrder

`LRUCache` is the list pointer by pointer: `Unlinked`, `Linked`, `MovedToBack`
are the private functions, `SetAt`, `Touch`, `Remove` the public ones, `Victim`
is `evict`, whose predicate is a set of disposable keys that may change at any
time. `From` walks along the list, one entry further than there is room for at
most, which would show if the list led back into itself. `LruOrder` is the
abstract cache: a sequence of keys.

### SaveGames, WorldSaves

`disk` holds the directory of every slot with the files it has got so far;
`CreateSaveGame` is one action per file it removes or writes (`phase` says which
is next), since the program may die (`Die`), a write may fail (`Fail`) and
deleting may be torn (`DieDeleting`) at any of them. `running`, `located`,
`newLocated` are the extractor's, `blob` is the file it moves its areas to when
the save that runs is about to be overwritten, `cached` is the cache directory
and `loaded` the areas in memory. An area's contents are a version number. The
order of files in an archive is the order of the directory, so any.

`WorldSaves` is the promise: there is a world, and saves which are copies of it.
It has no extractor, cache or blob. The refinement mapping computes the world
from wherever each area currently is.

`SaveNext` is all that the code does; its guards are the code's. Five of its
steps break what is promised, and have names: the save that runs is deleted
(`RunningDeleted`), taken for another or renamed (`RunningMistaken`), replaced
while an old blob is in the cache (`StaleBlob`) or cannot be written again
(`RunningFails`), and a crash leaves half a save in the list (`TornDelete`).
`SaveSpec` has them all, `SafeSpec` none, `UnfailingSpec` all but `RunningFails`.
What holds with them and what without is in sections 4 and 5.

A directory that a crash leaves half deleted has any part of its files if it
would still be listed, and none if it would not (`Torn`, `DieDeleting`): what is
in a directory that is not listed is never read, and goes before the next save
is written there.

### SoundChannels

SDL's channels (`on`, `by`, `chunk`, `ending`) are modelled from how they are
used; `channelMap` is the manager's and `channel` the sources'. Every thread has
a list of tasks, `agenda`, and is at one `step` of the first: `Fetch` is
`acquireBuffer` with the eviction from the cache, `Aim` and `Request` choose the
channel, `PlayChannel` takes SDL's lock, `Note` writes the owner down, `Check`,
`Halt` and `Fade` are the ways to stop. `MainOrders` is what main may be asked for,
`Ticks` is the ambient thread. `MixEnd` is the mixer, which ends a channel and
calls back under its lock. An ambient is one source; volume and position are not
modelled. The buffer that goes is any disposable one, or any at all if none is.
`orphaned` marks a channel whose buffer was freed while it played (section 5).

### PathSearch, BucketQueue, PathFinder

`PathSearch` is `Map::FindPath` with a queue that may return any open cell: it
is the abstract specification, and what is proved of it does not depend on the
queue. `Adjust` and `Refuse` are the early exits, `Begin` pushes the source,
`Drop`, `Reach` and `Expand` are what may be done with a popped cell, `Skip`,
`Straight` and `Around` one neighbour of it (closed or blocked; with the
grandparent for its parent; with the cell itself), `Trace` the way back. `tree`
is not reset between calls of `calls`, as the storage is static. `BucketQueue`
is `BucketPriorityQueue.h` as operators on a record: the one array, the eight
bit counters, the overflow after the last bucket. `PathFinder` puts the two
together: a pop is the entry the buckets return.

A cell has one point; distances are natural numbers rather than of 16 bits; the
size of an actor is folded into the kind of a cell; `PF_SIGHT` is set whenever a
minimum distance is given; `AdjustPositionDirected` yields any cell of the
ground. `zero` is the cell whose point is (0, 0), which the code takes for "no
parent".

### Traversability

`now` is what every actor is, `cached` what it was when the cache last looked,
`state` and `occupyingActor` the contents of a point. `Compare` is the head of
`Update`, which builds the three lists, `ClearRemoved`, `RedrawUpdated` and
`MarkNew` are one turn of each loop. Between updates an actor comes, leaves,
dies, grows, moves or becomes bumpable (`OneChange`). The shape on the ground is
a parameter, `Footprint`.

### EffectQueue

An effect has a timing mode, a duration and a kind, which says what its opcode
does to the queue and to one statistic; `Menu` lists what may be given.
`Prepared` is the first application, `Idle`, `Timed` and `Concluded` are the
stretches of `ApplyEffect` before and after the opcode. `FxGive` and `FxWear`
add effects, `FxRefresh` begins a refresh, of which `FxSkip` and `FxApply` are
one effect each and `FxRefreshed` is the end; the refreshes that are going on
are a stack, `walks`, because an opcode may ask for another. An effect put in
front of the list moves the places of the refreshes that are going on (`InFront`),
as `std::list` iterators do not notice a `push_front`. `FxCleanup`,
`FxExpire`, `FxAdvance` and `FxReload` are what the map, the scripts, the clock
and a saved game do. `fate` is for the properties: what each effect was promised
when it was given, and when it last acted. Saving and loading is one step. The
delay that a saved game does not hold of a delayed effect with a duration is
lost in the model too, and `fate` says so: from then on the effect is promised
as long as one of no duration lasts, its one tick (`Forgotten`). `TakenOff` takes
the effects that come from the things it is given, which for an opcode is any
one of those worn (`Rolls`: at most one of them is cursed).

Left out: the opcodes that are prepared again after loading
(`EFFECT_REINIT_ON_LOAD`, `EffectQueue.cpp:442`; section 5), probability,
resistance and saving throws, targets other than the actor, the limit on
stacking, opcodes that change their own timing, those with
variables that are saved although they would not be, two rare timing modes,
Planescape's ticks, and a second "repeat" at a time.

### Inventory

`worn` is the inventory with the effects in force, `hand` what the player drags,
`pile` the ground, `spent` what is gone for good. The private functions of
`Inventory.cpp` are operators that return the changed record (`SetEquippedSlot`,
`EquipItem`, `KillSlot`, `AddSlotItem`, `EquipBestWeapon`, `Reinit`), and the
actions are the callers: the paper doll's (`PickUp`, `DragItem`,
`DropDraggedItem`, `DropOnPaperdoll`, `DropOnGround`, `SelectWeapon`), the
fight's (`EquipBest`, `Shoot`, `BreakWeapon`), the opcodes' and scripts'
(`Conjure`, `Vanish`, `DestroyItem`, `UnequipByScript`, `XEquipItem`,
`RemoveCurse`) and `Reload`. `force` holds, of every slot, the items whose
effects are in force, in a sequence, so that twice can be told from once; `MaxTimes`
bounds it, as more than twice is as bad as twice. Every action has the guards of
the code and no others, whatever it leaves behind: an empty slot in use, a
button that leads to arrows without a bow, effects in force twice (section 5).

Left out: shields and two-handed weapons, weapon sets of Icewind Dale 2, headers
and charges, exclusive items, weight, the cached weapon info, `FillSlot`,
`EnforceUsability`, quick items, stores and containers, the fist's effects.

### MC modules

`MCThreads`, `MCGame`, `MCMovement` and `MCActor` each put modules side by side
that share no state: a variable `part`, chosen in the initial state, says whose
behaviour it is, and the others keep still.

* `MCActionQueue` has the scripts, orders and cutscenes of three games, and no
  run but `queue_sanity` of its own.
* `MCThreads`: `MCActionQueue` with the rules of Baldur's Gate 2, `Logger`,
  `RingBuffer` and `LRUCache`.
* `MCGame`: `MusicStream`, `SaveGames` without its mishaps, and `SoundChannels`.
* `MCActor`: `MCActionQueue` with the rules of Icewind Dale 2, and, as the
  instance `Planescape` on the same variables, with those of Planescape;
  `EffectQueue` with its menu of effects; `Inventory` with its items.
* `MCMovement`: `PathFinder` and `Traversability`, and the geometry of small maps.

That the scripts satisfy what a theorem assumes of them (`OwnObjects`, section 4)
is checked there; that those of the duel do not satisfy what another does
(`NobodyClearsOthers`) is why `queue_sanity` fails.

## 3. Runs

| Run | What is asked | Instance | Distinct states |
|---|---|---|---|
| `threads` | Plans under bg2 rules, of two actors that override, clear, interrupt and click: protected actions are spared, order kept, actions end and locks are lifted. Log: order, no gaps, no lost wake-up. Ring: every interleaving of `Fill`, `Consume`, `Reset`: copies disjoint, short counts mean what callers take them to mean, refinement of the queue. Cache: the list is whole, refinement of the abstract order | two actors, queues of 3, timed actions of 2 frames; two writers, 4 messages; ring of 3, call lengths 1 to 4, 8 samples; 4 keys, 3 entries | 110 thousand |
| `actor` | Plans under iwd2 rules: responses that continue, instants, dialogs, player orders, cutscenes; the sanity check never fails here. Under pst rules: an area that is locked by default, cutscenes on it and on an actor. Effects: each acts in its time, none is left out of a refresh, a refresh sets the statistic right. Items: none vanishes, no effect lingers | two actors, queues of 3; one area and one actor, queues of 4, timed actions of 1 frame; three effects to time 5, two ticks a second; armour, two quivers, two weapon slots, one slot of the backpack | 1.58 million |
| `game` | Music: every order main can give, with missing lists and movies: nothing cut, what is loaded is hooked, what plays has music. Saves: play, save and load with failures and crashes, without the five mishaps: refinement of `WorldSaves`, locations, nothing retained that is elsewhere. Channels: owners are right, `Deactivate` and a stop silence, only one embrace of two locks can block | two lists, pieces of 2 chunks, ring of 2, two movies of 3 frames; two areas, the quick save and one name with two numbers, one change; one channel and the one for speech, one voice, one ambient, two sounds, one buffer per cache | 1.71 million |
| `movement` | Every search there and back: paths are legal, no path means no way, buckets hold what is open, the cheapest first, searches end. Crowd: counts and occupants | three maps of 4 by 3, distances 0 and 2, 5 buckets of 3 and 4 more; two actors on 3 points, two changes between updates | 561 thousand |
| `queue_sanity` | *violation*: the sanity check of `ExecuteScript` ends the program | the plans of `threads` | |
| `ring_read` | *violation*: a read that wraps returns its samples out of order | the ring of `threads` | |
| `worn` | *violation*: the slot in use is empty | as `actor` | |
| `music_mutex` | *violation*: main waits for the mutex for ever | hard and soft switches | |
| `log_end` | *violation*: the destructor does not come to its end | 2 messages | |
| `sound_theft` | *violation*: a source cuts a channel that has gone to another | one channel | |
| `saves_deleted` | *violation*: the save that runs is deleted in the window | the saves of `game`, `SaveSpec` | |
| `saves_stale` | *violation*: an old blob goes into a save, which holds an area twice | the saves of `game`, `UnfailingSpec` | |

### Why the bounds are enough

* Ring, log, cache: three cells of the ring make all relations of two offsets in
  equal and in different rounds; lengths up to more than the room that is left
  make short reads and writes; 8 samples go round more than twice. The proofs do
  away with the bound on size. Four messages give one being written, one taken,
  one queued, one to come. Three entries of the cache have a front, a middle and
  a back.
* Plans: every kind of action occurs in a script of one of the three games. With
  queues of 3 there is a running action, one to spare and one to cut, behind and
  before each other. `Duration` 2 tells the start, the middle and the end of a
  countdown apart; under Planescape's rules, which differ in what is cleared and
  what is locked, 1 does. `MaxTicks` only stops a counter nobody compares with
  anything but zero. `MaxQueue` bounds what may be *started*; the code has no
  bound, and the proofs hold for any.
* Music: a ring that can be full and empty; a ramp-up as long as the ring;
  pieces that end in mid-ramp and after it; movies with more sound than the ring
  holds; two movies, one to replace the other. `Missing` is list and movie: with pieces missing, `PlayingHasMusic` does not hold (section 5).
* Channels: one is enough to be fought over by a voice and an ambient while
  speech has its own; two sounds and one buffer make every second sound an
  eviction.
* Movement: the maps have a spur of rock, walls one sees over, people of every
  kind, and two rooms without a door; every pair of cells is asked for, some
  there and back, so that a second search finds what the first left. Of
  the buckets of 3, the last one gets up to 5 and runs over into its overflow,
  the others get 2; that another bucket than the last runs over, or a counter
  passes 255, needs a larger map and does not happen here. Two changes between two updates let an actor move and die, or
  leave and another take its place.
* Effects: three are one that acts, one it acts on and one behind; with two
  ticks a second and a duration of one second there is a tick before every
  beginning and every end, and one at it.
* Items: two quivers and two weapon slots let a weapon be exchanged for another
  and arrows move from quiver to quiver; three arrows in stacks of two fill one
  quiver and leave one, and the one slot of the backpack is full as soon as
  anything is in it. Next to a bow, and the sword that can only be conjured, the
  actor has a cursed axe, a cursed second bow and two of the three arrows, or
  the armour and all of the arrows (`Wanting`): two bows, which is what effects
  are mixed up by, in the first, full quivers in the second. With all of them at
  once there are several times the states.
* Saves: two areas, one to be retained and one to be in memory; slot numbers 1
  and 2, where the quick save and a named one can have the same number 1; one
  change, which is enough to tell a saved world from the present one. A third
  number, and a second name, were checked by themselves.

`SYMMETRY Alike` of `game` permutes areas, which nothing in the specification,
its constants or its properties tells apart; there is no liveness property in
that run.

The `VIEW`s leave out variables while nobody can read them before they are
written again. `Seen` of `MCGame`: the loop counter of the music outside the
loop, the ring of a movie that is over (`SeenMusic`); a blob that has been copied
(but for whether there is one), files of a directory that is not listed and not
being written (`SeenSaves`). `ActorView` of `MCActor`: what an expired effect was
(`SeenBody`), and what was promised of one that is gone or over (`SeenFate`). They
also leave out the variables of the parts that keep still. Two states with the
same view have the same successors up to the same view, and the properties read
no more than the view holds in those states.

### Fairness

* `ActionQueue`: `FairSpec` has weak fairness of `Proceed` (a turn that has
  begun is finished: it is a function call on the main thread) and strong
  fairness of `Begin(s)` for every `s` (the frame loop updates every scriptable
  once a frame; strong because the turns of others disable it). There is no
  fairness for scripts' conditions, the player or cutscenes. `MCFairSpec` states
  the same while the plans are the part that runs. `LocksLifted` and `ActionsEnd` allow that the program ends by its sanity check, which is the
  subject of `queue_sanity`.
* `MusicStream`: weak fairness for the loop's thread and for the callback,
  strong fairness for main, because the loop unlocks in each turn and sleeps
  unlocked: main gets the mutex if it comes free again and again. The violation
  is found under this, so it is not a matter of an unfair scheduler.
* `Logger`: the thread's steps, the notify and the join of the destructor;
  nobody need log, and spurious wake-ups are not relied on. `MCFairSpec` states
  it while the log is the part that runs.
* `PathFinder`: weak fairness of its steps, since `FindPath` is one function
  call.
* Others: safety only.

`CHECK_DEADLOCK FALSE` is given where a system may really stop: after the
program has been ended by its check, after quitting, after the logger is
destroyed, when the last call has returned or a bound is reached, and in the
embrace of the two locks `OnlyEmbraceBlocks` describes, which is a deadlock of
the code. In `actor` deadlock is checked, of the party's plans: `Rest` lets the
other parts stop, whose bounds they reach. It is checked in `saves_deleted` and
`saves_stale` too; the ring, the cache, the log and the saves were checked for it
by themselves.

Each property of a passing run has a mutant in `PROJECT.json`: a definition as
it would be after a plausible mistake. The operators with `mutant:` in their
comment are used for nothing else.

## 4. Proofs

All proofs hold for every value of the constants that satisfies the named
`ASSUME`s (which TLC evaluates in the runs).

### ThreadsProofs

The log, for any writers and any number of messages: `LogTypeCorrect`,
`AlwaysInOrder`, `NothingEverLost`, from an invariant, `InvHolds`, that numbers
what is held (`batch` and `messageQueue` rise, are newer than what was written,
leave no gap to it, and what the thread has in hand is what comes next).

The ring, for any size and any lengths:

* `RingTypeCorrect`, `RunnersAlwaysAgree`, `UnreadAlwaysIntact`,
  `CopiesAlwaysDisjoint`, `ShortReadsDrain`, `ShortWritesFill`, `CallsGoOn` (a
  call that comes back short did so for want of cells or room), and
  `RingIsFifo`, the refinement. That the runners agree and that unread cells are
  intact is only proved; the run checks what they are for.

`RunnersAgree` is not inductive: it says nothing about the snapshots of the
calls in progress. The invariant is `ArithInv` = `RingTypeOK`, `RunnerInv`,
`FillInv`, `ConsumeInv`. `FillInv` says that the snapshot a `Fill` works with
can only be too *early*: the room it believes in is room that exists, since the
other side only ever frees more. `ConsumeInv` is its counterpart.
`WrittenIntact` extends `UnreadIntact` to samples that are written and not yet
published; it needs that what `Fill` writes is disjoint from the unread cells.
From both follow `UnreadIntact` and `CopiesDisjoint` (`ReadsAreUnread`,
`WritesAreFree`). For the refinement, `QueueIs` describes the mapped queue as an
interval of the stream, so that each step becomes arithmetic on its ends
(`QueueStep`); `CopiedOldest`, that the copies have read the oldest of it in
order, makes a read of the abstract queue of them.

### ActionQueueProofs

For any scriptables, scripts, orders, cutscenes and rules:

* `InvHolds` (the inductive invariant), `TypeCorrect`, `IdleIsFresh`,
  `ResponsesComeFreely`, and four action properties, `ProtectedAreSpared`,
  `UninterruptibleAreSpared`, `SpellsAreSpared`, `PstClearLeavesTheRest`.
* `PlanAlwaysInOrder`, where every owned action of a scriptable's scripts is an
  object of its own, and orders and cutscenes have copies only (`OwnObjects`).
* `NobodyAborts`, where no action clears the plan of another scriptable
  (`NobodyClearsOthers`): then the sanity check never ends the program.
  `queue_sanity` shows that with such actions it does, so they are the only way
  to it. `PartyNeverAborts` of the run `actor` is this for the party's plans,
  `PlanescapeKeepsTheRest` is `PstClearLeavesTheRest` for Planescape's.

The invariant is `Typed`; `GoodWorld`, that every record is well-formed and that
whoever runs nothing has no countdown; `Free`, that whoever is handed out a
response, or looks for the next block after one, runs nothing; `Ungated`, that a
scriptable that looks for its first block has passed the guards of
`ExecuteScript` and has not been touched since. Each operator of
`ScriptablePlan` has a lemma that it keeps a record good, and each action of
`ActionQueue` one that cites these.

Order needs `PlanInv`: every plan is in the order of the scripts
(`AllOrdered`); while a response is handed out, what the plan holds of the
scripts stands before what is still to come (`HandingOut`), and after a response
that ended in Continue, before the block that is looked at (`LookingOn`); a
cutscene has only copies (`Staging`). The sanity check needs `SoundInv`: whoever
may not be interrupted has something to do, and what anybody has to do or is
being handed out clears nobody else's plan (`SoundWorld`, `AllHarmless`).

### MovementProofs

For any map, neighbourhood, lines of sight, distances and costs:

* `TypeSafe`; `PathsAreLegal`: what is returned begins with a step from the
  source, ends at the goal, and each of its steps is legal; `NothingMissed`:
  when the search gives up, the closed cells are a cut, so that no sequence of
  free neighbours leads from the source to the goal. The three hold for any
  order in which open cells are looked at.
* `FinderSearches`: `PathFinder`, which takes what `BucketQueue` returns,
  implements `PathSearch`; `FinderIsRight`: so its paths are legal and it misses
  nothing.

Neither property is inductive. `IInv` adds to the types: `OneRoot` and `Chained`,
that every parent but the source's is closed and was reached by a legal step;
`Known`, that whatever is closed, open or current has a parent; and `Whole`,
that who has a parent is open or closed, and a free neighbour of a closed cell
that has been looked at has a parent. So a cell whose shorter distance is lost
is still in the queue. `Tracing` follows the way back.

For any number and size of buckets, any overflow and any range of the counters:

* `QueueAlwaysHolds` and `CheapestIsPopped`, as long as `Fits`: no bucket is
  given more entries than it has room for, the last one with its overflow, or
  than it can count. The code has no guard for either; TLC finds `Fits` true
  throughout the run `movement`.

`Holds(q, S)` says that a queue holds a set of entries: what is at the places of
a bucket are the entries of that bucket, each once, the sizes and the count are
those of the sets, and the lowest bucket that is remembered is no higher than any
entry's. Since no bucket holds more than it has room for, the places of any two
are apart (`BucketsAreApart`), which takes the arithmetic of `BeginIdx`; so
`PushedHolds` and `PoppedHolds`, and that a pop takes the cheapest because a
dearer entry is never in a lower bucket (`BucketsRise`). That the least bucket
and the least cost exist is induction, `LeastMember`.

For any actors, points and footprints, any tokens and any width of the counters:

* `CrowdTypeCorrect`, whose last lines say what each of the three lists may
  still hold in which loop; and `OccupantsAlwaysStand`: the occupant of a point
  is somebody who was alive and stood there when he was last counted, so never
  one that the map no longer had at the last update. The two are inductive
  together.
* `CrowdAlwaysCounted`, for finitely many actors: the counter of every point
  holds, modulo its range, what the remembered actors weigh there together, at
  every step of an update; and what the living ones weigh when there is none.

A token is a number of units, so the sum over a crowd is the size of the set of
pairs `Units` of an actor and one of his units, and no induction is needed:
`WeighsOtherwise` says that one actor's change leaves the units of the others.
`Counted` is then kept by `Withdrawn` and `Entered`, which add and subtract modulo
the range (`CountBack`), and `Redrawn` is kept because a dead actor weighs
nothing. `AllListed`, that whoever has changed is still in a list of the update,
makes what is remembered the same as what is, once the lists are empty.

### SoundProofs

Of the channels, `SoundChannels`, for any channels, voices, ambients, sounds and sizes of the caches:

* `TypeCorrect`, whose last part says what a thread may be doing at each step;
  `OwnersAlwaysRight`: the manager's owners are right between two critical
  sections; and `OffIsSilent`: `Deactivate` silences.

`OwnersAreRight` says nothing of the time in which a lock is held, so it is not
inductive. `OwnerInv` says in which two windows an owner may be wrong, and who
is in them: from `Mix_PlayChannel` to the entry of the owner the manager's mutex
is held (`Unentered`, `NotedPlays`, `MutexHeld`), and from the end of a sound to
its report SDL's lock is (`Reported`, `EndedIsSilent`, `LockHeld`). Most steps
are `Aside`: they touch neither window.

`Silenced` needs that whatever sounds for an ambient can be stopped by who has
to. `HumsKept` says that its channel is known to its source (`KnowsIt`), and
that the source is the one `AmbientMgr` has or the main thread is about to stop
it (`Stopping`). A stop acts only on a channel the manager believes is the
source's, which is where `OwnerInv` comes in (`StoppedIsKnown`). `QueuesOK` says
what each thread may have to do and that the mutex is left by the last task of
who holds it, so that "about to stop" cannot outlive `Deactivate`.

The assumption, `SoundAssumption`, is that the names of sources, channels and
threads differ.

Of the cache of sounds, `LRUCache`, for any keys and any size:

* `CacheInvHolds`, `ListAlwaysWhole`: the list, read forwards from the front or
  backwards from the back, has the entries of the map, each once; and
  `PointersImplementLru`, the refinement of `LruOrder`.

`CacheInv` says that there is a sequence of distinct keys to which the pointers
are *linked* (`LinkedAs`): each entry's neighbours are its neighbours in the
sequence. The lemmas say which sequence `Unlinked`, `Linked` and `MovedToBack`
are linked to afterwards; `ItemsAre`, by induction, that the walk along the list
returns that sequence. The theorems have the hypothesis `~LoneTouch`: a `Touch`
of the only entry loses the front of the list (`LRUCache.h:159`), and nothing in
the tree calls it.

### SaveGamesProofs

For any areas, names and numbers of slots:

* Of `SafeSpec`: `InvHolds`, `TypeCorrect`; `LocationsAlwaysLead`: whatever is
  retained leads to its own entry of a file that is there; and the refinement,
  `SavingImplementsWorldSaves`: playing, saving, failing, dying and loading are
  steps of one world and its copies.
* Of `UnfailingSpec`: `AlwaysKeptOnce`, that what is retained is neither in
  memory nor in the cache, so that no two places of the running game dispute an
  area. It holds whatever is deleted, renamed, torn or added twice.

The invariant of the first is `IInv`. `DiskInv` is about directories, `WindowInv`
about what the save window shows, `SaveInv` about the save in progress, `RunInv`,
`BlobInv` and `PlaceInv` say where each area of the running game is, `CopyInv` that
what has been written is the world. `WorldInParts` takes the world of the mapping
apart into those places. What is looked up in a file is the first entry of an
area (`LeastMember`), for which induction over numbers is proved as a lemma about
sets of them (`SetInduction`).

`AlwaysKeptOnce` has another invariant, `KeptInv`, as `IInv` says of files what
mishaps make false. What an area is to be moved to exists only while the save
that runs is written again (`Deferred`), and only for what is retained.

`SafeSpec` has no hypothesis but that no step is one of the five mishaps, each of
which is a way to lose areas in the code (section 5). TLC says which properties
need it: `RunningDeleted`, `RunningMistaken` and `RunningFails` break
`LocationsLead`, `StaleBlob` breaks `SavesTheWorld`, and `TornDelete` does;
`RunningFails` alone breaks `KeptOnce`. That no save holds an area twice
(`SavedOnce`) is no theorem: it is what `saves_stale` finds violated.

### MusicStreamProofs

For any playlists, pieces, rings and movies, as long as no piece is missing:

* `TypeCorrect`; `MutexExcludes`: the loop and the main thread never hold the
  mutex both; `LoadedAlwaysHooked`,
  `PlayingAlwaysHasMusic`, `NothingCut`.

The stack of calls of a thread is a sequence of steps, and a thread that may be
anywhere in any sequence could not be reasoned about. `LoopAt` and `MainAt` say
which sequences there are: one set for each function, and for each of its places
how often the thread holds the mutex and what is then true of the source, of the
hook and of `playing`. TLC checked the invariant on the instance of `music` before
it was proved.

The hypothesis `"piece" \notin Missing` is needed for `PlayingHasMusic`, which
fails without it (section 5). The other two hold without it on the instance, and
are proved with it only.

### ActorProofs

For any items and any supply of them, any slots, and any size of a stack:

* `InventoryTypeCorrect`: every item is in a slot for its kind;
  `NothingEverVanishes`: what is carried, dragged, on the ground and used up is
  what there was, whatever is exchanged, merged, shot, broken or freed of a curse.

`ItemsInv` adds to the count that every item is in a slot for its kind
(`InPlace`). It is needed: what is broken is taken for one item, which only holds
of what is no stack, and what a conjured weapon replaces is deleted, which only
loses nothing if it was conjured too. The functions that dress (`EquipItem`,
`SetEquippedSlot`, `EquipBestWeapon`) change no slot (`Same`), those that empty or
fill one change that one only (`Changed`), and what of an item goes into a slot and
what is left of it add up to what there was (`AddSlotItemIs`). As in `Units`, the
number of pieces in all slots is the size of a set of pairs, so that one slot can
be taken out of it (`AmountSplit`). `AddToSlots` and `RemoveCurse` go through the
slots one after the other: `Iterates` says that such a function exists, and
`AddToSlotsIn` that it keeps whatever a step of it keeps.

* `NothingEverLingers`: the effects in force are those of the very item in their
  slot, and it is armour, in use or a bow; and armour, the conjured weapon and
  the weapon in use have theirs. It has no hypothesis: it holds with any number
  of bows, with cursed ones, and after every order of calls.

`NothingLingers` does not say that effects are in force once, that the slot in
use has something in it, or that a bow's effects go with its arrows; the code
does none of these (section 5). What it says is far from inductive: effects are
taken away from the slot that is in use *then*, so that a step is right only if
the one before left the right slot in use. The invariant is `Tidy`:

* `TrueTo` and `Own` are the first half of the property, of any body; `Armoured`
  and a part of `Conjured` the second;
* `Conjured`: while there is a conjured weapon, it is the one in use. So putting
  away what is in use before another is conjured is putting away all of it;
* `InHand`: a weapon slot in use is in force, and so has a weapon in it. Without
  it, something put there would be in use before its effects are.

`NeatOtherwise` is what is left of it between putting the old effects away and
putting the new ones in force: it is true of all slots but the one in use.
`SetTidy`, `EquipTidy`, `BestTidy` are about the functions that dress, `GoneIs` and
`KillTidy` about those that take off, `AddSlotTidy` about what is put in a slot;
and there is one lemma for each action, in which they are put together as the
action calls them.

### EffectQueueProofs

For any menu of effects, any effect that is repeated, any length of a second, and
any bounds on the effects and on time:

* `EffectsStaySound`, the invariant; `EffectsActInTheirTime`: no effect acts
  before its time, and none again that is over, but in the refresh it asked for
  itself; `EveryEffectIsReached` and `RefreshesCountOnce`: a refresh leaves nobody
  out, and a quiet one counts each bonus in force once.

They are about what is *promised* of an effect, which a save changes for one
that waits to last for a while: its duration is not in the file, and after
loading it has one tick (`Forgotten` in `FxReload`). Without that concession the
second and the third fail: given at 1 to act from 3 to 5, and loaded in between,
such an effect is gone by 5.

`EffectAssumption` bounds the menu: what is worn adds something, and what is
repeated asks for no refresh and repeats nothing itself, so that one step of a
refresh gives one effect and begins one refresh at most.

The promises in `fate` are made when an effect is given, and the timing mode
changes at every turn: it is prepared, waits, is triggered, acts, is removed,
saved and loaded. `Sound` says how the two agree at each of those:

* `Agreed`: one that waits (`WaitsWell`) has not begun and will begin when it was
  promised to, with as much left to it as the delay says; one that acts
  (`ActsWell`) began no earlier, and has acted since, but not in its last tick.
  What works once is spent when it has worked, unless it waits for the refresh it
  asked for, which is why agreement depends on who is `held`;
* `Numbered` and `Removed`: no two effects have one number, and what was removed
  has no effect and gets none. Without the first, `Place` could find another
  effect than the one that acted, after an opcode has changed the queue;
* `Walking`: each refresh but the innermost is at an effect that has just acted,
  so that putting something in front of the queue must move all of them;
* `Accounted`: what was neither removed nor is over is in the queue, and `Met`:
  what the outermost refresh has passed has acted in this tick, was removed or is
  not due. These two are `NobodyLeftOut` when the refresh has passed everything
  (`EndsWhenPassed`).

There is a lemma for what an opcode may do to the queue (`Loses`, `Gains`,
`Asks`), one that says that each of those leaves it sound, and one for each part of
a step: the first application (`FirstSound`), what acts (`ActsSound`), what its
result makes of it (`ConcludeSound`), and going on (`PassedSound`). `Left`, which
saving and `Cleanup` pick effects with, is a recursive function; that it exists
and keeps the order is proved by `SetInduction`.

`CountState` is the second invariant: as long as a refresh is quiet it is the
only one that goes on, and the statistic is above its base by the size of a set of
bonuses, all of them passed and in force, among which is every bonus it has passed
that is not over (`Counts`). A refresh begins with none (`RefreshCounts`), going on
adds one at most (`CountsMore`), and whatever gives or removes something is no
longer quiet (`Loud`). TLC checked it on an instance with three effects before it
was proved.

### Not proved

Checked by TLC only: every liveness property (`ActionsEnd`, `LocksLifted`,
`EverythingWritten`, `MutexComesFree`, `EndsWhenDestroyed`, `SearchEnds`), since
the prover has neither fairness nor `ENABLED`, and `OnlyEmbraceBlocks`, which
speaks of `ENABLED` too. Every other property of a passing run is a theorem
(`PartyNeverAborts` and `PlanescapeKeepsTheRest` as instances of one).
Recursive operators are out of the prover's reach, and so are the library's induction
theorems with an operator for a parameter; where a proof needed induction over
numbers, it cites `SetInduction`, which speaks of a set and needs no operator.

## 5. Where the code and its words disagree

Eight runs find a stated intention broken (`findings`): `queue_sanity`,
`ring_read`, `worn`, `sound_theft`, `music_mutex`, `log_end`, `saves_deleted` and
`saves_stale`. Others were met while modelling. The models follow the code in all
of them, except where an item says that it is not modelled.

Plans, music, log:

* `RingBuffer.h:68`: the second copy of `Consume` writes to `memory` again, over
  what the first copy put there; `tests/SDLAudio/Test_RingBuffer.cpp:74` expects
  the samples in order. `ReadsLandInOrder` states the latter: the finding of
  `ring_read`. The runners are right regardless, and so is which samples are
  copied.
* `Scriptable.cpp:435`: the loop that removes queued actions looks at the front
  only, so that once it spares an action it spares everything behind it
  (`Survivors`); `GameScript.cpp:2191` expects the rest to be cleared.
* `GameScript.cpp:2207`: the target of an `ActionOverride` is marked as not
  interruptible while the action is still waiting; the mark is lost when the
  action before it ends, though the comment at 2205 makes "double sure" that it
  is not interrupted.
* `GameScript.cpp:1891`: a block that was chosen last is declined while the plan
  has anything in it, its own actions or not; the comment at 1892 speaks of "the
  already running block".
* Fleeing (`RunAwayFrom` without interruption) that is replaced half-way leaves
  its lock for the next plan, which it holds as long as that lasts.
* `MUSImporter.cpp:272`: with a piece missing `Playing` stays set and no piece
  is loaded, so that PlayNext is not called again and the wanted list (line 238)
  never starts.
* `Interface.cpp:2145`: a movie begun while the last player still exists takes
  the hook in its constructor; the destructor of the old player then clears it.
  `MoviePlayer.cpp:66` waits for the feed to go on.
* `Logging.cpp:31`, `Logging.cpp:80`: a logger that is made with its writers
  does not start its thread; only `AddLogWriter` does.
* `MUSImporter.cpp:219`: the playlist is read and written by the main thread and
  by the loop's without a lock; a switch in the middle of the other's turn mixes
  two lists. The steps of `MusicStream` are coarser than that.
* `LRUCache.h:159`: `Touch` of the only entry unlinks it and leaves the front of
  the list null (`LoneTouch`). Nothing in the tree calls `Touch` or `Remove`.

Sounds:

* `SDLAudio.cpp:110`: a source that wants to play again asks for the channel it
  was given last, though it may have gone to another: the finding of
  `sound_theft`.
* `SDLAudio.cpp:44`: `Disposable` answers whether a buffer *is* playing, and
  `evict` takes it for whether it may go. The buffers that go are just those
  that play; SDL silences their channels without a report, the manager keeps the
  owner, and a channel that is given away with that owner cannot be stopped by
  it (`orphaned` in `OwnersAreRight` and `Silenced`).
* `ChannelManager.cpp:39`: the manager's mutex is taken before SDL's lock by who
  asks for a channel, and after it in the report of the end: a deadlock,
  `Embrace`. Everything else that waits does come free (`OnlyEmbraceBlocks`).
* `IsMyChannel` reads the owners without the mutex; what it sees may be half
  changed. Its reads are single steps in the model.
* `AmbientMgr.cpp:165` asserts a delay above zero, which a sound of length 0
  does not give; the destructor's notify may be missed as the logger's may. Not
  modelled.

Paths:

* `PathFinder.cpp:343` asks whether the occupant of a point is the caller. A
  point remembers one occupant only, so that when another one who stood there
  too goes, the state stays above zero and the occupant is nobody: the actor is
  then blocked by itself (`TraversabilityCache.h:33`).
* `TraversabilityCache.h` gives room for 14 bumpable actors on a point; the
  fifteenth makes it look like one that cannot be bumped. Not reached in the
  run.
* `PathFinder.cpp:306`: a parent at (0, 0) stands for no parent, so cells that
  are reached from that corner are dropped: `Zeros`, and the premise of
  `NoPathMeansNoWay`.
* Movement, not modelled: `Actor::NewPath` (`Actor.cpp:8247`) counts tries up to
  a maximum, and the `WalkTo` it calls resets the count, so that the maximum is
  never met. `BumpAway` (`Movable.cpp:137`) changes the position and neither the
  cell nor the search map; when coming back is given up (`:172`) the mark stays
  on the cell that was left, until the next step. `RunAwayFrom` (`:370`) clears
  the mark and does not put it back when there is nowhere to run.

Effects:

* The delay of a delayed effect with a duration is not in the file of a saved
  game: after loading it is in force for one tick. No comment says otherwise, so
  that there is no run for it; the promise is shortened (`Forgotten`).
* An opcode that refreshes the actor (removing a curse; `FXOpcodes.cpp:3723` has
  a comment on it) meets itself at its work and acts a second time: `Held` in
  `InTheirTime`.
* `Interface.cpp:3708`: bonuses of what is put on count twice until the next
  refresh, as the comment there says: `Innermost.quiet` in `RefreshSetsRight`.
  So do effects that are appended in the middle of a refresh.
* `EffectQueue.cpp:437`: opcodes that are prepared again after loading are
  prepared in every tick while their delay lasts, which then never ends. This
  branch of `ApplyEffect` (442) is not modelled.
* Dispelling the effect that is to remove a conjured weapon
  (`FXOpcodes.cpp:3690`) leaves the weapon.
* `RemoveExpiredEffects` removes what has not begun yet with what is about to
  end: `FxExpire`.

Items, all of them steps of the model:

* `EquipBestWeapon` (`Inventory.cpp:1787`) returns early when there is no ranged
  weapon or a cursed one is in hand, so that after a conjured weapon has
  vanished its empty slot stays the one in use: the finding of `worn`.
* `CanEquipRanged` never looks at the last quiver and the last weapon slot.
* Arrows dropped in a quiver take a cursed weapon out of the hand: only weapon
  slots ask.
* `Actions.cpp:4400`: `XEquipItem` puts the effects of armour in force twice,
  ignores a curse, and ends the program where a conjured weapon is in use (the
  action stops there); `EquipItem` (`:4474`) puts an item of the backpack back in
  the slot it was in (not modelled).
* An item destroyed by a script leaves its quick button, which then shoots
  arrows without a bow; a quiver that is emptied while a cursed weapon is worn
  stays the slot in use.
* After loading, a conjured weapon's effects are in force twice.
* The effects of a bow are taken away from the bow `FindTypedRangedWeapon` finds
  *then*. With two bows this is another one than the one whose effects were put
  in force, if it has come before it since: the effects of the one stay, and are
  put in force again later.
* Not modelled: a broken item that is replaced keeps its effects; the fist's
  effects are never taken away; `EnforceUsability` with a full pack loses the
  item (`Inventory.cpp:2183`); removing a curse by name reads an empty slot
  (`:2041`); items created in a slot that is taken (`GUIScript.cpp:9746`).

Saves. The first five are the mishaps `SafeSpec` is without:

* `RunningDeleted` (`SaveGameIterator.cpp:721`): areas not yet entered are gone;
  the finding of `saves_deleted`.
* `RunningMistaken` (`:665`, `:609`): the directory of the running save gets
  another name, which the extractor is not told; or another save of its number is
  taken for it.
* `StaleBlob` (`Interface.cpp:3919`, `SaveGameAREExtractor.cpp:76`): the blob stays
  in the cache and goes into the next save, with areas that have been entered
  since: an area is there twice; the finding of `saves_stale`.
* `RunningFails` (`:674`, `:706`): a failure after the save that runs was deleted
  leaves the retained areas nowhere.
* `TornDelete` (`core/System/VFS.cpp:495`): a crash while files are removed may
  leave a directory that is listed and lacks its areas.
* `SaveGameIterator.cpp:609`: a quick save the player has saved over under a name
  of his own keeps its number, and is deleted by the next quick save, which looks
  for the number alone. `SaveOver` and `QuickSave` do so, in `SafeSpec` too, whose
  refinement lets a save be replaced by another of its slot; that a named save is
  never deleted unasked is stated by no property.
* `SaveGameIterator.cpp:375`: `PruneQuickSave` reads one element past the end
  and never moves the first; not modelled.

## 6. Plan

Modules in the order of their importance, then of what a test can reach least.

1. `RingBuffer`, `ActionQueue`, `Logger`: done, checked and proved.
2. `MusicStream`, `LRUCache`, `SaveGames`: done, checked and proved.
3. `PathSearch`, `BucketQueue`, `PathFinder`, `Traversability`: done and
   checked; the search, its queue and the crowd proved.
4. `SoundChannels`: done, checked and proved. To add: the schedule of ambients,
   and the end of their thread.
5. `EffectQueue`, `Inventory`: done and checked, for the parts section 2 names;
   both proved. To add: stacking limits, shields and two-handed weapons, `Store`,
   `Spellbook`.
6. `Movable` composed with `PathFinder` and `Traversability`: bumping, coming
   back, giving up. Positions have to be points and not cells there:
   `AdjustPosition` tries the actor's own cell first, so that whether somebody
   who is bumped moves at all depends on how the other one's circle lies over
   the grid.
7. `DialogHandler` composed with `ActionQueue`; projectiles; doors, containers,
   traps.

### Not modelled

* Drivers of video and input, windows, importers of file formats, the resource
  manager, the bridge to Python: conversion and input and output, with no
  protocol of their own.
* The several hundred opcodes, triggers and actions, and the rules in
  `Actor.cpp`: sequential arithmetic over a large record. Those that change a
  plan, the queue of effects or the inventory are modelled as ways to do so.
* The OpenAL backend: most of what it does is the library's.
* Movement, dialogs, projectiles, spellbook, stores, spawns, areas and the
  party: protocols that are worth a module each, in the order above.

A later module shares a run with an existing one where the question is the same
(several rule sets of `ActionQueue` chosen in the initial state), so that the
number of runs stays small.
