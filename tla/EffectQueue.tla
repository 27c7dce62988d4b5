---------------------------- MODULE EffectQueue ----------------------------
(***************************************************************************)
(* The effects on one actor (core/EffectQueue.cpp): given by spells and    *)
(* items, prepared when they first meet their target, and executed again   *)
(* in every refresh of the actor, one by one, until they expire.           *)
(*                                                                         *)
(* An effect is abstracted to its timing mode and to what its opcode does  *)
(* to the queue and to one statistic:                                      *)
(*   "bonus"    adds to the statistic, or to its base when permanent       *)
(*   "natural"  asks to be put in front of the queue (armour class)        *)
(*   "damage"   does its work at once and is not kept                      *)
(*   "cure"     removes the bonuses that are in force (RemoveAllEffects)   *)
(*   "raise"    removes what is not permanent after death                  *)
(*   "dispel"   removes what may be dispelled and fails its roll           *)
(*   "repeat"   gives the actor an effect once a second                    *)
(*   "uncurse"  takes off what the actor wears, which refreshes it         *)
(* One step of a refresh is one effect.                                    *)
(***************************************************************************)
EXTENDS Integers, Sequences, FiniteSets

CONSTANTS
  TicksPerSec,  \* core->Time.defaultTicksPerSec
  Menu,         \* the effects one may be given: [kind, timing, duration]
  Repeated,     \* the one a "repeat" gives
  MaxEffects,   \* bound: the effects given altogether
  MaxTime       \* bound: game time

VARIABLES
  now,   \* Game::GameTime
  body,  \* the actor: its effects, base and modified statistic, and the
         \* refreshes that are going on, the innermost last; with it, for
         \* the properties, who acts in a step and who was removed
  fate   \* for the properties: what was promised, and what came of it

fxVars == <<now, body, fate>>

OpcodeKinds == {"bonus", "natural", "damage", "cure", "raise", "dispel", "repeat", "uncurse"}
TimingModes == {"limited", "permanent", "equipped", "delay limited", "delay permanent",
                "delay unsaved", "unsaved", "after bonuses", "ticks"}
Givable == [kind : OpcodeKinds, timing : TimingModes, duration : Nat]

\* What is worn adds something; what is repeated asks for no refresh and gives
\* nothing itself.
ASSUME EffectAssumption ==
  /\ TicksPerSec \in Nat \ {0} /\ MaxTime \in Nat \ {0} /\ MaxEffects \in Nat
  /\ Menu \subseteq Givable /\ Repeated \in Givable
  /\ \A g \in Menu : g.timing = "equipped" => g.kind \in {"bonus", "natural"}
  /\ Repeated.kind \notin {"repeat", "uncurse"} /\ Repeated.timing # "equipped"

Forever == MaxTime + 1

-----------------------------------------------------------------------------
\* Timing modes, and the tables about them.

NeedPrepare == {"limited", "delay limited", "delay permanent", "delay unsaved",
                "ticks"}
Delayed == {"delay limited", "delay permanent", "delay unsaved"}
Lasting == {"limited", "ticks", "absolute"}
IsRemovable == {"limited", "permanent", "delay limited", "delay permanent",
                "ticks", "absolute"}
IsLive == {"limited", "permanent", "equipped", "unsaved", "after bonuses",
           "ticks", "absolute"}
IsEquipped == {"equipped", "delay unsaved", "unsaved"}

Triggered(timing) ==
  CASE timing = "delay limited" -> "limited"
    [] timing = "delay permanent" -> "permanent"
    [] timing = "delay unsaved" -> "unsaved"

Ticks(duration) == IF duration = 0 THEN 1 ELSE duration * TicksPerSec
Length(e) == IF e.timing = "ticks" /\ e.duration > 0 THEN e.duration ELSE Ticks(e.duration)

\* ApplyEffect, on the first application.
Prepared(e) ==
  IF e.timing \notin NeedPrepare THEN e
  ELSE [e EXCEPT
         !.delay = e.duration,
         !.timing = IF e.timing \in {"limited", "ticks"} THEN "absolute"
                    ELSE e.timing,
         !.duration = now + Length(e)]

\* It is not executed at all.
IdleWhenDue(e) ==
  \/ e.timing = "expired"
  \/ e.timing \in Delayed /\ e.duration >= now

Idle(e) ==
  \/ e.timing = "expired"
  \/ e.timing \in Delayed /\ e.duration > now

\* It has triggered, or it is executed for the last time.
Timed(e) ==
  IF e.timing \in Delayed
  THEN [e EXCEPT !.timing = Triggered(e.timing),
                 !.duration = now + Ticks(e.delay)]
  ELSE IF e.timing \in Lasting /\ e.duration <= now
       THEN [e EXCEPT !.timing = "expired"] ELSE e

\* What becomes of it by the result of its opcode.
ConcludedByTime(e) == e

Concluded(e) ==
  IF \/ e.kind \in {"damage", "cure", "raise", "dispel", "uncurse"}
     \/ e.kind \in {"bonus", "natural"} /\ e.timing = "permanent"
  THEN [e EXCEPT !.timing = "expired"] ELSE e

-----------------------------------------------------------------------------
\* What the opcodes do.

\* Those in these places lose their effect for good.
Expired(b, places) ==
  [b EXCEPT
    !.effects = [i \in DOMAIN b.effects |->
                   IF i \in places THEN [b.effects[i] EXCEPT !.timing = "expired"]
                   ELSE b.effects[i]],
    !.gone = b.gone \union {b.effects[i].id : i \in {j \in places : b.effects[j].timing # "expired"}}]

\* A refresh begins: Actor::ResetStats and ApplyAllEffects.
RefreshedOnly(b, quiet) ==
  [b EXCEPT !.walks = Append(b.walks, [at |-> 1, quiet |-> quiet])]

Refreshed(b, quiet) ==
  [b EXCEPT !.modified = b.base,
            !.walks = Append(b.walks, [at |-> 1, quiet |-> quiet])]

\* RemoveSlotEffects, for the slots these effects come from (their InventorySlot;
\* a spell's have none), refreshes the actor if it found any.
TakenOff(b, things) ==
  LET worn == {i \in DOMAIN b.effects : /\ b.effects[i].id \in things
                                        /\ b.effects[i].timing = "equipped"}
  IN IF worn = {} THEN b ELSE Refreshed(Expired(b, worn), FALSE)

\* The others the dispeller may hit are the roll's choice, as is what is cursed of
\* the things he wears.
Worked(b, e, rolled) ==
  LET xs == b.effects
      bonuses == {i \in DOMAIN xs : xs[i].kind = "bonus" /\ xs[i].timing \in IsLive}
      removable == {i \in DOMAIN xs : xs[i].timing \in IsRemovable}
      dispelled == {i \in DOMAIN xs : /\ xs[i].id \in rolled /\ xs[i].id # e.id
                                      /\ xs[i].timing \notin IsEquipped}
      acts == [b EXCEPT !.acting = @ \union {e.id}]
  IN CASE e.kind = "bonus" ->
            [acts EXCEPT !.modified = b.modified + 1,
                         !.base = IF e.timing = "permanent" THEN @ + 1 ELSE @]
       [] e.kind = "cure" -> Expired(acts, bonuses)
       [] e.kind = "raise" -> Expired(acts, removable)
       [] e.kind = "dispel" -> Expired(acts, dispelled)
       [] e.kind = "uncurse" -> TakenOff(acts, rolled)
       [] OTHER -> acts

\* The refreshes that are going on stay at the effects they are at.
InFront(b, e) ==
  [b EXCEPT !.effects = <<e>> \o b.effects,
            !.walks = [n \in DOMAIN b.walks |-> [b.walks[n] EXCEPT !.at = @ + 1]]]

\* ApplyEffect with first_apply set, and AddEffect of what is left of it.
First(b, effect, rolled) ==
  LET e == Prepared(effect)
      last == Concluded(Timed(e))
      did == Worked(b, Timed(e), rolled)
  IN IF Idle(e) THEN [b EXCEPT !.effects = Append(@, e)]
     ELSE IF last.timing = "expired" THEN did
     ELSE IF e.kind = "natural" THEN InFront(did, last)
     ELSE [did EXCEPT !.effects = Append(@, last)]

-----------------------------------------------------------------------------
\* What is promised to who gives an effect (the timing constants of Effect.h):
\* when it begins, and how long it goes on.
Promise(g) ==
  [kind |-> g.kind,
   due |-> IF g.timing \in Delayed THEN now + Ticks(g.duration) ELSE now,
   span |-> IF \/ g.kind \in {"damage", "cure", "raise", "dispel", "uncurse"}
               \/ /\ g.kind \in {"bonus", "natural"}
                  /\ g.timing \in {"permanent", "delay permanent"}
            THEN 0
            ELSE IF g.timing \in {"limited", "delay limited", "ticks"} THEN Length(g)
            ELSE Forever,
   begun |-> 0, last |-> 0]

Over(f) == f.begun > 0 /\ f.last >= f.begun + f.span

\* What has come of the promises when b is what a step leaves.
Kept(promised, b) ==
  [i \in DOMAIN promised |->
     IF i \in b.acting
     THEN [promised[i] EXCEPT !.last = now,
                              !.begun = IF @ = 0 THEN now ELSE @]
     ELSE promised[i]]

Still == [body EXCEPT !.acting = {}]
Awake == body.walks # <<>>
Made(id, g) == [id |-> id, kind |-> g.kind, timing |-> g.timing,
                duration |-> g.duration, delay |-> 0]
MayGive == Len(fate) < MaxEffects

-----------------------------------------------------------------------------
FxInit ==
  /\ now = 1
  /\ body = [effects |-> <<>>, base |-> 0, modified |-> 0, walks |-> <<>>,
             acting |-> {}, gone |-> {}]
  /\ fate = <<>>

\* At most one of the things he wears is cursed.
Rolls(kind, rolled) ==
  CASE kind = "dispel" -> TRUE
    [] kind = "uncurse" -> Cardinality(rolled) <= 1
    [] OTHER -> rolled = {}

\* It is time for a "repeat" to give the effect with this number.
Gives(e, id) == e.kind = "repeat" /\ now % TicksPerSec = 0 /\ id <= MaxEffects

\* Interface::ApplyEffect: a spell, a potion, a trap. There is one "repeat" at a
\* time: the opcode drops a second one that would end later.
FxGive ==
  /\ ~Awake /\ MayGive
  /\ \E g \in Menu : \E rolled \in SUBSET (1 .. Len(fate)) :
       LET new == Made(Len(fate) + 1, g)
           gives == Gives(new, new.id + 1) /\ ~Idle(Prepared(new))
           given == IF gives THEN <<Promise(g), Promise(Repeated)>> ELSE <<Promise(g)>>
           did == IF gives THEN First(Still, Made(new.id + 1, Repeated), {}) ELSE Still
       IN /\ g.timing # "equipped"
          /\ Rolls(g.kind, rolled)
          /\ g.kind = "repeat" => \A i \in DOMAIN body.effects : body.effects[i].kind # "repeat"
          /\ body' = First(did, new, rolled)
          /\ fate' = Kept(fate \o given, body')
  /\ UNCHANGED now

\* Inventory::AddSlotEffects and Actor::AddEffects.
FxWear ==
  /\ ~Awake /\ MayGive
  /\ \E g \in Menu :
       /\ g.timing = "equipped"
       /\ body' = [First([Still EXCEPT !.modified = body.base], Made(Len(fate) + 1, g), {})
                     EXCEPT !.walks = <<[at |-> 1, quiet |-> FALSE]>>]
       /\ fate' = Kept(Append(fate, Promise(g)), body')
  /\ UNCHANGED now

\* Inventory::RemoveSlotEffects, when the player takes something off.
FxTakeOff ==
  /\ ~Awake
  /\ \E i \in DOMAIN body.effects : body' = TakenOff(Still, {body.effects[i].id})
  /\ UNCHANGED <<now, fate>>

\* Map::UpdateEffects.
FxRefresh ==
  /\ ~Awake
  /\ body' = Refreshed(Still, TRUE)
  /\ UNCHANGED <<now, fate>>

-----------------------------------------------------------------------------
\* One effect of the innermost refresh, ApplyAllEffects.

Innermost == body.walks[Len(body.walks)]
Passed(b, at, quiet) ==
  [b EXCEPT !.walks[Len(b.walks)] = [at |-> at, quiet |-> quiet]]
Place(b, id) == CHOOSE i \in DOMAIN b.effects : b.effects[i].id = id
Put(b, e) == [b EXCEPT !.effects[Place(b, e.id)] = e]

FxSkip ==
  /\ Awake /\ Innermost.at <= Len(body.effects)
  /\ Idle(body.effects[Innermost.at])
  /\ body' = Passed(Still, Innermost.at + 1, Innermost.quiet)
  /\ UNCHANGED <<now, fate>>

\* The opcode may have changed the queue: the effect is then found where it is
\* now, and expired when the opcode made it so.
Onward(b, e) ==
  LET i == Place(b, e.id)
      done == Concluded(b.effects[i])
  IN Passed([b EXCEPT !.effects[i] = done], i + 1,
            Innermost.quiet /\ b.gone = body.gone /\ Len(b.effects) = Len(body.effects))

FxApply ==
  /\ Awake /\ Innermost.at <= Len(body.effects)
  /\ ~Idle(body.effects[Innermost.at])
  /\ \E rolled \in SUBSET (1 .. Len(fate)) :
       LET e == Timed(body.effects[Innermost.at])
           gives == Gives(e, Len(fate) + 1)
           acts == Worked(Put(Still, e), e, rolled)
           did == IF gives THEN First(acts, Made(Len(fate) + 1, Repeated), {}) ELSE acts
       IN /\ Rolls(e.kind, rolled)
          /\ body' = IF Len(did.walks) > Len(body.walks) THEN did ELSE Onward(did, e)
          /\ fate' = Kept(IF gives THEN Append(fate, Promise(Repeated)) ELSE fate, body')
  /\ UNCHANGED now

\* The end of a refresh; one that an opcode asked for lets it go on.
FxRefreshed ==
  /\ Awake /\ Innermost.at > Len(body.effects)
  /\ LET outer == SubSeq(body.walks, 1, Len(body.walks) - 1)
         held == body.effects[outer[Len(outer)].at]
         left == [Still EXCEPT !.walks = outer]
     IN body' = IF outer = <<>> THEN left
                ELSE Passed(Put(left, Concluded(held)), outer[Len(outer)].at + 1, FALSE)
  /\ UNCHANGED <<now, fate>>

-----------------------------------------------------------------------------
\* Of the effects, those in these places.
Left(effects, places) ==
  LET left[n \in 0 .. Len(effects)] ==
        IF n = 0 THEN <<>>
        ELSE IF n \in places THEN Append(left[n - 1], effects[n]) ELSE left[n - 1]
  IN left[Len(effects)]

\* Map::UpdateScripts, which time stop keeps from the actor.
FxCleanup ==
  /\ ~Awake
  /\ \E i \in DOMAIN body.effects : body.effects[i].timing = "expired"
  /\ body' = [Still EXCEPT !.effects =
                 Left(@, {i \in DOMAIN @ : @[i].timing # "expired"})]
  /\ UNCHANGED <<now, fate>>

\* GameScript::FakeEffectExpiryCheck.
FxExpire ==
  /\ ~Awake
  /\ LET Passing(e) == e.timing \in Delayed \union Lasting
                        /\ e.duration <= now + TicksPerSec
         places == {i \in DOMAIN body.effects : Passing(body.effects[i])}
     IN /\ places # {}
        /\ body' = Expired(Still, places)
  /\ UNCHANGED <<now, fate>>

\* GlobalTimer::UpdateMaster, one tick; longer, a rest or a journey.
FxAdvance ==
  /\ ~Awake
  /\ \E t \in {1, 2} : now + t <= MaxTime /\ now' = now + t
  /\ body' = Still
  /\ UNCHANGED fate

\* Effect::Persistent.
Persistent(e) ==
  /\ e.timing \notin {"equipped", "delay unsaved", "unsaved", "expired"}
  /\ ~(e.timing = "absolute" /\ e.duration = now + 1)

\* The game is saved (CREImporter::PutEffects, which does not write the delay)
\* and loaded again: what is played in between leaves no trace. One that waits to
\* last for a while is written without how long, and lasts as long as one of no
\* duration: more is not promised of it from then on.
Forgotten ==
  {body.effects[i].id : i \in {j \in DOMAIN body.effects : body.effects[j].timing = "delay limited"}}

FxReload ==
  /\ ~Awake
  /\ LET saved == Left(body.effects, {i \in DOMAIN body.effects : Persistent(body.effects[i])})
         kept == {saved[i].id : i \in DOMAIN saved}
     IN body' = [effects |-> [i \in DOMAIN saved |-> [saved[i] EXCEPT !.delay = 0]],
                 base |-> body.base, modified |-> body.base, walks |-> <<>>,
                 acting |-> {}, gone |-> DOMAIN fate \ kept]
  /\ fate' = [k \in DOMAIN fate |->
                IF k \in Forgotten /\ fate[k].span > 0 THEN [fate[k] EXCEPT !.span = Ticks(0)]
                ELSE fate[k]]
  /\ UNCHANGED now

-----------------------------------------------------------------------------
FxNext ==
  \/ FxGive \/ FxWear \/ FxTakeOff \/ FxRefresh
  \/ FxSkip \/ FxApply \/ FxRefreshed
  \/ FxCleanup \/ FxExpire \/ FxAdvance \/ FxReload

FxSpec == FxInit /\ [][FxNext]_fxVars

-----------------------------------------------------------------------------
\* The effects that wait for a refresh their own opcode has asked for.
Held == {body.effects[body.walks[n].at].id : n \in 1 .. Len(body.walks) - 1}

\* An effect never acts before it was promised to begin, and once its time has
\* passed it acts one last time at most; what works once never works again,
\* whatever refreshes, saves and opcodes that change the queue come between.
\* Only the refresh an opcode asks for itself may meet it at its work.
InTheirTime ==
  [][\A i \in body'.acting \intersect DOMAIN fate :
       fate[i].due <= now /\ (Over(fate[i]) => i \in Held)]_fxVars

\* When a refresh is over, every effect whose time it is and that nobody has
\* removed has acted in this very tick or is over, also one that was given
\* meanwhile or that comes from a saved game: one whose delay the file has lost
\* begins in time, and is over a tick later.
NobodyLeftOut ==
  [][Awake /\ body'.walks = <<>> =>
       \A i \in DOMAIN fate \ body.gone :
         fate[i].due <= now => fate[i].last = now \/ Over(fate[i])]_fxVars

\* A refresh in which nothing is given or removed leaves the statistic at its
\* base and every bonus in force, counted once, whatever counted it twice before;
\* one that ends in this tick may still count.
Bonuses == {i \in DOMAIN fate \ body.gone :
              fate[i].kind = "bonus" /\ fate[i].span > 0 /\ fate[i].last = now}
Ending == {i \in Bonuses : Over(fate[i])}

RefreshSetsRight ==
  [][Awake /\ body'.walks = <<>> /\ Innermost.quiet =>
       body.modified - body.base
         \in Cardinality(Bonuses \ Ending) .. Cardinality(Bonuses)]_fxVars
=============================================================================
