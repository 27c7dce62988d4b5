-------------------------- MODULE EffectQueueProofs --------------------------
(***************************************************************************)
(* The effects on one actor, for any that may be given, any length of a    *)
(* second, any number of them and any span of time.                        *)
(***************************************************************************)
EXTENDS EffectQueue, FiniteSetTheorems, SequenceTheorems, TLAPS

--------------------------------------------------------------------------
(* Sequences, induction and loops *)

LEMMA Joined ==
  ASSUME NEW S, NEW s \in Seq(S), NEW t \in Seq(S)
  PROVE  /\ s \o t \in Seq(S) /\ Len(s \o t) = Len(s) + Len(t)
         /\ \A i \in 1..Len(s) : (s \o t)[i] = s[i]
         /\ \A i \in 1..Len(t) : (s \o t)[Len(s) + i] = t[i]
<1>1. Len(s) \in Nat /\ Len(t) \in Nat /\ s \o t \in Seq(S) /\ Len(s \o t) = Len(s) + Len(t)
  OBVIOUS
<1>2. \A i \in 1..(Len(s) + Len(t)) : (s \o t)[i] = IF i <= Len(s) THEN s[i] ELSE t[i - Len(s)]
  BY ConcatProperties
<1>3. ASSUME NEW i \in 1..Len(t) PROVE (s \o t)[Len(s) + i] = t[i]
  <2>1. /\ Len(s) + i \in 1..(Len(s) + Len(t)) /\ ~(Len(s) + i <= Len(s))
        /\ Len(s) + i - Len(s) = i
    BY <1>1
  <2> QED
    BY <1>2, <2>1
<1> QED
  BY <1>1, <1>2, <1>3

LEMMA SetInduction ==
  ASSUME NEW T \in SUBSET Nat, 0 \in T, \A n \in T : n + 1 \in T
  PROVE  T = Nat
<1> SUFFICES ASSUME NEW k \in Nat, k \notin T PROVE FALSE
  OBVIOUS
<1> DEFINE S == T \cap 0..k
           f == [n \in S |-> n + 1]
<1>1. 0 \in S /\ \A n \in S : n + 1 \in S \ {0}
  OBVIOUS
<1>2. IsFiniteSet(0..k)
  BY FS_Interval
<1>3. /\ IsFiniteSet(S) /\ IsFiniteSet(S \ {0})
      /\ Cardinality(S \ {0}) = Cardinality(S) - 1
  <2>1. S \in SUBSET 0..k
    OBVIOUS
  <2> HIDE DEF S
  <2>2. IsFiniteSet(S)
    BY <1>2, <2>1, FS_Subset
  <2> QED
    BY <1>1, <2>2, FS_RemoveElement
<1>4. Cardinality(S \ {0}) < Cardinality(S)
  BY <1>3, FS_CardinalityType
<1>5. f \in [S -> S \ {0}]
  BY <1>1
<1>6. PICK m \in S, n \in S : m # n /\ f[m] = f[n]
  <2> HIDE DEF S, f
  <2> QED
    BY <1>3, <1>4, <1>5, FS_PigeonHole
<1> QED
  BY <1>6

\* f goes on from x as the F[n] say, and stays in X.
Steps(F, N, X) == F \in [1..N -> [X -> X]]
Goes(f, F, N, X, x) ==
  f \in [0..N -> X] /\ f[0] = x /\ \A n \in 1..N : f[n] = F[n][f[n - 1]]

LEMMA Iterates ==
  ASSUME NEW F, NEW N, NEW X, NEW x, Steps(F, N, X), N \in Nat, x \in X
  PROVE  \E f : Goes(f, F, N, X, x)
<1> SUFFICES \E f \in [0..N -> X] : f[0] = x /\ \A n \in 1..N : f[n] = F[n][f[n - 1]]
  BY DEF Goes
<1>0. F \in [1..N -> [X -> X]]
  BY DEF Steps
<1> DEFINE G(m) == {f \in [0..m -> X] : f[0] = x /\ \A n \in 1..m : f[n] = F[n][f[n - 1]]}
           T == {m \in Nat : m <= N => G(m) # {}}
<1>1. 0 \in T
  <2>1. [n \in 0..0 |-> x] \in G(0)
    OBVIOUS
  <2> QED
    BY <2>1
<1>2. ASSUME NEW m \in T PROVE m + 1 \in T
  <2> SUFFICES ASSUME m + 1 <= N PROVE G(m + 1) # {}
    OBVIOUS
  <2>1. m \in Nat /\ m <= N /\ m + 1 \in 1..N
    OBVIOUS
  <2>2. PICK f \in [0..m -> X] : f[0] = x /\ \A n \in 1..m : f[n] = F[n][f[n - 1]]
    BY <2>1
  <2> DEFINE g == [n \in 0..(m + 1) |-> IF n = m + 1 THEN F[m + 1][f[m]] ELSE f[n]]
  <2>3. f[m] \in X /\ F[m + 1][f[m]] \in X
    BY <1>0, <2>1, <2>2
  <2>4. g \in [0..(m + 1) -> X]
    BY <2>1, <2>2, <2>3
  <2>5. g[0] = x /\ \A n \in 1..(m + 1) : g[n] = F[n][g[n - 1]]
    BY <2>1, <2>2
  <2> HIDE DEF g
  <2> QED
    BY <2>4, <2>5
<1>3. T = Nat
  <2>1. T \in SUBSET Nat
    OBVIOUS
  <2> HIDE DEF T
  <2> QED
    BY <1>1, <1>2, <2>1, SetInduction
<1>4. N \in T
  BY <1>3
<1> QED
  BY <1>4

--------------------------------------------------------------------------
(* What effects are, and what was promised of them *)

Effects == [id : Nat, kind : OpcodeKinds, timing : TimingModes \union {"absolute", "expired"},
            duration : Nat, delay : Nat]
Walks == [at : Nat \ {0}, quiet : BOOLEAN]
Affected == [effects : Seq(Effects), base : Int, modified : Int, walks : Seq(Walks),
             acting : SUBSET Nat, gone : SUBSET Nat]
Fates == [kind : OpcodeKinds, due : Nat, span : Nat, begun : Nat, last : Nat]
Promised(p) == DOMAIN p \subseteq Nat /\ \A k \in DOMAIN p : p[k] \in Fates

\* It works once, and then is not kept.
Instant == {"damage", "cure", "raise", "dispel", "uncurse"}
WorksOnce(e) == e.kind \in Instant \/ (e.kind \in {"bonus", "natural"} /\ e.timing = "permanent")
Spent(e) == [e EXCEPT !.timing = "expired"]
Acted(f) == [f EXCEPT !.last = now, !.begun = IF @ = 0 THEN now ELSE @]

\* What was promised of one that has not begun.
WaitsWell(e, f) ==
  /\ f.begun = 0 /\ f.last = 0 /\ f.due = e.duration
  /\ e.kind \in Instant => f.span = 0
  /\ e.kind \notin Instant =>
       /\ e.timing = "delay limited" => Ticks(e.delay) = f.span
       /\ e.timing = "delay permanent" => f.span = IF e.kind = "repeat" THEN Forever ELSE 0
       /\ e.timing = "delay unsaved" => f.span = Forever

\* One that has begun is not over yet, or waits for the refresh it asked for.
ActsWell(e, f, held) ==
  /\ 0 < f.begun /\ f.due <= f.begun /\ f.begun <= f.last /\ f.last <= now
  /\ e.timing # "ticks"
  /\ WorksOnce(e) => f.span = 0 /\ e.id \in held
  /\ ~WorksOnce(e) =>
       /\ e.timing \in {"limited", "absolute"} =>
            f.last < e.duration /\ e.duration = f.begun + f.span
       /\ e.timing \notin {"limited", "absolute"} => f.span = Forever

Waits(e) == e.timing \in Delayed
Acts(e) == e.timing \notin Delayed \union {"expired"}
Agrees(e, f, held) ==
  /\ e.kind = f.kind
  /\ Waits(e) => WaitsWell(e, f)
  /\ Acts(e) => ActsWell(e, f, held)

\* The invariant, of an actor b and what was promised, p.
Numbered(b, p) ==
  /\ \A i \in DOMAIN b.effects : b.effects[i].id \in DOMAIN p
  /\ \A i, j \in DOMAIN b.effects : b.effects[i].id = b.effects[j].id => i = j
Agreed(b, p, held) == \A i \in DOMAIN b.effects : Agrees(b.effects[i], p[b.effects[i].id], held)
Removed(b, p) ==
  /\ b.gone \subseteq DOMAIN p
  /\ \A i \in DOMAIN b.effects : b.effects[i].id \in b.gone => b.effects[i].timing = "expired"
Accounted(b, p) ==
  \A k \in DOMAIN p \ b.gone :
    \/ Over(p[k])
    \/ \E i \in DOMAIN b.effects : b.effects[i].id = k /\ b.effects[i].timing # "expired"

\* Every refresh but the innermost is at an effect that has just acted.
Walking(b, p) ==
  \A n \in DOMAIN b.walks :
    IF n = Len(b.walks) THEN b.walks[n].at <= Len(b.effects) + 1
    ELSE b.walks[n].at <= Len(b.effects) /\ p[b.effects[b.walks[n].at].id].last = now

\* What the outermost one has passed has acted.
Met(b, p) ==
  b.walks # <<>> =>
    \A j \in DOMAIN b.effects : j < b.walks[1].at =>
      LET k == b.effects[j].id
      IN k \in b.gone \/ p[k].due > now \/ p[k].last = now \/ Over(p[k])

Sound(b, p, held) ==
  /\ b \in Affected /\ Promised(p) /\ now \in 1 .. MaxTime
  /\ Numbered(b, p) /\ Agreed(b, p, held) /\ Removed(b, p) /\ Walking(b, p)
  /\ Accounted(b, p) /\ Met(b, p)

HeldBy(b) == {b.effects[b.walks[n].at].id : n \in 1 .. Len(b.walks) - 1}

LEMMA Positive == \A n \in Nat \ {0} : n > 0
OBVIOUS

LEMMA TicksAre ==
  /\ \A d \in Nat : Ticks(d) \in Nat \ {0} /\ Ticks(0) <= Ticks(d)
  /\ \A e \in Givable : Length(e) \in Nat \ {0}
  /\ Forever \in Nat /\ MaxTime < Forever
<1>1. TicksPerSec \in Nat \ {0} /\ MaxTime \in Nat
  BY EffectAssumption
<1>2. ASSUME NEW d \in Nat \ {0} PROVE d * TicksPerSec \in Nat \ {0}
  BY <1>1
<1>3. \A d \in Nat : Ticks(d) \in Nat \ {0} /\ Ticks(0) <= Ticks(d)
  BY <1>2 DEF Ticks
<1>4. \A e \in Givable : Length(e) \in Nat \ {0}
  BY <1>3 DEF Length, Givable
<1> QED
  BY <1>1, <1>3, <1>4 DEF Forever

LEMMA AffectedAre ==
  ASSUME NEW b \in Affected
  PROVE  /\ b.effects \in Seq(Effects) /\ b.walks \in Seq(Walks) /\ b.base \in Int
         /\ b.modified \in Int /\ b.acting \in SUBSET Nat /\ b.gone \in SUBSET Nat
         /\ Len(b.effects) \in Nat /\ DOMAIN b.effects = 1 .. Len(b.effects)
         /\ Len(b.walks) \in Nat /\ DOMAIN b.walks = 1 .. Len(b.walks)
         /\ b.walks = <<>> <=> Len(b.walks) = 0
         /\ \A i \in DOMAIN b.effects : b.effects[i] \in Effects
         /\ \A i \in DOMAIN b.walks : b.walks[i] \in Walks
BY LenProperties, EmptySeq, ElementOfSeq DEF Affected

--------------------------------------------------------------------------
(* What the opcodes do *)

\* From b to c some effects were removed, and nothing else was done to any.
Loses(b, c) ==
  /\ c \in Affected /\ Len(c.effects) = Len(b.effects) /\ b.gone \subseteq c.gone
  /\ \A i \in DOMAIN b.effects :
       \/ c.effects[i] = b.effects[i]
       \/ c.effects[i] = Spent(b.effects[i]) /\ b.effects[i].id \in c.gone
  /\ \A k \in c.gone \ b.gone : \E i \in DOMAIN b.effects :
       b.effects[i].id = k /\ b.effects[i].timing # "expired" /\ c.effects[i] = Spent(b.effects[i])

LEMMA ExpiredLoses ==
  ASSUME NEW b \in Affected, NEW P \in SUBSET DOMAIN b.effects
  PROVE  LET c == Expired(b, P)
         IN /\ Loses(b, c)
            /\ c.walks = b.walks /\ c.acting = b.acting
            /\ c.base = b.base /\ c.modified = b.modified
<1> DEFINE E == b.effects
           F == [i \in DOMAIN E |-> IF i \in P THEN Spent(E[i]) ELSE E[i]]
           G == {E[i].id : i \in {j \in P : E[j].timing # "expired"}}
           c == Expired(b, P)
<1>1. c = [b EXCEPT !.effects = F, !.gone = b.gone \union G]
  BY DEF Expired, Spent
<1>2. /\ b.effects \in Seq(Effects) /\ b.gone \in SUBSET Nat
      /\ Len(E) \in Nat /\ DOMAIN E = 1 .. Len(E)
      /\ \A i \in DOMAIN E : E[i] \in Effects
  BY AffectedAre
<1>3. \A i \in DOMAIN E : F[i] \in Effects
  BY <1>2 DEF Effects, Spent
<1>4. F \in Seq(Effects) /\ Len(F) = Len(E) /\ DOMAIN F = DOMAIN E
  <2> HIDE DEF E
  <2>1. DOMAIN F = 1 .. Len(E)
    BY <1>2
  <2>2. F \in [1 .. Len(E) -> Effects]
    BY <1>2, <1>3
  <2> HIDE DEF F
  <2> QED
    BY <1>2, <2>1, <2>2, IsASeq, LenProperties
<1>5. G \subseteq Nat
  BY <1>2 DEF Effects
<1> HIDE DEF c
<1>6. /\ c \in Affected /\ c.effects = F /\ c.gone = b.gone \union G
      /\ c.walks = b.walks /\ c.acting = b.acting
      /\ c.base = b.base /\ c.modified = b.modified
  <2> HIDE DEF F, G
  <2> QED
    BY <1>1, <1>2, <1>4, <1>5 DEF Affected
<1>7. \A i \in DOMAIN E :
        \/ F[i] = E[i]
        \/ F[i] = Spent(E[i]) /\ E[i].id \in b.gone \union G
  <2> SUFFICES ASSUME NEW i \in DOMAIN E, i \in P, E[i].timing = "expired" PROVE F[i] = E[i]
    OBVIOUS
  <2> QED
    BY <1>2 DEF Spent, Effects
<1>8. \A k \in (b.gone \union G) \ b.gone : \E i \in DOMAIN E :
        E[i].id = k /\ E[i].timing # "expired" /\ F[i] = Spent(E[i])
  OBVIOUS
<1> HIDE DEF F, G
<1> QED
  BY <1>4, <1>6, <1>7, <1>8 DEF Loses, c

\* Nothing is removed twice.
LEMMA LosesNothing ==
  ASSUME NEW b \in Affected
  PROVE  Loses(b, b)
BY AffectedAre DEF Loses

LEMMA RefreshedIs ==
  ASSUME NEW b \in Affected, NEW quiet \in BOOLEAN
  PROVE  LET c == Refreshed(b, quiet)
         IN /\ c \in Affected /\ c.effects = b.effects /\ c.gone = b.gone /\ c.acting = b.acting
            /\ c.base = b.base /\ c.modified = b.base
            /\ c.walks = Append(b.walks, [at |-> 1, quiet |-> quiet])
<1> DEFINE w == [at |-> 1, quiet |-> quiet]
<1>1. w \in Walks
  BY DEF Walks
<1> HIDE DEF w
<1>2. Append(b.walks, w) \in Seq(Walks)
  BY <1>1, AffectedAre, AppendProperties
<1>3. Refreshed(b, quiet) = [b EXCEPT !.modified = b.base, !.walks = Append(b.walks, w)]
  BY DEF Refreshed, w
<1> HIDE DEF w
<1>4. LET c == Refreshed(b, quiet)
      IN /\ c \in Affected /\ c.effects = b.effects /\ c.gone = b.gone /\ c.acting = b.acting
         /\ c.base = b.base /\ c.modified = b.base /\ c.walks = Append(b.walks, w)
  BY <1>2, <1>3 DEF Affected
<1> QED
  BY <1>4 DEF w

\* From b to c a refresh may have been asked for.
Asks(b, c) == c.walks = Append(b.walks, [at |-> 1, quiet |-> FALSE])

LEMMA TakenOffIs ==
  ASSUME NEW b \in Affected, NEW things
  PROVE  LET c == TakenOff(b, things)
         IN /\ Loses(b, c) /\ c.acting = b.acting /\ c.base = b.base
            /\ \/ c = b
               \/ Asks(b, c) /\ c.modified = c.base
<1> DEFINE P == {i \in DOMAIN b.effects : /\ b.effects[i].id \in things
                                          /\ b.effects[i].timing = "equipped"}
           d == Expired(b, P)
           c == Refreshed(d, FALSE)
<1>1. CASE P = {}
  BY <1>1, LosesNothing DEF TakenOff
<1>2. CASE P # {}
  <2>1. TakenOff(b, things) = c
    BY <1>2 DEF TakenOff
  <2>2. /\ Loses(b, d) /\ d.walks = b.walks /\ d.acting = b.acting
        /\ d.base = b.base /\ d.modified = b.modified
    BY ExpiredLoses
  <2> HIDE DEF d
  <2>3. d \in Affected
    BY <2>2 DEF Loses
  <2>4. /\ c \in Affected /\ c.effects = d.effects /\ c.gone = d.gone /\ c.acting = d.acting
        /\ c.base = d.base /\ c.modified = d.base
        /\ c.walks = Append(d.walks, [at |-> 1, quiet |-> FALSE])
    BY <2>3, RefreshedIs
  <2> HIDE DEF c
  <2>5. Loses(b, c)
    BY <2>2, <2>4 DEF Loses
  <2> QED
    BY <2>1, <2>2, <2>4, <2>5 DEF Asks
<1> QED
  BY <1>1, <1>2

\* One acts: it may remove some, ask for a refresh or add to the statistic.
LEMMA WorkedIs ==
  ASSUME NEW b \in Affected, NEW e \in Effects, NEW rolled
  PROVE  LET c == Worked(b, e, rolled)
         IN /\ Loses(b, c) /\ c.acting = b.acting \union {e.id}
            /\ c.walks = b.walks \/ (e.kind = "uncurse" /\ Asks(b, c))
            /\ e.kind \in {"bonus", "natural", "damage", "repeat"} =>
                 c.effects = b.effects /\ c.gone = b.gone
            /\ e.kind = "bonus" =>
                 c.modified - c.base =
                   b.modified - b.base + (IF e.timing = "permanent" THEN 0 ELSE 1)
            /\ e.kind # "bonus" /\ c.walks = b.walks => c.modified = b.modified /\ c.base = b.base
<1> DEFINE c == Worked(b, e, rolled)
           a == [b EXCEPT !.acting = @ \union {e.id}]
           xs == b.effects
           bonuses == {i \in DOMAIN xs : xs[i].kind = "bonus" /\ xs[i].timing \in IsLive}
           removable == {i \in DOMAIN xs : xs[i].timing \in IsRemovable}
           dispelled == {i \in DOMAIN xs : /\ xs[i].id \in rolled /\ xs[i].id # e.id
                                           /\ xs[i].timing \notin IsEquipped}
<1>1. /\ a \in Affected /\ a.effects = b.effects /\ a.gone = b.gone /\ a.walks = b.walks
      /\ a.base = b.base /\ a.modified = b.modified /\ a.acting = b.acting \union {e.id}
  BY DEF Affected, Effects
<1>2. \A d : Loses(a, d) => Loses(b, d)
  BY <1>1 DEF Loses
<1>3. e.kind \in OpcodeKinds
  BY DEF Effects
<1>4. CASE e.kind = "bonus"
  <2>1. c = [a EXCEPT !.modified = b.modified + 1,
                      !.base = IF e.timing = "permanent" THEN @ + 1 ELSE @]
    BY <1>4 DEF Worked
  <2>2. /\ c \in Affected /\ c.effects = b.effects /\ c.gone = b.gone /\ c.walks = b.walks
        /\ c.acting = b.acting \union {e.id} /\ c.modified = b.modified + 1
        /\ c.base = IF e.timing = "permanent" THEN b.base + 1 ELSE b.base
    <3> DEFINE m == b.modified + 1
               n == IF e.timing = "permanent" THEN b.base + 1 ELSE b.base
    <3>1. m \in Int /\ n \in Int
      BY DEF Affected
    <3>2. c = [a EXCEPT !.modified = m, !.base = n]
      BY <1>1, <2>1
    <3> HIDE DEF a, c, m, n
    <3>3. /\ c \in Affected /\ c.effects = b.effects /\ c.gone = b.gone /\ c.walks = b.walks
          /\ c.acting = b.acting \union {e.id} /\ c.modified = m /\ c.base = n
      BY <1>1, <3>1, <3>2 DEF Affected
    <3> QED
      BY <3>3 DEF m, n
  <2>3. b.modified \in Int /\ b.base \in Int
    BY DEF Affected
  <2> HIDE DEF c, a
  <2>4. Loses(b, c)
    BY <2>2, LosesNothing DEF Loses
  <2> QED
    BY <1>4, <2>2, <2>3, <2>4 DEF c
<1>5. ASSUME NEW P \in SUBSET DOMAIN xs, c = Expired(a, P),
             e.kind \in {"cure", "raise", "dispel"}
      PROVE  /\ Loses(b, c) /\ c.acting = b.acting \union {e.id} /\ c.walks = b.walks
             /\ c.modified = b.modified /\ c.base = b.base
  <2> HIDE DEF c, a
  <2> QED
    BY <1>1, <1>2, <1>5, ExpiredLoses
<1>6. CASE e.kind = "cure"
  <2>1. c = Expired(a, bonuses)
    BY <1>6 DEF Worked
  <2> QED
    BY <1>5, <1>6, <2>1
<1>7. CASE e.kind = "raise"
  <2>1. c = Expired(a, removable)
    BY <1>7 DEF Worked
  <2> QED
    BY <1>5, <1>7, <2>1
<1>8. CASE e.kind = "dispel"
  <2>1. c = Expired(a, dispelled)
    BY <1>8 DEF Worked
  <2> QED
    BY <1>5, <1>8, <2>1
<1>9. CASE e.kind = "uncurse"
  <2>1. c = TakenOff(a, rolled)
    BY <1>9 DEF Worked
  <2> HIDE DEF c, a
  <2>2. /\ Loses(a, c) /\ c.acting = a.acting /\ c.base = a.base
        /\ c = a \/ Asks(a, c)
    BY <1>1, <2>1, TakenOffIs
  <2>3. c.walks = b.walks \/ Asks(b, c)
    BY <1>1, <2>2 DEF Asks
  <2>4. c.walks = b.walks => c = a
    <3>1. Append(b.walks, [at |-> 1, quiet |-> FALSE]) # b.walks
      <4>1. b.walks \in Seq(Walks) /\ [at |-> 1, quiet |-> FALSE] \in Walks
        BY AffectedAre DEF Walks
      <4> QED
        BY <4>1, AppendProperties, LenProperties
    <3> QED
      BY <1>1, <2>2, <3>1 DEF Asks
  <2> QED
    BY <1>1, <1>2, <1>9, <2>2, <2>3, <2>4 DEF c
<1>10. CASE e.kind \in {"natural", "damage", "repeat"}
  <2>1. c = a
    BY <1>10 DEF Worked
  <2> HIDE DEF c, a
  <2> QED
    BY <1>1, <1>2, <1>10, <2>1, LosesNothing DEF c
<1> HIDE DEF c
<1> QED
  BY <1>3, <1>4, <1>6, <1>7, <1>8, <1>9, <1>10 DEF c, OpcodeKinds

--------------------------------------------------------------------------
(* What was promised stays true of the others *)

LEMMA SpentIs ==
  ASSUME NEW e \in Effects
  PROVE  /\ Spent(e) \in Effects /\ Spent(e).id = e.id /\ Spent(e).kind = e.kind
         /\ Spent(e).timing = "expired" /\ ~Waits(Spent(e)) /\ ~Acts(Spent(e))
BY DEF Effects, Spent, Waits, Acts, Delayed

LEMMA WalkAppended ==
  ASSUME NEW b \in Affected, NEW c \in Affected, Asks(b, c)
  PROVE  /\ Len(c.walks) = Len(b.walks) + 1 /\ c.walks # <<>>
         /\ \A n \in DOMAIN b.walks : n \in DOMAIN c.walks /\ c.walks[n] = b.walks[n]
         /\ c.walks[Len(b.walks) + 1] = [at |-> 1, quiet |-> FALSE]
<1>1. b.walks \in Seq(Walks) /\ [at |-> 1, quiet |-> FALSE] \in Walks
  BY AffectedAre DEF Walks
<1> QED
  BY <1>1, AffectedAre, AppendProperties DEF Asks

\* c asks for a refresh at most, and only of one whose effect has just acted.
MayRefresh(b, p, c) ==
  \/ c.walks = b.walks
  \/ /\ Asks(b, c)
     /\ b.walks # <<>> => /\ b.walks[Len(b.walks)].at <= Len(b.effects)
                          /\ p[b.effects[b.walks[Len(b.walks)].at].id].last = now

\* Whatever is removed, and also when that asks for a refresh.
LEMMA LosesSound ==
  ASSUME NEW b, NEW p, NEW held, Sound(b, p, held), NEW c, Loses(b, c), MayRefresh(b, p, c)
  PROVE  Sound(c, p, held)
<1>1. /\ b \in Affected /\ c \in Affected /\ Promised(p) /\ now \in 1 .. MaxTime
      /\ Len(b.effects) = Len(c.effects) /\ DOMAIN b.effects = DOMAIN c.effects
      /\ b.gone \subseteq c.gone
  BY AffectedAre DEF Sound, Loses
<1>2. \A i \in DOMAIN b.effects :
        /\ b.effects[i] \in Effects /\ c.effects[i] \in Effects
        /\ c.effects[i].id = b.effects[i].id /\ c.effects[i].kind = b.effects[i].kind
        /\ \/ c.effects[i] = b.effects[i]
           \/ /\ c.effects[i].timing = "expired" /\ b.effects[i].id \in c.gone
              /\ ~Waits(c.effects[i]) /\ ~Acts(c.effects[i])
  BY <1>1, AffectedAre, SpentIs DEF Loses
<1>3. Numbered(c, p)
  BY <1>1, <1>2 DEF Sound, Numbered
<1>4. Agreed(c, p, held)
  <2> SUFFICES ASSUME NEW i \in DOMAIN c.effects
               PROVE  Agrees(c.effects[i], p[c.effects[i].id], held)
    BY DEF Agreed
  <2>1. Agrees(b.effects[i], p[b.effects[i].id], held)
    BY <1>1 DEF Sound, Agreed
  <2> QED
    BY <1>1, <1>2, <2>1 DEF Agrees
<1>5. Removed(c, p)
  <2>1. c.gone \subseteq DOMAIN p
    BY <1>1 DEF Sound, Removed, Numbered, Loses
  <2>2. ASSUME NEW i \in DOMAIN c.effects, c.effects[i].id \in c.gone
        PROVE  c.effects[i].timing = "expired"
    <3>1. CASE b.effects[i].id \in b.gone
      <4>1. b.effects[i].timing = "expired"
        BY <1>1, <3>1 DEF Sound, Removed
      <4> QED
        BY <1>1, <1>2, <4>1
    <3>2. CASE b.effects[i].id \notin b.gone
      <4>1. PICK j \in DOMAIN b.effects :
              b.effects[j].id = b.effects[i].id /\ c.effects[j] = Spent(b.effects[j])
        BY <1>1, <1>2, <2>2, <3>2 DEF Loses
      <4>2. j = i
        BY <1>1, <4>1 DEF Sound, Numbered
      <4> QED
        BY <1>1, <1>2, <4>1, <4>2, SpentIs
    <3> QED
      BY <3>1, <3>2
  <2> QED
    BY <2>1, <2>2 DEF Removed
<1>6. Walking(b, p)
  BY DEF Sound
<1>7. Walking(c, p)
  <2>0. /\ \A n \in DOMAIN b.walks : b.walks[n].at \in Nat \ {0}
        /\ Len(b.effects) \in Nat /\ DOMAIN b.effects = 1 .. Len(b.effects)
        /\ Len(b.walks) \in Nat /\ DOMAIN b.walks = 1 .. Len(b.walks)
    BY <1>1, AffectedAre DEF Walks
  <2>1. CASE c.walks = b.walks
    <3> SUFFICES ASSUME NEW n \in DOMAIN b.walks
                 PROVE  IF n = Len(b.walks) THEN b.walks[n].at <= Len(c.effects) + 1
                        ELSE /\ b.walks[n].at <= Len(c.effects)
                             /\ p[c.effects[b.walks[n].at].id].last = now
      BY <2>1 DEF Walking
    <3>1. CASE n = Len(b.walks)
      BY Zenon, <1>1, <1>6, <3>1 DEF Walking
    <3>2. CASE n # Len(b.walks)
      <4>1. b.walks[n].at <= Len(b.effects) /\ p[b.effects[b.walks[n].at].id].last = now
        BY Zenon, <1>6, <3>2 DEF Walking
      <4>2. b.walks[n].at \in DOMAIN b.effects
        BY <2>0, <4>1
      <4> QED
        BY <1>1, <1>2, <3>2, <4>1, <4>2
    <3> QED
      BY <3>1, <3>2
  <2>2. CASE c.walks # b.walks
    <3>1. Asks(b, c)
      BY Zenon, <2>2 DEF MayRefresh
    <3>2. b.walks # <<>> => /\ b.walks[Len(b.walks)].at <= Len(b.effects)
                            /\ p[b.effects[b.walks[Len(b.walks)].at].id].last = now
      BY Zenon, <2>2 DEF MayRefresh
    <3>3. ASSUME NEW n \in DOMAIN b.walks
          PROVE  b.walks[n].at <= Len(b.effects) /\ p[b.effects[b.walks[n].at].id].last = now
      <4>1. CASE n = Len(b.walks)
        <5>1. b.walks # <<>>
          BY <1>1, AffectedAre
        <5> QED
          BY <3>2, <4>1, <5>1
      <4>2. CASE n # Len(b.walks)
        BY <1>6, <4>2 DEF Walking
      <4> QED
        BY <4>1, <4>2
    <3>4. ASSUME NEW n \in DOMAIN b.walks PROVE b.walks[n].at \in DOMAIN b.effects
      <4>1. b.walks[n].at \in Nat \ {0} /\ b.walks[n].at <= Len(b.effects)
        BY Zenon, <2>0, <3>3
      <4> QED
        BY <2>0, <4>1
    <3>5. Len(c.walks) = Len(b.walks) + 1 /\ DOMAIN c.walks = 1 .. (Len(b.walks) + 1)
          /\ Len(b.walks) \in Nat /\ DOMAIN b.walks = 1 .. Len(b.walks) /\ Len(b.effects) \in Nat
      BY <1>1, <3>1, WalkAppended, AffectedAre
    <3>6. /\ \A n \in DOMAIN b.walks : c.walks[n] = b.walks[n]
          /\ c.walks[Len(b.walks) + 1].at = 1
      BY <1>1, <3>1, WalkAppended
    <3>7. ASSUME NEW n \in DOMAIN b.walks
          PROVE  c.walks[n].at <= Len(c.effects) /\ p[c.effects[c.walks[n].at].id].last = now
      <4>1. /\ b.walks[n].at <= Len(b.effects) /\ p[b.effects[b.walks[n].at].id].last = now
            /\ b.walks[n].at \in DOMAIN b.effects /\ c.walks[n] = b.walks[n]
        BY Zenon, <3>3, <3>4, <3>6
      <4>2. c.effects[b.walks[n].at].id = b.effects[b.walks[n].at].id
        BY <1>2, <4>1
      <4> QED
        BY <1>1, <4>1, <4>2
    <3> SUFFICES ASSUME NEW n \in DOMAIN c.walks
                 PROVE  IF n = Len(c.walks) THEN c.walks[n].at <= Len(c.effects) + 1
                        ELSE /\ c.walks[n].at <= Len(c.effects)
                             /\ p[c.effects[c.walks[n].at].id].last = now
      BY Zenon DEF Walking
    <3>8. CASE n \in DOMAIN b.walks
      <4>1. n # Len(c.walks)
        BY <3>5, <3>8
      <4> QED
        BY Zenon, <3>7, <3>8, <4>1
    <3>9. CASE n \notin DOMAIN b.walks
      <4>1. n = Len(b.walks) + 1
        BY <3>5, <3>9
      <4> QED
        BY <1>1, <3>5, <3>6, <4>1
    <3> QED
      BY <3>8, <3>9
  <2> QED
    BY <2>1, <2>2
<1>8. Accounted(c, p) /\ Met(c, p)
  <2>1. Accounted(b, p) /\ Met(b, p)
    BY DEF Sound
  <2>2. Accounted(c, p)
    <3> SUFFICES ASSUME NEW k \in DOMAIN p \ c.gone, ~Over(p[k])
                 PROVE  \E i \in DOMAIN c.effects :
                          c.effects[i].id = k /\ c.effects[i].timing # "expired"
      BY DEF Accounted
    <3>1. PICK i \in DOMAIN b.effects : b.effects[i].id = k /\ b.effects[i].timing # "expired"
      BY <1>1, <2>1 DEF Accounted
    <3>2. c.effects[i] = b.effects[i]
      BY <1>1, <3>1 DEF Loses
    <3> QED
      BY <1>1, <3>1, <3>2
  <2>3. Met(c, p)
    <3> SUFFICES ASSUME c.walks # <<>>, NEW j \in DOMAIN c.effects, j < c.walks[1].at
                 PROVE  LET k == c.effects[j].id
                        IN k \in c.gone \/ p[k].due > now \/ p[k].last = now \/ Over(p[k])
      BY DEF Met
    <3>1. b.walks # <<>> /\ j < b.walks[1].at
      <4>1. CASE c.walks = b.walks
        BY <4>1
      <4>2. CASE Asks(b, c)
        <5>1. CASE b.walks = <<>>
          <6>1. c.walks[1].at = 1
            BY <1>1, <4>2, <5>1, WalkAppended, AffectedAre
          <6> QED
            BY <1>1, <6>1, AffectedAre
        <5>2. CASE b.walks # <<>>
          <6>1. 1 \in DOMAIN b.walks
            BY <1>1, <5>2, AffectedAre
          <6> QED
            BY <1>1, <4>2, <5>2, <6>1, WalkAppended
        <5> QED
          BY <5>1, <5>2
      <4>3. c.walks = b.walks \/ Asks(b, c)
        BY Zenon DEF MayRefresh
      <4> QED
        BY <4>1, <4>2, <4>3
    <3> QED
      BY Zenon, <1>1, <1>2, <2>1, <3>1 DEF Met
  <2> QED
    BY <2>2, <2>3
<1> QED
  BY <1>1, <1>3, <1>4, <1>5, <1>7, <1>8 DEF Sound

--------------------------------------------------------------------------
(* One more effect *)

\* q is p with one more promise.
More(p, q, x, f) ==
  /\ x \in Nat \ DOMAIN p /\ f \in Fates /\ DOMAIN q = DOMAIN p \union {x}
  /\ q[x] = f /\ \A k \in DOMAIN p : q[k] = p[k]

\* c is b with e at the end or, by one place, in front.
Gains(b, c, e, s) ==
  /\ c \in Affected /\ e \in Effects /\ s \in {0, 1}
  /\ Len(c.effects) = Len(b.effects) + 1 /\ c.gone = b.gone
  /\ \A i \in DOMAIN b.effects : c.effects[i + s] = b.effects[i]
  /\ c.effects[IF s = 0 THEN Len(b.effects) + 1 ELSE 1] = e
  /\ Len(c.walks) = Len(b.walks)
  /\ \A n \in DOMAIN b.walks : c.walks[n].at = b.walks[n].at + s /\ c.walks[n].quiet = b.walks[n].quiet
  /\ c.acting = b.acting /\ c.base = b.base /\ c.modified = b.modified

LEMMA GainsPlaces ==
  ASSUME NEW b \in Affected, NEW c, NEW e, NEW s, Gains(b, c, e, s)
  PROVE  /\ DOMAIN c.walks = DOMAIN b.walks
         /\ \A j \in DOMAIN c.effects : c.effects[j] = e \/ (j - s \in DOMAIN b.effects /\ c.effects[j] = b.effects[j - s])
         /\ \A i \in DOMAIN b.effects : i + s \in DOMAIN c.effects
         /\ \E j \in DOMAIN c.effects : c.effects[j] = e
<1>1. /\ Len(b.effects) \in Nat /\ DOMAIN b.effects = 1 .. Len(b.effects)
      /\ DOMAIN c.effects = 1 .. (Len(b.effects) + 1)
      /\ DOMAIN c.walks = DOMAIN b.walks /\ s \in {0, 1}
  BY AffectedAre DEF Gains
<1>2. ASSUME NEW j \in DOMAIN c.effects
      PROVE  c.effects[j] = e \/ (j - s \in DOMAIN b.effects /\ c.effects[j] = b.effects[j - s])
  <2>1. CASE j - s \in DOMAIN b.effects
    <3>1. c.effects[(j - s) + s] = b.effects[j - s]
      BY <2>1 DEF Gains
    <3>2. (j - s) + s = j
      BY <1>1
    <3> QED
      BY <2>1, <3>1, <3>2
  <2>2. CASE j - s \notin DOMAIN b.effects
    <3>1. j = IF s = 0 THEN Len(b.effects) + 1 ELSE 1
      BY <1>1, <2>2
    <3> QED
      BY <3>1 DEF Gains
  <2> QED
    BY <2>1, <2>2
<1>3. \A i \in DOMAIN b.effects : i + s \in DOMAIN c.effects
  BY <1>1
<1>4. (IF s = 0 THEN Len(b.effects) + 1 ELSE 1) \in DOMAIN c.effects
  BY <1>1
<1> QED
  BY <1>1, <1>2, <1>3, <1>4 DEF Gains

LEMMA GainsSound ==
  ASSUME NEW b, NEW p, NEW held, Sound(b, p, held), NEW c, NEW e, NEW s, Gains(b, c, e, s),
         NEW q, NEW f, More(p, q, e.id, f), e.timing # "expired", Agrees(e, f, held),
         s = 1 => f.last = now
  PROVE  Sound(c, q, held)
<1> DEFINE x == e.id
<1>1. /\ b \in Affected /\ c \in Affected /\ Promised(p) /\ e \in Effects /\ s \in {0, 1}
      /\ c.gone = b.gone
  BY DEF Sound, Gains
<1>2. /\ Promised(q) /\ DOMAIN q = DOMAIN p \union {x}
      /\ \A k \in DOMAIN p : q[k] = p[k]
      /\ q[x] = f /\ x \notin DOMAIN p /\ x \in DOMAIN q /\ DOMAIN p \subseteq DOMAIN q
  BY <1>1 DEF More, Promised
<1> HIDE DEF x
<1>3. /\ DOMAIN c.walks = DOMAIN b.walks
      /\ \A j \in DOMAIN c.effects : c.effects[j] = e \/ (j - s \in DOMAIN b.effects /\ c.effects[j] = b.effects[j - s])
      /\ \A i \in DOMAIN b.effects : i + s \in DOMAIN c.effects /\ c.effects[i + s] = b.effects[i]
      /\ \E j \in DOMAIN c.effects : c.effects[j] = e
  <2>1. \A i \in DOMAIN b.effects : c.effects[i + s] = b.effects[i]
    BY DEF Gains
  <2> QED
    BY <1>1, <2>1, GainsPlaces
<1>4. /\ Len(b.effects) \in Nat /\ DOMAIN b.effects = 1 .. Len(b.effects)
      /\ DOMAIN c.effects = 1 .. (Len(b.effects) + 1) /\ Len(c.effects) = Len(b.effects) + 1
      /\ Len(b.walks) \in Nat /\ DOMAIN b.walks = 1 .. Len(b.walks) /\ Len(c.walks) = Len(b.walks)
      /\ \A n \in DOMAIN b.walks : b.walks[n].at \in Nat \ {0}
      /\ b.walks = <<>> <=> c.walks = <<>>
  BY <1>1, AffectedAre DEF Gains, Walks
<1>5. e.id = x /\ \A i \in DOMAIN b.effects : b.effects[i].id \in DOMAIN p
  BY DEF Sound, Numbered, x
<1>6. Numbered(c, q)
  <2>1. \A j \in DOMAIN c.effects : c.effects[j].id \in DOMAIN q
    BY <1>2, <1>3, <1>5
  <2>2. ASSUME NEW i \in DOMAIN c.effects, NEW j \in DOMAIN c.effects, c.effects[i].id = c.effects[j].id
        PROVE  i = j
    <3>1. CASE c.effects[i] = e
      <4>1. c.effects[j] = e
        BY <1>2, <1>3, <1>5, <2>2, <3>1
      <4>2. \A k \in DOMAIN c.effects : c.effects[k] = e => k - s \notin DOMAIN b.effects
        <5> SUFFICES ASSUME NEW k \in DOMAIN c.effects, c.effects[k] = e, k - s \in DOMAIN b.effects
                     PROVE  FALSE
          OBVIOUS
        <5>1. c.effects[(k - s) + s] = b.effects[k - s]
          BY <1>3
        <5>2. (k - s) + s = k
          BY <1>1, <1>4
        <5> QED
          BY <1>2, <1>5, <5>1, <5>2
      <4>3. \A k \in DOMAIN c.effects :
              k - s \notin DOMAIN b.effects => k = IF s = 0 THEN Len(b.effects) + 1 ELSE 1
        BY <1>1, <1>4
      <4> QED
        BY <3>1, <4>1, <4>2, <4>3
    <3>2. CASE c.effects[i] # e
      <4>1. i - s \in DOMAIN b.effects /\ c.effects[i] = b.effects[i - s]
        BY <1>3, <3>2
      <4>2. c.effects[j] # e
        BY <1>2, <1>5, <2>2, <4>1
      <4>3. j - s \in DOMAIN b.effects /\ c.effects[j] = b.effects[j - s]
        BY <1>3, <4>2
      <4>4. i - s = j - s
        BY <2>2, <4>1, <4>3 DEF Sound, Numbered
      <4> QED
        BY <1>1, <1>4, <4>4
    <3> QED
      BY <3>1, <3>2
  <2> QED
    BY <2>1, <2>2 DEF Numbered
<1>7. Agreed(c, q, held)
  <2>1. \A i \in DOMAIN b.effects : Agrees(b.effects[i], p[b.effects[i].id], held)
    BY DEF Sound, Agreed
  <2> QED
    BY <1>2, <1>3, <1>5, <2>1 DEF Agreed, x
<1>8. Removed(c, q)
  <2>1. c.gone \subseteq DOMAIN p /\ \A i \in DOMAIN b.effects :
          b.effects[i].id \in c.gone => b.effects[i].timing = "expired"
    BY <1>1 DEF Sound, Removed
  <2> QED
    BY <1>2, <1>3, <1>5, <2>1 DEF Removed
<1>9. Walking(c, q)
  <2> SUFFICES ASSUME NEW n \in DOMAIN b.walks
               PROVE  IF n = Len(c.walks) THEN c.walks[n].at <= Len(c.effects) + 1
                      ELSE /\ c.walks[n].at <= Len(c.effects)
                           /\ q[c.effects[c.walks[n].at].id].last = now
    BY <1>3 DEF Walking
  <2>1. c.walks[n].at = b.walks[n].at + s /\ b.walks[n].at \in Nat \ {0}
    BY <1>4 DEF Gains
  <2>2. CASE n = Len(c.walks)
    <3>1. b.walks[n].at <= Len(b.effects) + 1
      BY <1>4, <2>2 DEF Sound, Walking
    <3>2. b.walks[n].at + s <= Len(b.effects) + 2
      BY <1>1, <1>4, <2>1, <3>1
    <3> QED
      BY <1>4, <2>1, <2>2, <3>2
  <2>3. CASE n # Len(c.walks)
    <3>1. b.walks[n].at <= Len(b.effects) /\ p[b.effects[b.walks[n].at].id].last = now
      BY <1>4, <2>3 DEF Sound, Walking
    <3>2. b.walks[n].at \in DOMAIN b.effects
      BY <1>4, <2>1, <3>1
    <3>3. c.effects[c.walks[n].at] = b.effects[b.walks[n].at] /\ c.walks[n].at \in DOMAIN c.effects
      BY <1>3, <2>1, <3>2
    <3>4. q[c.effects[c.walks[n].at].id].last = now
      BY <1>2, <1>5, <3>1, <3>2, <3>3
    <3>5. c.walks[n].at <= Len(c.effects)
      BY <1>4, <3>3
    <3> QED
      BY <2>3, <3>4, <3>5
  <2> QED
    BY <2>2, <2>3
<1>10. Accounted(c, q) /\ Met(c, q)
  <2>1. Accounted(b, p) /\ Met(b, p)
    BY DEF Sound
  <2>2. Accounted(c, q)
    <3> SUFFICES ASSUME NEW k \in DOMAIN q \ c.gone, ~Over(q[k])
                 PROVE  \E j \in DOMAIN c.effects :
                          c.effects[j].id = k /\ c.effects[j].timing # "expired"
      BY DEF Accounted
    <3>1. CASE k = x
      BY <1>3, <1>5, <3>1
    <3>2. CASE k # x
      <4>1. k \in DOMAIN p \ b.gone /\ ~Over(p[k])
        BY <1>1, <1>2, <3>2 DEF x
      <4>2. PICK i \in DOMAIN b.effects : b.effects[i].id = k /\ b.effects[i].timing # "expired"
        BY <2>1, <4>1 DEF Accounted
      <4> QED
        BY <1>3, <4>2
    <3> QED
      BY <3>1, <3>2
  <2>3. Met(c, q)
    <3> SUFFICES ASSUME c.walks # <<>>, NEW j \in DOMAIN c.effects, j < c.walks[1].at
                 PROVE  LET k == c.effects[j].id
                        IN k \in c.gone \/ q[k].due > now \/ q[k].last = now \/ Over(q[k])
      BY DEF Met
    <3>1. 1 \in DOMAIN b.walks /\ c.walks[1].at = b.walks[1].at + s
      BY <1>1, <1>4, AffectedAre DEF Gains
    <3>2. CASE c.effects[j] # e
      <4>1. j - s \in DOMAIN b.effects /\ c.effects[j] = b.effects[j - s]
        BY <1>3, <3>2
      <4>2. j - s < b.walks[1].at
        BY <1>1, <1>4, <3>1
      <4>3. b.walks # <<>>
        BY <1>4
      <4>4. LET k == b.effects[j - s].id
            IN k \in b.gone \/ p[k].due > now \/ p[k].last = now \/ Over(p[k])
        BY <2>1, <4>1, <4>2, <4>3 DEF Met
      <4>5. b.effects[j - s].id \in DOMAIN p
        BY <1>5, <4>1
      <4> QED
        BY <1>1, <1>2, <4>1, <4>4, <4>5
    <3>3. CASE c.effects[j] = e
      <4>1. s = 1
        <5> SUFFICES ASSUME s = 0 PROVE FALSE
          BY <1>1
        <5>1. b.walks[1].at <= Len(b.effects) + 1
          <6>1. Walking(b, p)
            BY DEF Sound
          <6> QED
            BY <1>4, <3>1, <6>1 DEF Walking
        <5>2. j \in DOMAIN b.effects
          BY <1>4, <3>1, <5>1
        <5>3. c.effects[j + s] = b.effects[j] /\ j + s = j
          BY <1>3, <1>4, <5>2
        <5> QED
          BY <1>2, <1>5, <3>3, <5>2, <5>3
      <4> QED
        BY <1>2, <1>5, <3>3, <4>1
    <3> QED
      BY <3>2, <3>3
  <2> QED
    BY <2>2, <2>3
<1> QED
  BY <1>1, <1>2, <1>6, <1>7, <1>8, <1>9, <1>10 DEF Sound

\* What is promised of an effect that is over at once is kept.
LEMMA OverSound ==
  ASSUME NEW b, NEW p, NEW held, Sound(b, p, held), NEW q, NEW f, NEW x, More(p, q, x, f),
         Over(f)
  PROVE  Sound(b, q, held)
<1>1. b \in Affected /\ Promised(p)
  BY DEF Sound
<1>2. /\ Promised(q)
      /\ \A k \in DOMAIN p : q[k] = p[k]
      /\ q[x] = f /\ DOMAIN p \subseteq DOMAIN q /\ \A k \in DOMAIN q : k = x \/ k \in DOMAIN p
  BY <1>1 DEF More, Promised
<1>3. /\ \A i \in DOMAIN b.effects : b.effects[i].id \in DOMAIN p
      /\ \A n \in DOMAIN b.walks : n # Len(b.walks) => b.walks[n].at \in DOMAIN b.effects
  <2>1. \A n \in DOMAIN b.walks : b.walks[n].at \in Nat \ {0}
    BY <1>1, AffectedAre DEF Walks
  <2>2. \A n \in DOMAIN b.walks : n # Len(b.walks) => b.walks[n].at <= Len(b.effects)
    BY DEF Sound, Walking
  <2> QED
    BY <1>1, <2>1, <2>2, AffectedAre DEF Sound, Numbered
<1>4. Numbered(b, q) /\ Agreed(b, q, held) /\ Removed(b, q)
  BY <1>2, <1>3 DEF Sound, Numbered, Agreed, Removed
<1>5. Walking(b, q)
  BY <1>2, <1>3 DEF Sound, Walking
<1>6. Accounted(b, q) /\ Met(b, q)
  <2>1. Accounted(b, p) /\ Met(b, p)
    BY DEF Sound
  <2>2. Accounted(b, q)
    BY <1>2, <2>1 DEF Accounted
  <2>3. Met(b, q)
    BY <1>2, <1>3, <2>1 DEF Met
  <2> QED
    BY <2>2, <2>3
<1> QED
  BY <1>1, <1>2, <1>4, <1>5, <1>6 DEF Sound

\* What an effect is when it comes, and what is promised of it.
LEMMA PromiseIs ==
  ASSUME now \in 1 .. MaxTime, NEW g \in Givable, NEW id \in Nat
  PROVE  LET e == Prepared(Made(id, g))
             f == Promise(g)
         IN /\ e \in Effects /\ e.id = id /\ e.kind = g.kind /\ e.timing # "expired"
            /\ f \in Fates /\ f.begun = 0 /\ f.last = 0 /\ f.kind = g.kind
            /\ Waits(e) <=> Idle(e)
            /\ Waits(e) => WaitsWell(e, f) /\ f.due > now
            /\ ~Waits(e) =>
                 /\ Timed(e) = e /\ f.due = now
                 /\ WorksOnce(e) => f.span = 0
                 /\ ~WorksOnce(e) => \A held : ActsWell(e, Acted(f), held)
<1> DEFINE m == Made(id, g)
           e == Prepared(m)
           f == Promise(g)
<1>1. /\ now \in Nat \ {0} /\ now < Forever /\ Forever \in Nat
      /\ g.kind \in OpcodeKinds /\ g.timing \in TimingModes /\ g.duration \in Nat
  <2>1. MaxTime \in Nat
    BY EffectAssumption
  <2> QED
    BY <2>1, TicksAre DEF Givable
<1>2. /\ m = [id |-> id, kind |-> g.kind, timing |-> g.timing, duration |-> g.duration, delay |-> 0]
      /\ Length(m) = Length(g) /\ Length(g) \in Nat \ {0} /\ Ticks(g.duration) \in Nat \ {0}
      /\ g.timing # "ticks" => Length(g) = Ticks(g.duration)
  BY <1>1, TicksAre DEF Made, Length
<1> HIDE DEF m
<1>3. /\ f.kind = g.kind /\ f.begun = 0 /\ f.last = 0
      /\ f.due = (IF g.timing \in Delayed THEN now + Ticks(g.duration) ELSE now)
      /\ f.span = (IF \/ g.kind \in Instant
                      \/ g.kind \in {"bonus", "natural"} /\ g.timing \in {"permanent", "delay permanent"}
                   THEN 0
                   ELSE IF g.timing \in {"limited", "delay limited", "ticks"} THEN Length(g)
                   ELSE Forever)
      /\ f \in Fates
  <2>1. /\ f.kind = g.kind /\ f.begun = 0 /\ f.last = 0
        /\ f.due = (IF g.timing \in Delayed THEN now + Ticks(g.duration) ELSE now)
        /\ f.span = (IF \/ g.kind \in Instant
                        \/ g.kind \in {"bonus", "natural"} /\ g.timing \in {"permanent", "delay permanent"}
                     THEN 0
                     ELSE IF g.timing \in {"limited", "delay limited", "ticks"} THEN Length(g)
                     ELSE Forever)
    BY DEF Promise, Instant
  <2>2. f = [kind |-> f.kind, due |-> f.due, span |-> f.span, begun |-> f.begun, last |-> f.last]
    BY DEF Promise
  <2> HIDE DEF f
  <2>3. f.due \in Nat
    <3>1. f.due = now \/ f.due = now + Ticks(g.duration)
      BY Zenon, <2>1
    <3> QED
      BY <1>1, <1>2, <3>1
  <2>5. f.span \in Nat
    <3>1. f.span \in {0, Length(g), Forever}
      BY Zenon, <2>1
    <3> QED
      BY <1>1, <1>2, <3>1
  <2>4. f \in Fates
    <3>1. f.kind = g.kind /\ f.begun = 0 /\ f.last = 0
      BY DEF f, Promise
    <3>3. f.kind \in OpcodeKinds /\ f.begun \in Nat /\ f.last \in Nat
      BY <1>1, <3>1
    <3> QED
      BY <2>2, <2>3, <2>5, <3>3 DEF Fates
  <2> QED
    BY Zenon, <2>1, <2>4
<1> HIDE DEF f
<1>4. CASE g.timing \in NeedPrepare
  <2>1. /\ e.id = id /\ e.kind = g.kind /\ e.delay = g.duration
        /\ e.timing = (IF g.timing \in {"limited", "ticks"} THEN "absolute" ELSE g.timing)
        /\ e.duration = now + Length(g)
        /\ e = [id |-> e.id, kind |-> e.kind, timing |-> e.timing, duration |-> e.duration, delay |-> e.delay]
    BY <1>2, <1>4 DEF Prepared
  <2> HIDE DEF e
  <2>2. e.duration \in Nat /\ e.duration > now
    BY <1>1, <1>2, <2>1
  <2>3. e \in Effects /\ e.timing # "expired"
    BY Zenon, <1>1, <1>4, <2>1, <2>2 DEF Effects, NeedPrepare, TimingModes
  <2>4. Waits(e) <=> Idle(e)
    BY <2>2, <2>3 DEF Waits, Idle
  <2>5. CASE g.timing \in {"limited", "ticks"}
    <3>1. ~Waits(e) /\ e.timing = "absolute" /\ Timed(e) = e
      BY <2>1, <2>2, <2>5, <1>1 DEF Waits, Delayed, Timed, Lasting
    <3>2. f.due = now /\ f.span = (IF g.kind \in Instant THEN 0 ELSE Length(g))
      BY Zenon, <1>3, <2>5 DEF Delayed
    <3>3. WorksOnce(e) <=> g.kind \in Instant
      BY <2>1, <3>1 DEF WorksOnce
    <3>4. ~WorksOnce(e) => \A held : ActsWell(e, Acted(f), held)
      <4>1. Acted(f).last = now /\ Acted(f).begun = now /\ Acted(f).due = now /\ Acted(f).span = f.span
        BY Zenon, <1>3, <3>2 DEF Acted, Fates
      <4> QED
        BY <1>1, <1>2, <2>1, <2>2, <3>1, <3>2, <3>3, <4>1 DEF ActsWell
    <3> QED
      BY Zenon, <1>3, <2>1, <2>3, <2>4, <3>1, <3>2, <3>3, <3>4 DEF e, f, m
  <2>6. CASE g.timing \in Delayed
    <3>1. Waits(e) /\ e.timing = g.timing
      BY Zenon, <2>1, <2>6 DEF Waits, Delayed
    <3>2. e.duration = f.due /\ f.due > now
      BY Zenon, <1>1, <1>2, <1>3, <2>1, <2>2, <2>6 DEF Delayed
    <3>3. WaitsWell(e, f)
      <4>1. f.begun = 0 /\ f.last = 0 /\ f.due = e.duration
        BY Zenon, <1>3, <3>2
      <4>2. e.kind \in Instant => f.span = 0
        BY <1>3, <2>1
      <4>3. ASSUME e.kind \notin Instant
            PROVE  /\ e.timing = "delay limited" => f.span = Ticks(e.delay)
                   /\ e.timing = "delay permanent" => f.span = IF e.kind = "repeat" THEN Forever ELSE 0
                   /\ e.timing = "delay unsaved" => f.span = Forever
        <5>1. e.kind \in {"bonus", "natural", "repeat"}
          BY <1>1, <2>1, <4>3 DEF OpcodeKinds, Instant
        <5> QED
          BY Zenon, <1>2, <1>3, <2>1, <3>1, <4>3, <5>1
      <4>4. Ticks(e.delay) \in Nat
        BY <1>2, <2>1
      <4>5. CASE e.kind \in Instant
        BY Zenon, <4>1, <4>2, <4>5 DEF WaitsWell
      <4>6. CASE e.kind \notin Instant
        <5>1. ASSUME e.timing = "delay limited" PROVE Ticks(e.delay) <= f.span
          <6>1. f.span = Ticks(e.delay)
            BY Zenon, <4>3, <4>6, <5>1
          <6> HIDE DEF e, f
          <6> QED
            BY <4>4, <6>1
        <5> QED
          BY Zenon, <4>1, <4>3, <4>6, <5>1 DEF WaitsWell
      <4> QED
        BY <4>5, <4>6
    <3> QED
      BY Zenon, <1>3, <2>1, <2>3, <2>4, <3>1, <3>2, <3>3 DEF e, f, m
  <2> QED
    BY Zenon, <1>4, <2>5, <2>6 DEF NeedPrepare, Delayed
<1>5. CASE g.timing \notin NeedPrepare
  <2>1. /\ e.id = id /\ e.kind = g.kind /\ e.timing = g.timing
        /\ e.duration = g.duration /\ e.delay = 0
        /\ e = [id |-> e.id, kind |-> e.kind, timing |-> e.timing, duration |-> e.duration, delay |-> e.delay]
    BY <1>2, <1>5 DEF Prepared
  <2> HIDE DEF e
  <2>2. e.timing \in {"permanent", "equipped", "unsaved", "after bonuses"}
    BY Zenon, <1>1, <1>5, <2>1 DEF NeedPrepare, TimingModes
  <2>3. e \in Effects /\ e.timing # "expired"
    <3>1. e.id \in Nat /\ e.kind \in OpcodeKinds /\ e.duration \in Nat /\ e.delay \in Nat
      <4>1. e.id = id /\ e.kind = g.kind /\ e.duration = g.duration /\ e.delay = 0
        BY <2>1
      <4> QED
        BY <1>1, <4>1
    <3>2. e.timing \in TimingModes \union {"absolute", "expired"} /\ e.timing # "expired"
      BY Zenon, <2>2 DEF TimingModes
    <3>3. e = [id |-> e.id, kind |-> e.kind, timing |-> e.timing, duration |-> e.duration, delay |-> e.delay]
      BY <2>1
    <3> QED
      BY <3>1, <3>2, <3>3 DEF Effects
  <2>4. ~Waits(e) /\ ~Idle(e) /\ Timed(e) = e
    BY Zenon, <2>2 DEF Waits, Idle, Timed, Delayed, Lasting
  <2>5. f.due = now /\ f.span = IF WorksOnce(e) THEN 0 ELSE Forever
    BY Zenon, <1>3, <2>1, <2>2 DEF Delayed, WorksOnce
  <2>6. ~WorksOnce(e) => \A held : ActsWell(e, Acted(f), held)
    <3>1. Acted(f).last = now /\ Acted(f).begun = now /\ Acted(f).due = now /\ Acted(f).span = f.span
      BY Zenon, <1>3, <2>5 DEF Acted, Fates
    <3>2. f.span = Forever \/ WorksOnce(e)
      BY <2>5
    <3> SUFFICES ASSUME ~WorksOnce(e), NEW held PROVE ActsWell(e, Acted(f), held)
      OBVIOUS
    <3>3. now \in Nat \ {0} /\ e.timing # "ticks" /\ e.timing \notin {"limited", "absolute"}
      BY Zenon, <1>1, <2>2
    <3> HIDE DEF e
    <3> QED
      BY <3>1, <3>2, <3>3 DEF ActsWell
  <2> QED
    BY Zenon, <1>3, <2>1, <2>3, <2>4, <2>5, <2>6 DEF e, f, m
<1> QED
  BY <1>4, <1>5


LEMMA AppendedGains ==
  ASSUME NEW b \in Affected, NEW e \in Effects
  PROVE  Gains(b, [b EXCEPT !.effects = Append(@, e)], e, 0)
<1> DEFINE E == Append(b.effects, e)
           c == [b EXCEPT !.effects = E]
<1>1. /\ E \in Seq(Effects) /\ Len(E) = Len(b.effects) + 1 /\ E[Len(b.effects) + 1] = e
      /\ \A i \in DOMAIN b.effects : E[i] = b.effects[i]
  BY AffectedAre, AppendProperties
<1>2. /\ DOMAIN b.effects \subseteq Nat
      /\ \A n \in DOMAIN b.walks : b.walks[n].at \in Nat
  BY AffectedAre DEF Walks
<1> HIDE DEF E
<1>3. /\ c \in Affected /\ c.effects = E /\ c.gone = b.gone /\ c.walks = b.walks
      /\ c.acting = b.acting /\ c.base = b.base /\ c.modified = b.modified
  BY <1>1 DEF Affected
<1> HIDE DEF c
<1>4. /\ \A i \in DOMAIN b.effects : i + 0 = i
      /\ \A n \in DOMAIN b.walks : b.walks[n].at + 0 = b.walks[n].at
  BY <1>2
<1>5. Gains(b, c, e, 0)
  BY <1>1, <1>3, <1>4 DEF Gains
<1> QED
  BY <1>5 DEF c, E

LEMMA InFrontGains ==
  ASSUME NEW b \in Affected, NEW e \in Effects
  PROVE  Gains(b, InFront(b, e), e, 1)
<1> DEFINE E == <<e>> \o b.effects
           W == [n \in DOMAIN b.walks |-> [b.walks[n] EXCEPT !.at = @ + 1]]
           c == [b EXCEPT !.effects = E, !.walks = W]
<1>1. /\ b.effects \in Seq(Effects) /\ Len(b.effects) \in Nat /\ DOMAIN b.effects = 1 .. Len(b.effects)
      /\ Len(b.walks) \in Nat /\ DOMAIN b.walks = 1 .. Len(b.walks)
      /\ \A n \in DOMAIN b.walks : b.walks[n] \in Walks
  BY AffectedAre
<1>2. /\ E \in Seq(Effects) /\ Len(E) = Len(b.effects) + 1
      /\ \A i \in 1 .. Len(b.effects) + 1 : E[i] = IF i <= 1 THEN e ELSE b.effects[i - 1]
  <2>1. <<e>> \in Seq(Effects) /\ Len(<<e>>) = 1 /\ <<e>>[1] = e
    OBVIOUS
  <2> QED
    BY <1>1, <2>1, ConcatProperties
<1>3. /\ W \in Seq(Walks) /\ Len(W) = Len(b.walks)
      /\ \A n \in DOMAIN b.walks : W[n].at = b.walks[n].at + 1 /\ W[n].quiet = b.walks[n].quiet
  <2>1. \A n \in DOMAIN b.walks : /\ W[n].at = b.walks[n].at + 1 /\ W[n].quiet = b.walks[n].quiet
                                  /\ W[n] \in Walks
    BY <1>1 DEF Walks
  <2>2. W \in [1 .. Len(b.walks) -> Walks]
    BY <1>1, <2>1
  <2> HIDE DEF W
  <2> QED
    BY <1>1, <2>1, <2>2, IsASeq, LenProperties
<1>4. InFront(b, e) = c
  BY DEF InFront
<1> HIDE DEF E, W
<1>5. /\ c \in Affected /\ c.effects = E /\ c.gone = b.gone /\ c.walks = W
      /\ c.acting = b.acting /\ c.base = b.base /\ c.modified = b.modified
  BY <1>2, <1>3 DEF Affected
<1> HIDE DEF c
<1>6. \A i \in DOMAIN b.effects : E[i + 1] = b.effects[i]
  <2> SUFFICES ASSUME NEW i \in DOMAIN b.effects PROVE E[i + 1] = b.effects[i]
    OBVIOUS
  <2>1. i \in 1 .. Len(b.effects) /\ i + 1 \in 1 .. Len(b.effects) + 1
        /\ ~(i + 1 <= 1) /\ (i + 1) - 1 = i
    BY <1>1
  <2> QED
    BY <1>2, <2>1
<1>7. E[1] = e
  <2>1. 1 \in 1 .. Len(b.effects) + 1 /\ 1 <= 1
    BY <1>1
  <2> QED
    BY <1>2, <2>1
<1>8. Gains(b, c, e, 1)
  BY <1>2, <1>3, <1>5, <1>6, <1>7 DEF Gains
<1> QED
  BY <1>4, <1>8

--------------------------------------------------------------------------
(* The effects that wait for a refresh they have asked for *)

LEMMA HeldPlaces ==
  ASSUME NEW b, NEW p, NEW held, Sound(b, p, held)
  PROVE  \A n \in 1 .. Len(b.walks) - 1 :
           n \in DOMAIN b.walks /\ b.walks[n].at \in DOMAIN b.effects
           /\ p[b.effects[b.walks[n].at].id].last = now
<1>1. b \in Affected
  BY DEF Sound
<1>2. /\ Len(b.effects) \in Nat /\ DOMAIN b.effects = 1 .. Len(b.effects)
      /\ Len(b.walks) \in Nat /\ DOMAIN b.walks = 1 .. Len(b.walks)
      /\ \A n \in DOMAIN b.walks : b.walks[n].at \in Nat \ {0}
  BY <1>1, AffectedAre DEF Walks
<1> SUFFICES ASSUME NEW n \in 1 .. Len(b.walks) - 1
             PROVE  n \in DOMAIN b.walks /\ b.walks[n].at \in DOMAIN b.effects
                    /\ p[b.effects[b.walks[n].at].id].last = now
  OBVIOUS
<1>3. n \in DOMAIN b.walks /\ n # Len(b.walks)
  BY <1>2
<1>4. b.walks[n].at <= Len(b.effects) /\ p[b.effects[b.walks[n].at].id].last = now
  BY <1>3 DEF Sound, Walking
<1> QED
  BY <1>2, <1>3, <1>4

LEMMA HeldGains ==
  ASSUME NEW b, NEW p, NEW held, Sound(b, p, held), NEW c, NEW e, NEW s, Gains(b, c, e, s)
  PROVE  HeldBy(c) = HeldBy(b)
<1>1. Len(c.walks) = Len(b.walks)
  BY DEF Gains
<1>2. ASSUME NEW n \in 1 .. Len(b.walks) - 1
      PROVE  c.effects[c.walks[n].at].id = b.effects[b.walks[n].at].id
  <2>1. n \in DOMAIN b.walks /\ b.walks[n].at \in DOMAIN b.effects
    BY HeldPlaces
  <2>2. c.walks[n].at = b.walks[n].at + s
    BY <2>1 DEF Gains
  <2>3. c.effects[b.walks[n].at + s] = b.effects[b.walks[n].at]
    BY <2>1 DEF Gains
  <2> QED
    BY <2>2, <2>3
<1> QED
  BY <1>1, <1>2 DEF HeldBy

LEMMA HeldLoses ==
  ASSUME NEW b, NEW p, NEW held, Sound(b, p, held), NEW c, Loses(b, c)
  PROVE  /\ c.walks = b.walks => HeldBy(c) = HeldBy(b)
         /\ Asks(b, c) /\ b.walks = <<>> => HeldBy(c) = {}
         /\ Asks(b, c) /\ b.walks # <<>> /\ b.walks[Len(b.walks)].at <= Len(b.effects) =>
              HeldBy(c) = HeldBy(b) \union {b.effects[b.walks[Len(b.walks)].at].id}
<1>1. b \in Affected /\ c \in Affected
  BY DEF Sound, Loses
<1>2. \A i \in DOMAIN b.effects : c.effects[i].id = b.effects[i].id
  BY <1>1, AffectedAre, SpentIs DEF Loses
<1>3. \A n \in 1 .. Len(b.walks) - 1 :
        /\ n \in DOMAIN b.walks /\ b.walks[n].at \in DOMAIN b.effects
        /\ c.effects[b.walks[n].at].id = b.effects[b.walks[n].at].id
  BY <1>2, HeldPlaces
<1>4. c.walks = b.walks => HeldBy(c) = HeldBy(b)
  BY <1>3 DEF HeldBy
<1>5. ASSUME Asks(b, c), b.walks = <<>> PROVE HeldBy(c) = {}
  <2>1. Len(c.walks) = Len(b.walks) + 1
    BY <1>1, <1>5, WalkAppended
  <2>2. Len(b.walks) = 0
    BY <1>5
  <2>3. 1 .. Len(c.walks) - 1 = {}
    BY <2>1, <2>2
  <2> QED
    BY <2>3 DEF HeldBy
<1>6. ASSUME Asks(b, c), b.walks # <<>>, b.walks[Len(b.walks)].at <= Len(b.effects)
      PROVE  HeldBy(c) = HeldBy(b) \union {b.effects[b.walks[Len(b.walks)].at].id}
  <2> DEFINE L == Len(b.walks)
  <2>1. /\ L \in Nat \ {0} /\ Len(c.walks) = L + 1 /\ DOMAIN b.walks = 1 .. L
        /\ \A n \in DOMAIN b.walks : c.walks[n] = b.walks[n]
    BY <1>1, <1>6, WalkAppended, AffectedAre
  <2>2. b.walks[L].at \in DOMAIN b.effects
    <3>1. b.walks[L].at \in Nat \ {0} /\ DOMAIN b.effects = 1 .. Len(b.effects) /\ Len(b.effects) \in Nat
      BY <1>1, <2>1, AffectedAre DEF Walks
    <3> QED
      BY <1>6, <3>1
  <2> HIDE DEF L
  <2>3. (L + 1) - 1 = L /\ 1 .. L = (1 .. L - 1) \union {L}
    BY <2>1
  <2>4. \A n \in 1 .. L : c.effects[c.walks[n].at].id = b.effects[b.walks[n].at].id
    BY <1>2, <1>3, <2>1, <2>2, <2>3 DEF L
  <2>5. HeldBy(c) = {c.effects[c.walks[n].at].id : n \in 1 .. L}
    BY <2>1, <2>3 DEF HeldBy
  <2>6. HeldBy(b) = {b.effects[b.walks[n].at].id : n \in 1 .. L - 1}
    BY DEF HeldBy, L
  <2>7. HeldBy(c) = HeldBy(b) \union {b.effects[b.walks[L].at].id}
    <3> DEFINE H(n) == b.effects[b.walks[n].at].id
    <3>1. HeldBy(c) = {H(n) : n \in 1 .. L}
      BY <2>4, <2>5
    <3>2. HeldBy(b) = {H(n) : n \in 1 .. L - 1}
      BY <2>6
    <3> HIDE DEF H
    <3>3. HeldBy(c) = HeldBy(b) \union {H(L)}
      BY <2>3, <3>1, <3>2
    <3> QED
      BY <3>3 DEF H
  <2> QED
    BY <2>7 DEF L
<1> QED
  BY <1>4, <1>5, <1>6


LEMMA Asked ==
  ASSUME NEW f \in Fates, now \in Nat \ {0}, f.begun = 0
  PROVE  /\ Acted(f) \in Fates /\ Acted(f).kind = f.kind /\ Acted(f).due = f.due
         /\ Acted(f).span = f.span /\ Acted(f).last = now /\ Acted(f).begun = now
         /\ f.span = 0 => Over(Acted(f))
<1>1. Acted(f) = [f EXCEPT !.last = now, !.begun = now]
  BY DEF Acted
<1>2. /\ Acted(f) \in Fates /\ Acted(f).kind = f.kind /\ Acted(f).due = f.due
      /\ Acted(f).span = f.span /\ Acted(f).last = now /\ Acted(f).begun = now
  BY <1>1 DEF Fates
<1> QED
  BY <1>2 DEF Over

\* The same effects wait for the refreshes they asked for.
SameHeld(b, c) == b.walks = <<>> \/ (Len(c.walks) = Len(b.walks) /\ HeldBy(c) = HeldBy(b))

\* ApplyEffect the first time: whatever is given, the promises are kept.
LEMMA FirstSound ==
  ASSUME NEW b, NEW p, NEW held, Sound(b, p, held),
         NEW x \in Nat \ DOMAIN p, x \notin b.acting, NEW g \in Givable, NEW rolled,
         b.walks = <<>> \/ g.kind # "uncurse", NEW c, c = First(b, Made(x, g), rolled),
         NEW q, More(p, q, x, IF x \in c.acting THEN Acted(Promise(g)) ELSE Promise(g))
  PROVE  Sound(c, q, held) /\ SameHeld(b, c)
<1> SUFFICES
      /\ Sound(c, q, held)
      /\ b.walks = <<>> \/ (Len(c.walks) = Len(b.walks) /\ HeldBy(c) = HeldBy(b))
  BY DEF SameHeld
<1> DEFINE e == Prepared(Made(x, g))
           f == Promise(g)
           did == Worked(b, e, rolled)
<1>1. b \in Affected /\ now \in 1 .. MaxTime /\ now \in Nat \ {0}
  <2>1. MaxTime \in Nat
    BY EffectAssumption
  <2> QED
    BY <2>1 DEF Sound
<1>2. /\ e \in Effects /\ e.id = x /\ e.kind = g.kind /\ e.timing # "expired"
      /\ f \in Fates /\ f.begun = 0 /\ f.last = 0 /\ f.kind = g.kind
      /\ Waits(e) <=> Idle(e)
      /\ Waits(e) => WaitsWell(e, f) /\ f.due > now
      /\ ~Waits(e) =>
           /\ Timed(e) = e /\ f.due = now
           /\ WorksOnce(e) => f.span = 0
           /\ ~WorksOnce(e) => \A h : ActsWell(e, Acted(f), h)
  BY <1>1, PromiseIs
<1>3. /\ Acted(f) \in Fates /\ Acted(f).kind = f.kind /\ Acted(f).due = f.due
      /\ Acted(f).span = f.span /\ Acted(f).last = now /\ Acted(f).begun = now
      /\ f.span = 0 => Over(Acted(f))
  BY <1>1, <1>2, Asked
<1>4. c = IF Idle(e) THEN [b EXCEPT !.effects = Append(@, e)]
          ELSE LET last == Concluded(Timed(e))
                   done == Worked(b, Timed(e), rolled)
               IN IF last.timing = "expired" THEN done
                  ELSE IF e.kind = "natural" THEN InFront(done, last)
                  ELSE [done EXCEPT !.effects = Append(@, last)]
  BY DEF First
<1> HIDE DEF e, f
<1>5. ASSUME NEW d, Sound(d, p, held), NEW s, Gains(d, c, e, s)
      PROVE  Len(c.walks) = Len(d.walks) /\ HeldBy(c) = HeldBy(d)
  <2>1. Len(c.walks) = Len(d.walks)
    BY <1>5 DEF Gains
  <2>2. HeldBy(c) = HeldBy(d)
    BY <1>5, HeldGains
  <2> QED
    BY <2>1, <2>2
<1>6. CASE Idle(e)
  <2>1. c = [b EXCEPT !.effects = Append(@, e)]
    BY <1>4, <1>6
  <2>2. Gains(b, c, e, 0)
    BY <1>1, <1>2, <2>1, AppendedGains
  <2>3. c.acting = b.acting
    BY <2>2 DEF Gains
  <2>4. More(p, q, e.id, f)
    BY <1>2, <2>3 DEF f
  <2>5. Agrees(e, f, held)
    BY <1>2, <1>6 DEF Agrees, Waits, Acts
  <2>6. Sound(c, q, held)
    BY <1>2, <2>2, <2>4, <2>5, GainsSound
  <2> QED
    BY <1>1, <1>5, <2>2, <2>3, <2>6
<1>7. CASE ~Idle(e)
  <2>1. /\ Loses(b, did) /\ did.acting = b.acting \union {x}
        /\ did.walks = b.walks \/ (e.kind = "uncurse" /\ Asks(b, did))
        /\ e.kind \in {"bonus", "natural", "damage", "repeat"} =>
             did.effects = b.effects /\ did.gone = b.gone
    BY <1>1, <1>2, WorkedIs
  <2>2. Sound(did, p, held)
    <3>1. MayRefresh(b, p, did)
      BY <1>2, <2>1 DEF MayRefresh
    <3> QED
      BY <1>2, <2>1, <3>1, LosesSound
  <2>3. ~Waits(e) /\ Timed(e) = e /\ f.due = now
    BY <1>2, <1>7
  <2>4. Concluded(e).timing = "expired" <=> WorksOnce(e)
    BY <1>2 DEF Concluded, WorksOnce, Instant, Effects
  <2>5. ~WorksOnce(e) => Concluded(e) = e
    BY DEF Concluded, WorksOnce, Instant
  <2>6. CASE WorksOnce(e)
    <3>1. c = did
      BY <1>4, <1>7, <2>3, <2>4, <2>6
    <3>2. More(p, q, x, Acted(f)) /\ Over(Acted(f))
      BY <1>2, <1>3, <2>1, <2>3, <2>6, <3>1 DEF f
    <3>3. Sound(c, q, held)
      BY <1>3, <2>2, <3>1, <3>2, OverSound
    <3>4. b.walks # <<>> => c.walks = b.walks
      BY <1>2, <2>1, <3>1
    <3>5. c.walks = b.walks => HeldBy(c) = HeldBy(b)
      BY <2>1, <3>1, HeldLoses
    <3> QED
      BY <1>1, <2>1, <2>3, <3>1, <3>3, <3>4, <3>5 DEF f
  <2>7. CASE ~WorksOnce(e)
    <3>1. PICK s \in {0, 1} : Gains(did, c, e, s)
      <4>1. did \in Affected
        BY <2>1 DEF Loses
      <4>2. CASE e.kind = "natural"
        <5>1. c = InFront(did, e)
          BY <1>4, <1>7, <2>3, <2>4, <2>5, <2>7, <4>2
        <5> QED
          BY <1>2, <4>1, <5>1, InFrontGains
      <4>3. CASE e.kind # "natural"
        <5>1. c = [did EXCEPT !.effects = Append(@, e)]
          BY <1>4, <1>7, <2>3, <2>4, <2>5, <2>7, <4>3
        <5> QED
          BY <1>2, <4>1, <5>1, AppendedGains
      <4> QED
        BY <4>2, <4>3
    <3>2. c.acting = b.acting \union {x}
      BY <2>1, <3>1 DEF Gains
    <3>3. More(p, q, e.id, Acted(f))
      BY <1>2, <3>2 DEF f
    <3>4. Agrees(e, Acted(f), held)
      BY <1>2, <1>3, <2>3, <2>7 DEF Agrees
    <3>5. Sound(c, q, held)
      BY <1>2, <1>3, <2>2, <3>1, <3>3, <3>4, GainsSound
    <3>6. did.walks = b.walks /\ did.effects = b.effects
      <4>1. e.kind \in {"bonus", "natural", "repeat"}
        BY <1>2, <2>7 DEF WorksOnce, Instant, Effects, OpcodeKinds
      <4> QED
        BY <2>1, <4>1
    <3>7. HeldBy(did) = HeldBy(b) /\ did \in Affected
      BY <2>1, <3>6 DEF HeldBy, Loses
    <3> QED
      BY <1>1, <1>2, <1>5, <2>2, <2>3, <3>1, <3>2, <3>5, <3>6, <3>7 DEF f
  <2> QED
    BY <2>6, <2>7
<1> QED
  BY <1>6, <1>7

--------------------------------------------------------------------------
(* One effect of a refresh *)

\* b with another effect in place i.
At(b, i, e) == [b EXCEPT !.effects = [@ EXCEPT ![i] = e]]

LEMMA AtIs ==
  ASSUME NEW b \in Affected, NEW i \in DOMAIN b.effects, NEW e \in Effects
  PROVE  LET c == At(b, i, e)
         IN /\ c \in Affected /\ Len(c.effects) = Len(b.effects) /\ DOMAIN c.effects = DOMAIN b.effects
            /\ c.effects[i] = e /\ \A j \in DOMAIN b.effects \ {i} : c.effects[j] = b.effects[j]
            /\ c.walks = b.walks /\ c.gone = b.gone /\ c.acting = b.acting
            /\ c.base = b.base /\ c.modified = b.modified
<1> DEFINE E == [b.effects EXCEPT ![i] = e]
           c == At(b, i, e)
<1>1. /\ E \in Seq(Effects) /\ Len(E) = Len(b.effects) /\ DOMAIN E = DOMAIN b.effects
      /\ E[i] = e /\ \A j \in DOMAIN b.effects \ {i} : E[j] = b.effects[j]
  BY AffectedAre, ExceptSeq
<1>2. c = [b EXCEPT !.effects = E]
  BY DEF At
<1> HIDE DEF E, c
<1>3. /\ c \in Affected /\ c.effects = E
      /\ c.walks = b.walks /\ c.gone = b.gone /\ c.acting = b.acting
      /\ c.base = b.base /\ c.modified = b.modified
  BY <1>1, <1>2 DEF Affected
<1> QED
  BY <1>1, <1>3 DEF c

LEMMA PlaceIs ==
  ASSUME NEW b, NEW p, Numbered(b, p), NEW i \in DOMAIN b.effects
  PROVE  Place(b, b.effects[i].id) = i
<1>1. \A j \in DOMAIN b.effects : b.effects[j].id = b.effects[i].id => j = i
  BY DEF Numbered
<1> QED
  BY <1>1 DEF Place

\* The refreshes say what the effects that wait for them may do.
LEMMA AgreesMore ==
  ASSUME NEW e, NEW f, NEW held, Agrees(e, f, held), NEW other, e.id \in held => e.id \in other
  PROVE  Agrees(e, f, other)
BY DEF Agrees, ActsWell

LEMMA SoundMore ==
  ASSUME NEW b, NEW p, NEW held, Sound(b, p, held), NEW other, held \subseteq other
  PROVE  Sound(b, p, other)
<1>1. Agreed(b, p, other)
  <2> SUFFICES ASSUME NEW i \in DOMAIN b.effects
               PROVE  Agrees(b.effects[i], p[b.effects[i].id], other)
    BY DEF Agreed
  <2>1. Agrees(b.effects[i], p[b.effects[i].id], held)
    BY DEF Sound, Agreed
  <2> QED
    BY <2>1, AgreesMore
<1> QED
  BY <1>1 DEF Sound

\* The effect in a place acts, or is concluded after it has acted.
LEMMA PutSound ==
  ASSUME NEW b, NEW p, NEW held, Sound(b, p, held), NEW i \in DOMAIN b.effects,
         NEW e \in Effects, e.id = b.effects[i].id, NEW f \in Fates, f.last = now,
         NEW other, held \subseteq other \union {e.id}, Agrees(e, f, other),
         b.effects[i].timing = "expired" => e.timing = "expired" /\ f = p[e.id],
         b.effects[i].timing # "expired" /\ e.timing = "expired" => Over(f),
         NEW q, DOMAIN q = DOMAIN p, q[e.id] = f, \A k \in DOMAIN p \ {e.id} : q[k] = p[k]
  PROVE  Sound(At(b, i, e), q, other)
<1> DEFINE c == At(b, i, e)
           x == e.id
<1>1. b \in Affected /\ Promised(p) /\ now \in 1 .. MaxTime /\ Numbered(b, p)
  BY DEF Sound
<1>2. /\ c \in Affected /\ Len(c.effects) = Len(b.effects) /\ DOMAIN c.effects = DOMAIN b.effects
      /\ c.effects[i] = e /\ \A j \in DOMAIN b.effects \ {i} : c.effects[j] = b.effects[j]
      /\ c.walks = b.walks /\ c.gone = b.gone
  BY <1>1, AtIs
<1> HIDE DEF c
<1>3. /\ x \in DOMAIN p /\ b.effects[i].id = x
      /\ \A j \in DOMAIN b.effects \ {i} : b.effects[j].id \in DOMAIN p \ {x}
      /\ \A j \in DOMAIN b.effects : c.effects[j].id = b.effects[j].id
  BY <1>1, <1>2 DEF Numbered
<1> HIDE DEF x
<1>4. Promised(q) /\ q[x] = f /\ \A k \in DOMAIN p \ {x} : q[k] = p[k]
  BY <1>1 DEF Promised, x
<1>5. Numbered(c, q)
  BY <1>1, <1>2, <1>3 DEF Numbered
<1>6. Agreed(c, q, other)
  <2> SUFFICES ASSUME NEW j \in DOMAIN b.effects
               PROVE  Agrees(c.effects[j], q[c.effects[j].id], other)
    BY <1>2 DEF Agreed
  <2>1. CASE j = i
    BY <1>2, <1>4, <2>1 DEF x
  <2>2. CASE j # i
    <3>1. Agrees(b.effects[j], p[b.effects[j].id], held)
      BY DEF Sound, Agreed
    <3>2. b.effects[j].id \in held => b.effects[j].id \in other
      BY <1>3, <2>2 DEF x
    <3> QED
      BY <1>2, <1>3, <1>4, <2>2, <3>1, <3>2, AgreesMore
  <2> QED
    BY <2>1, <2>2
<1>7. Removed(c, q)
  <2>1. Removed(b, p)
    BY DEF Sound
  <2> QED
    BY <1>2, <1>3, <2>1 DEF Removed
<1>8. \A n \in 1 .. Len(b.walks) - 1 :
        n \in DOMAIN b.walks /\ b.walks[n].at \in DOMAIN b.effects
        /\ p[b.effects[b.walks[n].at].id].last = now
  BY HeldPlaces
<1>9. Walking(c, q)
  <2> SUFFICES ASSUME NEW n \in DOMAIN b.walks
               PROVE  IF n = Len(b.walks) THEN b.walks[n].at <= Len(b.effects) + 1
                      ELSE /\ b.walks[n].at <= Len(b.effects)
                           /\ q[c.effects[b.walks[n].at].id].last = now
    BY <1>2 DEF Walking
  <2>1. CASE n = Len(b.walks)
    BY <2>1 DEF Sound, Walking
  <2>2. CASE n # Len(b.walks)
    <3>1. b.walks[n].at <= Len(b.effects)
      BY <2>2 DEF Sound, Walking
    <3>2. n \in 1 .. Len(b.walks) - 1
      BY <1>1, <2>2, AffectedAre
    <3>3. b.walks[n].at \in DOMAIN b.effects /\ p[b.effects[b.walks[n].at].id].last = now
      BY <1>8, <3>2
    <3>4. q[b.effects[b.walks[n].at].id].last = now
      BY <1>3, <1>4, <3>3
    <3> QED
      BY <1>3, <2>2, <3>1, <3>3, <3>4
  <2> QED
    BY <2>1, <2>2
<1>10. Accounted(c, q) /\ Met(c, q)
  <2>1. Accounted(b, p) /\ Met(b, p)
    BY DEF Sound
  <2>2. Accounted(c, q)
    <3> SUFFICES ASSUME NEW k \in DOMAIN p \ b.gone, ~Over(q[k])
                 PROVE  \E j \in DOMAIN c.effects :
                          c.effects[j].id = k /\ c.effects[j].timing # "expired"
      BY <1>2 DEF Accounted
    <3>1. CASE k = x
      <4>1. CASE e.timing # "expired"
        BY <1>2, <3>1, <4>1 DEF x
      <4>2. CASE e.timing = "expired"
        <5>1. b.effects[i].timing = "expired" /\ ~Over(f)
          BY <1>4, <3>1, <4>2
        <5>2. ~Over(p[x])
          BY <1>4, <3>1, <5>1 DEF x
        <5>3. PICK j \in DOMAIN b.effects : b.effects[j].id = k /\ b.effects[j].timing # "expired"
          BY <1>3, <2>1, <3>1, <5>2 DEF Accounted
        <5>4. j = i
          BY <1>1, <1>3, <3>1, <5>3 DEF Numbered
        <5> QED
          BY <5>1, <5>3, <5>4
      <4> QED
        BY <4>1, <4>2
    <3>2. CASE k # x
      <4>1. ~Over(p[k])
        BY <1>4, <3>2
      <4>2. PICK j \in DOMAIN b.effects : b.effects[j].id = k /\ b.effects[j].timing # "expired"
        BY <2>1, <4>1 DEF Accounted
      <4>3. j # i
        BY <1>3, <3>2, <4>2
      <4> QED
        BY <1>2, <4>2, <4>3
    <3> QED
      BY <3>1, <3>2
  <2>3. Met(c, q)
    <3> SUFFICES ASSUME b.walks # <<>>, NEW j \in DOMAIN b.effects, j < b.walks[1].at
                 PROVE  LET k == b.effects[j].id
                        IN k \in b.gone \/ q[k].due > now \/ q[k].last = now \/ Over(q[k])
      BY <1>2, <1>3 DEF Met
    <3>1. CASE j = i
      BY <1>3, <1>4, <3>1
    <3>2. CASE j # i
      <4>1. LET k == b.effects[j].id
            IN k \in b.gone \/ p[k].due > now \/ p[k].last = now \/ Over(p[k])
        BY <2>1 DEF Met
      <4>2. q[b.effects[j].id] = p[b.effects[j].id]
        BY <1>3, <1>4, <3>2
      <4> QED
        BY <4>1, <4>2
    <3> QED
      BY <3>1, <3>2
  <2> QED
    BY <2>2, <2>3
<1> QED
  BY <1>1, <1>2, <1>4, <1>5, <1>6, <1>7, <1>9, <1>10 DEF Sound, c

LEMMA PassedIs ==
  ASSUME NEW b \in Affected, b.walks # <<>>, NEW at \in Nat \ {0}, NEW quiet \in BOOLEAN
  PROVE  LET c == Passed(b, at, quiet)
         IN /\ c \in Affected /\ c.effects = b.effects /\ c.gone = b.gone /\ c.acting = b.acting
            /\ c.base = b.base /\ c.modified = b.modified
            /\ c.walks # <<>> /\ Len(c.walks) = Len(b.walks) /\ DOMAIN c.walks = DOMAIN b.walks
            /\ c.walks[Len(b.walks)].at = at /\ c.walks[Len(b.walks)].quiet = quiet
            /\ \A n \in DOMAIN b.walks \ {Len(b.walks)} : c.walks[n] = b.walks[n]
<1> DEFINE L == Len(b.walks)
           w == [at |-> at, quiet |-> quiet]
           W == [b.walks EXCEPT ![L] = w]
           c == Passed(b, at, quiet)
<1>1. b.walks \in Seq(Walks) /\ L \in Nat \ {0} /\ DOMAIN b.walks = 1 .. L /\ L \in 1 .. L
  BY AffectedAre
<1>2. w \in Walks /\ w.at = at /\ w.quiet = quiet
  BY DEF Walks
<1> HIDE DEF w
<1>3. /\ W \in Seq(Walks) /\ Len(W) = L /\ DOMAIN W = DOMAIN b.walks
      /\ W[L] = w /\ \A n \in DOMAIN b.walks \ {L} : W[n] = b.walks[n]
  BY <1>1, <1>2, ExceptSeq
<1>4. W # <<>>
  BY <1>1, <1>3
<1>5. c = [b EXCEPT !.walks = W]
  BY DEF Passed, w
<1> HIDE DEF W, c, L
<1>6. /\ c \in Affected /\ c.walks = W /\ c.effects = b.effects
      /\ c.gone = b.gone /\ c.acting = b.acting
      /\ c.base = b.base /\ c.modified = b.modified
  BY <1>3, <1>5 DEF Affected
<1> QED
  BY <1>2, <1>3, <1>4, <1>6 DEF c, L

\* Its innermost refresh is at place i.
IsAt(b, i) == b.walks # <<>> /\ i = b.walks[Len(b.walks)].at /\ i \in DOMAIN b.effects

\* The effect there needs not act any more in this tick.
Attended(b, p, i) ==
  LET k == b.effects[i].id
  IN k \in b.gone \/ p[k].due > now \/ p[k].last = now \/ Over(p[k])

\* A refresh goes on when what it is at has acted, or needs not.
LEMMA PassedSound ==
  ASSUME NEW b, NEW p, NEW held, Sound(b, p, held), NEW i, IsAt(b, i), NEW quiet \in BOOLEAN,
         Attended(b, p, i), NEW c, c = Passed(b, i + 1, quiet)
  PROVE  Sound(c, p, held) /\ HeldBy(c) = HeldBy(b)
<1>1. PICK L, m, at : L = Len(b.walks) /\ m = Len(b.effects) /\ at = i + 1
  OBVIOUS
<1>2. b \in Affected
  BY DEF Sound
<1>3. i \in DOMAIN b.effects /\ i = b.walks[L].at /\ b.walks # <<>>
  BY <1>1 DEF IsAt
<1>4. DOMAIN b.effects = 1 .. m /\ m \in Nat /\ DOMAIN b.walks = 1 .. L /\ L \in Nat
      /\ (b.walks = <<>> <=> L = 0)
  BY <1>1, <1>2, AffectedAre
<1>5. i \in Nat \ {0} /\ at \in Nat \ {0} /\ at <= m + 1 /\ L \in Nat \ {0} /\ 1 \in 1 .. L
      /\ i \in 1 .. m
  <2>1. i \in 1 .. m
    BY <1>3, <1>4
  <2>2. L \in Nat \ {0}
    BY <1>3, <1>4
  <2> QED
    BY ONLY <1>1, <1>4, <2>1, <2>2
<1>6. b.walks[1].at \in Nat
  <2>1. b.walks[1] \in Walks
    BY <1>2, <1>4, <1>5, AffectedAre
  <2> QED
    BY <2>1 DEF Walks
<1>7. /\ c \in Affected /\ c.effects = b.effects /\ c.gone = b.gone
      /\ c.walks # <<>> /\ Len(c.walks) = L /\ DOMAIN c.walks = DOMAIN b.walks
      /\ c.walks[L].at = at
      /\ \A n \in DOMAIN b.walks \ {L} : c.walks[n] = b.walks[n]
  <2>1. PICK d : d = Passed(b, at, quiet)
    OBVIOUS
  <2>2. /\ d \in Affected /\ d.effects = b.effects /\ d.gone = b.gone
        /\ d.walks # <<>> /\ Len(d.walks) = Len(b.walks) /\ DOMAIN d.walks = DOMAIN b.walks
        /\ d.walks[Len(b.walks)].at = at
        /\ \A n \in DOMAIN b.walks \ {Len(b.walks)} : d.walks[n] = b.walks[n]
    BY <1>2, <1>3, <1>5, <2>1, PassedIs
  <2>3. c = d
    BY <1>1, <2>1
  <2> QED
    BY <1>1, <2>2, <2>3
<1>8. Numbered(c, p)
  BY <1>7 DEF Sound, Numbered
<1>9. Agreed(c, p, held)
  BY <1>7 DEF Sound, Agreed
<1>10. Removed(c, p)
  BY <1>7 DEF Sound, Removed
<1>11. Accounted(b, p) => Accounted(c, p)
  BY <1>7 DEF Accounted
<1>12. Walking(c, p)
  <2>1. \A n \in DOMAIN b.walks :
          n # L => b.walks[n].at <= m /\ p[b.effects[b.walks[n].at].id].last = now
    <3>1. Walking(b, p)
      BY Zenon DEF Sound
    <3> QED
      BY ONLY Zenon, <1>1, <3>1 DEF Walking
  <2>2. ASSUME NEW n \in DOMAIN b.walks
        PROVE  IF n = L THEN c.walks[n].at <= m + 1
               ELSE c.walks[n].at <= m /\ p[b.effects[c.walks[n].at].id].last = now
    <3>1. CASE n = L
      BY ONLY Zenon, <1>5, <1>7, <3>1
    <3>2. CASE n # L
      <4>1. c.walks[n] = b.walks[n]
        BY <1>7, <3>2
      <4> QED
        BY ONLY Zenon, <2>1, <2>2, <3>2, <4>1
    <3> QED
      BY ONLY Zenon, <3>1, <3>2
  <2>3. Len(c.effects) = m /\ Len(c.walks) = L /\ DOMAIN c.walks = DOMAIN b.walks
        /\ c.effects = b.effects
    BY <1>1, <1>7
  <2> QED
    BY ONLY Zenon, <2>2, <2>3 DEF Walking
<1>13. Met(c, p)
  <2>1. Met(b, p) /\ Attended(b, p, i)
    BY <1>13 DEF Sound
  <2>2. ASSUME NEW j \in DOMAIN b.effects, j < c.walks[1].at PROVE Attended(b, p, j)
    <3>1. CASE j < b.walks[1].at
      BY ONLY Zenon, <1>3, <2>1, <2>2, <3>1 DEF Met, Attended
    <3>2. CASE ~(j < b.walks[1].at)
      <4>1. L = 1
        BY <1>4, <1>5, <1>7, <2>2, <3>2
      <4>2. c.walks[1].at = at /\ b.walks[1].at = i
        BY <1>3, <1>7, <4>1
      <4>3. j < at /\ ~(j < i) /\ j \in 1 .. m
        BY <1>4, <2>2, <3>2, <4>2
      <4>4. j = i
        BY ONLY <1>1, <1>4, <1>5, <4>3
      <4> QED
        BY <2>1, <4>4
    <3> QED
      BY <3>1, <3>2
  <2> QED
    BY ONLY Zenon, <1>7, <2>2 DEF Met, Attended
<1>14. HeldBy(c) = HeldBy(b)
  <2>1. \A n \in 1 .. L - 1 : n \in DOMAIN b.walks \ {L}
    BY ONLY <1>4, <1>5
  <2>2. \A n \in 1 .. L - 1 : c.walks[n] = b.walks[n]
    BY <1>7, <2>1
  <2>3. Len(c.walks) = Len(b.walks)
    BY <1>1, <1>7
  <2>4. \A n \in 1 .. Len(b.walks) - 1 :
          c.effects[c.walks[n].at].id = b.effects[b.walks[n].at].id
    BY ONLY Zenon, <1>1, <1>7, <2>2
  <2> QED
    BY ONLY Zenon, <2>3, <2>4 DEF HeldBy
<1>15. Sound(c, p, held)
  BY Zenon, <1>7, <1>8, <1>9, <1>10, <1>11, <1>12, <1>13 DEF Sound
<1> QED
  BY <1>14, <1>15

\* What its opcode's result makes of one that has just acted.
ActsThere(b, p, held, i) ==
  /\ IsAt(b, i) /\ p[b.effects[i].id].last = now
  /\ held \subseteq HeldBy(b) \union {b.effects[i].id}
Finished(b, i, quiet) == Passed(At(b, i, Concluded(b.effects[i])), i + 1, quiet)

LEMMA ConcludeSound ==
  ASSUME NEW b, NEW p, NEW held, Sound(b, p, held), NEW i, ActsThere(b, p, held, i),
         NEW quiet \in BOOLEAN, NEW c, c = Finished(b, i, quiet)
  PROVE  Sound(c, p, HeldBy(c)) /\ HeldBy(c) = HeldBy(b)
<1>1. PICK x, f : x = b.effects[i] /\ f = p[x.id]
  OBVIOUS
<1>2. PICK e : e = Concluded(x)
  OBVIOUS
<1>3. PICK d : d = At(b, i, e)
  OBVIOUS
<1>4. IsAt(b, i) /\ f.last = now /\ held \subseteq HeldBy(b) \union {x.id}
  BY Zenon, <1>1 DEF ActsThere
<1>5. i \in DOMAIN b.effects
  BY <1>4 DEF IsAt
<1>6. /\ b \in Affected /\ x \in Effects /\ f \in Fates /\ Agrees(x, f, held) /\ now \in Nat \ {0}
      /\ Numbered(b, p)
  <2>1. /\ b \in Affected /\ Numbered(b, p) /\ Promised(p) /\ now \in 1 .. MaxTime
        /\ Agreed(b, p, held)
    BY DEF Sound
  <2>2. x \in Effects /\ x.id \in DOMAIN p
    BY <1>1, <1>5, <2>1, AffectedAre DEF Numbered
  <2>3. f \in Fates
    BY <1>1, <2>1, <2>2 DEF Promised
  <2>4. Agrees(x, f, held)
    BY Zenon, <1>1, <1>5, <2>1 DEF Agreed
  <2>5. now \in Nat \ {0}
    BY <2>1, EffectAssumption
  <2> QED
    BY <2>1, <2>2, <2>3, <2>4, <2>5
<1>7. f.begun \in Nat /\ f.span \in Nat
  BY <1>6 DEF Fates
<1>8. ~Waits(x)
  <2>1. ASSUME Waits(x) PROVE f.last = 0
    BY Zenon, <1>6, <2>1 DEF Agrees, WaitsWell
  <2> QED
    BY <1>4, <1>6, <2>1
<1>9. e = IF WorksOnce(x) THEN Spent(x) ELSE x
  BY Zenon, <1>2 DEF Concluded, WorksOnce, Spent, Instant
<1>10. x.timing = "expired" => e = x
  <2>1. x.timing = "expired" => Spent(x) = x
    BY ONLY <1>6 DEF Spent, Effects
  <2> QED
    BY ONLY <1>9, <2>1
<1>11. e \in Effects /\ e.id = x.id /\ e.kind = x.kind
  BY ONLY <1>6, <1>9, SpentIs
<1>12. x.timing # "expired" => ActsWell(x, f, held)
  BY ONLY Zenon, <1>6, <1>8 DEF Agrees, Acts, Waits
<1>13. e.timing # "expired" => e = x /\ ~WorksOnce(x)
  BY ONLY <1>6, <1>9, SpentIs
<1>14. Agrees(e, f, HeldBy(b))
  <2>1. CASE e.timing = "expired"
    <3>1. ~Waits(e) /\ ~Acts(e)
      BY ONLY <2>1 DEF Waits, Acts, Delayed
    <3>2. e.kind = f.kind
      BY Zenon, <1>6, <1>11 DEF Agrees
    <3> QED
      BY ONLY Zenon, <3>1, <3>2 DEF Agrees
  <2>2. CASE e.timing # "expired"
    <3>1. e = x /\ ~WorksOnce(x) /\ ActsWell(x, f, held)
      BY ONLY <1>12, <1>13, <2>2
    <3>2. ActsWell(x, f, HeldBy(b))
      BY ONLY Zenon, <3>1 DEF ActsWell
    <3> QED
      BY ONLY Zenon, <1>6, <1>8, <3>1, <3>2 DEF Agrees
  <2> QED
    BY <2>1, <2>2
<1>15. x.timing # "expired" /\ e.timing = "expired" => Over(f)
  <2> SUFFICES ASSUME x.timing # "expired", e.timing = "expired" PROVE Over(f)
    OBVIOUS
  <2>1. WorksOnce(x)
    BY ONLY <1>9, x.timing # "expired", e.timing = "expired"
  <2>2. 0 < f.begun /\ f.begun <= f.last /\ f.span = 0
    BY Zenon, <1>12, <2>1 DEF ActsWell
  <2> QED
    BY ONLY <1>4, <1>6, <1>7, <2>2 DEF Over
<1>16. Sound(d, p, HeldBy(b))
  <2>1. /\ e.id = b.effects[i].id /\ f.last = now /\ held \subseteq HeldBy(b) \union {e.id}
        /\ f = p[e.id]
    BY ONLY Zenon, <1>1, <1>4, <1>11
  <2>2. /\ b.effects[i].timing = "expired" => e.timing = "expired"
        /\ b.effects[i].timing # "expired" /\ e.timing = "expired" => Over(f)
    BY ONLY Zenon, <1>1, <1>10, <1>15
  <2>3. Sound(b, p, held) /\ p[e.id] = f /\ DOMAIN p = DOMAIN p
        /\ \A k \in DOMAIN p \ {e.id} : p[k] = p[k]
    BY <2>1
  <2>4. Sound(At(b, i, e), p, HeldBy(b))
    BY ONLY <1>5, <1>6, <1>11, <1>14, <2>1, <2>2, <2>3, PutSound
  <2> QED
    BY ONLY <1>3, <2>4
<1>17. /\ d.walks = b.walks /\ DOMAIN d.effects = DOMAIN b.effects /\ d.effects[i] = e
       /\ \A j \in DOMAIN b.effects \ {i} : d.effects[j] = b.effects[j]
  BY ONLY <1>3, <1>5, <1>6, <1>11, AtIs
<1>18. \A j \in DOMAIN b.effects : d.effects[j].id = b.effects[j].id
  BY ONLY Zenon, <1>1, <1>11, <1>17
<1>19. HeldBy(d) = HeldBy(b)
  <2>1. \A n \in 1 .. Len(b.walks) - 1 : b.walks[n].at \in DOMAIN b.effects
    BY Zenon, HeldPlaces
  <2>2. \A n \in 1 .. Len(b.walks) - 1 :
          d.effects[d.walks[n].at].id = b.effects[b.walks[n].at].id
    BY ONLY Zenon, <1>17, <1>18, <2>1
  <2>3. Len(d.walks) = Len(b.walks)
    BY ONLY <1>17
  <2> QED
    BY ONLY Zenon, <2>2, <2>3 DEF HeldBy
<1>20. IsAt(d, i)
  BY ONLY Zenon, <1>4, <1>17 DEF IsAt
<1>21. Attended(d, p, i)
  <2>1. p[d.effects[i].id].last = now
    BY ONLY <1>1, <1>4, <1>11, <1>17
  <2> QED
    BY ONLY Zenon, <2>1 DEF Attended
<1>22. c = Passed(d, i + 1, quiet)
  BY Zenon, <1>1, <1>2, <1>3 DEF Finished
<1>23. quiet \in BOOLEAN
  OBVIOUS
<1>24. Sound(c, p, HeldBy(b)) /\ HeldBy(c) = HeldBy(d)
  BY ONLY <1>16, <1>20, <1>21, <1>22, <1>23, PassedSound
<1> QED
  BY ONLY <1>19, <1>24

LEMMA ActedIs ==
  ASSUME NEW f \in Fates, now \in Nat \ {0}
  PROVE  /\ Acted(f) \in Fates /\ Acted(f).kind = f.kind /\ Acted(f).due = f.due
         /\ Acted(f).span = f.span /\ Acted(f).last = now
         /\ Acted(f).begun = IF f.begun = 0 THEN now ELSE f.begun
<1> DEFINE t == IF f.begun = 0 THEN now ELSE f.begun
<1>1. Acted(f) = [f EXCEPT !.last = now, !.begun = t]
  BY DEF Acted
<1>2. t \in Nat
  BY DEF Fates
<1> HIDE DEF t
<1>3. /\ Acted(f) \in Fates /\ Acted(f).kind = f.kind /\ Acted(f).due = f.due
      /\ Acted(f).span = f.span /\ Acted(f).last = now /\ Acted(f).begun = t
  BY <1>1, <1>2 DEF Fates
<1> QED
  BY <1>3 DEF t

\* An effect is executed when it is due, and again only while its time lasts.
LEMMA TimedIs ==
  ASSUME now \in 1 .. MaxTime, NEW x \in Effects, NEW f \in Fates, NEW held,
         Agrees(x, f, held), ~Idle(x), NEW e, e = Timed(x)
  PROVE  /\ e \in Effects /\ e.id = x.id /\ e.kind = x.kind /\ x.timing # "expired"
         /\ f.due <= now /\ (Over(f) => x.id \in held)
         /\ Agrees(e, Acted(f), held \union {e.id})
         /\ e.timing = "expired" => Over(Acted(f))
<1> DEFINE g == Acted(f)
           more == held \union {e.id}
<1>1. now \in Nat \ {0} /\ now < Forever /\ Forever \in Nat
  <2>1. MaxTime \in Nat
    BY EffectAssumption
  <2> QED
    BY <2>1, TicksAre
<1>2. /\ g \in Fates /\ g.kind = f.kind /\ g.due = f.due
      /\ g.span = f.span /\ g.last = now
      /\ g.begun = IF f.begun = 0 THEN now ELSE f.begun
  BY <1>1, ActedIs
<1> HIDE DEF g
<1>3. /\ f.due \in Nat /\ f.span \in Nat /\ f.begun \in Nat /\ f.last \in Nat
      /\ x.id \in Nat /\ x.kind \in OpcodeKinds /\ x.duration \in Nat /\ x.delay \in Nat
      /\ x.timing \in TimingModes \union {"absolute", "expired"}
  BY DEF Fates, Effects
<1>4. CASE Waits(x)
  <2>1. /\ f.begun = 0 /\ f.last = 0 /\ f.due = x.duration /\ x.kind = f.kind
        /\ x.kind \in Instant => f.span = 0
        /\ x.kind \notin Instant =>
             /\ x.timing = "delay limited" =>
                  Ticks(x.delay) = f.span
             /\ x.timing = "delay permanent" => f.span = IF x.kind = "repeat" THEN Forever ELSE 0
             /\ x.timing = "delay unsaved" => f.span = Forever
    BY Zenon, <1>4 DEF Agrees, WaitsWell
  <2>2. x.timing \in Delayed /\ x.duration <= now /\ x.timing # "expired"
    <3>1. x.timing \in Delayed
      BY <1>4 DEF Waits
    <3>2. ~(x.duration > now) /\ x.timing # "expired"
      BY <3>1 DEF Idle
    <3> QED
      BY <1>1, <1>3, <3>1, <3>2
  <2>3. Ticks(x.delay) \in Nat \ {0}
    BY <1>3, TicksAre
  <2>4. e = [x EXCEPT !.timing = Triggered(x.timing), !.duration = now + Ticks(x.delay)]
    BY <2>2 DEF Timed
  <2>5. /\ Triggered(x.timing) \in {"limited", "permanent", "unsaved"}
        /\ x.timing = "delay limited" <=> Triggered(x.timing) = "limited"
        /\ x.timing = "delay permanent" <=> Triggered(x.timing) = "permanent"
        /\ x.timing = "delay unsaved" <=> Triggered(x.timing) = "unsaved"
    BY Zenon, <2>2 DEF Delayed, Triggered
  <2>6. now + Ticks(x.delay) \in Nat
    BY <1>1, <2>3
  <2>7. /\ e.id = x.id /\ e.kind = x.kind /\ e.timing = Triggered(x.timing)
        /\ e.duration = now + Ticks(x.delay) /\ e \in Effects
    <3> DEFINE t == Triggered(x.timing)
               d == now + Ticks(x.delay)
    <3>1. t \in TimingModes /\ d \in Nat
      BY Zenon, <2>5, <2>6 DEF TimingModes
    <3>2. e = [x EXCEPT !.timing = t, !.duration = d]
      BY <2>4
    <3> HIDE DEF t, d
    <3>3. e.id = x.id /\ e.kind = x.kind /\ e.timing = t /\ e.duration = d /\ e \in Effects
      BY <3>1, <3>2 DEF Effects
    <3> QED
      BY <3>3 DEF t, d
  <2>8. g.begun = now /\ g.due <= now
    BY Zenon, <1>2, <2>1, <2>2
  <2>9. ~Waits(e) /\ Acts(e) /\ e.timing # "expired"
    BY Zenon, <2>5, <2>7 DEF Waits, Acts, Delayed
  <2>10. CASE WorksOnce(e)
    <3>1. g.span = 0
      <4>1. CASE x.kind \in Instant
        BY Zenon, <1>2, <2>1, <4>1
      <4>2. CASE x.kind \notin Instant
        <5>1. x.kind \in {"bonus", "natural"} /\ x.timing = "delay permanent"
          BY Zenon, <2>5, <2>7, <2>10, <4>2 DEF WorksOnce
        <5>2. f.span = IF x.kind = "repeat" THEN Forever ELSE 0
          BY Zenon, <2>1, <4>2, <5>1
        <5> QED
          BY Zenon, <1>2, <5>1, <5>2
      <4> QED
        BY <4>1, <4>2
    <3>2. e.timing # "ticks"
      BY Zenon, <2>5, <2>7
    <3> HIDE DEF more
    <3>3. e.id \in more
      BY DEF more
    <3>4. ActsWell(e, g, more)
      BY <1>1, <1>2, <2>8, <2>10, <3>1, <3>2, <3>3 DEF ActsWell
    <3>5. Agrees(e, g, more)
      BY Zenon, <1>2, <2>1, <2>7, <2>9, <3>4 DEF Agrees
    <3>6. ~Over(f)
      <4>1. f.begun = 0
        BY Zenon, <2>1
      <4> QED
        BY <4>1 DEF Over
    <3>7. f.due <= now
      BY <1>2, <2>8
    <3> QED
      BY <2>2, <2>7, <2>9, <3>5, <3>6, <3>7 DEF g, more
  <2>11. CASE ~WorksOnce(e)
    <3>0. x.kind \notin Instant
      BY <2>7, <2>11 DEF WorksOnce
    <3>1. ASSUME e.timing = "limited"
          PROVE  g.last < e.duration /\ e.duration = g.begun + g.span
      <4>1. Ticks(x.delay) = f.span
        BY Zenon, <2>1, <2>5, <2>7, <3>0, <3>1
      <4>2. e.duration = now + Ticks(x.delay) /\ g.begun = now /\ g.last = now /\ g.span = f.span
        BY <1>2, <2>7, <2>8
      <4>3. Ticks(x.delay) \in Nat \ {0} /\ f.span \in Nat /\ now \in Nat
        BY <1>1, <1>3, <2>3
      <4>4. g.last < e.duration
        BY <4>1, <4>2, <4>3
      <4>5. e.duration = g.begun + g.span
        BY <4>1, <4>2
      <4> QED
        BY <4>4, <4>5
    <3>2. e.timing # "limited" => g.span = Forever
      <4>1. CASE e.timing = "permanent"
        <5>1. x.kind = "repeat"
          BY <1>3, <2>7, <2>11, <3>0, <4>1 DEF WorksOnce, OpcodeKinds, Instant
        <5>2. f.span = IF x.kind = "repeat" THEN Forever ELSE 0
          BY Zenon, <2>1, <2>5, <2>7, <3>0, <4>1
        <5> QED
          BY <1>2, <5>1, <5>2
      <4>2. CASE e.timing = "unsaved"
        <5>1. f.span = Forever
          BY Zenon, <2>1, <2>5, <2>7, <3>0, <4>2
        <5> QED
          BY <1>2, <5>1
      <4> QED
        BY Zenon, <2>5, <2>7, <4>1, <4>2
    <3>3. e.timing # "ticks" /\ e.timing # "absolute"
      BY Zenon, <2>5, <2>7
    <3>4. ActsWell(e, g, more)
      <4>1. 0 < g.begun /\ g.due <= g.begun /\ g.begun <= g.last /\ g.last <= now
        BY <1>1, <1>2, <2>8
      <4> QED
        BY <2>11, <3>1, <3>2, <3>3, <4>1 DEF ActsWell
    <3>5. Agrees(e, g, more)
      BY Zenon, <1>2, <2>1, <2>7, <2>9, <3>4 DEF Agrees
    <3>6. ~Over(f)
      <4>1. f.begun = 0
        BY Zenon, <2>1
      <4> QED
        BY <4>1 DEF Over
    <3>7. f.due <= now
      BY <1>2, <2>8
    <3> QED
      BY <2>2, <2>7, <2>9, <3>5, <3>6, <3>7 DEF g, more
  <2> QED
    BY <2>10, <2>11
<1>5. CASE ~Waits(x)
  <2>1. x.timing # "expired" /\ Acts(x) /\ x.timing \notin Delayed
    BY <1>5 DEF Idle, Acts, Waits
  <2>2. x.kind = f.kind /\ ActsWell(x, f, held)
    BY <2>1 DEF Agrees
  <2>3. /\ 0 < f.begun /\ f.due <= f.begun /\ f.begun <= f.last /\ f.last <= now
        /\ x.timing # "ticks"
    BY <2>2 DEF ActsWell
  <2>4. WorksOnce(x) => f.span = 0 /\ x.id \in held
    BY <2>2 DEF ActsWell
  <2>5. ~WorksOnce(x) =>
          /\ x.timing \in {"limited", "absolute"} =>
               f.last < x.duration /\ x.duration = f.begun + f.span
          /\ x.timing \notin {"limited", "absolute"} => f.span = Forever
    BY <2>2 DEF ActsWell
  <2>6. f.due <= now
    BY <1>1, <1>3, <2>3
  <2>7. Over(f) => x.id \in held
    <3> SUFFICES ASSUME Over(f), ~WorksOnce(x) PROVE FALSE
      BY <2>4
    <3>1. f.last >= f.begun + f.span
      BY DEF Over
    <3>2. CASE x.timing \in {"limited", "absolute"}
      <4>1. f.last < x.duration /\ x.duration = f.begun + f.span
        BY <2>5, <3>2
      <4> QED
        BY <1>3, <3>1, <4>1
    <3>3. CASE x.timing \notin {"limited", "absolute"}
      <4>1. f.span = Forever
        BY <2>5, <3>3
      <4> QED
        BY <1>1, <1>3, <2>3, <3>1, <4>1
    <3> QED
      BY <3>2, <3>3
  <2>8. g.begun = f.begun
    BY <1>2, <2>3
  <2>9. CASE x.timing \in Lasting /\ x.duration <= now
    <3>1. e = Spent(x)
      BY <2>1, <2>9 DEF Timed, Spent
    <3>2. e \in Effects /\ e.id = x.id /\ e.kind = x.kind /\ ~Waits(e) /\ ~Acts(e)
      BY <3>1, SpentIs
    <3>3. Agrees(e, g, more)
      BY <1>2, <2>2, <3>2 DEF Agrees
    <3>4. Over(g)
      <4>1. now >= f.begun + f.span
        <5>1. CASE WorksOnce(x)
          BY <1>1, <1>3, <2>3, <2>4, <5>1
        <5>2. CASE ~WorksOnce(x)
          <6>1. x.timing \in {"limited", "absolute"}
            BY <2>3, <2>9 DEF Lasting
          <6>2. x.duration = f.begun + f.span
            BY <2>5, <3>4, <5>2, <6>1
          <6> QED
            BY <2>9, <1>1, <1>3, <6>2
        <5> QED
          BY <5>1, <5>2
      <4> QED
        BY <1>2, <2>3, <2>8, <4>1 DEF Over
    <3> QED
      BY <2>1, <2>6, <2>7, <3>2, <3>3, <3>4 DEF g, more
  <2>10. CASE ~(x.timing \in Lasting /\ x.duration <= now)
    <3>1. e = x
      BY <2>1, <2>10 DEF Timed
    <3>2. 0 < g.begun /\ g.due <= g.begun /\ g.begun <= g.last /\ g.last <= now
      BY <1>1, <1>2, <1>3, <2>3, <2>8
    <3>3. ActsWell(x, g, more)
      <4>1. CASE WorksOnce(x)
        <5>1. x.id \in more /\ g.span = 0
          BY <1>2, <2>4, <4>1
        <5> HIDE DEF more
        <5> QED
          BY <2>3, <3>2, <4>1, <5>1 DEF ActsWell
      <4>2. CASE ~WorksOnce(x)
        <5> HIDE DEF more
        <5>1. CASE x.timing \in {"limited", "absolute"}
          <6>1. ~(x.duration <= now)
            BY <2>10, <5>1 DEF Lasting
          <6>2. g.last < x.duration
            BY <1>1, <1>2, <1>3, <6>1
          <6>3. x.duration = g.begun + g.span
            BY <1>2, <2>5, <2>8, <4>2, <5>1
          <6> QED
            BY <2>3, <3>2, <4>2, <5>1, <6>2, <6>3 DEF ActsWell
        <5>2. CASE x.timing \notin {"limited", "absolute"}
          <6>1. g.span = Forever
            BY <1>2, <2>5, <4>2, <5>2
          <6> QED
            BY <2>3, <3>2, <4>2, <5>2, <6>1 DEF ActsWell
        <5> QED
          BY <5>1, <5>2
      <4> QED
        BY <4>1, <4>2
    <3>4. Agrees(x, g, more)
      BY <1>2, <1>5, <2>2, <3>3 DEF Agrees
    <3> QED
      BY <2>1, <2>6, <2>7, <3>1, <3>4 DEF g, more
  <2> QED
    BY <2>9, <2>10
<1> QED
  BY <1>4, <1>5

--------------------------------------------------------------------------
(* What an actor does when no refresh is going on *)

LEMMA FirstActs ==
  ASSUME NEW b \in Affected, now \in 1 .. MaxTime, NEW x \in Nat, NEW g \in Givable, NEW rolled,
         NEW c, c = First(b, Made(x, g), rolled)
  PROVE  c.acting = b.acting \/ (c.acting = b.acting \union {x} /\ Promise(g).due <= now)
<1> DEFINE e == Prepared(Made(x, g))
           did == Worked(b, e, rolled)
<1>1. /\ e \in Effects /\ e.id = x
      /\ Waits(e) <=> Idle(e)
      /\ ~Waits(e) => Timed(e) = e /\ Promise(g).due = now
  BY PromiseIs
<1>2. now \in Nat
  BY EffectAssumption
<1>3. c = IF Idle(e) THEN [b EXCEPT !.effects = Append(@, e)]
          ELSE LET last == Concluded(Timed(e))
                   done == Worked(b, Timed(e), rolled)
               IN IF last.timing = "expired" THEN done
                  ELSE IF e.kind = "natural" THEN InFront(done, last)
                  ELSE [done EXCEPT !.effects = Append(@, last)]
  BY DEF First
<1>4. did \in Affected /\ did.acting = b.acting \union {e.id}
  BY <1>1, WorkedIs DEF Loses
<1> HIDE DEF e
<1>5. CASE Idle(e)
  <2>1. c = [b EXCEPT !.effects = Append(@, e)]
    BY <1>3, <1>5
  <2> QED
    BY <1>1, <2>1, AppendedGains DEF Gains
<1>6. CASE ~Idle(e)
  <2> DEFINE last == Concluded(e)
  <2>1. last \in Effects
    BY <1>1 DEF Concluded, Effects
  <2>2. \/ c = did
        \/ c = InFront(did, last)
        \/ c = [did EXCEPT !.effects = Append(@, last)]
    BY <1>1, <1>3, <1>6
  <2> HIDE DEF last, did
  <2>3. c.acting = did.acting
    <3>1. Gains(did, InFront(did, last), last, 1)
      BY <1>4, <2>1, InFrontGains
    <3>2. Gains(did, [did EXCEPT !.effects = Append(@, last)], last, 0)
      BY <1>4, <2>1, AppendedGains
    <3>3. \A d, s : Gains(did, d, last, s) => d.acting = did.acting
      BY DEF Gains
    <3> QED
      BY <2>2, <3>1, <3>2, <3>3
  <2>4. Promise(g).due <= now
    BY <1>1, <1>2, <1>6
  <2> QED
    BY <1>1, <1>4, <2>3, <2>4
<1> QED
  BY <1>5, <1>6

\* The refreshes that are going on stay at the effects they are at.
Stays(b, c) ==
  \A n \in DOMAIN b.walks :
    /\ n \in DOMAIN c.walks
    /\ b.walks[n].at \in DOMAIN b.effects =>
         /\ c.walks[n].at \in DOMAIN c.effects
         /\ c.effects[c.walks[n].at].id = b.effects[b.walks[n].at].id

LEMMA LosesStays ==
  ASSUME NEW b \in Affected, NEW c, Loses(b, c), c.walks = b.walks \/ Asks(b, c)
  PROVE  Stays(b, c) /\ (b.walks # <<>> => c.walks # <<>>)
<1>1. c \in Affected /\ DOMAIN c.effects = DOMAIN b.effects
  BY AffectedAre DEF Loses
<1>2. \A i \in DOMAIN b.effects : c.effects[i].id = b.effects[i].id
  BY AffectedAre, SpentIs DEF Loses
<1>3. \A n \in DOMAIN b.walks : n \in DOMAIN c.walks /\ c.walks[n] = b.walks[n]
  BY <1>1, WalkAppended
<1>4. Asks(b, c) => c.walks # <<>>
  BY <1>1, WalkAppended
<1> QED
  BY <1>1, <1>2, <1>3, <1>4 DEF Stays

LEMMA GainsStays ==
  ASSUME NEW b \in Affected, NEW c, NEW e, NEW s, Gains(b, c, e, s)
  PROVE  Stays(b, c)
<1>1. DOMAIN c.walks = DOMAIN b.walks /\ \A i \in DOMAIN b.effects : i + s \in DOMAIN c.effects
  BY GainsPlaces
<1>2. /\ \A n \in DOMAIN b.walks : c.walks[n].at = b.walks[n].at + s
      /\ \A i \in DOMAIN b.effects : c.effects[i + s] = b.effects[i]
  BY DEF Gains
<1> QED
  BY <1>1, <1>2 DEF Stays

LEMMA FirstStays ==
  ASSUME NEW b \in Affected, now \in 1 .. MaxTime, NEW x \in Nat, NEW g \in Givable, NEW rolled,
         NEW c, c = First(b, Made(x, g), rolled)
  PROVE  /\ c \in Affected /\ Stays(b, c)
         /\ g.kind # "uncurse" => Len(c.walks) = Len(b.walks)
<1> DEFINE e == Prepared(Made(x, g))
           did == Worked(b, e, rolled)
<1>1. /\ e \in Effects /\ e.kind = g.kind
      /\ Waits(e) <=> Idle(e)
      /\ ~Waits(e) => Timed(e) = e
  BY PromiseIs
<1>2. c = IF Idle(e) THEN [b EXCEPT !.effects = Append(@, e)]
          ELSE LET last == Concluded(Timed(e))
                   done == Worked(b, Timed(e), rolled)
               IN IF last.timing = "expired" THEN done
                  ELSE IF e.kind = "natural" THEN InFront(done, last)
                  ELSE [done EXCEPT !.effects = Append(@, last)]
  BY DEF First
<1>3. Loses(b, did) /\ (did.walks = b.walks \/ (e.kind = "uncurse" /\ Asks(b, did)))
  BY <1>1, WorkedIs
<1>4. did \in Affected
  BY <1>3 DEF Loses
<1> HIDE DEF e
<1>5. \A d, s, l : Gains(d, c, l, s) => c \in Affected /\ Len(c.walks) = Len(d.walks)
  BY DEF Gains
<1>6. CASE Idle(e)
  <2>1. c = [b EXCEPT !.effects = Append(@, e)]
    BY <1>2, <1>6
  <2>2. Gains(b, c, e, 0)
    BY <1>1, <2>1, AppendedGains
  <2> QED
    BY <1>5, <2>2, GainsStays
<1>7. CASE ~Idle(e)
  <2> DEFINE last == Concluded(e)
  <2>1. last \in Effects
    BY <1>1 DEF Concluded, Effects
  <2>2. \/ c = did
        \/ c = InFront(did, last)
        \/ c = [did EXCEPT !.effects = Append(@, last)]
    BY <1>1, <1>2, <1>7
  <2> HIDE DEF last, did
  <2>3. Stays(b, did) /\ (g.kind # "uncurse" => did.walks = b.walks)
    BY <1>1, <1>3, LosesStays
  <2>4. CASE c = did
    BY <1>4, <2>3, <2>4
  <2>5. CASE c # did
    <3>1. PICK s \in {0, 1} : Gains(did, c, last, s)
      BY <1>4, <2>1, <2>2, <2>5, AppendedGains, InFrontGains
    <3>2. Stays(did, c)
      BY <1>4, <3>1, GainsStays
    <3>3. Stays(b, c)
      BY <2>3, <3>2 DEF Stays
    <3> QED
      BY <1>5, <2>3, <3>1, <3>3
  <2> QED
    BY <2>4, <2>5
<1> QED
  BY <1>6, <1>7

LEMMA KeptIs ==
  ASSUME NEW p \in Seq(Fates), NEW b, now \in Nat \ {0}
  PROVE  /\ Kept(p, b) \in Seq(Fates) /\ DOMAIN Kept(p, b) = DOMAIN p
         /\ \A k \in DOMAIN p : Kept(p, b)[k] = IF k \in b.acting THEN Acted(p[k]) ELSE p[k]
<1> DEFINE q == Kept(p, b)
<1>1. q = [k \in DOMAIN p |-> IF k \in b.acting THEN Acted(p[k]) ELSE p[k]]
  BY DEF Kept, Acted
<1>2. Len(p) \in Nat /\ DOMAIN p = 1 .. Len(p) /\ \A k \in DOMAIN p : p[k] \in Fates
  BY ElementOfSeq
<1>3. \A k \in DOMAIN p : Acted(p[k]) \in Fates
  BY <1>2, ActedIs
<1> HIDE DEF q
<1>4. DOMAIN q = 1 .. Len(p) /\ q \in [1 .. Len(p) -> Fates]
  BY <1>1, <1>2, <1>3
<1>5. q \in Seq(Fates)
  BY <1>2, <1>4, IsASeq
<1> QED
  BY <1>1, <1>5 DEF q

\* The refreshes end, or one begins.
LEMMA RestartSound ==
  ASSUME NEW b, NEW p, NEW held, Sound(b, p, held),
         NEW c \in Affected, c.effects = b.effects, c.gone = b.gone,
         \/ c.walks = b.walks
         \/ c.walks = <<>>
         \/ Len(c.walks) = 1 /\ c.walks[1].at = 1
  PROVE  Sound(c, p, held)
<1>1. b \in Affected /\ Promised(p) /\ now \in 1 .. MaxTime
  BY DEF Sound
<1>2. Numbered(c, p) /\ Agreed(c, p, held) /\ Removed(c, p) /\ (Accounted(b, p) => Accounted(c, p))
  BY DEF Sound, Numbered, Agreed, Removed, Accounted
<1>3. Walking(c, p) /\ (Met(b, p) => Met(c, p))
  <2>1. CASE c.walks = b.walks
    BY <2>1 DEF Sound, Walking, Met
  <2>2. CASE c.walks = <<>>
    BY <2>2 DEF Walking, Met
  <2>3. CASE Len(c.walks) = 1 /\ c.walks[1].at = 1
    <3>1. DOMAIN c.walks = {1} /\ DOMAIN c.effects \subseteq Nat \ {0} /\ Len(c.effects) \in Nat
      BY <2>3, AffectedAre
    <3>2. Walking(c, p)
      BY <2>3, <3>1 DEF Walking
    <3>3. Met(c, p)
      BY <2>3, <3>1 DEF Met
    <3> QED
      BY <3>2, <3>3
  <2> QED
    BY <2>1, <2>2, <2>3
<1> QED
  BY <1>1, <1>2, <1>3 DEF Sound

SoundState == fate \in Seq(Fates) /\ Sound(body, fate, HeldBy(body))

LEMMA NextSound ==
  ASSUME fate' \in Seq(Fates), Sound(body', fate', HeldBy(body')), UNCHANGED now
  PROVE  SoundState'
BY Zenon DEF SoundState, Sound, HeldBy, Agreed, Met, Walking, Agrees, ActsWell

LEMMA StateIs ==
  ASSUME SoundState
  PROVE  /\ body \in Affected /\ fate \in Seq(Fates) /\ Promised(fate) /\ now \in 1 .. MaxTime
         /\ now \in Nat \ {0} /\ DOMAIN fate = 1 .. Len(fate) /\ Len(fate) \in Nat
         /\ Still \in Affected /\ Still.effects = body.effects /\ Still.gone = body.gone
         /\ Still.walks = body.walks /\ Still.acting = {} /\ Still.base = body.base
         /\ Still.modified = body.modified
         /\ Sound(Still, fate, HeldBy(body)) /\ HeldBy(Still) = HeldBy(body)
         /\ ~Awake => HeldBy(body) = {}
<1>1. body \in Affected /\ fate \in Seq(Fates) /\ Promised(fate) /\ now \in 1 .. MaxTime
  BY DEF SoundState, Sound
<1>2. now \in Nat \ {0}
  BY <1>1, EffectAssumption
<1>3. DOMAIN fate = 1 .. Len(fate) /\ Len(fate) \in Nat
  BY <1>1
<1>4. /\ Still \in Affected /\ Still.effects = body.effects /\ Still.gone = body.gone
      /\ Still.walks = body.walks /\ Still.acting = {} /\ Still.base = body.base
      /\ Still.modified = body.modified
  BY <1>1 DEF Still, Affected
<1>5. Sound(Still, fate, HeldBy(body))
  BY <1>4, RestartSound DEF SoundState
<1>6. HeldBy(Still) = HeldBy(body)
  BY <1>4 DEF HeldBy
<1>7. ASSUME ~Awake PROVE HeldBy(body) = {}
  <2>1. 1 .. Len(body.walks) - 1 = {}
    BY <1>7 DEF Awake
  <2> QED
    BY <2>1 DEF HeldBy
<1> QED
  BY <1>1, <1>2, <1>3, <1>4, <1>5, <1>6, <1>7

LEMMA TakeOffSound ==
  ASSUME SoundState, FxTakeOff
  PROVE  SoundState' /\ body'.acting = {}
<1>1. (\E things : body' = TakenOff(Still, things)) /\ UNCHANGED <<now, fate>> /\ body.walks = <<>>
  BY DEF FxTakeOff, Awake
<1>2. Loses(Still, body') /\ body'.acting = Still.acting /\ (body' = Still \/ Asks(Still, body'))
  BY <1>1, StateIs, TakenOffIs
<1>3. body'.walks = Still.walks \/ Asks(Still, body')
  BY <1>2
<1>4. Sound(body', fate, HeldBy(body))
  <2>1. MayRefresh(Still, fate, body')
    BY <1>1, <1>3, StateIs DEF MayRefresh
  <2> QED
    BY <1>2, <2>1, StateIs, LosesSound
<1>5. Sound(body', fate, HeldBy(body'))
  BY <1>1, <1>4, StateIs, SoundMore DEF Awake
<1> QED
  BY <1>1, <1>2, <1>5, StateIs, NextSound

LEMMA RefreshSound ==
  ASSUME SoundState, FxRefresh
  PROVE  SoundState' /\ body'.acting = {}
<1>1. body' = Refreshed(Still, TRUE) /\ UNCHANGED <<now, fate>> /\ body.walks = <<>>
  BY DEF FxRefresh, Awake
<1>2. /\ body' \in Affected /\ body'.effects = Still.effects /\ body'.gone = Still.gone
      /\ body'.acting = Still.acting
      /\ body'.walks = Append(Still.walks, [at |-> 1, quiet |-> TRUE])
  BY <1>1, StateIs, RefreshedIs
<1>3. Still.walks = <<>>
  BY <1>1, StateIs
<1>4. Len(body'.walks) = 1 /\ body'.walks[1].at = 1
  <2> DEFINE w == [at |-> 1, quiet |-> TRUE]
  <2>1. w \in Walks /\ w.at = 1
    BY DEF Walks
  <2> HIDE DEF w
  <2>2. <<>> \in Seq(Walks) /\ Len(<<>>) = 0
    OBVIOUS
  <2>3. body'.walks = Append(<<>>, w)
    BY <1>2, <1>3 DEF w
  <2> QED
    BY <2>1, <2>2, <2>3, AppendProperties
<1>5. Sound(body', fate, HeldBy(body))
  BY <1>2, <1>4, StateIs, RestartSound
<1>6. Sound(body', fate, HeldBy(body'))
  BY <1>1, <1>5, StateIs, SoundMore DEF Awake
<1> QED
  BY <1>1, <1>2, <1>6, StateIs, NextSound

LEMMA ExpireSound ==
  ASSUME SoundState, FxExpire
  PROVE  SoundState' /\ body'.acting = {}
<1>1. PICK P \in SUBSET DOMAIN body.effects : body' = Expired(Still, P)
  BY DEF FxExpire
<1>2. UNCHANGED <<now, fate>>
  BY DEF FxExpire
<1>3. Loses(Still, body') /\ body'.walks = Still.walks /\ body'.acting = Still.acting
  BY <1>1, StateIs, ExpiredLoses
<1>4. Sound(body', fate, HeldBy(body))
  <2>1. MayRefresh(Still, fate, body')
    BY <1>3 DEF MayRefresh
  <2> QED
    BY <1>3, <2>1, StateIs, LosesSound
<1>5. HeldBy(body') = HeldBy(body)
  BY <1>3, StateIs, HeldLoses
<1> QED
  BY <1>2, <1>3, <1>4, <1>5, StateIs, NextSound

LEMMA GiveSound ==
  ASSUME SoundState, FxGive
  PROVE  SoundState' /\ body'.acting \intersect DOMAIN fate = {}
<1> DEFINE x == Len(fate) + 1
<1>1. PICK g \in Menu, rolled \in SUBSET (1 .. Len(fate)) :
        LET new == Made(x, g)
            gives == Gives(new, new.id + 1) /\ ~Idle(Prepared(new))
            given == IF gives THEN <<Promise(g), Promise(Repeated)>> ELSE <<Promise(g)>>
            did == IF gives THEN First(Still, Made(new.id + 1, Repeated), {}) ELSE Still
        IN body' = First(did, new, rolled) /\ fate' = Kept(fate \o given, body')
  BY DEF FxGive
<1>2. UNCHANGED now /\ body.walks = <<>>
  BY DEF FxGive, Awake
<1>3. x \in Nat \ DOMAIN fate /\ x + 1 \in Nat \ DOMAIN fate /\ x + 1 # x
      /\ g \in Givable /\ Repeated \in Givable /\ Repeated.kind # "uncurse"
      /\ Promise(g) \in Fates /\ Promise(Repeated) \in Fates
  <2>1. g \in Givable /\ Repeated \in Givable /\ Repeated.kind # "uncurse"
    BY EffectAssumption
  <2>2. Promise(g) \in Fates /\ Promise(Repeated) \in Fates
    BY <2>1, StateIs, PromiseIs
  <2> QED
    BY <2>1, <2>2, StateIs
<1>4. Made(x, g).id = x /\ Made(x, g).kind = g.kind
  BY DEF Made
<1>5. HeldBy(body) = {} /\ Still.walks = <<>> /\ Still.acting = {}
  BY <1>2, StateIs DEF Awake
<1>8. now \in Nat \ {0}
  BY StateIs
<1> DEFINE more == Gives(Made(x, g), x + 1) /\ ~Idle(Prepared(Made(x, g)))
<1>6. CASE ~more
  <2> DEFINE p == fate \o <<Promise(g)>>
  <2>1. body' = First(Still, Made(x, g), rolled) /\ fate' = Kept(p, body')
    BY <1>1, <1>4, <1>6
  <2>2. /\ p \in Seq(Fates) /\ DOMAIN p = DOMAIN fate \union {x} /\ p[x] = Promise(g)
        /\ \A k \in DOMAIN fate : p[k] = fate[k]
    <3>1. <<Promise(g)>> \in Seq(Fates) /\ Len(<<Promise(g)>>) = 1 /\ <<Promise(g)>>[1] = Promise(g)
      BY <1>3
    <3> QED
      BY <3>1, StateIs, ConcatProperties
  <2> HIDE DEF p
  <2>3. body'.acting = {} \/ (body'.acting = {x} /\ Promise(g).due <= now)
    BY <1>3, <1>5, <2>1, StateIs, FirstActs
  <2>4. /\ fate' \in Seq(Fates) /\ DOMAIN fate' = DOMAIN p
        /\ \A k \in DOMAIN p : fate'[k] = IF k \in body'.acting THEN Acted(p[k]) ELSE p[k]
    <3>1. p \in Seq(Fates)
      BY <2>2
    <3>2. /\ Kept(p, body') \in Seq(Fates) /\ DOMAIN Kept(p, body') = DOMAIN p
          /\ \A k \in DOMAIN p : Kept(p, body')[k] = IF k \in body'.acting THEN Acted(p[k]) ELSE p[k]
      BY <1>8, <3>1, KeptIs
    <3> QED
      BY <2>1, <3>2
  <2>5. More(fate, fate', x, IF x \in body'.acting THEN Acted(Promise(g)) ELSE Promise(g))
    <3>1. Acted(Promise(g)) \in Fates
      BY <1>3, StateIs, ActedIs
    <3>2. \A k \in DOMAIN fate : k \notin body'.acting
      BY <1>3, <2>3
    <3> HIDE DEF x
    <3> QED
      BY <1>3, <2>2, <2>4, <3>1, <3>2 DEF More
  <2>6. Sound(body', fate', HeldBy(body))
    BY <1>3, <1>5, <2>1, <2>5, StateIs, FirstSound
  <2>7. Sound(body', fate', HeldBy(body'))
    BY <1>5, <2>6, SoundMore
  <2> QED
    BY <1>2, <1>3, <2>3, <2>4, <2>7, NextSound
<1>7. CASE more
  <2> DEFINE p == fate \o <<Promise(g), Promise(Repeated)>>
             did == First(Still, Made(x + 1, Repeated), {})
             r == IF x + 1 \in did.acting THEN Acted(Promise(Repeated)) ELSE Promise(Repeated)
             half == [k \in DOMAIN fate \union {x + 1} |-> IF k = x + 1 THEN r ELSE fate[k]]
  <2>1. body' = First(did, Made(x, g), rolled) /\ fate' = Kept(p, body')
    BY <1>1, <1>4, <1>7
  <2>2. /\ p \in Seq(Fates) /\ DOMAIN p = DOMAIN fate \union {x, x + 1}
        /\ p[x] = Promise(g) /\ p[x + 1] = Promise(Repeated)
        /\ \A k \in DOMAIN fate : p[k] = fate[k]
    <3> DEFINE two == <<Promise(g), Promise(Repeated)>>
    <3>1. two \in Seq(Fates) /\ Len(two) = 2 /\ two[1] = Promise(g) /\ two[2] = Promise(Repeated)
      BY <1>3
    <3> HIDE DEF two
    <3>2. p = fate \o two
      BY DEF two
    <3>3. /\ p \in Seq(Fates) /\ Len(p) = Len(fate) + 2
          /\ \A k \in 1 .. Len(fate) + 2 : p[k] = IF k <= Len(fate) THEN fate[k] ELSE two[k - Len(fate)]
      BY <3>1, <3>2, StateIs, ConcatProperties
    <3>4. DOMAIN p = 1 .. Len(fate) + 2
      BY <3>3
    <3>5. Len(fate) \in Nat /\ DOMAIN fate = 1 .. Len(fate)
      BY StateIs
    <3>6. DOMAIN p = DOMAIN fate \union {x, x + 1}
      BY <3>4, <3>5
    <3>7. p[x] = two[1] /\ p[x + 1] = two[2]
      <4>1. x - Len(fate) = 1 /\ (x + 1) - Len(fate) = 2 /\ ~(x <= Len(fate)) /\ ~(x + 1 <= Len(fate))
            /\ x \in 1 .. Len(fate) + 2 /\ x + 1 \in 1 .. Len(fate) + 2
        BY <3>5
      <4> HIDE DEF x, p
      <4> QED
        BY <3>3, <4>1
    <3>8. \A k \in DOMAIN fate : p[k] = fate[k]
      <4> SUFFICES ASSUME NEW k \in DOMAIN fate PROVE p[k] = fate[k]
        OBVIOUS
      <4>1. k \in 1 .. Len(fate) + 2 /\ k <= Len(fate)
        BY <3>5
      <4> HIDE DEF p
      <4> QED
        BY <3>3, <4>1
    <3> QED
      BY <3>1, <3>3, <3>6, <3>7, <3>8
  <2> HIDE DEF p
  <2>3. did.acting = {} \/ did.acting = {x + 1}
    BY <1>3, <1>5, StateIs, FirstActs
  <2> HIDE DEF did
  <2>4. Acted(Promise(g)) \in Fates /\ r \in Fates
    BY <1>3, StateIs, ActedIs
  <2> HIDE DEF r
  <2>5. More(fate, half, x + 1, r)
    BY <1>3, <2>4 DEF More
  <2>6. Sound(did, half, HeldBy(body)) /\ DOMAIN half = DOMAIN fate \union {x + 1}
    <3>1. More(fate, half, x + 1, IF x + 1 \in did.acting THEN Acted(Promise(Repeated)) ELSE Promise(Repeated))
      BY <2>5 DEF r
    <3> HIDE DEF half
    <3>2. Sound(did, half, HeldBy(body))
      BY <1>3, <1>5, <3>1, StateIs, FirstSound DEF did
    <3> QED
      BY <2>5, <3>2 DEF More
  <2>7. g.kind # "uncurse"
    BY <1>4, <1>7 DEF Gives
  <2>8. did \in Affected /\ x \notin DOMAIN half /\ x \notin did.acting
    <3>1. did \in Affected
      BY <2>6 DEF Sound
    <3> HIDE DEF half
    <3> QED
      BY <1>3, <2>3, <2>6, <3>1
  <2>9. body'.acting = did.acting \/ body'.acting = did.acting \union {x}
    BY <1>3, <2>1, <2>8, StateIs, FirstActs
  <2>10. /\ fate' \in Seq(Fates) /\ DOMAIN fate' = DOMAIN p
         /\ \A k \in DOMAIN p : fate'[k] = IF k \in body'.acting THEN Acted(p[k]) ELSE p[k]
    <3>1. p \in Seq(Fates)
      BY <2>2
    <3>2. /\ Kept(p, body') \in Seq(Fates) /\ DOMAIN Kept(p, body') = DOMAIN p
          /\ \A k \in DOMAIN p : Kept(p, body')[k] = IF k \in body'.acting THEN Acted(p[k]) ELSE p[k]
      BY <1>8, <3>1, KeptIs
    <3> QED
      BY <2>1, <3>2
  <2>11. More(half, fate', x, IF x \in body'.acting THEN Acted(Promise(g)) ELSE Promise(g))
    <3>1. \A k \in DOMAIN fate : fate'[k] = half[k]
      BY <1>3, <2>2, <2>3, <2>9, <2>10
    <3>2. fate'[x + 1] = half[x + 1]
      BY <1>3, <2>2, <2>3, <2>9, <2>10 DEF r
    <3> HIDE DEF half
    <3> QED
      BY <1>3, <2>2, <2>4, <2>6, <2>8, <2>10, <3>1, <3>2 DEF More
  <2> HIDE DEF half
  <2>12. Sound(body', fate', HeldBy(body))
    BY <1>3, <2>1, <2>6, <2>7, <2>8, <2>11, FirstSound
  <2>13. Sound(body', fate', HeldBy(body'))
    BY <1>5, <2>12, SoundMore
  <2> QED
    BY <1>2, <1>3, <2>3, <2>9, <2>10, <2>13, NextSound
<1> QED
  BY <1>6, <1>7


LEMMA WearSound ==
  ASSUME SoundState, FxWear
  PROVE  SoundState' /\ body'.acting \intersect DOMAIN fate = {}
<1> DEFINE x == Len(fate) + 1
           s == [Still EXCEPT !.modified = body.base]
           w == [at |-> 1, quiet |-> FALSE]
<1>1. PICK g \in Menu :
        /\ g.timing = "equipped"
        /\ body' = [First(s, Made(x, g), {}) EXCEPT !.walks = <<w>>]
        /\ fate' = Kept(Append(fate, Promise(g)), body')
  BY DEF FxWear
<1>2. UNCHANGED now /\ body.walks = <<>>
  BY DEF FxWear, Awake
<1> DEFINE c == First(s, Made(x, g), {})
           p == Append(fate, Promise(g))
<1>3. /\ s \in Affected /\ s.effects = Still.effects /\ s.gone = Still.gone
      /\ s.walks = <<>> /\ s.acting = {}
  <2>1. Still \in Affected /\ body.base \in Int /\ Still.walks = <<>> /\ Still.acting = {}
    BY <1>2, StateIs, AffectedAre
  <2> QED
    BY <2>1 DEF Affected
<1> HIDE DEF s
<1>4. HeldBy(body) = {} /\ Sound(Still, fate, HeldBy(body))
  BY <1>2, StateIs DEF Awake
<1>5. Sound(s, fate, HeldBy(body))
  BY <1>3, <1>4, RestartSound
<1>6. /\ fate \in Seq(Fates) /\ Len(fate) \in Nat /\ DOMAIN fate = 1 .. Len(fate)
      /\ now \in Nat \ {0} /\ now \in 1 .. MaxTime
      /\ x \in Nat \ DOMAIN fate /\ g \in Givable /\ Promise(g) \in Fates
  <2>1. g \in Givable
    BY EffectAssumption
  <2>2. Promise(g) \in Fates
    BY <2>1, StateIs, PromiseIs
  <2> QED
    BY <2>1, <2>2, StateIs
<1>7. /\ p \in Seq(Fates) /\ DOMAIN p = DOMAIN fate \union {x} /\ p[x] = Promise(g)
      /\ \A k \in DOMAIN fate : p[k] = fate[k]
  <2>1. p \in Seq(Fates) /\ Len(p) = Len(fate) + 1 /\ p[x] = Promise(g)
        /\ \A k \in 1 .. Len(fate) : p[k] = fate[k]
    BY <1>6, AppendProperties
  <2>2. DOMAIN p = 1 .. Len(p)
    BY <2>1
  <2> HIDE DEF p
  <2> QED
    BY <1>6, <2>1, <2>2
<1> HIDE DEF p, x
<1>8. c.acting = {} \/ c.acting = {x}
  <2>1. PICK d : d = First(s, Made(x, g), {})
    OBVIOUS
  <2> HIDE DEF c
  <2>2. s \in Affected /\ now \in 1 .. MaxTime /\ x \in Nat /\ g \in Givable
    BY <1>3, <1>6
  <2>3. d.acting = s.acting \/ d.acting = s.acting \union {x}
    BY ONLY <2>1, <2>2, FirstActs
  <2>4. d.acting = {} \/ d.acting = {x}
    BY ONLY <1>3, <2>3
  <2> QED
    BY ONLY <2>1, <2>4 DEF c
<1>9. c \in Affected /\ c = First(s, Made(x, g), {})
  BY <1>3, <1>6, FirstStays
<1>10. /\ body' \in Affected /\ body'.effects = c.effects /\ body'.gone = c.gone
       /\ body'.acting = c.acting /\ Len(body'.walks) = 1 /\ body'.walks[1].at = 1
  <2>1. w \in Walks /\ w.at = 1
    BY DEF Walks
  <2> HIDE DEF w
  <2>2. <<w>> \in Seq(Walks) /\ Len(<<w>>) = 1 /\ <<w>>[1] = w
    BY <2>1
  <2>3. body' = [c EXCEPT !.walks = <<w>>]
    BY <1>1
  <2> HIDE DEF c
  <2>4. body' \in Affected /\ body'.effects = c.effects /\ body'.gone = c.gone
        /\ body'.acting = c.acting /\ body'.walks = <<w>>
    BY <1>9, <2>2, <2>3 DEF Affected
  <2> QED
    BY <2>1, <2>2, <2>4
<1>11. /\ fate' \in Seq(Fates) /\ DOMAIN fate' = DOMAIN p
       /\ \A k \in DOMAIN p : fate'[k] = IF k \in body'.acting THEN Acted(p[k]) ELSE p[k]
  <2>1. /\ Kept(p, body') \in Seq(Fates) /\ DOMAIN Kept(p, body') = DOMAIN p
        /\ \A k \in DOMAIN p : Kept(p, body')[k] = IF k \in body'.acting THEN Acted(p[k]) ELSE p[k]
    BY <1>6, <1>7, KeptIs
  <2>2. fate' = Kept(p, body')
    BY <1>1 DEF p
  <2> QED
    BY <2>1, <2>2
<1> HIDE DEF c
<1>12. More(fate, fate', x, IF x \in c.acting THEN Acted(Promise(g)) ELSE Promise(g))
  <2>1. Acted(Promise(g)) \in Fates
    BY <1>6, ActedIs
  <2>2. \A k \in DOMAIN fate : k \notin body'.acting
    BY <1>6, <1>8, <1>10
  <2> QED
    BY <1>6, <1>7, <1>10, <1>11, <2>1, <2>2 DEF More
<1>13. Sound(c, fate', HeldBy(body))
  BY <1>3, <1>5, <1>6, <1>9, <1>12, FirstSound
<1>14. Sound(body', fate', HeldBy(body))
  BY <1>10, <1>13, RestartSound
<1>15. Sound(body', fate', HeldBy(body'))
  BY <1>4, <1>14, SoundMore
<1> QED
  BY <1>2, <1>6, <1>8, <1>10, <1>11, <1>15, NextSound

\* Between two refreshes nothing waits, so time may pass.
LEMMA AdvanceSound ==
  ASSUME SoundState, FxAdvance
  PROVE  SoundState' /\ body'.acting = {}
<1>1. /\ body' = Still /\ UNCHANGED fate /\ body.walks = <<>>
      /\ now' \in Nat /\ now <= now' /\ now' \in 1 .. MaxTime
  <2>1. PICK t \in {1, 2} : now + t <= MaxTime /\ now' = now + t
    BY DEF FxAdvance
  <2>2. now \in Nat \ {0} /\ MaxTime \in Nat
    BY StateIs, EffectAssumption
  <2> QED
    BY <2>1, <2>2 DEF FxAdvance, Awake
<1>2. /\ Still \in Affected /\ Still.effects = body.effects /\ Still.walks = <<>>
      /\ Still.acting = {} /\ Sound(Still, fate, {}) /\ fate \in Seq(Fates)
      /\ now \in Nat
  BY <1>1, StateIs DEF Awake
<1>3. ASSUME NEW e, NEW f \in Fates, Agrees(e, f, {})
      PROVE  Agrees(e, f, {})'
  <2>1. f.last \in Nat
    BY DEF Fates
  <2>2. f.last <= now => f.last <= now'
    BY <1>1, <1>2, <2>1
  <2> QED
    BY <1>3, <2>2 DEF Agrees, ActsWell
<1>4. Numbered(Still, fate) /\ Agreed(Still, fate, {}) /\ Removed(Still, fate)
      /\ Promised(fate) /\ Accounted(Still, fate)
  BY <1>2 DEF Sound
<1>5. PICK b, p : b = Still /\ p = fate
  OBVIOUS
<1>6. /\ b \in Affected /\ Promised(p) /\ Numbered(b, p) /\ Removed(b, p) /\ b.walks = <<>>
      /\ Agreed(b, p, {}) /\ Accounted(b, p)
  BY <1>2, <1>4, <1>5
<1>7. Agreed(b, p, {})'
  <2>1. \A i \in DOMAIN b.effects : b.effects[i].id \in DOMAIN p
    BY <1>6 DEF Numbered
  <2>2. \A i \in DOMAIN b.effects :
          p[b.effects[i].id] \in Fates /\ Agrees(b.effects[i], p[b.effects[i].id], {})
    BY <1>6, <2>1 DEF Promised, Agreed
  <2>3. \A i \in DOMAIN b.effects : Agrees(b.effects[i], p[b.effects[i].id], {})'
    BY <1>3, <2>2
  <2> QED
    BY <2>3 DEF Agreed
<1>8. Walking(b, p)' /\ Met(b, p)'
  BY <1>6 DEF Walking, Met
<1>9. Sound(b, p, {})'
  BY <1>1, <1>6, <1>7, <1>8 DEF Sound
<1>10. HeldBy(b) = {} /\ b = body' /\ p = fate'
  <2>1. 1 .. Len(b.walks) - 1 = {}
    BY <1>6
  <2> QED
    BY <1>1, <1>5, <2>1 DEF HeldBy
<1>11. SoundState'
  <2>1. fate' \in Seq(Fates)
    BY <1>1, <1>2
  <2> QED
    BY Zenon, <1>9, <1>10, <2>1 DEF SoundState, Sound, HeldBy, Agreed, Met, Walking, Agrees, ActsWell
<1> QED
  BY <1>1, <1>2, <1>11

LEMMA SkipSound ==
  ASSUME SoundState, FxSkip
  PROVE  SoundState' /\ body'.acting = {} /\ body'.walks # <<>>
<1>0. PICK i : i = Innermost.at
  OBVIOUS
<1> DEFINE x == body.effects[i]
           f == fate[x.id]
<1>1. /\ body.walks # <<>> /\ i <= Len(body.effects) /\ Idle(x)
      /\ body' = Passed(Still, i + 1, Innermost.quiet) /\ UNCHANGED <<now, fate>>
  BY <1>0 DEF FxSkip, Awake
<1>2. /\ Still \in Affected /\ Still.effects = body.effects /\ Still.gone = body.gone
      /\ Still.walks = body.walks /\ Still.acting = {} /\ body \in Affected
      /\ Sound(Still, fate, HeldBy(body)) /\ HeldBy(Still) = HeldBy(body)
      /\ fate \in Seq(Fates) /\ Promised(fate) /\ now \in Nat \ {0}
  BY StateIs
<1>3. /\ Innermost \in Walks /\ i \in DOMAIN body.effects /\ Innermost.quiet \in BOOLEAN
      /\ i = Still.walks[Len(Still.walks)].at /\ i \in Nat
  <2>1. Len(body.walks) \in DOMAIN body.walks
    BY <1>1, <1>2, AffectedAre
  <2>2. Innermost \in Walks
    BY <1>2, <2>1, AffectedAre DEF Innermost
  <2>3. i \in Nat \ {0} /\ Innermost.quiet \in BOOLEAN
    BY <1>0, <2>2 DEF Walks
  <2>4. i \in DOMAIN body.effects
    BY <1>1, <1>2, <2>3, AffectedAre
  <2> QED
    BY <1>0, <1>2, <2>2, <2>3, <2>4 DEF Innermost
<1>4. x \in Effects /\ x.id \in DOMAIN fate /\ f \in Fates
  <2>1. x \in Effects
    BY <1>2, <1>3, AffectedAre
  <2>2. Numbered(Still, fate)
    BY <1>2 DEF Sound
  <2> QED
    BY <1>2, <1>3, <2>1, <2>2 DEF Numbered, Promised
<1> HIDE DEF x, f
<1>5. x.id \in body.gone \/ f.due > now \/ f.last = now \/ Over(f)
  <2>1. CASE x.timing = "expired"
    <3> SUFFICES ASSUME x.id \notin body.gone, ~Over(f) PROVE FALSE
      OBVIOUS
    <3>1. Accounted(Still, fate) /\ Numbered(Still, fate)
      BY <1>2 DEF Sound
    <3>2. PICK j \in DOMAIN body.effects : body.effects[j].id = x.id /\ body.effects[j].timing # "expired"
      BY <1>2, <1>4, <3>1 DEF Accounted, f
    <3>3. j = i
      BY <1>2, <1>3, <3>1, <3>2 DEF Numbered, x
    <3> QED
      BY <2>1, <3>2, <3>3 DEF x
  <2>2. CASE x.timing # "expired"
    <3>1. x.timing \in Delayed /\ x.duration > now
      BY <1>1, <2>2 DEF Idle, x
    <3>2. Agrees(x, f, HeldBy(body))
      BY <1>2, <1>3 DEF Sound, Agreed, x, f
    <3>3. f.due = x.duration
      BY Zenon, <3>1, <3>2 DEF Agrees, Waits, WaitsWell
    <3> QED
      BY <3>1, <3>3
  <2> QED
    BY <2>1, <2>2
<1>10. PICK quiet \in BOOLEAN : quiet = Innermost.quiet
  BY <1>3
<1>6. /\ Sound(Passed(Still, i + 1, quiet), fate, HeldBy(body))
      /\ HeldBy(Passed(Still, i + 1, quiet)) = HeldBy(Still)
  <2>1. Attended(Still, fate, i)
    BY <1>2, <1>5 DEF x, f, Attended
  <2>2. Still.walks # <<>> /\ i \in DOMAIN Still.effects
    BY <1>1, <1>2, <1>3
  <2>3. Sound(Still, fate, HeldBy(body)) /\ i = Still.walks[Len(Still.walks)].at
    BY <1>2, <1>3
  <2>4. IsAt(Still, i)
    BY ONLY Zenon, <2>2, <2>3 DEF IsAt
  <2> QED
    BY <2>1, <2>3, <2>4, PassedSound
<1>7. body' = Passed(Still, i + 1, quiet)
  BY <1>1, <1>10
<1>8. Sound(body', fate', HeldBy(body'))
  BY <1>1, <1>2, <1>6, <1>7
<1>9. body'.acting = {} /\ body'.walks # <<>>
  <2>1. Still.walks # <<>> /\ i + 1 \in Nat \ {0}
    BY <1>1, <1>2, <1>3
  <2> QED
    BY <1>2, <1>7, <2>1, PassedIs
<1> QED
  BY <1>1, <1>2, <1>8, <1>9, NextSound


\* The innermost refresh is over.
Pops(b, c) ==
  /\ b.walks # <<>> /\ c.walks # <<>> /\ c \in Affected /\ c.effects = b.effects /\ c.gone = b.gone
  /\ c.walks = SubSeq(b.walks, 1, Len(b.walks) - 1)

LEMMA PoppedSound ==
  ASSUME NEW b, NEW p, NEW held, Sound(b, p, held), NEW c, Pops(b, c),
         NEW i, i = c.walks[Len(c.walks)].at
  PROVE  /\ Sound(c, p, held) /\ i \in DOMAIN b.effects
         /\ p[b.effects[i].id].last = now /\ HeldBy(b) = HeldBy(c) \union {b.effects[i].id}
<1> DEFINE L == Len(b.walks)
<1>1. b \in Affected /\ Promised(p) /\ now \in 1 .. MaxTime
      /\ b.walks # <<>> /\ c.walks # <<>> /\ c \in Affected /\ c.effects = b.effects /\ c.gone = b.gone
      /\ c.walks = SubSeq(b.walks, 1, Len(b.walks) - 1)
  BY DEF Sound, Pops
<1>2. /\ L \in Nat \ {0, 1} /\ L - 1 \in 1 .. L - 1 /\ b.walks \in Seq(Walks) /\ DOMAIN b.walks = 1 .. L
      /\ 1 \in 1 .. L - 1
  <2>1. L \in Nat \ {0} /\ b.walks \in Seq(Walks) /\ DOMAIN b.walks = 1 .. L
    BY <1>1, AffectedAre
  <2>2. L # 1
    <3> SUFFICES ASSUME L = 1 PROVE FALSE
      OBVIOUS
    <3>1. c.walks = SubSeq(b.walks, 1, 0)
      BY <1>1
    <3> QED
      BY <1>1, <3>1, SubSeqEmpty
  <2> HIDE DEF L
  <2> QED
    BY <2>1, <2>2
<1>3. /\ Len(c.walks) = L - 1 /\ \A n \in 1 .. L - 1 : c.walks[n] = b.walks[n]
  <2>1. L - 1 <= L /\ (L - 1) + 1 \in Nat /\ L - 1 \in Nat
    BY <1>2
  <2>2. /\ Len(SubSeq(b.walks, 1, L - 1)) = (L - 1) - 1 + 1
        /\ \A n \in 1 .. (L - 1) - 1 + 1 : SubSeq(b.walks, 1, L - 1)[n] = b.walks[1 + n - 1]
    BY <1>2, <2>1, SubSeqProperties
  <2>3. (L - 1) - 1 + 1 = L - 1 /\ \A n \in 1 .. L - 1 : 1 + n - 1 = n
    BY <1>2
  <2> HIDE DEF L
  <2>4. c.walks = SubSeq(b.walks, 1, L - 1)
    BY <1>1 DEF L
  <2> QED
    BY <2>2, <2>3, <2>4
<1>4. /\ DOMAIN c.walks = 1 .. L - 1 /\ c.walks # <<>>
  <2>1. DOMAIN c.walks = 1 .. Len(c.walks) /\ (c.walks = <<>> <=> Len(c.walks) = 0)
    BY <1>1, AffectedAre
  <2>2. L - 1 # 0
    BY <1>2
  <2> HIDE DEF L
  <2> QED
    BY <1>3, <2>1, <2>2
<1>5. \A n \in 1 .. L - 1 :
        b.walks[n].at \in DOMAIN b.effects /\ p[b.effects[b.walks[n].at].id].last = now
  BY HeldPlaces
<1> HIDE DEF L
<1>6. Walking(c, p)
  <2> SUFFICES ASSUME NEW n \in 1 .. L - 1
               PROVE  IF n = Len(c.walks) THEN c.walks[n].at <= Len(c.effects) + 1
                      ELSE /\ c.walks[n].at <= Len(c.effects)
                           /\ p[c.effects[c.walks[n].at].id].last = now
    BY <1>1, <1>4 DEF Walking
  <2>1. c.walks[n] = b.walks[n] /\ b.walks[n].at \in DOMAIN b.effects
        /\ p[b.effects[b.walks[n].at].id].last = now
    BY <1>3, <1>5
  <2>2. b.walks[n].at <= Len(b.effects) /\ b.walks[n].at <= Len(b.effects) + 1
    BY <1>1, <2>1, AffectedAre
  <2> QED
    BY <1>1, <2>1, <2>2
<1>7. Numbered(c, p) /\ Agreed(c, p, held) /\ Removed(c, p) /\ (Accounted(b, p) => Accounted(c, p))
  BY <1>1 DEF Sound, Numbered, Agreed, Removed, Accounted
<1>8. Met(b, p) => Met(c, p)
  <2>1. c.walks[1] = b.walks[1] /\ b.walks # <<>>
    BY <1>1, <1>2, <1>3, AffectedAre
  <2> QED
    BY <1>1, <2>1 DEF Met
<1>9. Sound(c, p, held)
  BY <1>1, <1>6, <1>7, <1>8 DEF Sound
<1>10. c.walks[Len(c.walks)] = b.walks[L - 1]
  BY <1>2, <1>3
<1>11. HeldBy(b) = HeldBy(c) \union {b.effects[b.walks[L - 1].at].id}
  <2> DEFINE H(n) == b.effects[b.walks[n].at].id
  <2>1. HeldBy(b) = {H(n) : n \in 1 .. L - 1}
    BY DEF HeldBy, L
  <2>2. HeldBy(c) = {H(n) : n \in 1 .. L - 1 - 1}
    <3>1. \A n \in 1 .. L - 1 - 1 : c.effects[c.walks[n].at].id = H(n)
      <4> SUFFICES ASSUME NEW n \in 1 .. L - 1 - 1 PROVE c.walks[n] = b.walks[n]
        BY <1>1
      <4>1. n \in 1 .. L - 1
        BY <1>2
      <4> QED
        BY <1>3, <4>1
    <3> HIDE DEF H
    <3> QED
      BY <1>3, <3>1 DEF HeldBy
  <2> HIDE DEF H
  <2>3. 1 .. L - 1 = (1 .. L - 1 - 1) \union {L - 1}
    BY <1>2
  <2>4. HeldBy(b) = HeldBy(c) \union {H(L - 1)}
    BY <2>1, <2>2, <2>3
  <2> QED
    BY <2>4 DEF H
<1> QED
  BY <1>2, <1>3, <1>4, <1>5, <1>9, <1>10, <1>11 DEF L

LEMMA RefreshedSound ==
  ASSUME SoundState, FxRefreshed
  PROVE  SoundState' /\ body'.acting = {}
<1> DEFINE outer == SubSeq(body.walks, 1, Len(body.walks) - 1)
           left == [Still EXCEPT !.walks = outer]
           held == body.effects[outer[Len(outer)].at]
<1>1. /\ body.walks # <<>> /\ UNCHANGED <<now, fate>>
      /\ body' = IF outer = <<>> THEN left
                 ELSE Passed(Put(left, Concluded(held)), outer[Len(outer)].at + 1, FALSE)
  BY DEF FxRefreshed, Awake
<1>2. /\ Still \in Affected /\ Still.effects = body.effects /\ Still.gone = body.gone
      /\ Still.walks = body.walks /\ Still.acting = {} /\ body \in Affected
      /\ Sound(Still, fate, HeldBy(body)) /\ HeldBy(Still) = HeldBy(body)
      /\ fate \in Seq(Fates)
  BY StateIs
<1>3. body.walks \in Seq(Walks) /\ Len(body.walks) \in Nat \ {0}
  BY <1>1, <1>2, AffectedAre
<1>4. outer \in Seq(Walks) /\ (outer = <<>> <=> Len(body.walks) = 1)
  <2>1. \A n \in 1 .. Len(body.walks) - 1 : body.walks[n] \in Walks
    BY <1>3, ElementOfSeq
  <2>2. Len(body.walks) - 1 <= Len(body.walks) /\ Len(body.walks) - 1 \in Nat
    BY <1>3
  <2>3. outer \in Seq(Walks) /\ Len(outer) = Len(body.walks) - 1
    BY <1>3, <2>2, SubSeqProperties
  <2> HIDE DEF outer
  <2>4. outer = <<>> <=> Len(outer) = 0
    BY <2>3, EmptySeq
  <2> QED
    BY <1>3, <2>3, <2>4
<1> HIDE DEF outer
<1>5. /\ left \in Affected /\ left.effects = body.effects /\ left.gone = body.gone
      /\ left.walks = outer /\ left.acting = {}
  BY <1>2, <1>4 DEF Affected
<1>6. PICK b : b = left
  OBVIOUS
<1> HIDE DEF left
<1>7. CASE outer = <<>>
  <2>1. Sound(b, fate, HeldBy(body))
    BY <1>2, <1>5, <1>6, <1>7, RestartSound
  <2>2. HeldBy(body) = {}
    <3>0. Len(body.walks) = 1
      BY <1>4, <1>7
    <3>1. 1 .. Len(body.walks) - 1 = {}
      BY <3>0
    <3> QED
      BY <3>1 DEF HeldBy
  <2>3. Sound(b, fate, HeldBy(b))
    BY <2>1, <2>2, SoundMore
  <2> QED
    BY <1>1, <1>2, <1>5, <1>6, <1>7, <2>3, NextSound
<1>8. CASE outer # <<>>
  <2>1. PICK s, i : s = Still /\ i = b.walks[Len(b.walks)].at
    OBVIOUS
  <2>2. Pops(s, b) /\ Sound(s, fate, HeldBy(body)) /\ HeldBy(s) = HeldBy(body)
        /\ b \in Affected /\ b.effects = s.effects
    BY <1>1, <1>2, <1>5, <1>6, <1>8, <2>1 DEF outer, Pops
  <2>3. i = b.walks[Len(b.walks)].at
    BY <2>1
  <2>4. /\ Sound(b, fate, HeldBy(body)) /\ b.walks # <<>>
        /\ i \in DOMAIN b.effects /\ fate[b.effects[i].id].last = now
        /\ HeldBy(body) \subseteq HeldBy(b) \union {b.effects[i].id}
    <3>1. /\ Sound(b, fate, HeldBy(body)) /\ i \in DOMAIN s.effects
          /\ fate[s.effects[i].id].last = now /\ HeldBy(s) = HeldBy(b) \union {s.effects[i].id}
      BY <2>2, <2>3, PoppedSound
    <3>2. b.walks # <<>>
      BY <2>2 DEF Pops
    <3> QED
      BY <2>2, <3>1, <3>2
  <2>5. held = b.effects[i] /\ outer[Len(outer)].at = i
    BY <1>5, <1>6, <2>3
  <2>6. Place(b, held.id) = i
    <3>1. Numbered(b, fate)
      BY <2>4 DEF Sound
    <3> QED
      BY <2>4, <2>5, <3>1, PlaceIs
  <2>7. held \in Effects /\ Concluded(held).id = held.id
    <3>1. held \in Effects
      BY <2>2, <2>4, <2>5, AffectedAre
    <3> QED
      BY <3>1 DEF Concluded, Effects
  <2>8. Put(b, Concluded(held)) = At(b, i, Concluded(b.effects[i]))
    BY <2>5, <2>6, <2>7 DEF Put, At
  <2>9. body' = Passed(At(b, i, Concluded(b.effects[i])), i + 1, FALSE)
    BY <1>1, <1>6, <1>8, <2>5, <2>8
  <2>10. Sound(body', fate, HeldBy(body'))
    <3>1. ActsThere(b, fate, HeldBy(body), i)
      BY ONLY Zenon, <2>3, <2>4 DEF ActsThere, IsAt
    <3>2. body' = Finished(b, i, FALSE)
      BY ONLY Zenon, <2>9 DEF Finished
    <3> QED
      BY <2>4, <3>1, <3>2, ConcludeSound
  <2>11. body'.acting = {}
    <3>1. b.acting = {}
      BY <1>5, <1>6
    <3> QED
      BY <2>2, <2>9, <3>1 DEF Passed, At, Affected
  <2> QED
    BY <1>1, <1>2, <2>10, <2>11, NextSound
<1> QED
  BY <1>7, <1>8


\* The innermost refresh executes the effect it is at, e in place i.
Executes(b, i, e) ==
  /\ b.walks # <<>> /\ b.acting = {} /\ i = b.walks[Len(b.walks)].at /\ i \in DOMAIN b.effects
  /\ ~Idle(b.effects[i]) /\ e = Timed(b.effects[i])

\* q is p after the one with this number has acted.
Acting(p, q, x) ==
  DOMAIN q = DOMAIN p /\ q[x] = Acted(p[x]) /\ \A k \in DOMAIN p \ {x} : q[k] = p[k]

ActedWell(b, p, h, e, c, q) ==
  /\ Sound(c, q, h \union {e.id}) /\ e \in Effects /\ e.id \in DOMAIN p
  /\ p[e.id].due <= now /\ (Over(p[e.id]) => e.id \in h)
  /\ c \in Affected /\ c.acting = {e.id} /\ q[e.id].last = now
  /\ \/ c.walks = b.walks /\ HeldBy(c) = h
     \/ e.kind = "uncurse" /\ Asks(b, c) /\ HeldBy(c) = h \union {e.id}
  /\ Stays(b, c)

LEMMA ActsSound ==
  ASSUME NEW b, NEW p, NEW h, Sound(b, p, h), h = HeldBy(b), NEW i, NEW e, Executes(b, i, e),
         NEW rolled, NEW c, c = Worked(Put(b, e), e, rolled), NEW q, Acting(p, q, e.id)
  PROVE  ActedWell(b, p, h, e, c, q)
<1>1. /\ b \in Affected /\ Promised(p) /\ now \in 1 .. MaxTime /\ Numbered(b, p) /\ now \in Nat \ {0}
  <2>1. b \in Affected /\ Promised(p) /\ now \in 1 .. MaxTime /\ Numbered(b, p)
    BY DEF Sound
  <2>2. MaxTime \in Nat
    BY EffectAssumption
  <2>3. \A n \in 1 .. MaxTime : n \in Nat \ {0}
    BY <2>2
  <2> QED
    BY <2>1, <2>3
<1>23. /\ b.walks # <<>> /\ b.acting = {} /\ i \in DOMAIN b.effects
       /\ ~Idle(b.effects[i]) /\ e = Timed(b.effects[i])
  BY Zenon DEF Executes
<1>25. i = b.walks[Len(b.walks)].at
  BY Zenon DEF Executes
<1>24. DOMAIN q = DOMAIN p /\ q[e.id] = Acted(p[e.id]) /\ \A k \in DOMAIN p \ {e.id} : q[k] = p[k]
  BY DEF Acting
<1>2. PICK x : x = b.effects[i]
  OBVIOUS
<1>3. x \in Effects /\ x.id \in DOMAIN p
  BY Zenon, <1>1, <1>2, <1>23, AffectedAre DEF Numbered
<1>4. PICK f : f = p[x.id]
  OBVIOUS
<1>5. f \in Fates /\ Agrees(x, f, h)
  BY Zenon, <1>1, <1>2, <1>3, <1>4, <1>23 DEF Promised, Sound, Agreed
<1>6. /\ e \in Effects /\ e.id = x.id /\ e.kind = x.kind /\ x.timing # "expired"
      /\ f.due <= now /\ (Over(f) => x.id \in h)
      /\ Agrees(e, Acted(f), h \union {e.id})
      /\ e.timing = "expired" => Over(Acted(f))
  <2>1. e = Timed(x) /\ ~Idle(x)
    BY Zenon, <1>2, <1>23
  <2> QED
    BY <1>1, <1>3, <1>5, <2>1, TimedIs
<1>7. Acted(f) \in Fates /\ Acted(f).last = now
  BY <1>1, <1>5, ActedIs
<1>8. PICK d : d = At(b, i, e)
  OBVIOUS
<1>9. Put(b, e) = d
  <2>1. Place(b, e.id) = i
    BY Zenon, <1>1, <1>2, <1>6, <1>23, PlaceIs
  <2> QED
    BY <1>8, <2>1 DEF Put, At
<1>10. /\ d \in Affected /\ Len(d.effects) = Len(b.effects) /\ DOMAIN d.effects = DOMAIN b.effects
       /\ d.effects[i] = e /\ \A j \in DOMAIN b.effects \ {i} : d.effects[j] = b.effects[j]
       /\ d.walks = b.walks /\ d.acting = {}
  <2>1. b \in Affected /\ i \in DOMAIN b.effects /\ e \in Effects
    BY Zenon, <1>1, <1>6, <1>23
  <2>2. /\ At(b, i, e) \in Affected /\ Len(At(b, i, e).effects) = Len(b.effects)
        /\ DOMAIN At(b, i, e).effects = DOMAIN b.effects /\ At(b, i, e).effects[i] = e
        /\ \A j \in DOMAIN b.effects \ {i} : At(b, i, e).effects[j] = b.effects[j]
        /\ At(b, i, e).walks = b.walks /\ At(b, i, e).acting = b.acting
    BY <2>1, AtIs
  <2> QED
    BY Zenon, <1>8, <1>23, <2>2
<1>11. \A j \in DOMAIN b.effects : d.effects[j].id = b.effects[j].id
  BY <1>2, <1>6, <1>10
<1>12. PICK more : more = h \union {e.id}
  OBVIOUS
<1>13. Sound(d, q, more)
  <2>1. /\ e.id = b.effects[i].id /\ h \subseteq more \union {e.id} /\ Agrees(e, Acted(f), more)
        /\ b.effects[i].timing # "expired" /\ q[e.id] = Acted(f)
    BY <1>2, <1>4, <1>6, <1>12, <1>24
  <2>2. PICK f1 : f1 = Acted(f)
    OBVIOUS
  <2>3. /\ f1 \in Fates /\ f1.last = now /\ Agrees(e, f1, more) /\ q[e.id] = f1
        /\ e.timing = "expired" => Over(f1)
    BY <1>6, <1>7, <2>1, <2>2
  <2>4. e \in Effects /\ DOMAIN q = DOMAIN p /\ \A k \in DOMAIN p \ {e.id} : q[k] = p[k]
    BY <1>6, <1>24
  <2>5. i \in DOMAIN b.effects
    BY <1>23
  <2>6. Sound(At(b, i, e), q, more)
    BY <2>1, <2>3, <2>4, <2>5, PutSound
  <2> QED
    BY <1>8, <2>6
<1>14. /\ Loses(d, c) /\ c.acting = d.acting \union {e.id}
       /\ c.walks = d.walks \/ (e.kind = "uncurse" /\ Asks(d, c))
  <2>1. c = Worked(d, e, rolled)
    BY <1>9
  <2>2. d \in Affected /\ e \in Effects
    BY <1>6, <1>10
  <2> QED
    BY <2>1, <2>2, WorkedIs
<1>15. i = d.walks[Len(d.walks)].at /\ i <= Len(d.effects) /\ d.effects[i].id = e.id
       /\ q[d.effects[i].id].last = now /\ d.walks # <<>>
  <2>1. i <= Len(b.effects)
    <3>1. DOMAIN b.effects = 1 .. Len(b.effects) /\ Len(b.effects) \in Nat
      BY <1>1, AffectedAre
    <3>2. PICK m : m = Len(b.effects)
      BY Zenon
    <3>3. i \in 1 .. m /\ m \in Nat
      BY Zenon, <1>23, <3>1, <3>2
    <3> QED
      BY <3>2, <3>3
  <2>2. q[e.id].last = now
    BY <1>4, <1>6, <1>7, <1>24
  <2> QED
    BY ONLY Zenon, <1>10, <1>23, <1>25, <2>1, <2>2
<1>16. Sound(c, q, more)
  <2>1. Asks(d, c) => /\ d.walks[Len(d.walks)].at <= Len(d.effects)
                      /\ q[d.effects[d.walks[Len(d.walks)].at].id].last = now
    BY <1>15
  <2>2. MayRefresh(d, q, c)
    BY ONLY Zenon, <1>14, <2>1 DEF MayRefresh
  <2> QED
    BY <1>13, <1>14, <2>2, LosesSound
<1>17. HeldBy(d) = h
  <2>1. \A n \in 1 .. Len(b.walks) - 1 : b.walks[n].at \in DOMAIN b.effects
    BY HeldPlaces
  <2>2. \A n \in 1 .. Len(b.walks) - 1 :
          d.effects[d.walks[n].at].id = b.effects[b.walks[n].at].id
    BY <1>10, <1>11, <2>1
  <2>3. d.walks = b.walks
    BY <1>10
  <2> QED
    BY <2>2, <2>3 DEF HeldBy
<1>18. \/ c.walks = b.walks /\ HeldBy(c) = h
       \/ e.kind = "uncurse" /\ Asks(b, c) /\ HeldBy(c) = more
  <2>1. CASE c.walks = d.walks
    BY <1>10, <1>13, <1>14, <1>17, <2>1, HeldLoses
  <2>2. CASE e.kind = "uncurse" /\ Asks(d, c)
    <3>1. d.walks[Len(d.walks)].at <= Len(d.effects) /\ d.walks # <<>>
      BY <1>15
    <3>2. HeldBy(c) = HeldBy(d) \union {d.effects[d.walks[Len(d.walks)].at].id}
      BY <1>13, <1>14, <2>2, <3>1, HeldLoses
    <3>3. HeldBy(c) = h \union {e.id}
      BY <1>15, <1>17, <3>2
    <3>4. Asks(b, c)
      BY <1>10, <2>2 DEF Asks
    <3> QED
      BY <1>12, <2>2, <3>3, <3>4
  <2> QED
    BY <1>14, <2>1, <2>2
<1>19. Stays(b, c)
  <2>1. Stays(d, c)
    BY <1>10, <1>14, LosesStays
  <2>2. \A n \in DOMAIN b.walks : b.walks[n].at \in DOMAIN b.effects =>
          d.effects[b.walks[n].at].id = b.effects[b.walks[n].at].id
    BY <1>11
  <2>3. d.walks = b.walks /\ DOMAIN d.effects = DOMAIN b.effects
    BY <1>10
  <2> QED
    BY <2>1, <2>2, <2>3 DEF Stays
<1>20. c \in Affected /\ c.acting = {e.id}
  BY <1>10, <1>14 DEF Loses
<1>21. q[e.id].last = now
  BY <1>4, <1>6, <1>7, <1>24
<1>22. p[e.id].due <= now /\ (Over(p[e.id]) => e.id \in h)
  BY <1>4, <1>6
<1> QED
  BY <1>2, <1>3, <1>6, <1>12, <1>16, <1>18, <1>19, <1>20, <1>21, <1>22 DEF ActedWell

\* After its opcode it is where it is now, unless that asked for a refresh.
WentOn(c, q, d, n) == Sound(c, q, HeldBy(c)) /\ c.acting = d.acting /\ Len(c.walks) >= n
MayAsk(d, h, n, x) ==
  \/ Len(d.walks) = n /\ HeldBy(d) = h
  \/ Len(d.walks) = n + 1 /\ HeldBy(d) = h \union {x}

LEMMA OnwardSound ==
  ASSUME NEW b \in Affected, NEW h, NEW x, NEW q,
         NEW d, Sound(d, q, h \union {x}), q[x].last = now, Stays(b, d),
         NEW n, n = Len(b.walks), MayAsk(d, h, n, x),
         NEW i, NEW e, Executes(b, i, e), b.effects[i].id = x,
         NEW quiet \in BOOLEAN, NEW c,
         c = IF Len(d.walks) > n THEN d
             ELSE Passed(At(d, Place(d, x), Concluded(d.effects[Place(d, x)])),
                         Place(d, x) + 1, quiet)
  PROVE  WentOn(c, q, d, n)
<1>1. /\ d \in Affected /\ Numbered(d, q)
  BY DEF Sound
<1>2. b.walks # <<>> /\ i = b.walks[Len(b.walks)].at /\ i \in DOMAIN b.effects
  BY DEF Executes
<1>3. n \in Nat /\ n \in DOMAIN b.walks /\ i = b.walks[n].at
  BY <1>2, AffectedAre
<1>4. CASE Len(d.walks) = n + 1 /\ HeldBy(d) = h \union {x}
  <2>1. PICK m : m = Len(d.walks)
    OBVIOUS
  <2>2. m = n + 1 /\ m > n /\ m >= n
    BY <1>3, <1>4, <2>1
  <2>3. c = d
    BY <2>1, <2>2
  <2> QED
    BY <1>4, <2>1, <2>2, <2>3 DEF WentOn
<1>5. CASE Len(d.walks) = n /\ HeldBy(d) = h
  <2>1. PICK j : j = d.walks[n].at
    OBVIOUS
  <2>2. n \in DOMAIN d.walks /\ j \in DOMAIN d.effects /\ d.effects[j].id = x
    BY <1>2, <1>3, <2>1 DEF Stays
  <2>3. Place(d, x) = j
    BY <1>1, <2>2, PlaceIs
  <2>4. c = Passed(At(d, j, Concluded(d.effects[j])), j + 1, quiet)
    BY <1>3, <1>5, <2>3
  <2>5. /\ d.walks # <<>> /\ j = d.walks[Len(d.walks)].at /\ q[d.effects[j].id].last = now
        /\ h \union {x} \subseteq HeldBy(d) \union {d.effects[j].id}
    BY <1>5, <2>1, <2>2
  <2>6. Sound(c, q, HeldBy(c))
    <3>1. ActsThere(d, q, h \union {x}, j)
      BY ONLY Zenon, <2>2, <2>5 DEF ActsThere, IsAt
    <3>2. c = Finished(d, j, quiet)
      BY ONLY Zenon, <2>4 DEF Finished
    <3> QED
      BY <3>1, <3>2, ConcludeSound
  <2>7. c.acting = d.acting /\ Len(c.walks) >= n
    <3>1. PICK y : y = Concluded(d.effects[j])
      OBVIOUS
    <3>2. y \in Effects
      <4>1. d.effects[j] \in Effects
        BY <1>1, <2>2, AffectedAre
      <4> QED
        BY <3>1, <4>1 DEF Concluded, Effects
    <3>3. At(d, j, y) \in Affected /\ At(d, j, y).walks = d.walks /\ At(d, j, y).acting = d.acting
      BY <1>1, <2>2, <3>2, AtIs
    <3>4. j + 1 \in Nat \ {0}
      BY <1>1, <2>2, AffectedAre
    <3>5. c = Passed(At(d, j, y), j + 1, quiet)
      BY <2>4, <3>1
    <3>6. c.acting = d.acting /\ Len(c.walks) = Len(d.walks)
      BY <2>5, <3>3, <3>4, <3>5, PassedIs
    <3> QED
      BY <1>3, <1>5, <3>6
  <2> QED
    BY <2>6, <2>7 DEF WentOn
<1> QED
  BY <1>4, <1>5 DEF MayAsk

\* One effect of the innermost refresh, e in place i: its opcode makes c of the
\* actor b, and d with the effect it gives.
Applying(b, h, p, i, e, rolled, c, d, x, n, gives, quiet) ==
  /\ b = Still /\ h = HeldBy(body) /\ p = fate /\ UNCHANGED now
  /\ b \in Affected /\ Sound(b, p, h) /\ h = HeldBy(b) /\ b.walks # <<>> /\ n = Len(b.walks)
  /\ n \in Nat \ {0}
  /\ p \in Seq(Fates) /\ Promised(p) /\ DOMAIN p = 1 .. Len(p) /\ Len(p) \in Nat /\ x = Len(p) + 1
  /\ i \in DOMAIN b.effects /\ b.effects[i] \in Effects /\ b.effects[i].id \in DOMAIN p
  /\ Executes(b, i, e) /\ e.id = b.effects[i].id
  /\ gives \in BOOLEAN /\ (gives => e.kind = "repeat") /\ quiet \in BOOLEAN
  /\ c = Worked(Put(b, e), e, rolled)
  /\ d = IF gives THEN First(c, Made(x, Repeated), {}) ELSE c
  /\ quiet => Innermost.quiet /\ d.gone = b.gone /\ Len(d.effects) = Len(b.effects)
  /\ body' = IF Len(d.walks) > n THEN d
             ELSE Passed(At(d, Place(d, e.id), Concluded(d.effects[Place(d, e.id)])),
                         Place(d, e.id) + 1, quiet)
  /\ fate' = Kept(IF gives THEN Append(p, Promise(Repeated)) ELSE p, body')

LEMMA ApplyIs ==
  ASSUME SoundState, FxApply
  PROVE  \E b, h, p, i, e, rolled, c, d, x, n, gives, quiet :
           Applying(b, h, p, i, e, rolled, c, d, x, n, gives, quiet)
<1>1. PICK b, h, p, i, e : /\ b = Still /\ h = HeldBy(body) /\ p = fate /\ i = Innermost.at
                           /\ e = Timed(body.effects[i])
  OBVIOUS
<1>2. PICK x, n : x = Len(fate) + 1 /\ n = Len(body.walks)
  OBVIOUS
<1>3. PICK gives \in BOOLEAN : gives = Gives(e, x)
  BY <1>1 DEF Gives
<1>4. /\ body.walks # <<>> /\ i <= Len(body.effects) /\ ~Idle(body.effects[i]) /\ UNCHANGED now
  BY <1>1 DEF FxApply, Awake
<1>5. PICK rolled :
        LET acts == Worked(Put(Still, e), e, rolled)
            did == IF gives THEN First(acts, Made(x, Repeated), {}) ELSE acts
        IN /\ body' = IF Len(did.walks) > n THEN did ELSE Onward(did, e)
           /\ fate' = Kept(IF gives THEN Append(fate, Promise(Repeated)) ELSE fate, body')
  BY Zenon, <1>1, <1>2, <1>3 DEF FxApply
<1>6. /\ Still \in Affected /\ Still.effects = body.effects /\ Still.gone = body.gone
      /\ Still.walks = body.walks /\ Still.acting = {} /\ body \in Affected
      /\ Sound(Still, fate, HeldBy(body)) /\ HeldBy(Still) = HeldBy(body)
      /\ fate \in Seq(Fates) /\ Promised(fate) /\ now \in Nat \ {0} /\ now \in 1 .. MaxTime
      /\ DOMAIN fate = 1 .. Len(fate) /\ Len(fate) \in Nat
  BY StateIs
<1>7. PICK c, d : /\ c = Worked(Put(b, e), e, rolled)
                  /\ d = IF gives THEN First(c, Made(x, Repeated), {}) ELSE c
  OBVIOUS
<1>8. /\ body' = IF Len(d.walks) > n THEN d ELSE Onward(d, e)
      /\ fate' = Kept(IF gives THEN Append(p, Promise(Repeated)) ELSE p, body')
  BY <1>1, <1>5, <1>7
<1>9. /\ b \in Affected /\ Sound(b, p, h) /\ h = HeldBy(b) /\ b.walks # <<>> /\ n = Len(b.walks)
      /\ p \in Seq(Fates) /\ Promised(p) /\ DOMAIN p = 1 .. Len(p) /\ Len(p) \in Nat
      /\ x = Len(p) + 1
  BY <1>1, <1>2, <1>4, <1>6
<1>10. n \in Nat \ {0}
  BY <1>9, AffectedAre
<1>11. i \in DOMAIN b.effects /\ b.effects[i] \in Effects /\ b.effects[i].id \in DOMAIN p
  <2>1. Innermost \in Walks
    <3>1. Len(body.walks) \in DOMAIN body.walks
      BY <1>4, <1>6, AffectedAre
    <3> QED
      BY <1>6, <3>1, AffectedAre DEF Innermost
  <2>2. i \in Nat \ {0}
    BY <1>1, <2>1 DEF Walks
  <2>3. i \in DOMAIN body.effects
    BY <1>4, <1>6, <2>2, AffectedAre
  <2>4. i \in DOMAIN b.effects /\ Numbered(b, p)
    BY <1>1, <1>6, <1>9, <2>3 DEF Sound
  <2> QED
    BY <1>9, <2>4, AffectedAre DEF Numbered
<1>12. Executes(b, i, e)
  <2>1. i = b.walks[Len(b.walks)].at /\ b.acting = {}
    BY <1>1, <1>6 DEF Innermost
  <2>2. ~Idle(b.effects[i]) /\ e = Timed(b.effects[i])
    BY <1>1, <1>4, <1>6
  <2> QED
    BY <1>9, <1>11, <2>1, <2>2 DEF Executes
<1>13. e.id = b.effects[i].id
  BY <1>11, <1>12 DEF Executes, Timed, Effects
<1>17. PICK quiet \in BOOLEAN :
         quiet = (Innermost.quiet /\ d.gone = body.gone /\ Len(d.effects) = Len(body.effects))
  <2>1. Innermost.quiet \in BOOLEAN
    <3>1. Len(body.walks) \in DOMAIN body.walks
      BY <1>4, <1>6, AffectedAre
    <3> QED
      BY <1>6, <3>1, AffectedAre DEF Innermost, Walks
  <2> QED
    BY <2>1
<1>18. body' = IF Len(d.walks) > n THEN d
               ELSE Passed(At(d, Place(d, e.id), Concluded(d.effects[Place(d, e.id)])),
                           Place(d, e.id) + 1, quiet)
  BY <1>8, <1>17 DEF Onward, At
<1>19. gives => e.kind = "repeat"
  BY <1>3 DEF Gives
<1>20. quiet => Innermost.quiet /\ d.gone = b.gone /\ Len(d.effects) = Len(b.effects)
  BY Zenon, <1>1, <1>6, <1>17
<1>21. Applying(b, h, p, i, e, rolled, c, d, x, n, gives, quiet)
  BY Zenon, <1>1, <1>3, <1>4, <1>7, <1>8, <1>9, <1>10, <1>11, <1>12, <1>13, <1>17, <1>18, <1>19, <1>20
     DEF Applying
<1> QED
  BY <1>21

\* The effect may give another one; here it does not, or it does.
LEMMA ApplySound ==
  ASSUME SoundState, FxApply
  PROVE  /\ SoundState' /\ body'.walks # <<>>
         /\ \A k \in body'.acting \intersect DOMAIN fate :
              fate[k].due <= now /\ (Over(fate[k]) => k \in HeldBy(body))
<1>1. PICK b, h, p, i, e, rolled, c, d, x, n, gives, quiet :
        Applying(b, h, p, i, e, rolled, c, d, x, n, gives, quiet)
  BY ApplyIs
<1>9. /\ b = Still /\ h = HeldBy(body) /\ p = fate /\ UNCHANGED now
      /\ b \in Affected /\ Sound(b, p, h) /\ h = HeldBy(b) /\ b.walks # <<>> /\ n = Len(b.walks)
      /\ n \in Nat \ {0}
      /\ p \in Seq(Fates) /\ Promised(p) /\ DOMAIN p = 1 .. Len(p) /\ Len(p) \in Nat /\ x = Len(p) + 1
  BY <1>1 DEF Applying
<1>4. UNCHANGED now
  BY <1>9
<1>3. gives \in BOOLEAN /\ (gives => e.kind = "repeat") /\ quiet \in BOOLEAN
  BY <1>1 DEF Applying
<1>6. fate \in Seq(Fates) /\ now \in Nat \ {0} /\ now \in 1 .. MaxTime
  BY StateIs
<1>7. /\ c = Worked(Put(b, e), e, rolled)
      /\ d = IF gives THEN First(c, Made(x, Repeated), {}) ELSE c
  BY <1>1 DEF Applying
<1>8. fate' = Kept(IF gives THEN Append(p, Promise(Repeated)) ELSE p, body')
  BY <1>1 DEF Applying
<1>10. n \in Nat \ {0}
  BY <1>9
<1>11. i \in DOMAIN b.effects /\ b.effects[i] \in Effects /\ b.effects[i].id \in DOMAIN p
  BY <1>1 DEF Applying
<1>12. Executes(b, i, e)
  BY <1>1 DEF Applying
<1>13. e.id = b.effects[i].id
  BY <1>1 DEF Applying
<1>17. quiet \in BOOLEAN
  BY <1>3
<1>18. body' = IF Len(d.walks) > n THEN d
               ELSE Passed(At(d, Place(d, e.id), Concluded(d.effects[Place(d, e.id)])),
                           Place(d, e.id) + 1, quiet)
  BY <1>1 DEF Applying
<1>14. PICK half : half = [k \in DOMAIN p |-> IF k = e.id THEN Acted(p[k]) ELSE p[k]]
  OBVIOUS
<1>15. Acting(p, half, e.id) /\ DOMAIN half = DOMAIN p
  BY <1>11, <1>13, <1>14 DEF Acting
<1>16. /\ Sound(c, half, h \union {e.id}) /\ e \in Effects /\ e.id \in DOMAIN p
       /\ p[e.id].due <= now /\ (Over(p[e.id]) => e.id \in h)
       /\ c \in Affected /\ c.acting = {e.id} /\ half[e.id].last = now
       /\ \/ c.walks = b.walks /\ HeldBy(c) = h
          \/ e.kind = "uncurse" /\ Asks(b, c) /\ HeldBy(c) = h \union {e.id}
       /\ Stays(b, c)
  <2>1. /\ Sound(b, p, h) /\ h = HeldBy(b) /\ Executes(b, i, e) /\ c = Worked(Put(b, e), e, rolled)
        /\ Acting(p, half, e.id)
    BY <1>7, <1>9, <1>12, <1>15
  <2>2. ActedWell(b, p, h, e, c, half)
    BY <2>1, ActsSound
  <2> QED
    BY <2>2 DEF ActedWell
<1>19. ASSUME NEW q, Sound(d, q, h \union {e.id}), q[e.id].last = now, Stays(b, d),
              MayAsk(d, h, n, e.id)
       PROVE  /\ Sound(body', q, HeldBy(body')) /\ body'.acting = d.acting /\ body'.walks # <<>>
  <2>1. Sound(body', q, HeldBy(body')) /\ body'.acting = d.acting /\ Len(body'.walks) >= n
    <3>1. /\ b \in Affected /\ Sound(d, q, h \union {e.id}) /\ q[e.id].last = now /\ Stays(b, d)
          /\ n = Len(b.walks) /\ Executes(b, i, e) /\ b.effects[i].id = e.id /\ quiet \in BOOLEAN
          /\ MayAsk(d, h, n, e.id)
      BY <1>9, <1>12, <1>13, <1>17, <1>19
    <3>2. WentOn(body', q, d, n)
      BY ONLY <1>18, <3>1, OnwardSound
    <3> QED
      BY <3>2 DEF WentOn
  <2>2. Len(<<>>) = 0
    OBVIOUS
  <2>3. ~(Len(<<>>) >= n)
    BY <1>10, <2>2
  <2>4. body'.walks # <<>>
    BY <2>1, <2>3
  <2> QED
    BY <2>1, <2>4
<1>20. CASE ~gives
  <2>1. d = c
    BY <1>7, <1>20
  <2>2. MayAsk(d, h, n, e.id)
    <3>1. Asks(b, c) => Len(c.walks) = n + 1
      BY <1>9, <1>16, WalkAppended
    <3> QED
      BY <1>9, <1>16, <2>1, <3>1 DEF MayAsk
  <2>3. Sound(body', half, HeldBy(body')) /\ body'.acting = {e.id} /\ body'.walks # <<>>
    BY <1>16, <1>19, <2>1, <2>2
  <2>4. fate' = half /\ fate' \in Seq(Fates)
    <3>1. fate' = Kept(p, body')
      BY <1>8, <1>20
    <3>2. Kept(p, body') \in Seq(Fates)
      BY <1>6, <1>9, KeptIs
    <3>3. Kept(p, body') = [k \in DOMAIN p |-> IF k \in body'.acting THEN Acted(p[k]) ELSE p[k]]
      BY DEF Kept, Acted
    <3>4. \A k \in DOMAIN p : k \in body'.acting <=> k = e.id
      BY <2>3
    <3> QED
      BY <1>14, <3>1, <3>2, <3>3, <3>4
  <2> QED
    BY <1>4, <1>9, <1>16, <2>3, <2>4, NextSound
<1>21. CASE gives
  <2>1. d = First(c, Made(x, Repeated), {}) /\ e.kind = "repeat"
    BY <1>3, <1>7, <1>21 DEF Gives
  <2>2. /\ Repeated \in Givable /\ Repeated.kind # "uncurse" /\ Promise(Repeated) \in Fates
    <3>1. Repeated \in Givable /\ Repeated.kind # "uncurse"
      BY EffectAssumption
    <3> QED
      BY <1>6, <3>1, PromiseIs
  <2>3. c.walks = b.walks /\ HeldBy(c) = h
    BY <1>16, <2>1
  <2>4. x \in Nat \ DOMAIN half /\ x # e.id /\ x \notin c.acting /\ x \in Nat
    BY <1>9, <1>15, <1>16
  <2>5. PICK r : r = IF x \in d.acting THEN Acted(Promise(Repeated)) ELSE Promise(Repeated)
    OBVIOUS
  <2>6. r \in Fates
    BY <1>6, <2>2, <2>5, ActedIs
  <2>7. PICK q : q = [k \in DOMAIN half \union {x} |-> IF k = x THEN r ELSE half[k]]
    OBVIOUS
  <2>8. More(half, q, x, r) /\ q[e.id] = half[e.id]
    BY <1>15, <1>16, <2>4, <2>6, <2>7 DEF More
  <2>9. /\ Sound(d, q, h \union {e.id})
        /\ Len(d.walks) = Len(c.walks) /\ HeldBy(d) = HeldBy(c)
    <3>1. More(half, q, x, IF x \in d.acting THEN Acted(Promise(Repeated)) ELSE Promise(Repeated))
      BY <2>5, <2>8
    <3>2. c.walks # <<>>
      BY <1>9, <2>3
    <3>3. Sound(c, half, h \union {e.id})
      BY <1>16
    <3>4. PICK g, m : g = Repeated /\ m = h \union {e.id}
      OBVIOUS
    <3>5. /\ Sound(c, half, m) /\ x \in Nat \ DOMAIN half /\ x \notin c.acting /\ g \in Givable
          /\ d = First(c, Made(x, g), {}) /\ g.kind # "uncurse"
          /\ More(half, q, x, IF x \in d.acting THEN Acted(Promise(g)) ELSE Promise(g))
      BY <2>1, <2>2, <2>4, <3>1, <3>3, <3>4
    <3>6. Sound(d, q, m)
      BY ONLY <3>5, FirstSound
    <3>7. SameHeld(c, d)
      BY ONLY <3>5, FirstSound
    <3> QED
      BY <3>2, <3>4, <3>6, <3>7 DEF SameHeld
  <2>10. d.acting = {e.id} \/ d.acting = {e.id, x}
    <3>1. d.acting = c.acting \/ d.acting = c.acting \union {x}
      BY <1>6, <1>16, <2>1, <2>2, <2>4, FirstActs
    <3> QED
      BY <1>16, <3>1
  <2>11. Stays(b, d)
    <3>1. Stays(c, d)
      BY <1>6, <1>16, <2>1, <2>2, <2>4, FirstStays
    <3> QED
      BY <1>16, <3>1 DEF Stays
  <2>12. Len(d.walks) = n /\ HeldBy(d) = h /\ q[e.id].last = now
    BY <1>9, <1>16, <2>3, <2>8, <2>9
  <2>13. Sound(body', q, HeldBy(body')) /\ body'.acting = d.acting /\ body'.walks # <<>>
    BY <1>19, <2>9, <2>11, <2>12 DEF MayAsk
  <2>14. PICK w : w = Append(p, Promise(Repeated))
    OBVIOUS
  <2>15. /\ w \in Seq(Fates) /\ DOMAIN w = DOMAIN p \union {x} /\ w[x] = Promise(Repeated)
         /\ \A k \in DOMAIN p : w[k] = p[k]
    <3>1. /\ w \in Seq(Fates) /\ Len(w) = Len(p) + 1 /\ w[Len(p) + 1] = Promise(Repeated)
          /\ \A k \in 1 .. Len(p) : w[k] = p[k]
      BY <1>9, <2>2, <2>14, AppendProperties
    <3>2. DOMAIN w = 1 .. Len(w)
      BY <3>1
    <3> QED
      BY <1>9, <3>1, <3>2
  <2>16. fate' = Kept(w, body')
    BY <1>8, <1>21, <2>14
  <2>17. fate' \in Seq(Fates) /\ fate' = q
    <3>1. Kept(w, body') \in Seq(Fates)
      BY <1>6, <2>15, KeptIs
    <3>2. Kept(w, body') = [k \in DOMAIN w |-> IF k \in body'.acting THEN Acted(w[k]) ELSE w[k]]
      BY DEF Kept, Acted
    <3>3. \A k \in DOMAIN p : /\ w[k] = p[k] /\ k # x
                              /\ k \in body'.acting <=> k = e.id
      BY <1>15, <2>4, <2>10, <2>13, <2>15
    <3>4. x \in body'.acting <=> x \in d.acting
      BY <2>13
    <3>5. DOMAIN w = DOMAIN half \union {x} /\ DOMAIN half = DOMAIN p
      BY <1>15, <2>15
    <3>6. \A k \in DOMAIN w : (IF k \in body'.acting THEN Acted(w[k]) ELSE w[k])
                               = (IF k = x THEN r ELSE half[k])
      BY <1>14, <2>5, <2>15, <3>3, <3>4, <3>5
    <3> QED
      BY <2>7, <2>16, <3>1, <3>2, <3>5, <3>6
  <2>18. \A k \in body'.acting \intersect DOMAIN p : k = e.id
    BY <1>15, <2>4, <2>10, <2>13
  <2> QED
    BY <1>4, <1>9, <1>16, <2>13, <2>17, <2>18, NextSound
<1> QED
  BY <1>20, <1>21


\* Of a sequence without repetition those in some places are left.
Lefts(xs, P, n, s) ==
  /\ s \in Seq(Effects)
  /\ \A j \in DOMAIN s : \E i \in P : i <= n /\ s[j] = xs[i]
  /\ \A i \in P : i <= n => \E j \in DOMAIN s : s[j] = xs[i]
  /\ \A j, k \in DOMAIN s : s[j] = s[k] => j = k

LEMMA LeftsMore ==
  ASSUME NEW xs, NEW N \in Nat, NEW P \in SUBSET (1 .. N), \A i \in 1 .. N : xs[i] \in Effects,
         \A i, k \in 1 .. N : xs[i] = xs[k] => i = k,
         NEW n \in Nat, n + 1 <= N, NEW s, Lefts(xs, P, n, s)
  PROVE  Lefts(xs, P, n + 1, IF n + 1 \in P THEN Append(s, xs[n + 1]) ELSE s)
<1>1. \A i \in P : i \in Nat /\ i \in 1 .. N /\ (i <= n + 1 <=> i <= n \/ i = n + 1)
  OBVIOUS
<1>2. CASE n + 1 \notin P
  <2>1. \A i \in P : i <= n + 1 <=> i <= n
    BY <1>1, <1>2
  <2>2. Lefts(xs, P, n + 1, s)
    BY <2>1 DEF Lefts
  <2> QED
    BY <1>2, <2>2
<1>3. CASE n + 1 \in P
  <2> DEFINE t == Append(s, xs[n + 1])
             m == Len(s) + 1
  <2>1. s \in Seq(Effects) /\ xs[n + 1] \in Effects /\ n + 1 \in 1 .. N
    BY DEF Lefts
  <2>2. /\ t \in Seq(Effects) /\ t[m] = xs[n + 1] /\ \A j \in DOMAIN s : t[j] = s[j]
        /\ DOMAIN t = DOMAIN s \union {m}
    BY <2>1, AppendProperties
  <2>3. \A j \in DOMAIN s : s[j] # xs[n + 1]
    <3> SUFFICES ASSUME NEW j \in DOMAIN s, s[j] = xs[n + 1] PROVE FALSE
      OBVIOUS
    <3>1. PICK i \in P : i <= n /\ s[j] = xs[i]
      BY DEF Lefts
    <3>2. i = n + 1
      BY <1>1, <2>1, <3>1
    <3> QED
      BY <3>1, <3>2
  <2> HIDE DEF t, m
  <2>4. \A j \in DOMAIN t : \E i \in P : i <= n + 1 /\ t[j] = xs[i]
    BY <1>1, <1>3, <2>2 DEF Lefts
  <2>5. \A i \in P : i <= n + 1 => \E j \in DOMAIN t : t[j] = xs[i]
    <3> SUFFICES ASSUME NEW i \in P, i <= n + 1 PROVE \E j \in DOMAIN t : t[j] = xs[i]
      OBVIOUS
    <3>1. CASE i = n + 1
      BY <2>2, <3>1
    <3>2. CASE i <= n
      <4>1. PICK j \in DOMAIN s : s[j] = xs[i]
        BY <3>2 DEF Lefts
      <4> QED
        BY <2>2, <4>1
    <3> QED
      BY <1>1, <3>1, <3>2
  <2>6. \A j, k \in DOMAIN t : t[j] = t[k] => j = k
    BY <2>2, <2>3 DEF Lefts
  <2>7. Lefts(xs, P, n + 1, t)
    BY <2>2, <2>4, <2>5, <2>6 DEF Lefts
  <2> QED
    BY <1>3, <2>7 DEF t
<1> QED
  BY <1>2, <1>3

LEMMA LeftIs ==
  ASSUME NEW xs \in Seq(Effects), NEW P \in SUBSET DOMAIN xs,
         \A i, k \in DOMAIN xs : xs[i] = xs[k] => i = k
  PROVE  /\ Left(xs, P) \in Seq(Effects)
         /\ \A j \in DOMAIN Left(xs, P) : \E i \in P : Left(xs, P)[j] = xs[i]
         /\ \A i \in P : \E j \in DOMAIN Left(xs, P) : Left(xs, P)[j] = xs[i]
         /\ \A j, k \in DOMAIN Left(xs, P) : Left(xs, P)[j] = Left(xs, P)[k] => j = k
<1> DEFINE N == Len(xs)
           X == Seq(Effects)
           step(s, n) == IF n \in P THEN Append(s, xs[n]) ELSE s
           Adds(g) == [n \in 0 .. N |-> IF n = 0 THEN <<>> ELSE step(g[n - 1], n)]
           left == CHOOSE g : g = Adds(g)
           F == [n \in 1 .. N |-> [s \in X |-> step(s, n)]]
<1>1. /\ N \in Nat /\ DOMAIN xs = 1 .. N /\ P \in SUBSET (1 .. N)
      /\ \A i \in 1 .. N : xs[i] \in Effects
  BY ElementOfSeq
<1>2. \A s \in X : \A n \in 1 .. N : step(s, n) \in X
  BY <1>1, AppendProperties
<1>3. Left(xs, P) = left[N]
  BY DEF Left
<1>4. F \in [1 .. N -> [X -> X]] /\ \A n \in 1 .. N : \A s \in X : F[n][s] = step(s, n)
  <2> HIDE DEF step, X, N
  <2> QED
    BY <1>2
<1>5. <<>> \in X
  OBVIOUS
<1> HIDE DEF step, F, N, X
<1>6. PICK f \in [0 .. N -> X] : f[0] = <<>> /\ \A n \in 1 .. N : f[n] = F[n][f[n - 1]]
  <2>1. Steps(F, N, X)
    BY <1>4 DEF Steps
  <2>2. PICK f : Goes(f, F, N, X, <<>>)
    BY <1>1, <1>5, <2>1, Iterates
  <2> QED
    BY <2>2 DEF Goes
<1>7. \A n \in 0 .. N : f[n] = IF n = 0 THEN <<>> ELSE step(f[n - 1], n)
  <2> SUFFICES ASSUME NEW n \in 1 .. N PROVE f[n] = step(f[n - 1], n)
    BY <1>1, <1>6
  <2>1. n - 1 \in 0 .. N
    BY <1>1
  <2>2. f[n - 1] \in X
    BY <1>6, <2>1
  <2> QED
    BY <1>4, <1>6, <2>2
<1>8. f = Adds(f)
  BY <1>7
<1>9. left = Adds(left)
  <2> HIDE DEF Adds
  <2> QED
    BY <1>8
<1>10. \A n \in 0 .. N : left[n] = IF n = 0 THEN <<>> ELSE step(left[n - 1], n)
  <2> HIDE DEF left
  <2>1. \A n \in 0 .. N : left[n] = Adds(left)[n]
    <3> HIDE DEF Adds
    <3> QED
      BY <1>9
  <2> QED
    BY <2>1
<1> HIDE DEF left, Adds
<1> DEFINE T == {n \in Nat : n \in 0 .. N => Lefts(xs, P, n, left[n])}
<1>11. 0 \in T
  <2>1. left[0] = <<>>
    BY <1>1, <1>10
  <2>2. <<>> \in Seq(Effects) /\ DOMAIN <<>> = {}
    OBVIOUS
  <2>3. \A i \in P : ~(i <= 0)
    BY <1>1
  <2>4. Lefts(xs, P, 0, <<>>)
    BY <2>2, <2>3 DEF Lefts
  <2> QED
    BY <2>1, <2>4
<1>12. ASSUME NEW n \in T PROVE n + 1 \in T
  <2> SUFFICES ASSUME n + 1 \in 0 .. N PROVE Lefts(xs, P, n + 1, left[n + 1])
    OBVIOUS
  <2>1. n \in Nat /\ n \in 0 .. N /\ n + 1 # 0 /\ (n + 1) - 1 = n /\ n + 1 <= N
    BY <1>1
  <2>2. left[n + 1] = step(left[n], n + 1)
    BY <1>10, <2>1
  <2>3. Lefts(xs, P, n, left[n])
    BY <2>1
  <2>4. Lefts(xs, P, n + 1, IF n + 1 \in P THEN Append(left[n], xs[n + 1]) ELSE left[n])
    BY <1>1, <2>1, <2>3, LeftsMore
  <2> QED
    BY <2>2, <2>4 DEF step
<1>13. T = Nat
  <2>1. T \in SUBSET Nat
    OBVIOUS
  <2> HIDE DEF T
  <2> QED
    BY <1>11, <1>12, <2>1, SetInduction
<1>14. Lefts(xs, P, N, left[N])
  <2>1. N \in 0 .. N
    BY <1>1
  <2> QED
    BY <1>13, <2>1
<1>15. \A i \in P : i <= N
  BY <1>1
<1> QED
  BY <1>3, <1>14, <1>15 DEF Lefts


LeftOver(s, b, P) ==
  /\ s \in Seq(Effects) /\ Len(s) \in Nat /\ DOMAIN s = 1 .. Len(s)
  /\ \A j \in DOMAIN s : s[j] \in Effects /\ \E i \in P : s[j] = b.effects[i]
  /\ \A i \in P : \E j \in DOMAIN s : s[j] = b.effects[i]
  /\ \A j, k \in DOMAIN s : s[j].id = s[k].id => j = k

LEMMA LeftOf ==
  ASSUME NEW b, NEW p, NEW h, Sound(b, p, h), NEW P \in SUBSET DOMAIN b.effects,
         NEW s, s = Left(b.effects, P)
  PROVE  LeftOver(s, b, P)
<1>1. b \in Affected /\ Numbered(b, p)
  BY DEF Sound
<1>2. b.effects \in Seq(Effects)
  BY <1>1, AffectedAre
<1>3. \A i, k \in DOMAIN b.effects : b.effects[i].id = b.effects[k].id => i = k
  BY <1>1 DEF Numbered
<1>4. PICK xs : xs = b.effects
  OBVIOUS
<1>5. \A i, k \in DOMAIN xs : xs[i] = xs[k] => i = k
  BY <1>3, <1>4
<1>6. xs \in Seq(Effects) /\ P \in SUBSET DOMAIN xs /\ s = Left(xs, P)
  BY <1>2, <1>4
<1>7. /\ s \in Seq(Effects)
      /\ \A j \in DOMAIN s : \E i \in P : s[j] = xs[i]
      /\ \A i \in P : \E j \in DOMAIN s : s[j] = xs[i]
      /\ \A j, k \in DOMAIN s : s[j] = s[k] => j = k
  BY <1>5, <1>6, LeftIs
<1>8. Len(s) \in Nat /\ DOMAIN s = 1 .. Len(s) /\ \A j \in DOMAIN s : s[j] \in Effects
  BY <1>7, ElementOfSeq
<1>9. ASSUME NEW j \in DOMAIN s, NEW k \in DOMAIN s, s[j].id = s[k].id PROVE j = k
  <2>1. PICK i \in P : s[j] = xs[i]
    BY <1>7
  <2>2. PICK l \in P : s[k] = xs[l]
    BY <1>7
  <2>3. i = l
    BY <1>3, <1>4, <1>9, <2>1, <2>2
  <2> QED
    BY <1>7, <2>1, <2>2, <2>3
<1> QED
  BY <1>4, <1>7, <1>8, <1>9 DEF LeftOver

\* What is left of the effects between two refreshes is sound.
LEMMA RemainSound ==
  ASSUME NEW b, NEW p, Promised(p), now \in 1 .. MaxTime, Numbered(b, p),
         NEW c \in Affected, c.walks = <<>>,
         \A j \in DOMAIN c.effects : \E i \in DOMAIN b.effects :
           c.effects[j].id = b.effects[i].id /\ Agrees(c.effects[j], p[b.effects[i].id], {}),
         \A j, k \in DOMAIN c.effects : c.effects[j].id = c.effects[k].id => j = k,
         Removed(c, p), Accounted(c, p)
  PROVE  Sound(c, p, {})
<1>2. Numbered(c, p)
  BY DEF Numbered
<1>3. Agreed(c, p, {})
  BY DEF Agreed
<1>4. Walking(c, p) /\ Met(c, p)
  BY DEF Walking, Met
<1> QED
  BY <1>2, <1>3, <1>4 DEF Sound

LEMMA CleanupSound ==
  ASSUME SoundState, FxCleanup
  PROVE  SoundState' /\ body'.acting = {}
<1> DEFINE P == {i \in DOMAIN body.effects : body.effects[i].timing # "expired"}
<1>1. PICK b, p, s : b = Still /\ p = fate /\ s = Left(body.effects, P)
  OBVIOUS
<1>2. /\ b \in Affected /\ b.effects = body.effects /\ b.gone = body.gone /\ b.walks = <<>>
      /\ b.acting = {} /\ Sound(b, p, {}) /\ fate \in Seq(Fates) /\ UNCHANGED <<now, fate>>
  BY <1>1, StateIs DEF FxCleanup, Awake
<1>3. body' = [b EXCEPT !.effects = s]
  BY <1>1, <1>2 DEF FxCleanup
<1>4. P \in SUBSET DOMAIN b.effects /\ s = Left(b.effects, P)
  BY <1>1, <1>2
<1>5. \A i \in P : b.effects[i].timing # "expired"
  BY <1>2
<1>6. \A i \in DOMAIN b.effects : b.effects[i].timing # "expired" => i \in P
  BY <1>2
<1> HIDE DEF P
<1>7. /\ s \in Seq(Effects) /\ Len(s) \in Nat /\ DOMAIN s = 1 .. Len(s)
      /\ \A j \in DOMAIN s : s[j] \in Effects /\ \E i \in P : s[j] = b.effects[i]
      /\ \A i \in P : \E j \in DOMAIN s : s[j] = b.effects[i]
      /\ \A j, k \in DOMAIN s : s[j].id = s[k].id => j = k
  <2>1. LeftOver(s, b, P)
    BY <1>2, <1>4, LeftOf
  <2> QED
    BY <2>1 DEF LeftOver
<1>8. PICK c : c = body'
  OBVIOUS
<1>9. c \in Affected /\ c.effects = s /\ c.walks = <<>> /\ c.acting = {} /\ c.gone = b.gone
  BY <1>2, <1>3, <1>7, <1>8 DEF Affected
<1>10. \A j \in DOMAIN c.effects : \E i \in DOMAIN b.effects :
         c.effects[j].id = b.effects[i].id /\ Agrees(c.effects[j], p[b.effects[i].id], {})
  <2>1. Agreed(b, p, {})
    BY <1>2 DEF Sound
  <2> QED
    BY <1>4, <1>7, <1>9, <2>1 DEF Agreed
<1>11. Removed(c, p)
  <2>1. Removed(b, p)
    BY <1>2 DEF Sound
  <2> QED
    BY <1>4, <1>7, <1>9, <2>1 DEF Removed
<1>12. Accounted(c, p)
  <2>1. Accounted(b, p)
    BY <1>2 DEF Sound
  <2> SUFFICES ASSUME NEW k \in DOMAIN p \ b.gone, ~Over(p[k])
               PROVE  \E j \in DOMAIN s : s[j].id = k /\ s[j].timing # "expired"
    BY <1>9 DEF Accounted
  <2>2. PICK i \in DOMAIN b.effects : b.effects[i].id = k /\ b.effects[i].timing # "expired"
    BY <2>1 DEF Accounted
  <2>3. PICK j \in DOMAIN s : s[j] = b.effects[i]
    BY <1>6, <1>7, <2>2
  <2> QED
    BY <2>2, <2>3
<1>13. Sound(c, p, {})
  <2>1. Promised(p) /\ now \in 1 .. MaxTime /\ Numbered(b, p)
    BY <1>2 DEF Sound
  <2> QED
    BY <1>7, <1>9, <1>10, <1>11, <1>12, <2>1, RemainSound
<1>14. HeldBy(c) = {}
  <2>1. 1 .. Len(c.walks) - 1 = {}
    BY <1>9
  <2> QED
    BY <2>1 DEF HeldBy
<1>15. Sound(body', fate', HeldBy(body'))
  BY <1>1, <1>2, <1>8, <1>13, <1>14
<1> QED
  BY <1>2, <1>8, <1>9, <1>15, NextSound

\* A saved game loses how long what waits will last, and it is promised no more.
LEMMA ReloadSound ==
  ASSUME SoundState, FxReload
  PROVE  SoundState' /\ body'.acting = {}
<1> DEFINE P == {i \in DOMAIN body.effects : Persistent(body.effects[i])}
<1>1. PICK b, p, s : b = Still /\ p = fate /\ s = Left(body.effects, P)
  OBVIOUS
<1>2. /\ b \in Affected /\ b.effects = body.effects /\ b.gone = body.gone /\ b.base = body.base
      /\ Sound(b, p, {}) /\ p \in Seq(Fates) /\ UNCHANGED now
      /\ DOMAIN p = 1 .. Len(p)
  BY Zenon, <1>1, StateIs DEF FxReload, Awake
<1> DEFINE kept == {s[i].id : i \in DOMAIN s}
           t == [i \in DOMAIN s |-> [s[i] EXCEPT !.delay = 0]]
<1>3. body' = [effects |-> t, base |-> b.base, modified |-> b.base, walks |-> <<>>,
               acting |-> {}, gone |-> DOMAIN p \ kept]
  BY Zenon, <1>1, <1>2 DEF FxReload
<1>4. P \in SUBSET DOMAIN b.effects /\ s = Left(b.effects, P)
  BY <1>1, <1>2
<1>5. \A i \in P : b.effects[i].timing # "expired"
  BY Zenon, <1>2 DEF Persistent
<1> DEFINE lost == {b.effects[i].id : i \in {j \in DOMAIN b.effects : b.effects[j].timing = "delay limited"}}
<1>20. PICK q : q = [k \in DOMAIN p |-> IF k \in lost /\ p[k].span > 0
                                        THEN [p[k] EXCEPT !.span = Ticks(0)] ELSE p[k]]
  OBVIOUS
<1>21. fate' = q
  <2>1. fate' = [k \in DOMAIN fate |->
                   IF k \in Forgotten /\ fate[k].span > 0 THEN [fate[k] EXCEPT !.span = Ticks(0)]
                   ELSE fate[k]]
    BY Zenon DEF FxReload
  <2>2. Forgotten = lost
    BY <1>2 DEF Forgotten
  <2> QED
    BY Zenon, <1>1, <1>20, <2>1, <2>2
<1> HIDE DEF P, lost
<1>22. /\ Promised(p) /\ now \in 1 .. MaxTime /\ Numbered(b, p) /\ Agreed(b, p, {})
       /\ Ticks(0) \in Nat \ {0}
  BY <1>2, TicksAre DEF Sound
<1>23. /\ DOMAIN q = DOMAIN p
       /\ \A k \in DOMAIN p : q[k] = IF k \in lost /\ p[k].span > 0
                                     THEN [p[k] EXCEPT !.span = Ticks(0)] ELSE p[k]
  BY Zenon, <1>20
<1>24. \A k \in DOMAIN p :
         /\ q[k] \in Fates /\ q[k].kind = p[k].kind /\ q[k].due = p[k].due
         /\ q[k].begun = p[k].begun /\ q[k].last = p[k].last
         /\ q[k].span = IF k \in lost /\ p[k].span > 0 THEN Ticks(0) ELSE p[k].span
  <2> SUFFICES ASSUME NEW k \in DOMAIN p
               PROVE  LET f == IF k \in lost /\ p[k].span > 0
                               THEN [p[k] EXCEPT !.span = Ticks(0)] ELSE p[k]
                      IN /\ f \in Fates /\ f.kind = p[k].kind /\ f.due = p[k].due
                         /\ f.begun = p[k].begun /\ f.last = p[k].last
                         /\ f.span = IF k \in lost /\ p[k].span > 0 THEN Ticks(0) ELSE p[k].span
    BY <1>23
  <2>1. p[k] \in Fates
    BY <1>22 DEF Promised
  <2> QED
    BY <1>22, <2>1 DEF Fates
<1>25. q \in Seq(Fates) /\ Promised(q) /\ Numbered(b, q)
  <2>1. Promised(q) /\ Numbered(b, q)
    BY <1>22, <1>23, <1>24 DEF Promised, Numbered
  <2>2. Len(p) \in Nat /\ DOMAIN q = 1 .. Len(p)
    BY <1>2, <1>23
  <2>3. q \in [1 .. Len(p) -> Fates]
    BY <1>20, <1>23, <1>24, <2>2
  <2> QED
    BY <2>1, <2>2, <2>3, IsASeq
\* What has begun is over as before.
<1>26. \A k \in DOMAIN p : Over(p[k]) => Over(q[k])
  <2> SUFFICES ASSUME NEW k \in DOMAIN p, Over(p[k]), k \in lost PROVE FALSE
    BY <1>23
  <2>1. PICK i \in DOMAIN b.effects : b.effects[i].timing = "delay limited" /\ b.effects[i].id = k
    BY DEF lost
  <2>2. WaitsWell(b.effects[i], p[k])
    BY <1>22, <2>1 DEF Agreed, Agrees, Waits, Delayed
  <2>3. p[k].begun = 0 /\ p[k].begun > 0
    BY <2>2 DEF WaitsWell, Over
  <2> QED
    BY <2>3
<1>7. /\ s \in Seq(Effects) /\ Len(s) \in Nat /\ DOMAIN s = 1 .. Len(s)
      /\ \A j \in DOMAIN s : s[j] \in Effects /\ \E i \in P : s[j] = b.effects[i]
      /\ \A i \in P : \E j \in DOMAIN s : s[j] = b.effects[i]
      /\ \A j, k \in DOMAIN s : s[j].id = s[k].id => j = k
  <2>1. LeftOver(s, b, P)
    BY <1>2, <1>4, LeftOf
  <2> QED
    BY <2>1 DEF LeftOver
<1>17. \A j \in DOMAIN s : t[j] \in Effects /\ t[j] = [s[j] EXCEPT !.delay = 0]
                           /\ t[j].id = s[j].id /\ t[j].timing = s[j].timing
                           /\ t[j].kind = s[j].kind /\ t[j].duration = s[j].duration /\ t[j].delay = 0
  <2> SUFFICES ASSUME NEW j \in DOMAIN s
               PROVE  LET x == s[j]
                          y == [x EXCEPT !.delay = 0]
                      IN /\ y \in Effects /\ y.id = x.id /\ y.timing = x.timing
                         /\ y.kind = x.kind /\ y.duration = x.duration /\ y.delay = 0
    OBVIOUS
  <2>1. s[j] \in Effects
    BY <1>7
  <2> QED
    BY <2>1 DEF Effects
<1>18. t \in Seq(Effects) /\ DOMAIN t = DOMAIN s
  <2>1. DOMAIN t = 1 .. Len(s)
    BY <1>7
  <2> HIDE DEF t
  <2>2. t \in [1 .. Len(s) -> Effects]
    <3>1. \A j \in 1 .. Len(s) : t[j] \in Effects
      BY <1>7, <1>17
    <3>2. t = [j \in 1 .. Len(s) |-> t[j]]
      BY <1>7 DEF t
    <3> QED
      BY <3>1, <3>2
  <2> QED
    BY <1>7, <2>1, <2>2, IsASeq
<1> HIDE DEF t
<1>8. PICK c : c = body'
  OBVIOUS
<1>9. c \in Affected /\ c.effects = t /\ c.walks = <<>> /\ c.acting = {} /\ c.gone = DOMAIN p \ kept
  <2>1. b.base \in Int /\ DOMAIN p \ kept \in SUBSET Nat
    BY <1>2, AffectedAre
  <2>2. <<>> \in Seq(Walks)
    OBVIOUS
  <2> HIDE DEF kept
  <2> QED
    BY <1>3, <1>8, <1>18, <2>1, <2>2 DEF Affected
<1>10. \A j \in DOMAIN c.effects : \E i \in DOMAIN b.effects :
         c.effects[j].id = b.effects[i].id /\ Agrees(c.effects[j], q[b.effects[i].id], {})
  <2> SUFFICES ASSUME NEW j \in DOMAIN s
               PROVE  \E i \in DOMAIN b.effects : t[j].id = b.effects[i].id
                                                  /\ Agrees(t[j], q[b.effects[i].id], {})
    BY <1>9, <1>18
  <2>1. PICK i \in P : s[j] = b.effects[i]
    BY <1>7
  <2>2. PICK x, e, f, g : x = s[j] /\ e = t[j] /\ f = p[x.id] /\ g = q[x.id]
    OBVIOUS
  <2>3. /\ e.id = x.id /\ e.timing = x.timing /\ e.kind = x.kind /\ e.duration = x.duration
        /\ e.delay = 0 /\ x \in Effects
    BY <1>7, <1>17, <2>2
  <2>4. /\ Agrees(x, f, {}) /\ f \in Fates /\ x.id \in DOMAIN p
        /\ x = b.effects[i] /\ i \in DOMAIN b.effects
    <3>1. i \in DOMAIN b.effects /\ x = b.effects[i]
      BY <1>4, <2>1, <2>2
    <3> QED
      BY <1>22, <2>2, <3>1 DEF Agreed, Numbered, Promised
  <2>5. x.id \in lost <=> x.timing = "delay limited"
    <3>1. x.id \in lost => \E k \in DOMAIN b.effects : b.effects[k].timing = "delay limited"
                                                      /\ b.effects[k].id = x.id
      BY DEF lost
    <3>2. \A k \in DOMAIN b.effects : b.effects[k].id = x.id => k = i
      BY <1>22, <2>4 DEF Numbered
    <3>3. x.timing = "delay limited" => x.id \in lost
      BY <2>4 DEF lost
    <3> QED
      BY <2>4, <3>1, <3>2, <3>3
  <2>6. /\ g.kind = f.kind /\ g.due = f.due /\ g.begun = f.begun /\ g.last = f.last
        /\ g.span = IF x.timing = "delay limited" /\ f.span > 0 THEN Ticks(0) ELSE f.span
    BY <1>24, <2>2, <2>4, <2>5
  <2>7. Waits(e) => WaitsWell(e, g)
    <3> SUFFICES ASSUME Waits(e) PROVE WaitsWell(e, g)
      OBVIOUS
    <3>1. WaitsWell(x, f)
      BY <2>3, <2>4 DEF Agrees, Waits
    <3>2. x.timing = "delay limited" /\ x.kind \notin Instant => f.span > 0
      <4> SUFFICES ASSUME x.timing = "delay limited", x.kind \notin Instant PROVE f.span > 0
        OBVIOUS
      <4>1. Ticks(x.delay) = f.span
        BY <3>1 DEF WaitsWell
      <4>2. x.delay \in Nat
        BY <2>3 DEF Effects
      <4>3. f.span \in Nat \ {0}
        BY <4>1, <4>2, TicksAre
      <4> QED
        BY Zenon, <4>3, Positive
    <3>3. x.kind \in Instant => g.span = 0
      <4>1. x.kind \in Instant => f.span = 0
        BY <3>1 DEF WaitsWell
      <4>2. ~(0 > 0)
        OBVIOUS
      <4>3. f.span = 0 => ~(f.span > 0)
        BY <4>2
      <4> QED
        BY Zenon, <2>6, <4>1, <4>3
    <3> QED
      BY <2>3, <2>6, <3>1, <3>2, <3>3 DEF WaitsWell
  <2>8. Acts(e) => ActsWell(e, g, {})
    <3> SUFFICES ASSUME Acts(e) PROVE ActsWell(e, g, {})
      OBVIOUS
    <3>1. ActsWell(x, f, {})
      BY <2>3, <2>4 DEF Agrees, Acts
    <3>2. g.span = f.span
      BY <2>3, <2>6 DEF Acts, Delayed
    <3> QED
      BY <2>3, <2>6, <3>1, <3>2 DEF ActsWell, WorksOnce
  <2>9. Agrees(e, g, {})
    BY <2>3, <2>4, <2>6, <2>7, <2>8 DEF Agrees
  <2> QED
    BY <2>2, <2>3, <2>4, <2>9
<1>11. Removed(c, q)
  <2>1. \A j \in DOMAIN s : s[j].id \in kept
    OBVIOUS
  <2> HIDE DEF kept
  <2> QED
    BY <1>9, <1>17, <1>18, <1>23, <2>1 DEF Removed
<1>12. Accounted(c, q)
  <2> SUFFICES ASSUME NEW k \in kept
               PROVE  \E j \in DOMAIN s : t[j].id = k /\ t[j].timing # "expired"
    BY <1>9, <1>18, <1>23 DEF Accounted
  <2>1. PICK j \in DOMAIN s : s[j].id = k
    OBVIOUS
  <2>2. PICK i \in P : s[j] = b.effects[i]
    BY <1>7
  <2> QED
    BY Zenon, <1>5, <1>17, <2>1, <2>2
<1>19. \A j, k \in DOMAIN c.effects : c.effects[j].id = c.effects[k].id => j = k
  BY <1>7, <1>9, <1>17, <1>18
<1>13. Sound(c, q, {})
  BY <1>22, <1>25, <1>9, <1>10, <1>11, <1>12, <1>19, RemainSound
<1>14. HeldBy(c) = {}
  <2>1. 1 .. Len(c.walks) - 1 = {}
    BY <1>9
  <2> QED
    BY <2>1 DEF HeldBy
<1>15. Sound(body', fate', HeldBy(body'))
  BY <1>8, <1>13, <1>14, <1>21
<1> QED
  BY <1>2, <1>8, <1>9, <1>15, <1>21, <1>25, NextSound


LEMMA SoundAtFirst ==
  ASSUME FxInit
  PROVE  SoundState
<1>1. body = [effects |-> <<>>, base |-> 0, modified |-> 0, walks |-> <<>>,
              acting |-> {}, gone |-> {}] /\ fate = <<>> /\ now = 1
  BY DEF FxInit
<1>2. <<>> \in Seq(Effects) /\ <<>> \in Seq(Walks) /\ <<>> \in Seq(Fates) /\ DOMAIN <<>> = {}
  OBVIOUS
<1>3. body \in Affected /\ body.effects = <<>> /\ body.walks = <<>> /\ body.gone = {}
  BY <1>1, <1>2 DEF Affected
<1>4. now \in 1 .. MaxTime
  BY <1>1, EffectAssumption
<1>5. Promised(fate)
  BY <1>1, <1>2 DEF Promised
<1>6. /\ Numbered(body, fate) /\ Agreed(body, fate, HeldBy(body)) /\ Removed(body, fate)
      /\ Walking(body, fate) /\ Accounted(body, fate) /\ Met(body, fate)
  BY <1>1, <1>2, <1>3 DEF Numbered, Agreed, Removed, Walking, Accounted, Met
<1> QED
  BY <1>1, <1>2, <1>3, <1>4, <1>5, <1>6 DEF SoundState, Sound

\* Who acts in a step.
InTime == \A k \in body'.acting \intersect DOMAIN fate :
            fate[k].due <= now /\ (Over(fate[k]) => k \in HeldBy(body))

LEMMA SoundNext ==
  ASSUME SoundState, FxNext
  PROVE  SoundState' /\ InTime
<1> USE DEF InTime
<1>1. CASE FxGive
  BY <1>1, GiveSound
<1>2. CASE FxWear
  BY <1>2, WearSound
<1>3. CASE FxTakeOff
  BY <1>3, TakeOffSound
<1>4. CASE FxRefresh
  BY <1>4, RefreshSound
<1>5. CASE FxSkip
  BY <1>5, SkipSound
<1>6. CASE FxApply
  BY <1>6, ApplySound
<1>7. CASE FxRefreshed
  BY <1>7, RefreshedSound
<1>8. CASE FxCleanup
  BY <1>8, CleanupSound
<1>9. CASE FxExpire
  BY <1>9, ExpireSound
<1>10. CASE FxAdvance
  BY <1>10, AdvanceSound
<1>11. CASE FxReload
  BY <1>11, ReloadSound
<1> QED
  BY <1>1, <1>2, <1>3, <1>4, <1>5, <1>6, <1>7, <1>8, <1>9, <1>10, <1>11 DEF FxNext

LEMMA SoundStutters ==
  ASSUME SoundState, UNCHANGED fxVars
  PROVE  SoundState'
<1>1. now' = now /\ body' = body /\ fate' = fate
  BY DEF fxVars
<1>2. /\ fate \in Seq(Fates) /\ Sound(body, fate, HeldBy(body))
      /\ HeldBy(body') = HeldBy(body)
  BY <1>1 DEF SoundState
<1>3. fate' \in Seq(Fates) /\ Sound(body', fate', HeldBy(body'))
  BY ONLY Zenon, <1>1, <1>2
<1> QED
  BY <1>1, <1>3, NextSound

\* At every step every effect on the actor agrees with what was promised of it:
\* no two have the same number, one that waits has not begun and will begin when
\* it was said, one that acts is not over, one that was removed stays without
\* effect, nothing else gets lost, and each refresh that is going on is at an
\* effect of the queue. (EffectQueue.cpp, ApplyEffect, ApplyAllEffects)
THEOREM EffectsStaySound == FxSpec => []SoundState
<1>1. SoundState /\ [FxNext]_fxVars => SoundState'
  BY SoundNext, SoundStutters
<1> QED
  BY <1>1, SoundAtFirst, PTL DEF FxSpec

\* No effect acts before its time, nor after it is over but in the refresh it
\* asked for itself.
THEOREM EffectsActInTheirTime == FxSpec => InTheirTime
<1>1. SoundState /\ [FxNext]_fxVars =>
        [\A i \in body'.acting \intersect DOMAIN fate :
           fate[i].due <= now /\ (Over(fate[i]) => i \in Held)]_fxVars
  BY SoundNext DEF InTime, Held, HeldBy
<1> QED
  BY <1>1, EffectsStaySound, PTL DEF FxSpec, InTheirTime

\* The last refresh ends when it has passed every effect.
LEMMA EndsWhenPassed ==
  ASSUME SoundState, FxNext, Awake, body'.walks = <<>>
  PROVE  /\ FxRefreshed /\ Len(body.walks) = 1 /\ Innermost = body.walks[1]
         /\ \A j \in DOMAIN body.effects : j < body.walks[1].at
<1>1. FxRefreshed
  BY SkipSound, ApplySound
     DEF FxNext, FxGive, FxWear, FxTakeOff, FxRefresh, FxCleanup, FxExpire, FxAdvance, FxReload
<1> DEFINE outer == SubSeq(body.walks, 1, Len(body.walks) - 1)
           left == [Still EXCEPT !.walks = outer]
           held == body.effects[outer[Len(outer)].at]
<1>2. /\ body.walks # <<>> /\ Innermost.at > Len(body.effects)
      /\ body' = IF outer = <<>> THEN left
                 ELSE Passed(Put(left, Concluded(held)), outer[Len(outer)].at + 1, FALSE)
  BY <1>1 DEF FxRefreshed, Awake
<1>3. Still \in Affected /\ body \in Affected
  BY StateIs
<1>4. body.walks \in Seq(Walks) /\ Len(body.walks) \in Nat \ {0}
  BY <1>2, <1>3, AffectedAre
<1>5. outer \in Seq(Walks) /\ (outer = <<>> <=> Len(body.walks) = 1)
  <2>1. \A n \in 1 .. Len(body.walks) - 1 : body.walks[n] \in Walks
    BY <1>4, ElementOfSeq
  <2>2. Len(body.walks) - 1 <= Len(body.walks) /\ Len(body.walks) - 1 \in Nat
    BY <1>4
  <2>3. outer \in Seq(Walks) /\ Len(outer) = Len(body.walks) - 1
    BY <1>4, <2>2, SubSeqProperties
  <2> HIDE DEF outer
  <2>4. outer = <<>> <=> Len(outer) = 0
    BY <2>3, EmptySeq
  <2> QED
    BY <1>4, <2>3, <2>4
<1> HIDE DEF outer
<1>6. outer = <<>>
  <2> SUFFICES ASSUME outer # <<>> PROVE FALSE
    OBVIOUS
  <2>1. left \in Affected /\ left.walks = outer
    BY <1>3, <1>5 DEF Affected
  <2> HIDE DEF left, held
  <2>2. PICK m : m = Put(left, Concluded(held))
    OBVIOUS
  <2>3. m.walks = outer /\ m = [m EXCEPT !.walks = outer]
    BY <2>1, <2>2 DEF Put, Affected
  <2>4. body' = Passed(m, outer[Len(outer)].at + 1, FALSE)
    BY <1>2, <2>2
  <2>5. body'.walks = [outer EXCEPT ![Len(outer)] = [at |-> outer[Len(outer)].at + 1, quiet |-> FALSE]]
    BY <2>1, <2>2, <2>3, <2>4 DEF Passed, Put, Affected
  <2>6. DOMAIN outer = {}
    <3>1. DOMAIN body'.walks = DOMAIN outer
      BY <2>5
    <3>2. DOMAIN <<>> = {}
      OBVIOUS
    <3> QED
      BY <3>1, <3>2
  <2>7. Len(outer) \in DOMAIN outer
    <3>1. Len(outer) \in Nat \ {0} /\ DOMAIN outer = 1 .. Len(outer)
      BY <1>5, EmptySeq
    <3> QED
      BY <3>1
  <2> QED
    BY <2>6, <2>7
<1>7. Len(body.walks) = 1 /\ Innermost = body.walks[1]
  BY <1>5, <1>6 DEF Innermost
<1>8. ASSUME NEW j \in DOMAIN body.effects PROVE j < body.walks[1].at
  <2>1. PICK m, n : m = Len(body.effects) /\ n = body.walks[1].at
    OBVIOUS
  <2>2. m \in Nat /\ j \in 1 .. m /\ n > m /\ n \in Nat
    <3>1. 1 \in DOMAIN body.walks
      BY <1>3, <1>7, AffectedAre
    <3>2. body.walks[1] \in Walks
      BY <1>3, <3>1, AffectedAre
    <3>3. DOMAIN body.effects = 1 .. Len(body.effects) /\ Len(body.effects) \in Nat
      BY <1>3, AffectedAre
    <3> QED
      BY <1>2, <1>7, <2>1, <3>2, <3>3 DEF Walks
  <2>3. j < n
    BY ONLY <2>2
  <2> QED
    BY <2>1, <2>3
<1> QED
  BY <1>1, <1>7, <1>8

\* When a refresh ends, whatever is due has acted in this tick, was removed or is
\* over. (EffectQueue.cpp, ApplyAllEffects)
THEOREM EveryEffectIsReached == FxSpec => NobodyLeftOut
<1>1. ASSUME SoundState, FxNext, Awake, body'.walks = <<>>, NEW k \in DOMAIN fate \ body.gone,
             fate[k].due <= now
      PROVE  fate[k].last = now \/ Over(fate[k])
  <2>1. Accounted(body, fate) /\ Met(body, fate) /\ Numbered(body, fate)
        /\ body \in Affected /\ Promised(fate) /\ now \in Nat
    BY <1>1, StateIs DEF SoundState, Sound
  <2> SUFFICES ASSUME ~Over(fate[k]) PROVE fate[k].last = now
    OBVIOUS
  <2>2. PICK j \in DOMAIN body.effects : body.effects[j].id = k
    BY <2>1 DEF Accounted
  <2>3. j < body.walks[1].at /\ body.walks # <<>>
    BY <1>1, EndsWhenPassed DEF Awake
  <2>4. k \in body.gone \/ fate[k].due > now \/ fate[k].last = now \/ Over(fate[k])
    BY <2>1, <2>2, <2>3 DEF Met
  <2>5. ~(fate[k].due > now)
    <3>1. PICK m : m = fate[k].due
      OBVIOUS
    <3>2. m \in Nat /\ m <= now
      BY <1>1, <2>1, <3>1 DEF Promised, Fates
    <3>3. ~(m > now)
      BY <2>1, <3>2
    <3> QED
      BY <3>1, <3>3
  <2> QED
    BY <2>4, <2>5
<1>2. SoundState /\ [FxNext]_fxVars =>
        [Awake /\ body'.walks = <<>> =>
           \A i \in DOMAIN fate \ body.gone :
             fate[i].due <= now => fate[i].last = now \/ Over(fate[i])]_fxVars
  BY <1>1
<1> QED
  BY <1>2, EffectsStaySound, PTL DEF FxSpec, NobodyLeftOut


--------------------------------------------------------------------------
(* What a refresh counts *)

\* It is no refresh in which nothing was given or removed.
Loud(b) == b.walks # <<>> => ~b.walks[Len(b.walks)].quiet

\* The bonuses counted by the time it is where it is are S.
Counts(b, p, S) ==
  /\ S \in SUBSET DOMAIN p
  /\ \A k \in S : /\ \E j \in DOMAIN b.effects : j < b.walks[1].at /\ b.effects[j].id = k
                  /\ p[k].kind = "bonus" /\ p[k].span > 0 /\ p[k].last = now /\ k \notin b.gone
  /\ \A j \in DOMAIN b.effects : j < b.walks[1].at =>
       LET k == b.effects[j].id
       IN p[k].kind = "bonus" /\ p[k].span > 0 /\ p[k].last = now /\ k \notin b.gone /\ ~Over(p[k])
            => k \in S
  /\ b.modified - b.base = Cardinality(S)

Counted(b, p) == Loud(b) \/ (Len(b.walks) = 1 /\ \E S : Counts(b, p, S))
CountState == Counted(body, fate)

\* It goes on from place i, where it may have counted one more.
CountsOn(b, p, i, c, q, more) ==
  /\ i = b.walks[1].at /\ i \in DOMAIN b.effects
  /\ DOMAIN c.effects = DOMAIN b.effects /\ c.gone = b.gone
  /\ \A j \in DOMAIN b.effects : c.effects[j].id = b.effects[j].id
  /\ Len(c.walks) = 1 /\ c.walks[1].at = i + 1
  /\ DOMAIN p \subseteq DOMAIN q /\ \A k \in DOMAIN p : k # b.effects[i].id => q[k] = p[k]
  /\ more \in BOOLEAN
  /\ LET k == b.effects[i].id
         f == q[k]
     IN /\ more => f.kind = "bonus" /\ f.span > 0 /\ f.last = now /\ k \notin b.gone
        /\ f.kind = "bonus" /\ f.span > 0 /\ f.last = now /\ k \notin b.gone /\ ~Over(f) => more
  /\ c.modified - c.base = b.modified - b.base + (IF more THEN 1 ELSE 0)

LEMMA CountsMore ==
  ASSUME NEW b \in Affected, NEW p, Numbered(b, p), DOMAIN p \in SUBSET Nat, IsFiniteSet(DOMAIN p),
         NEW S, Counts(b, p, S), NEW i, NEW c, NEW q, NEW more, CountsOn(b, p, i, c, q, more)
  PROVE  \E T : Counts(c, q, T)
<1> DEFINE x == b.effects[i].id
           T == IF more THEN S \union {x} ELSE S
<1>1. /\ i = b.walks[1].at /\ i \in DOMAIN b.effects
      /\ DOMAIN c.effects = DOMAIN b.effects /\ c.gone = b.gone
      /\ \A j \in DOMAIN b.effects : c.effects[j].id = b.effects[j].id
      /\ c.walks[1].at = i + 1
      /\ DOMAIN p \subseteq DOMAIN q /\ \A k \in DOMAIN p : k # x => q[k] = p[k]
      /\ more \in BOOLEAN
      /\ more => q[x].kind = "bonus" /\ q[x].span > 0 /\ q[x].last = now /\ x \notin b.gone
      /\ q[x].kind = "bonus" /\ q[x].span > 0 /\ q[x].last = now /\ x \notin b.gone /\ ~Over(q[x]) => more
      /\ c.modified - c.base = b.modified - b.base + (IF more THEN 1 ELSE 0)
  BY Zenon DEF CountsOn
<1>2. /\ \A j \in DOMAIN b.effects : b.effects[j].id \in DOMAIN p
      /\ \A j \in DOMAIN b.effects : b.effects[j].id = x => j = i
  BY Zenon, <1>1 DEF Numbered
<1>3. \A j \in DOMAIN b.effects : j \in Nat /\ (j < i + 1 <=> j < i \/ j = i) /\ ~(i < i) /\ (j < i => j # i)
  <2>1. i \in Nat /\ \A j \in DOMAIN b.effects : j \in Nat
    <3>1. DOMAIN b.effects = 1 .. Len(b.effects)
      BY AffectedAre
    <3>2. \A m : \A j \in 1 .. m : j \in Nat
      OBVIOUS
    <3>3. \A j \in DOMAIN b.effects : j \in Nat
      BY ONLY <3>1, <3>2
    <3> QED
      BY Zenon, <1>1, <3>3
  <2>2. ASSUME NEW j \in Nat, NEW k \in Nat
        PROVE  (j < k + 1 <=> j < k \/ j = k) /\ ~(k < k) /\ (j < k => j # k)
    OBVIOUS
  <2> QED
    BY <2>1, <2>2
<1>4. /\ S \in SUBSET DOMAIN p
      /\ \A k \in S : /\ \E j \in DOMAIN b.effects : j < i /\ b.effects[j].id = k
                      /\ p[k].kind = "bonus" /\ p[k].span > 0 /\ p[k].last = now /\ k \notin b.gone
      /\ \A j \in DOMAIN b.effects : j < i =>
           LET k == b.effects[j].id
           IN p[k].kind = "bonus" /\ p[k].span > 0 /\ p[k].last = now /\ k \notin b.gone /\ ~Over(p[k])
                => k \in S
      /\ b.modified - b.base = Cardinality(S)
  BY Zenon, <1>1 DEF Counts
<1> HIDE DEF x
<1>5. x \notin S /\ x \in DOMAIN p
  <2>1. x \in DOMAIN p
    BY Zenon, <1>1, <1>2 DEF x
  <2>2. ASSUME x \in S PROVE FALSE
    <3>1. PICK j \in DOMAIN b.effects : j < i /\ b.effects[j].id = x
      BY <1>4, <2>2
    <3> QED
      BY <1>2, <1>3, <3>1
  <2> QED
    BY <2>1, <2>2
<1>6. Cardinality(T) = Cardinality(S) + (IF more THEN 1 ELSE 0)
  <2>1. IsFiniteSet(S)
    BY <1>4, FS_Subset
  <2>2. Cardinality(S) \in Nat
    BY <2>1, FS_CardinalityType
  <2>3. Cardinality(S \union {x}) = Cardinality(S) + 1
    BY <1>5, <2>1, FS_AddElement
  <2> QED
    BY <1>1, <2>2, <2>3
<1>7. \A k \in S : q[k] = p[k]
  BY <1>1, <1>4, <1>5
<1>8. T \in SUBSET DOMAIN q /\ (x \in T <=> more) /\ (\A k : k # x => (k \in T <=> k \in S))
  BY <1>1, <1>4, <1>5
<1> HIDE DEF T
<1>9. ASSUME NEW k \in T
      PROVE  /\ \E j \in DOMAIN c.effects : j < c.walks[1].at /\ c.effects[j].id = k
             /\ q[k].kind = "bonus" /\ q[k].span > 0 /\ q[k].last = now /\ k \notin c.gone
  <2>1. CASE k = x
    <3>1. i < i + 1
      BY <1>1, <1>3
    <3>2. c.effects[i].id = k
      BY Zenon, <1>1, <2>1 DEF x
    <3> QED
      BY <1>1, <1>8, <2>1, <3>1, <3>2
  <2>2. CASE k # x
    <3>1. k \in S
      BY <1>8, <2>2
    <3>2. PICK j \in DOMAIN b.effects : j < i /\ b.effects[j].id = k
      BY <1>4, <3>1
    <3>3. j < c.walks[1].at /\ c.effects[j].id = k /\ j \in DOMAIN c.effects
      BY <1>1, <1>3, <3>2
    <3>4. q[k] = p[k] /\ p[k].kind = "bonus" /\ p[k].span > 0 /\ p[k].last = now /\ k \notin b.gone
      BY <1>4, <1>7, <3>1
    <3> QED
      BY <1>1, <3>3, <3>4
  <2> QED
    BY <2>1, <2>2
<1>10. ASSUME NEW j \in DOMAIN c.effects, j < c.walks[1].at, NEW k, k = c.effects[j].id,
              q[k].kind = "bonus", q[k].span > 0, q[k].last = now, k \notin c.gone, ~Over(q[k])
       PROVE  k \in T
  <2>1. j \in DOMAIN b.effects /\ k = b.effects[j].id /\ (j < i \/ j = i) /\ k \notin b.gone
    BY <1>1, <1>3, <1>10
  <2>2. CASE j = i
    BY Zenon, <1>1, <1>8, <1>10, <2>1, <2>2 DEF x
  <2>3. CASE j < i
    <3>1. k # x /\ k \in DOMAIN p
      BY <1>2, <1>3, <2>1, <2>3 DEF x
    <3>2. q[k] = p[k]
      BY <1>1, <3>1
    <3>3. k \in S
      BY <1>4, <1>10, <2>1, <2>3, <3>2
    <3> QED
      BY <1>8, <3>1, <3>3
  <2> QED
    BY <2>1, <2>2, <2>3
<1>11. c.modified - c.base = Cardinality(T)
  BY <1>1, <1>4, <1>6
<1>12. Counts(c, q, T)
  BY <1>8, <1>9, <1>10, <1>11 DEF Counts
<1> QED
  BY <1>12

\* A bonus goes on if it is not permanent.
LEMMA BonusSpan ==
  ASSUME now \in 1 .. MaxTime, NEW x \in Effects, NEW f \in Fates, NEW held,
         Agrees(x, f, held), ~Idle(x), x.kind = "bonus", NEW e, e = Timed(x)
  PROVE  f.span > 0 <=> e.timing # "permanent"
<1>1. x.timing \in TimingModes \union {"absolute", "expired"} /\ x.delay \in Nat /\ x.duration \in Nat
  BY DEF Effects
<1>2. f.span \in Nat /\ f.last \in Nat /\ f.begun \in Nat
  BY DEF Fates
<1>3. Forever \in Nat /\ Forever > 0 /\ MaxTime \in Nat
  BY TicksAre, EffectAssumption DEF Forever
<1>4. x.timing # "expired"
  BY DEF Idle
<1>5. CASE Waits(x)
  <2>1. WaitsWell(x, f) /\ x.kind \notin Instant /\ x.kind # "repeat"
    BY <1>5 DEF Agrees, Instant
  <2>2. x.timing \in {"delay limited", "delay permanent", "delay unsaved"}
    BY Zenon, <1>5 DEF Waits, Delayed
  <2>3. e.timing = Triggered(x.timing)
    BY <1>5 DEF Timed, Waits, Effects
  <2>4. CASE x.timing = "delay limited"
    <3>1. e.timing = "limited"
      BY Zenon, <2>3, <2>4 DEF Triggered
    <3>2. PICK k, m : k = Ticks(x.delay) /\ m = f.span
      OBVIOUS
    <3>3. k \in Nat \ {0} /\ m \in Nat /\ k = m
      BY Zenon, <1>1, <1>2, <2>1, <2>4, <3>2, TicksAre DEF WaitsWell
    <3>4. m > 0
      BY ONLY <3>3
    <3> QED
      BY <3>1, <3>2, <3>4
  <2>5. CASE x.timing = "delay permanent"
    <3>1. e.timing = "permanent" /\ f.span = 0
      BY Zenon, <2>1, <2>3, <2>5 DEF Triggered, WaitsWell
    <3> QED
      BY <3>1
  <2>6. CASE x.timing = "delay unsaved"
    <3>1. e.timing = "unsaved" /\ f.span = Forever
      BY Zenon, <2>1, <2>3, <2>6 DEF Triggered, WaitsWell
    <3> QED
      BY <1>3, <3>1
  <2> QED
    BY Zenon, <2>2, <2>4, <2>5, <2>6
<1>6. CASE ~Waits(x)
  <2>1. ActsWell(x, f, held) /\ x.kind \notin Instant
    BY <1>4, <1>6 DEF Agrees, Waits, Acts, Instant
  <2>2. e.timing = x.timing \/ (e.timing = "expired" /\ x.timing \in Lasting)
    BY <1>6 DEF Timed, Waits, Effects
  <2>3. CASE x.timing = "permanent"
    <3>1. f.span = 0 /\ e.timing = "permanent"
      BY <2>1, <2>2, <2>3 DEF ActsWell, WorksOnce, Lasting
    <3> QED
      BY <3>1
  <2>4. CASE x.timing # "permanent"
    <3>1. e.timing # "permanent"
      BY <2>2, <2>4
    <3>2. ~WorksOnce(x)
      BY <2>1, <2>4 DEF WorksOnce
    <3>3. f.span > 0
      <4>1. CASE x.timing \in {"limited", "absolute"}
        <5>1. PICK k, l, m, d : k = f.begun /\ l = f.last /\ m = f.span /\ d = x.duration
          OBVIOUS
        <5>2. k \in Nat /\ l \in Nat /\ m \in Nat /\ d \in Nat /\ k <= l /\ l < d /\ d <= k + m
          BY <1>1, <1>2, <2>1, <3>2, <4>1, <5>1 DEF ActsWell
        <5>3. m > 0
          BY ONLY <5>2
        <5> QED
          BY <5>1, <5>3
      <4>2. CASE x.timing \notin {"limited", "absolute"}
        <5>1. f.span = Forever
          BY <2>1, <3>2, <4>2 DEF ActsWell
        <5> QED
          BY <1>3, <5>1
      <4> QED
        BY <4>1, <4>2
    <3> QED
      BY <3>1, <3>3
  <2> QED
    BY <2>3, <2>4
<1> QED
  BY <1>5, <1>6


\* A refresh that an opcode asks for is one in which something is removed.
LEMMA AskedLoud ==
  ASSUME NEW b \in Affected, NEW c \in Affected, Asks(b, c)
  PROVE  Loud(c)
<1>1. /\ Len(c.walks) = Len(b.walks) + 1
      /\ c.walks[Len(b.walks) + 1] = [at |-> 1, quiet |-> FALSE]
  BY WalkAppended
<1>2. c.walks[Len(c.walks)].quiet = FALSE
  BY <1>1
<1> QED
  BY <1>2 DEF Loud

LEMMA GainsLoud ==
  ASSUME NEW b \in Affected, NEW c, NEW e, NEW s, Gains(b, c, e, s), Loud(b)
  PROVE  Loud(c)
<1> SUFFICES ASSUME c.walks # <<>> PROVE ~c.walks[Len(c.walks)].quiet
  BY DEF Loud
<1>1. /\ c \in Affected /\ Len(c.walks) = Len(b.walks)
      /\ \A n \in DOMAIN b.walks : c.walks[n].quiet = b.walks[n].quiet
  BY DEF Gains
<1>2. b.walks # <<>> /\ Len(b.walks) \in DOMAIN b.walks
  <2>1. Len(c.walks) # 0
    BY <1>1, AffectedAre
  <2> QED
    BY <1>1, <2>1, AffectedAre
<1> QED
  BY <1>1, <1>2 DEF Loud

\* Between two refreshes whatever is given begins none that is quiet.
LEMMA FirstLoud ==
  ASSUME NEW b \in Affected, now \in 1 .. MaxTime, NEW x \in Nat, NEW g \in Givable, NEW rolled,
         NEW c, c = First(b, Made(x, g), rolled), b.walks = <<>>
  PROVE  Loud(c)
<1> DEFINE e == Prepared(Made(x, g))
           did == Worked(b, e, rolled)
<1>1. /\ e \in Effects /\ e.kind = g.kind
      /\ Waits(e) <=> Idle(e)
      /\ ~Waits(e) => Timed(e) = e
  BY PromiseIs
<1>2. c = IF Idle(e) THEN [b EXCEPT !.effects = Append(@, e)]
          ELSE LET last == Concluded(Timed(e))
                   done == Worked(b, Timed(e), rolled)
               IN IF last.timing = "expired" THEN done
                  ELSE IF e.kind = "natural" THEN InFront(done, last)
                  ELSE [done EXCEPT !.effects = Append(@, last)]
  BY DEF First
<1>3. did \in Affected /\ (did.walks = b.walks \/ Asks(b, did))
  BY <1>1, WorkedIs DEF Loses
<1> HIDE DEF e
<1>4. Loud(b)
  BY DEF Loud
<1>5. CASE Idle(e)
  <2>1. c = [b EXCEPT !.effects = Append(@, e)]
    BY <1>2, <1>5
  <2>2. Gains(b, c, e, 0)
    BY <1>1, <2>1, AppendedGains
  <2> QED
    BY <1>4, <2>2, GainsLoud
<1>6. CASE ~Idle(e)
  <2> DEFINE last == Concluded(e)
  <2>1. last \in Effects
    BY <1>1 DEF Concluded, Effects
  <2>2. \/ c = did
        \/ c = InFront(did, last)
        \/ c = [did EXCEPT !.effects = Append(@, last)]
    BY <1>1, <1>2, <1>6
  <2> HIDE DEF last, did
  <2>3. Loud(did)
    <3>1. CASE did.walks = b.walks
      BY <3>1 DEF Loud
    <3>2. CASE Asks(b, did)
      BY <1>3, <3>2, AskedLoud
    <3> QED
      BY <1>3, <3>1, <3>2
  <2>4. CASE c = did
    BY <2>3, <2>4
  <2>5. CASE c # did
    <3>1. PICK s \in {0, 1} : Gains(did, c, last, s)
      BY <1>3, <2>1, <2>2, <2>5, AppendedGains, InFrontGains
    <3> QED
      BY <1>3, <2>3, <3>1, GainsLoud
  <2> QED
    BY <2>4, <2>5
<1> QED
  BY <1>5, <1>6

\* What leaves nothing behind has worked once.
AtOnce(b, c) ==
  Loses(b, c) /\ c.walks = b.walks /\ c.modified - c.base = b.modified - b.base

LEMMA FirstAtOnce ==
  ASSUME NEW b \in Affected, now \in 1 .. MaxTime, NEW x \in Nat, NEW g \in Givable, NEW rolled,
         g.kind # "uncurse", NEW c, c = First(b, Made(x, g), rolled),
         Len(c.effects) = Len(b.effects)
  PROVE  AtOnce(b, c)
<1> DEFINE e == Prepared(Made(x, g))
           did == Worked(b, e, rolled)
<1>1. /\ e \in Effects /\ e.kind = g.kind /\ e.timing # "expired"
      /\ Waits(e) <=> Idle(e)
      /\ ~Waits(e) => Timed(e) = e
  BY PromiseIs
<1>2. c = IF Idle(e) THEN [b EXCEPT !.effects = Append(@, e)]
          ELSE LET last == Concluded(Timed(e))
                   done == Worked(b, Timed(e), rolled)
               IN IF last.timing = "expired" THEN done
                  ELSE IF e.kind = "natural" THEN InFront(done, last)
                  ELSE [done EXCEPT !.effects = Append(@, last)]
  BY DEF First
<1>3. /\ Loses(b, did) /\ (did.walks = b.walks \/ (e.kind = "uncurse" /\ Asks(b, did)))
      /\ e.kind = "bonus" =>
           did.modified - did.base =
             b.modified - b.base + (IF e.timing = "permanent" THEN 0 ELSE 1)
      /\ e.kind # "bonus" /\ did.walks = b.walks => did.modified = b.modified /\ did.base = b.base
  BY <1>1, WorkedIs
<1>4. did.walks = b.walks /\ Len(did.effects) = Len(b.effects) /\ did \in Affected
  BY <1>1, <1>3 DEF Loses
<1> HIDE DEF e
<1>5. \A d, s, l : Gains(d, c, l, s) => Len(c.effects) = Len(d.effects) + 1
  BY DEF Gains
<1>6. Len(b.effects) \in Nat /\ Len(b.effects) # Len(b.effects) + 1
  <2>1. Len(b.effects) \in Nat
    BY AffectedAre
  <2> QED
    BY <2>1
<1>7. ~Idle(e)
  <2> SUFFICES ASSUME Idle(e) PROVE FALSE
    OBVIOUS
  <2>1. c = [b EXCEPT !.effects = Append(@, e)]
    BY <1>2
  <2>2. Gains(b, c, e, 0)
    BY <1>1, <2>1, AppendedGains
  <2> QED
    BY <1>5, <1>6, <2>2
<1> DEFINE last == Concluded(e)
<1>8. last \in Effects
  BY <1>1 DEF Concluded, Effects
<1>9. /\ last.timing = "expired" => c = did
      /\ last.timing # "expired" => c = InFront(did, last) \/ c = [did EXCEPT !.effects = Append(@, last)]
  BY <1>1, <1>2, <1>7
<1>10. last.timing = "expired" => (e.kind = "bonus" => e.timing = "permanent")
  BY <1>1 DEF Concluded
<1> HIDE DEF last, did
<1>11. last.timing = "expired"
  <2> SUFFICES ASSUME last.timing # "expired" PROVE FALSE
    OBVIOUS
  <2>1. PICK s \in {0, 1} : Gains(did, c, last, s)
    BY <1>4, <1>8, <1>9, AppendedGains, InFrontGains
  <2> QED
    BY <1>4, <1>5, <1>6, <2>1
<1>12. c = did
  BY <1>9, <1>11
<1>13. did.modified - did.base = b.modified - b.base
  <2>1. CASE e.kind = "bonus"
    <3>1. PICK k, m : k = did.modified - did.base /\ m = b.modified - b.base
      OBVIOUS
    <3>2. m \in Int /\ k = m + 0
      <4>1. b.modified \in Int /\ b.base \in Int
        BY AffectedAre
      <4>2. k = m + (IF e.timing = "permanent" THEN 0 ELSE 1)
        BY <1>3, <2>1, <3>1
      <4>3. e.timing = "permanent"
        BY <1>10, <1>11, <2>1
      <4> QED
        BY <3>1, <4>1, <4>2, <4>3
    <3> QED
      BY <3>1, <3>2
  <2>2. CASE e.kind # "bonus"
    BY <1>3, <1>4, <2>2
  <2> QED
    BY <2>1, <2>2
<1> QED
  BY <1>3, <1>4, <1>12, <1>13 DEF AtOnce

\* What happens between two refreshes, but the next one.
LEMMA RestLoud ==
  ASSUME SoundState,
         FxGive \/ FxWear \/ FxTakeOff \/ FxCleanup \/ FxExpire \/ FxAdvance \/ FxReload
  PROVE  Loud(body')
<1>1. /\ body.walks = <<>> /\ Still \in Affected /\ Still.walks = <<>> /\ now \in 1 .. MaxTime
      /\ Len(fate) \in Nat
  <2>1. /\ FxGive => ~Awake
        /\ FxWear => ~Awake
    BY DEF FxGive, FxWear
  <2>2. FxTakeOff => ~Awake
    BY DEF FxTakeOff
  <2>3. FxCleanup => ~Awake
    BY DEF FxCleanup
  <2>4. FxExpire => ~Awake
    BY Zenon DEF FxExpire
  <2>5. FxAdvance => ~Awake
    BY DEF FxAdvance
  <2>6. FxReload => ~Awake
    BY Zenon DEF FxReload
  <2>7. body.walks = <<>>
    BY <2>1, <2>2, <2>3, <2>4, <2>5, <2>6 DEF Awake
  <2> QED
    BY <2>7, StateIs
<1>2. body'.walks = <<>> => Loud(body')
  BY DEF Loud
<1>3. CASE FxGive
  <2> DEFINE x == Len(fate) + 1
  <2>1. PICK g, rolled, did :
          /\ g \in Menu /\ rolled \in SUBSET (1 .. Len(fate))
          /\ did = Still \/ did = First(Still, Made(Made(x, g).id + 1, Repeated), {})
          /\ body' = First(did, Made(x, g), rolled)
    BY <1>3 DEF FxGive
  <2>2. x \in Nat /\ Made(x, g).id + 1 \in Nat /\ g \in Givable /\ Repeated \in Givable
        /\ Repeated.kind # "uncurse"
    BY <1>1, <2>1, EffectAssumption DEF Made
  <2> HIDE DEF x
  <2>3. did \in Affected /\ did.walks = <<>>
    <3>1. CASE did = Still
      BY <1>1, <3>1
    <3>2. CASE did # Still
      <4>1. did \in Affected /\ Len(did.walks) = Len(Still.walks)
        BY <1>1, <2>1, <2>2, <3>2, FirstStays
      <4>2. Len(did.walks) = 0
        BY <1>1, <4>1, AffectedAre
      <4> QED
        BY <4>1, <4>2, AffectedAre
    <3> QED
      BY <3>1, <3>2
  <2> QED
    BY <1>1, <2>1, <2>2, <2>3, FirstLoud
<1>4. CASE FxWear
  <2>1. PICK g \in Menu : body' = [First([Still EXCEPT !.modified = body.base], Made(Len(fate) + 1, g), {})
                            EXCEPT !.walks = <<[at |-> 1, quiet |-> FALSE]>>]
    BY <1>4 DEF FxWear
  <2>2. PICK s, x, c : /\ s = [Still EXCEPT !.modified = body.base] /\ x = Len(fate) + 1
                       /\ c = First(s, Made(x, g), {})
    OBVIOUS
  <2>3. "walks" \in DOMAIN c
    <3>1. s \in Affected
      <4>1. body.base \in Int
        BY StateIs, AffectedAre
      <4> QED
        BY <1>1, <2>2, <4>1 DEF Affected
    <3>2. x \in Nat /\ g \in Givable
      BY <1>1, <2>2, EffectAssumption
    <3>3. c \in Affected
      BY <1>1, <2>2, <3>1, <3>2, FirstStays
    <3> QED
      BY <3>3 DEF Affected
  <2>4. body'.walks = <<[at |-> 1, quiet |-> FALSE]>>
    BY <2>1, <2>2, <2>3
  <2>5. body'.walks[Len(body'.walks)].quiet = FALSE
    BY <2>4
  <2> QED
    BY <2>5 DEF Loud
<1>5. CASE FxTakeOff
  <2>1. PICK things : body' = TakenOff(Still, things)
    BY <1>5 DEF FxTakeOff
  <2>2. Loses(Still, body') /\ (body' = Still \/ Asks(Still, body'))
    BY <1>1, <2>1, TakenOffIs
  <2>3. CASE body' = Still
    BY <1>1, <1>2, <2>3
  <2>4. CASE Asks(Still, body')
    BY <1>1, <2>2, <2>4, AskedLoud DEF Loses
  <2> QED
    BY <2>2, <2>3, <2>4
<1>6. CASE FxCleanup
  <2>1. body'.walks = Still.walks
    BY <1>1, <1>6 DEF FxCleanup, Affected
  <2> QED
    BY <1>1, <1>2, <2>1
<1>7. CASE FxExpire
  <2>1. PICK P : body' = Expired(Still, P)
    BY <1>7 DEF FxExpire
  <2>2. body'.walks = Still.walks
    BY <1>1, <2>1 DEF Expired, Affected
  <2> QED
    BY <1>1, <1>2, <2>2
<1>8. CASE FxAdvance
  <2>1. body' = Still
    BY <1>8 DEF FxAdvance
  <2>2. body'.walks = Still.walks
    BY ONLY <2>1
  <2> QED
    BY <1>1, <1>2, <2>2
<1>9. CASE FxReload
  <2>1. PICK t, n, k : body' = [effects |-> t, base |-> n, modified |-> n, walks |-> <<>>,
                                acting |-> {}, gone |-> k]
    BY <1>9, Zenon DEF FxReload
  <2>2. body'.walks = <<>>
    BY ONLY <2>1
  <2> QED
    BY <1>2, <2>2
<1> QED
  BY <1>3, <1>4, <1>5, <1>6, <1>7, <1>8, <1>9

LEMMA RefreshCounts ==
  ASSUME SoundState, FxRefresh
  PROVE  Counted(body', fate')
<1>1. body' = Refreshed(Still, TRUE) /\ UNCHANGED <<now, fate>> /\ body.walks = <<>>
  BY DEF FxRefresh, Awake
<1>2. /\ body' \in Affected /\ body'.base = Still.base /\ body'.modified = Still.base
      /\ body'.walks = Append(Still.walks, [at |-> 1, quiet |-> TRUE])
  BY <1>1, StateIs, RefreshedIs
<1>3. Still.walks = <<>> /\ Still.base \in Int
  BY <1>1, StateIs, AffectedAre
<1>4. Len(body'.walks) = 1 /\ body'.walks[1].at = 1
  <2> DEFINE w == [at |-> 1, quiet |-> TRUE]
  <2>1. w \in Walks /\ w.at = 1
    BY DEF Walks
  <2> HIDE DEF w
  <2>2. <<>> \in Seq(Walks) /\ Len(<<>>) = 0
    OBVIOUS
  <2>3. body'.walks = Append(<<>>, w)
    BY <1>2, <1>3 DEF w
  <2> QED
    BY <2>1, <2>2, <2>3, AppendProperties
<1>5. \A j \in DOMAIN body'.effects : ~(j < 1)
  <2>1. \A m : \A j \in 1 .. m : ~(j < 1)
    OBVIOUS
  <2>2. DOMAIN body'.effects = 1 .. Len(body'.effects)
    BY <1>2, AffectedAre
  <2> QED
    BY <2>1, <2>2
<1>6. body'.modified - body'.base = Cardinality({})
  <2>1. PICK m : m = Still.base
    OBVIOUS
  <2>2. m - m = 0
    BY <1>3, <2>1
  <2> QED
    BY <1>2, <2>1, <2>2, FS_EmptySet
<1>7. PICK b, p : b = body' /\ p = fate'
  OBVIOUS
<1>8. b.walks[1].at = 1 /\ (\A j \in DOMAIN b.effects : ~(j < 1))
      /\ b.modified - b.base = Cardinality({}) /\ Len(b.walks) = 1
  BY <1>4, <1>5, <1>6, <1>7
<1>9. Counts(b, p, {})
  <2>1. \A j \in DOMAIN b.effects : ~(j < b.walks[1].at)
    BY <1>8
  <2> QED
    BY <1>8, <2>1 DEF Counts
<1>10. Counted(b, p)
  BY <1>8, <1>9 DEF Counted
<1> QED
  BY <1>7, <1>10

LEMMA PassedLoud ==
  ASSUME NEW outer \in Seq(Walks), outer # <<>>, NEW at, NEW c,
         c.walks = [outer EXCEPT ![Len(outer)] = [at |-> at, quiet |-> FALSE]]
  PROVE  Loud(c)
<1>1. PICK w : w = [at |-> at, quiet |-> FALSE]
  OBVIOUS
<1>2. w.quiet = FALSE
  BY <1>1
<1>7. PICK S : S = Walks \union {w}
  OBVIOUS
<1>3. Len(outer) \in 1 .. Len(outer) /\ outer \in Seq(S) /\ w \in S
  BY <1>7, EmptySeq
<1>4. PICK W : W = [outer EXCEPT ![Len(outer)] = w]
  OBVIOUS
<1>5. Len(W) = Len(outer) /\ W[Len(outer)] = w
  BY <1>2, <1>3, <1>4, ExceptSeq
<1>6. c.walks = W
  BY <1>1, <1>4
<1> QED
  BY <1>2, <1>5, <1>6 DEF Loud

LEMMA RefreshedLoud ==
  ASSUME SoundState, FxRefreshed
  PROVE  Loud(body')
<1> DEFINE outer == SubSeq(body.walks, 1, Len(body.walks) - 1)
           left == [Still EXCEPT !.walks = outer]
           held == body.effects[outer[Len(outer)].at]
<1>1. /\ body.walks # <<>>
      /\ body' = IF outer = <<>> THEN left
                 ELSE Passed(Put(left, Concluded(held)), outer[Len(outer)].at + 1, FALSE)
  BY DEF FxRefreshed, Awake
<1>2. Still \in Affected /\ body \in Affected
  BY StateIs
<1>3. outer \in Seq(Walks)
  <2>1. body.walks \in Seq(Walks) /\ Len(body.walks) \in Nat \ {0}
    BY <1>1, <1>2, AffectedAre
  <2>2. \A n \in 1 .. Len(body.walks) - 1 : body.walks[n] \in Walks
    BY <2>1, ElementOfSeq
  <2>3. Len(body.walks) - 1 <= Len(body.walks) /\ Len(body.walks) - 1 \in Nat
    BY <2>1
  <2> QED
    BY <2>1, <2>3, SubSeqProperties
<1> HIDE DEF outer
<1>4. left \in Affected /\ left.walks = outer
  BY <1>2, <1>3 DEF Affected
<1> HIDE DEF left, held
<1>5. CASE outer = <<>>
  BY <1>1, <1>4, <1>5 DEF Loud
<1>6. CASE outer # <<>>
  <2>1. PICK m : m = Put(left, Concluded(held))
    OBVIOUS
  <2>2. m.walks = outer /\ m = [m EXCEPT !.walks = outer]
    BY <1>4, <2>1 DEF Put, Affected
  <2>3. PICK at : at = outer[Len(outer)].at + 1
    OBVIOUS
  <2>4. body' = Passed(m, at, FALSE)
    BY <1>1, <1>6, <2>1, <2>3
  <2>5. body'.walks = [outer EXCEPT ![Len(outer)] = [at |-> at, quiet |-> FALSE]]
    BY <1>4, <2>1, <2>2, <2>4 DEF Passed, Put, Affected
  <2> QED
    BY <1>3, <1>6, <2>5, PassedLoud
<1> QED
  BY <1>5, <1>6

\* A quiet refresh is the only one, and S is what it has counted.
QuietlyAt(b, p, S, i) ==
  /\ Len(b.walks) = 1 /\ i = b.walks[1].at /\ Counts(b, p, S)

LEMMA QuietIs ==
  ASSUME SoundState, CountState, body.walks # <<>>, Innermost.quiet
  PROVE  \E S : QuietlyAt(Still, fate, S, Innermost.at)
<1>1. ~Loud(body)
  BY DEF Loud, Innermost
<1>2. PICK S : Len(body.walks) = 1 /\ Counts(body, fate, S)
  BY <1>1 DEF CountState, Counted
<1>3. PICK b : b = Still
  OBVIOUS
<1>4. /\ b.effects = body.effects /\ b.gone = body.gone /\ b.walks = body.walks
      /\ b.base = body.base /\ b.modified = body.modified
  BY <1>3, StateIs
<1>5. Counts(b, fate, S)
  BY <1>2, <1>4 DEF Counts
<1>6. Len(b.walks) = 1 /\ Innermost.at = b.walks[1].at
  BY <1>2, <1>4 DEF Innermost
<1> QED
  BY <1>3, <1>5, <1>6 DEF QuietlyAt

LEMMA CountedOn ==
  ASSUME SoundState, NEW S, NEW i, QuietlyAt(Still, fate, S, i), NEW c, NEW q, NEW more,
         CountsOn(Still, fate, i, c, q, more), Len(c.walks) = 1
  PROVE  Counted(c, q)
<1>1. PICK b, p : b = Still /\ p = fate
  OBVIOUS
<1>2. b \in Affected /\ Numbered(b, p) /\ DOMAIN p = 1 .. Len(p) /\ Len(p) \in Nat
  BY <1>1, StateIs DEF Sound
<1>3. DOMAIN p \in SUBSET Nat /\ IsFiniteSet(DOMAIN p)
  <2>1. IsFiniteSet(1 .. Len(p))
    BY <1>2, FS_Interval
  <2>2. \A m : 1 .. m \in SUBSET Nat
    OBVIOUS
  <2> QED
    BY <1>2, <2>1, <2>2
<1>4. Counts(b, p, S) /\ CountsOn(b, p, i, c, q, more)
  BY <1>1 DEF QuietlyAt
<1>5. \E T : Counts(c, q, T)
  BY <1>2, <1>3, <1>4, CountsMore
<1> QED
  BY <1>5 DEF Counted

\* What is passed over waits, or is gone or over.
LEMMA SkipCounts ==
  ASSUME SoundState, CountState, FxSkip
  PROVE  Counted(body', fate')
<1>1. PICK b, p, i : b = Still /\ p = fate /\ i = Innermost.at
  OBVIOUS
<1>2. /\ body.walks # <<>> /\ i <= Len(body.effects) /\ Idle(body.effects[i])
      /\ UNCHANGED <<now, fate>>
      /\ body' = Passed(Still, i + 1, Innermost.quiet)
  BY <1>1 DEF FxSkip, Awake
<1>3. /\ b \in Affected /\ b.effects = body.effects /\ b.gone = body.gone /\ b.walks = body.walks
      /\ body \in Affected
      /\ Sound(b, p, HeldBy(body)) /\ DOMAIN p = 1 .. Len(p) /\ now \in Nat \ {0}
  BY <1>1, StateIs
<1>4. Innermost \in Walks
  <2>1. Len(body.walks) \in DOMAIN body.walks
    BY <1>2, <1>3, AffectedAre
  <2> QED
    BY <1>3, <2>1, AffectedAre DEF Innermost
<1>5. i \in Nat \ {0} /\ i + 1 \in Nat \ {0} /\ Innermost.quiet \in BOOLEAN
  <2>1. i \in Nat \ {0} /\ Innermost.quiet \in BOOLEAN
    BY <1>1, <1>4 DEF Walks
  <2> QED
    BY <2>1
<1>6. i \in DOMAIN b.effects
  BY <1>2, <1>3, <1>5, AffectedAre
<1>7. PICK quiet \in BOOLEAN : quiet = Innermost.quiet
  BY <1>5
<1>8. PICK at : at = i + 1
  OBVIOUS
<1>9. PICK c : c = body'
  OBVIOUS
<1>10. /\ c \in Affected /\ c.effects = b.effects /\ c.gone = b.gone
       /\ c.base = b.base /\ c.modified = b.modified
       /\ c.walks # <<>> /\ Len(c.walks) = Len(b.walks)
       /\ c.walks[Len(b.walks)].at = at /\ c.walks[Len(b.walks)].quiet = quiet
  <2>1. c = Passed(b, at, quiet) /\ b.walks # <<>> /\ at \in Nat \ {0}
    BY <1>1, <1>2, <1>3, <1>5, <1>7, <1>8, <1>9
  <2>2. PICK d : d = Passed(b, at, quiet)
    OBVIOUS
  <2>3. /\ d \in Affected /\ d.effects = b.effects /\ d.gone = b.gone
        /\ d.base = b.base /\ d.modified = b.modified
        /\ d.walks # <<>> /\ Len(d.walks) = Len(b.walks)
        /\ d.walks[Len(b.walks)].at = at /\ d.walks[Len(b.walks)].quiet = quiet
    <3>1. b \in Affected /\ b.walks # <<>> /\ at \in Nat \ {0} /\ quiet \in BOOLEAN
      BY <1>3, <1>7, <2>1
    <3> QED
      BY ONLY <2>2, <3>1, PassedIs
  <2> QED
    BY <2>1, <2>2, <2>3
<1>11. CASE ~quiet
  <2>1. Loud(c)
    BY <1>10, <1>11 DEF Loud
  <2> QED
    BY <1>9, <2>1 DEF Counted
<1>12. CASE quiet
  <2>1. PICK S : QuietlyAt(Still, fate, S, i)
    BY <1>1, <1>2, <1>7, <1>12, QuietIs
  <2>2. Len(b.walks) = 1 /\ i = b.walks[1].at
    BY <1>1, <2>1 DEF QuietlyAt
  <2>3. PICK x, f : x = b.effects[i] /\ f = p[x.id]
    OBVIOUS
  <2>4. /\ x \in Effects /\ x.id \in DOMAIN p /\ Agrees(x, f, HeldBy(body))
        /\ Numbered(b, p) /\ Accounted(b, p) /\ Idle(x)
    <3>1. Numbered(b, p) /\ Agreed(b, p, HeldBy(body)) /\ Accounted(b, p)
      BY <1>3 DEF Sound
    <3>2. x \in Effects
      BY <1>3, <1>6, <2>3, AffectedAre
    <3> QED
      BY <1>2, <1>3, <1>6, <2>3, <3>1, <3>2 DEF Numbered, Agreed
  <2>5. x.id \in b.gone \/ Over(f) \/ f.last # now
    <3>1. CASE x.timing = "expired"
      <4> SUFFICES ASSUME x.id \notin b.gone, ~Over(f) PROVE FALSE
        OBVIOUS
      <4>1. PICK j \in DOMAIN b.effects : b.effects[j].id = x.id /\ b.effects[j].timing # "expired"
        BY <2>3, <2>4 DEF Accounted
      <4>2. j = i
        BY <1>6, <2>3, <2>4, <4>1 DEF Numbered
      <4> QED
        BY <2>3, <3>1, <4>1, <4>2
    <3>2. CASE x.timing # "expired"
      <4>1. Waits(x)
        BY <2>4, <3>2 DEF Idle, Waits
      <4>2. WaitsWell(x, f)
        BY <2>4, <4>1 DEF Agrees
      <4>3. f.last = 0
        BY Zenon, <4>2 DEF WaitsWell
      <4> QED
        BY <1>3, <4>3
    <3> QED
      BY <3>1, <3>2
  <2>6. Len(c.walks) = 1 /\ c.walks[1].at = i + 1
    BY <1>8, <1>10, <2>2
  <2>7. c.modified - c.base = b.modified - b.base + 0
    <3>1. b.modified \in Int /\ b.base \in Int
      BY <1>3, AffectedAre
    <3>2. PICK k, m : k = b.modified /\ m = b.base
      OBVIOUS
    <3>3. k - m = k - m + 0
      BY <3>1, <3>2
    <3> QED
      BY <1>10, <3>2, <3>3
  <2>8. CountsOn(b, p, i, c, p, FALSE)
    <3>1. /\ DOMAIN c.effects = DOMAIN b.effects /\ c.gone = b.gone
          /\ \A j \in DOMAIN b.effects : c.effects[j].id = b.effects[j].id
      BY <1>10
    <3>2. LET k == b.effects[i].id
          IN ~(p[k].last = now /\ k \notin b.gone /\ ~Over(p[k]))
      BY <2>3, <2>5
    <3>3. c.modified - c.base = b.modified - b.base + (IF FALSE THEN 1 ELSE 0)
      BY <2>7
    <3> QED
      BY ONLY <1>6, <2>2, <2>6, <3>1, <3>2, <3>3, Zenon DEF CountsOn
  <2>9. Counted(c, p)
    BY <1>1, <2>1, <2>6, <2>8, CountedOn
  <2> QED
    BY <1>1, <1>2, <1>9, <2>9
<1> QED
  BY <1>11, <1>12

\* What two steps of an opcode leave as it is.
SameIds(b, c) ==
  /\ c \in Affected /\ Len(c.effects) = Len(b.effects) /\ DOMAIN c.effects = DOMAIN b.effects
  /\ \A j \in DOMAIN b.effects : c.effects[j].id = b.effects[j].id

LEMMA LosesIds ==
  ASSUME NEW b \in Affected, NEW c, Loses(b, c)
  PROVE  SameIds(b, c)
<1>1. c \in Affected /\ Len(c.effects) = Len(b.effects)
  BY DEF Loses
<1>2. DOMAIN c.effects = DOMAIN b.effects
  BY <1>1, AffectedAre
<1>3. ASSUME NEW j \in DOMAIN b.effects PROVE c.effects[j].id = b.effects[j].id
  <2>1. c.effects[j] = b.effects[j] \/ c.effects[j] = Spent(b.effects[j])
    BY DEF Loses
  <2>2. Spent(b.effects[j]).id = b.effects[j].id
    BY AffectedAre, SpentIs
  <2> QED
    BY <2>1, <2>2
<1> QED
  BY <1>1, <1>2, <1>3 DEF SameIds

\* What the opcode of e, which is in place i, makes of the actor.
WorkedAs(b, i, e, c) ==
  /\ SameIds(b, c) /\ c.acting = {e.id}
  /\ c.walks = b.walks \/ (e.kind = "uncurse" /\ Asks(b, c))
  /\ c.walks = b.walks =>
       c.modified - c.base =
         b.modified - b.base + (IF e.kind = "bonus" /\ e.timing # "permanent" THEN 1 ELSE 0)

LEMMA WorkedOnce ==
  ASSUME NEW b \in Affected, NEW p, Numbered(b, p), NEW i, NEW e \in Effects, Executes(b, i, e),
         e.id = b.effects[i].id, NEW rolled, NEW c, c = Worked(Put(b, e), e, rolled)
  PROVE  WorkedAs(b, i, e, c)
<1>1. i \in DOMAIN b.effects /\ b.acting = {}
  BY DEF Executes
<1>2. PICK d : d = At(b, i, e)
  OBVIOUS
<1>3. Put(b, e) = d
  <2>1. Place(b, e.id) = i
    BY <1>1, PlaceIs
  <2> QED
    BY <1>2, <2>1 DEF Put, At
<1>4. /\ d \in Affected /\ Len(d.effects) = Len(b.effects) /\ DOMAIN d.effects = DOMAIN b.effects
      /\ d.effects[i] = e /\ \A j \in DOMAIN b.effects \ {i} : d.effects[j] = b.effects[j]
      /\ d.walks = b.walks /\ d.acting = {} /\ d.base = b.base /\ d.modified = b.modified
  <2>1. /\ At(b, i, e) \in Affected /\ Len(At(b, i, e).effects) = Len(b.effects)
        /\ DOMAIN At(b, i, e).effects = DOMAIN b.effects /\ At(b, i, e).effects[i] = e
        /\ \A j \in DOMAIN b.effects \ {i} : At(b, i, e).effects[j] = b.effects[j]
        /\ At(b, i, e).walks = b.walks /\ At(b, i, e).acting = b.acting
        /\ At(b, i, e).base = b.base /\ At(b, i, e).modified = b.modified
    BY <1>1, AtIs
  <2> QED
    BY <1>1, <1>2, <2>1
<1>5. /\ Loses(d, c) /\ c.acting = d.acting \union {e.id}
      /\ c.walks = d.walks \/ (e.kind = "uncurse" /\ Asks(d, c))
      /\ e.kind = "bonus" =>
           c.modified - c.base =
             d.modified - d.base + (IF e.timing = "permanent" THEN 0 ELSE 1)
      /\ e.kind # "bonus" /\ c.walks = d.walks => c.modified = d.modified /\ c.base = d.base
  <2>1. c = Worked(d, e, rolled)
    BY <1>3
  <2> QED
    BY <1>4, <2>1, WorkedIs
<1>6. SameIds(d, c)
  BY <1>4, <1>5, LosesIds
<1>7. SameIds(b, c)
  BY <1>4, <1>6 DEF SameIds
<1>8. c.walks = b.walks =>
        c.modified - c.base =
          b.modified - b.base + (IF e.kind = "bonus" /\ e.timing # "permanent" THEN 1 ELSE 0)
  <2> SUFFICES ASSUME c.walks = b.walks
               PROVE  c.modified - c.base = b.modified - b.base
                        + (IF e.kind = "bonus" /\ e.timing # "permanent" THEN 1 ELSE 0)
    OBVIOUS
  <2>1. CASE e.kind = "bonus"
    BY <1>4, <1>5, <2>1
  <2>2. CASE e.kind # "bonus"
    <3>1. c.modified = b.modified /\ c.base = b.base
      BY <1>4, <1>5, <2>2
    <3>2. b.modified \in Int /\ b.base \in Int
      BY AffectedAre
    <3> QED
      BY <2>2, <3>1, <3>2
  <2> QED
    BY <2>1, <2>2
<1>9. c.walks = b.walks \/ (e.kind = "uncurse" /\ Asks(b, c))
  BY <1>4, <1>5 DEF Asks
<1>10. c.acting = {e.id}
  BY <1>4, <1>5
<1> QED
  BY <1>7, <1>8, <1>9, <1>10 DEF WorkedAs

\* The effect it gives, when nothing is left of that.
Gave(c, d, x) ==
  /\ SameIds(c, d) /\ d.walks = c.walks
  /\ d.acting = c.acting \/ d.acting = c.acting \union {x}
  /\ d.modified - d.base = c.modified - c.base

LEMMA GaveOne ==
  ASSUME NEW c \in Affected, now \in 1 .. MaxTime, NEW x \in Nat, NEW d,
         d = First(c, Made(x, Repeated), {}), Len(d.effects) = Len(c.effects)
  PROVE  Gave(c, d, x)
<1>1. Repeated \in Givable /\ Repeated.kind # "uncurse"
  BY EffectAssumption
<1>2. PICK g : g = Repeated
  OBVIOUS
<1>3. g \in Givable /\ g.kind # "uncurse" /\ d = First(c, Made(x, g), {})
  BY <1>1, <1>2
<1>4. AtOnce(c, d)
  BY <1>3, FirstAtOnce
<1>5. d.acting = c.acting \/ d.acting = c.acting \union {x}
  BY <1>3, FirstActs
<1>6. Loses(c, d) /\ d.walks = c.walks /\ d.modified - d.base = c.modified - c.base
  BY <1>4 DEF AtOnce
<1>7. SameIds(c, d)
  BY <1>6, LosesIds
<1> QED
  BY <1>5, <1>6, <1>7 DEF Gave

\* What the opcode of e in place i has come to, in a quiet refresh.
Quietly(b, p, i, e, c, q, w) ==
  /\ SameIds(b, c) /\ c.gone = b.gone /\ Len(c.walks) = Len(b.walks)
  /\ c.walks[Len(b.walks)].at = i + 1
  /\ c.modified - c.base =
       b.modified - b.base + (IF e.kind = "bonus" /\ e.timing # "permanent" THEN 1 ELSE 0)
  /\ q = Kept(w, c) /\ DOMAIN p \subseteq DOMAIN w
  /\ \A k \in DOMAIN p : w[k] = p[k] /\ (k \in c.acting <=> k = e.id)

LEMMA ApplyQuiet ==
  ASSUME SoundState, NEW b, NEW h, NEW p, NEW i, NEW e, NEW rolled, NEW c, NEW d, NEW x, NEW n,
         NEW gives, NEW quiet, Applying(b, h, p, i, e, rolled, c, d, x, n, gives, quiet),
         ~Loud(body')
  PROVE  Innermost.quiet /\ \E w : Quietly(b, p, i, e, body', fate', w)
<1>1. /\ b \in Affected /\ Sound(b, p, h) /\ b.walks # <<>> /\ n = Len(b.walks) /\ n \in Nat \ {0}
      /\ p \in Seq(Fates) /\ DOMAIN p = 1 .. Len(p) /\ Len(p) \in Nat /\ x = Len(p) + 1
      /\ i \in DOMAIN b.effects /\ b.effects[i] \in Effects /\ b.effects[i].id \in DOMAIN p
      /\ Executes(b, i, e) /\ e.id = b.effects[i].id
      /\ gives \in BOOLEAN /\ (gives => e.kind = "repeat") /\ quiet \in BOOLEAN
  BY DEF Applying
<1>2. /\ c = Worked(Put(b, e), e, rolled)
      /\ d = IF gives THEN First(c, Made(x, Repeated), {}) ELSE c
      /\ quiet => Innermost.quiet /\ d.gone = b.gone /\ Len(d.effects) = Len(b.effects)
  BY DEF Applying
<1>3. body' = IF Len(d.walks) > n THEN d
              ELSE Passed(At(d, Place(d, e.id), Concluded(d.effects[Place(d, e.id)])),
                          Place(d, e.id) + 1, quiet)
  BY DEF Applying
<1>4. fate' = Kept(IF gives THEN Append(p, Promise(Repeated)) ELSE p, body')
  BY DEF Applying
<1>5. now \in 1 .. MaxTime /\ Numbered(b, p)
  BY <1>1, StateIs DEF Sound
<1>6. e \in Effects
  <2>1. Executes(b, i, e) /\ Sound(b, p, h)
    BY <1>1
  <2>2. e = Timed(b.effects[i]) /\ ~Idle(b.effects[i]) /\ i \in DOMAIN b.effects
    BY ONLY <2>1 DEF Executes
  <2>3. PICK y, f : y = b.effects[i] /\ f = p[y.id]
    OBVIOUS
  <2>4. Agreed(b, p, h) /\ Promised(p)
    BY ONLY <2>1 DEF Sound
  <2>5. Agrees(y, f, h) /\ f \in Fates /\ ~Idle(y) /\ y \in Effects /\ e = Timed(y)
    BY <1>1, <2>2, <2>3, <2>4 DEF Agreed, Promised
  <2> QED
    BY <1>5, <2>5, TimedIs
<1>7. WorkedAs(b, i, e, c)
  BY <1>1, <1>2, <1>5, <1>6, WorkedOnce
<1>8. /\ SameIds(b, c) /\ c.acting = {e.id} /\ c \in Affected
      /\ c.walks = b.walks \/ (e.kind = "uncurse" /\ Asks(b, c))
      /\ c.walks = b.walks =>
           c.modified - c.base =
             b.modified - b.base + (IF e.kind = "bonus" /\ e.timing # "permanent" THEN 1 ELSE 0)
  BY <1>7 DEF WorkedAs, SameIds
<1>9. x \in Nat \ DOMAIN p
  BY <1>1
<1>10. gives => d \in Affected /\ Len(d.walks) = Len(c.walks) /\ c.walks = b.walks
  <2> SUFFICES ASSUME gives
               PROVE  d \in Affected /\ Len(d.walks) = Len(c.walks) /\ c.walks = b.walks
    OBVIOUS
  <2>1. PICK g : g = Repeated
    OBVIOUS
  <2>2. g \in Givable /\ g.kind # "uncurse" /\ d = First(c, Made(x, g), {})
    BY <1>2, <2>1, EffectAssumption
  <2>3. d \in Affected /\ Len(d.walks) = Len(c.walks)
    BY <1>5, <1>8, <1>9, <2>2, FirstStays
  <2> QED
    BY <1>1, <1>8, <2>3
<1>11. d \in Affected
  BY <1>2, <1>8, <1>10
<1>12. ~(Len(d.walks) > n) /\ c.walks = b.walks
  <2>1. Asks(b, c) => Loud(c) /\ Len(c.walks) = n + 1 /\ ~gives
    BY <1>1, <1>8, <1>10, AskedLoud, WalkAppended
  <2>2. ~Asks(b, c)
    <3> SUFFICES ASSUME Asks(b, c) PROVE FALSE
      OBVIOUS
    <3>1. d = c /\ Loud(d)
      BY <1>2, <2>1
    <3>2. Len(d.walks) > n
      BY <1>1, <2>1, <3>1
    <3> QED
      BY <1>3, <3>1, <3>2
  <2>3. c.walks = b.walks /\ Len(d.walks) = n
    BY <1>1, <1>2, <1>8, <1>10, <2>2
  <2>4. ~(n > n)
    BY <1>1
  <2> QED
    BY <2>3, <2>4
<1>13. PICK j, y, at : /\ j = Place(d, e.id) /\ y = Concluded(d.effects[j]) /\ at = j + 1
  OBVIOUS
<1>14. body' = Passed(At(d, j, y), at, quiet)
  BY <1>3, <1>12, <1>13
<1>15. PICK r : r = body'
  OBVIOUS
<1>16. d.walks # <<>> /\ Len(d.walks) = n
  <2>1. Len(d.walks) = n
    BY <1>1, <1>2, <1>10, <1>12
  <2> QED
    BY <1>1, <1>11, <2>1, AffectedAre
<1>17. quiet
  <2> SUFFICES ASSUME ~quiet PROVE FALSE
    BY <1>1
  <2>1. PICK m, W : m = At(d, j, y) /\ W = d.walks
    OBVIOUS
  <2>2. m.walks = W /\ m = [m EXCEPT !.walks = W] /\ W \in Seq(Walks) /\ W # <<>>
    BY <1>11, <1>16, <2>1, AffectedAre DEF At, Affected
  <2>3. quiet = FALSE
    BY <1>1
  <2>4. r = [m EXCEPT !.walks[Len(m.walks)] = [at |-> at, quiet |-> FALSE]]
    BY <1>14, <1>15, <2>1, <2>3 DEF Passed
  <2>5. "walks" \in DOMAIN m
    BY <1>11, <2>1 DEF At, Affected
  <2>6. r.walks = [W EXCEPT ![Len(W)] = [at |-> at, quiet |-> FALSE]]
    BY ONLY <2>2, <2>4, <2>5
  <2>7. Loud(r)
    BY <2>2, <2>6, PassedLoud
  <2> QED
    BY <1>15, <2>7
<1>18. Innermost.quiet /\ d.gone = b.gone /\ Len(d.effects) = Len(b.effects)
  BY <1>2, <1>17
<1>19. /\ SameIds(b, d) /\ d.walks = b.walks
       /\ d.acting = {e.id} \/ (gives /\ d.acting = {e.id, x})
       /\ d.modified - d.base =
            b.modified - b.base + (IF e.kind = "bonus" /\ e.timing # "permanent" THEN 1 ELSE 0)
  <2>1. CASE ~gives
    <3>1. d = c
      BY <1>2, <2>1
    <3> QED
      BY <1>8, <1>12, <3>1
  <2>2. CASE gives
    <3>1. d = First(c, Made(x, Repeated), {})
      BY <1>2, <2>2
    <3>2. Len(d.effects) = Len(c.effects)
      BY <1>8, <1>18 DEF SameIds
    <3>3. Gave(c, d, x)
      BY <1>5, <1>8, <1>9, <3>1, <3>2, GaveOne
    <3>4. SameIds(b, d)
      BY <1>8, <3>3 DEF Gave, SameIds
    <3>5. d.walks = b.walks /\ (d.acting = {e.id} \/ d.acting = {e.id, x})
          /\ d.modified - d.base = c.modified - c.base
      BY <1>8, <1>12, <3>3 DEF Gave
    <3> QED
      BY <1>8, <1>12, <2>2, <3>4, <3>5
  <2> QED
    BY <1>1, <2>1, <2>2
<1>20. j = i /\ i \in DOMAIN d.effects /\ d.effects[i].id = e.id
  <2>1. i \in DOMAIN d.effects /\ d.effects[i].id = e.id
    BY <1>1, <1>19 DEF SameIds
  <2>2. Numbered(d, p)
    BY <1>5, <1>19 DEF SameIds, Numbered
  <2>3. Place(d, d.effects[i].id) = i
    BY <2>1, <2>2, PlaceIs
  <2> QED
    BY <1>13, <2>1, <2>3
<1>21. y \in Effects /\ y.id = e.id /\ at \in Nat \ {0} /\ at = i + 1
  <2>1. d.effects[i] \in Effects
    BY <1>11, <1>20, AffectedAre
  <2>2. y \in Effects /\ y.id = d.effects[i].id
    BY <1>13, <1>20, <2>1 DEF Concluded, Effects
  <2>3. \A m : \A k \in 1 .. m : k + 1 \in Nat \ {0}
    OBVIOUS
  <2>4. DOMAIN b.effects = 1 .. Len(b.effects)
    BY <1>1, AffectedAre
  <2> QED
    BY <1>1, <1>13, <1>20, <2>2, <2>3, <2>4
<1>22. PICK m : m = At(d, i, y)
  OBVIOUS
<1>23. /\ m \in Affected /\ SameIds(b, m) /\ m.walks = b.walks /\ m.gone = b.gone
       /\ m.acting = d.acting /\ m.base = d.base /\ m.modified = d.modified
  <2>1. /\ m \in Affected /\ Len(m.effects) = Len(d.effects) /\ DOMAIN m.effects = DOMAIN d.effects
        /\ m.effects[i] = y /\ \A k \in DOMAIN d.effects \ {i} : m.effects[k] = d.effects[k]
        /\ m.walks = d.walks /\ m.gone = d.gone
        /\ m.acting = d.acting /\ m.base = d.base /\ m.modified = d.modified
    BY <1>11, <1>20, <1>21, <1>22, AtIs
  <2>2. SameIds(b, m)
    BY <1>19, <1>20, <1>21, <2>1 DEF SameIds
  <2> QED
    BY <1>18, <1>19, <2>1, <2>2
<1>24. r = Passed(m, at, quiet)
  BY <1>14, <1>15, <1>20, <1>22
<1>25. /\ r \in Affected /\ r.effects = m.effects /\ r.gone = m.gone /\ r.acting = m.acting
       /\ r.base = m.base /\ r.modified = m.modified
       /\ Len(r.walks) = Len(m.walks) /\ r.walks[Len(m.walks)].at = at
  BY <1>1, <1>21, <1>23, <1>24, PassedIs
<1>26. PICK w : w = IF gives THEN Append(p, Promise(Repeated)) ELSE p
  OBVIOUS
<1>27. DOMAIN p \subseteq DOMAIN w /\ \A k \in DOMAIN p : w[k] = p[k]
  <2>1. CASE ~gives
    BY <1>26, <2>1
  <2>2. CASE gives
    <3>1. PICK f : f = Promise(Repeated)
      OBVIOUS
    <3>2. w = Append(p, f) /\ p \in Seq(Fates \union {f}) /\ f \in Fates \union {f}
      BY <1>1, <1>26, <2>2, <3>1
    <3>3. Len(w) = Len(p) + 1 /\ w \in Seq(Fates \union {f}) /\ \A k \in 1 .. Len(p) : w[k] = p[k]
      BY <3>2, AppendProperties
    <3>4. DOMAIN w = 1 .. Len(p) + 1
      BY <3>3
    <3> QED
      BY <1>1, <3>3, <3>4
  <2> QED
    BY <1>1, <2>1, <2>2
<1>28. \A k \in DOMAIN p : k \in r.acting <=> k = e.id
  BY <1>1, <1>9, <1>19, <1>23, <1>25
<1>29. SameIds(b, r)
  BY <1>23, <1>25 DEF SameIds
<1>30. r.modified - r.base =
         b.modified - b.base + (IF e.kind = "bonus" /\ e.timing # "permanent" THEN 1 ELSE 0)
  BY <1>19, <1>23, <1>25
<1>31. r.gone = b.gone /\ Len(r.walks) = Len(b.walks) /\ r.walks[Len(b.walks)].at = i + 1
  BY <1>21, <1>23, <1>25
<1>32. PICK q : q = fate'
  OBVIOUS
<1>33. q = Kept(w, r)
  BY <1>4, <1>15, <1>26, <1>32
<1>34. Quietly(b, p, i, e, r, q, w)
  BY <1>27, <1>28, <1>29, <1>30, <1>31, <1>33 DEF Quietly
<1> QED
  BY <1>15, <1>18, <1>32, <1>34

LEMMA ApplyCounts ==
  ASSUME SoundState, CountState, FxApply
  PROVE  Counted(body', fate')
<1> SUFFICES ASSUME ~Loud(body') PROVE Counted(body', fate')
  BY DEF Counted
<1>1. PICK b, h, p, i, e, rolled, c, d, x, n, gives, quiet :
        Applying(b, h, p, i, e, rolled, c, d, x, n, gives, quiet)
  BY ApplyIs
<1>2. PICK w : Innermost.quiet /\ Quietly(b, p, i, e, body', fate', w)
  BY <1>1, ApplyQuiet
<1>3. /\ b = Still /\ p = fate /\ UNCHANGED now
      /\ b \in Affected /\ Sound(b, p, h) /\ b.walks # <<>>
      /\ i \in DOMAIN b.effects /\ Executes(b, i, e) /\ e.id = b.effects[i].id
  BY <1>1 DEF Applying
<1>4. Innermost.at = i /\ body.walks # <<>>
  <2>1. b.walks = body.walks
    BY <1>3, StateIs
  <2>2. i = b.walks[Len(b.walks)].at
    BY <1>3 DEF Executes
  <2> QED
    BY <1>3, <2>1, <2>2 DEF Innermost
<1>5. PICK S : QuietlyAt(b, p, S, i)
  BY <1>2, <1>3, <1>4, QuietIs
<1>6. Len(b.walks) = 1 /\ i = b.walks[1].at
  BY <1>5 DEF QuietlyAt
<1>7. PICK r, q : r = body' /\ q = fate'
  OBVIOUS
<1>8. /\ SameIds(b, r) /\ r.gone = b.gone /\ Len(r.walks) = Len(b.walks)
      /\ r.walks[Len(b.walks)].at = i + 1
      /\ r.modified - r.base =
           b.modified - b.base + (IF e.kind = "bonus" /\ e.timing # "permanent" THEN 1 ELSE 0)
      /\ q = Kept(w, r) /\ DOMAIN p \subseteq DOMAIN w
      /\ \A k \in DOMAIN p : w[k] = p[k] /\ (k \in r.acting <=> k = e.id)
  BY <1>2, <1>7 DEF Quietly
<1>9. PICK y, f, k : y = b.effects[i] /\ k = y.id /\ f = p[k]
  OBVIOUS
<1>10. /\ Numbered(b, p) /\ Agreed(b, p, h) /\ Promised(p) /\ Removed(b, p)
       /\ now \in 1 .. MaxTime /\ now \in Nat \ {0}
  BY <1>3, StateIs DEF Sound
<1>11. /\ y \in Effects /\ k \in DOMAIN p /\ f \in Fates /\ Agrees(y, f, h) /\ ~Idle(y)
       /\ e = Timed(y) /\ e.id = k
  <2>1. y \in Effects
    BY <1>3, <1>9, AffectedAre
  <2>2. k \in DOMAIN p
    BY <1>3, <1>9, <1>10 DEF Numbered
  <2>3. f \in Fates /\ Agrees(y, f, h)
    BY <1>3, <1>9, <1>10, <2>2 DEF Agreed, Promised
  <2>4. ~Idle(y) /\ e = Timed(y)
    BY <1>3, <1>9 DEF Executes
  <2> QED
    BY <1>3, <1>9, <2>1, <2>2, <2>3, <2>4
<1>12. /\ e.kind = y.kind /\ y.timing # "expired"
  BY <1>10, <1>11, TimedIs
<1>13. f.kind = e.kind
  BY <1>11, <1>12 DEF Agrees
<1>14. k \notin b.gone
  BY <1>3, <1>9, <1>10, <1>12 DEF Removed
<1>15. PICK g : g = Acted(f)
  OBVIOUS
<1>16. g.kind = f.kind /\ g.span = f.span /\ g.last = now
  BY <1>10, <1>11, <1>15, ActedIs
<1>17. /\ DOMAIN p \subseteq DOMAIN q /\ q[k] = g
       /\ \A l \in DOMAIN p : l # k => q[l] = p[l]
  <2>1. q = [l \in DOMAIN w |-> IF l \in r.acting THEN Acted(w[l]) ELSE w[l]]
    <3>1. Kept(w, r) = [l \in DOMAIN w |-> IF l \in r.acting THEN Acted(w[l]) ELSE w[l]]
      BY DEF Kept, Acted
    <3> QED
      BY <1>8, <3>1
  <2>2. \A l \in DOMAIN p : /\ l \in DOMAIN w /\ w[l] = p[l]
                            /\ l \in r.acting <=> l = k
    BY <1>8, <1>11
  <2>3. \A l \in DOMAIN w : q[l] = IF l \in r.acting THEN Acted(w[l]) ELSE w[l]
    BY <2>1
  <2>4. q[k] = g
    <3>1. k \in DOMAIN w /\ k \in r.acting /\ w[k] = f
      BY <1>9, <1>11, <2>2
    <3>2. q[k] = Acted(w[k])
      BY <2>3, <3>1
    <3> QED
      BY <1>15, <3>1, <3>2
  <2>5. \A l \in DOMAIN p : l # k => q[l] = p[l]
    BY <2>2, <2>3
  <2>6. DOMAIN q = DOMAIN w
    BY <2>1
  <2> QED
    BY <1>8, <2>4, <2>5, <2>6
<1>18. PICK more \in BOOLEAN : more = (e.kind = "bonus" /\ e.timing # "permanent")
  OBVIOUS
<1>19. more <=> g.kind = "bonus" /\ g.span > 0
  <2>1. e.kind = "bonus" => (f.span > 0 <=> e.timing # "permanent")
    BY <1>10, <1>11, <1>12, BonusSpan
  <2> QED
    BY <1>13, <1>16, <1>18, <2>1
<1>20. r.modified - r.base = b.modified - b.base + (IF more THEN 1 ELSE 0)
  BY <1>8, <1>18
<1>21. CountsOn(b, p, i, r, q, more)
  <2>1. Len(r.walks) = 1 /\ r.walks[1].at = i + 1
    BY <1>6, <1>8
  <2>2. DOMAIN r.effects = DOMAIN b.effects /\ \A j \in DOMAIN b.effects : r.effects[j].id = b.effects[j].id
    BY <1>8 DEF SameIds
  <2>3. b.effects[i].id = k
    BY <1>9
  <2>4. \A l \in DOMAIN p : l # b.effects[i].id => q[l] = p[l]
    BY <1>17, <2>3
  <2>5. LET l == b.effects[i].id
            u == q[l]
        IN /\ more => u.kind = "bonus" /\ u.span > 0 /\ u.last = now /\ l \notin b.gone
           /\ u.kind = "bonus" /\ u.span > 0 /\ u.last = now /\ l \notin b.gone /\ ~Over(u) => more
    BY <1>14, <1>16, <1>17, <1>19, <2>3
  <2> QED
    BY ONLY <1>3, <1>6, <1>8, <1>17, <1>18, <1>20, <2>1, <2>2, <2>4, <2>5, Zenon DEF CountsOn
<1>22. Counted(r, q)
  <2>1. Len(r.walks) = 1
    BY <1>6, <1>8
  <2> QED
    BY <1>3, <1>5, <1>21, <2>1, CountedOn
<1> QED
  BY <1>7, <1>22


\* The count is right in every step, under the invariant above.
LEMMA CountNext ==
  ASSUME SoundState, CountState, FxNext
  PROVE  CountState'
<1>1. ASSUME Counted(body', fate'), now' = now PROVE CountState'
  <2>1. CASE Loud(body')
    BY Zenon, <2>1 DEF CountState, Counted, Loud
  <2>2. CASE Len(body'.walks) = 1 /\ \E S : Counts(body', fate', S)
    <3>1. PICK S : Counts(body', fate', S)
      BY <2>2
    <3>2. Counts(body, fate, S)'
      BY <1>1, <3>1 DEF Counts, Over
    <3> QED
      BY Zenon, <2>2, <3>2 DEF CountState, Counted
  <2> QED
    BY Zenon, <1>1, <2>1, <2>2 DEF Counted
<1>2. Loud(body') => CountState'
  BY Zenon DEF CountState, Counted, Loud
<1>3. CASE FxGive \/ FxWear \/ FxTakeOff \/ FxCleanup \/ FxExpire \/ FxAdvance \/ FxReload
  BY <1>2, <1>3, RestLoud
<1>4. CASE FxRefresh
  BY <1>1, <1>4, RefreshCounts DEF FxRefresh
<1>5. CASE FxSkip
  BY <1>1, <1>5, SkipCounts DEF FxSkip
<1>6. CASE FxApply
  <2>1. UNCHANGED now
    BY Zenon, <1>6 DEF FxApply
  <2>2. Counted(body', fate')
    BY <1>6, ApplyCounts
  <2> QED
    BY ONLY <1>1, <2>1, <2>2
<1>7. CASE FxRefreshed
  BY <1>2, <1>7, RefreshedLoud
<1> QED
  BY <1>3, <1>4, <1>5, <1>6, <1>7 DEF FxNext

LEMMA CountStutters ==
  ASSUME CountState, UNCHANGED fxVars
  PROVE  CountState'
BY Zenon DEF fxVars, CountState, Counted, Loud, Counts, Over

LEMMA CountAtFirst ==
  ASSUME FxInit
  PROVE  CountState
<1>1. body.walks = <<>>
  BY DEF FxInit
<1> QED
  BY <1>1 DEF CountState, Counted, Loud

\* The first places of a list are finitely many.
LEMMA FatesAreFinite ==
  ASSUME SoundState
  PROVE  IsFiniteSet(DOMAIN fate)
<1>1. fate \in Seq(Fates)
  BY DEF SoundState
<1>2. Len(fate) \in Nat /\ DOMAIN fate = 1 .. Len(fate)
  BY <1>1, LenProperties
<1> QED
  BY <1>2, FS_Interval

\* What it has counted when it has passed every effect.
LEMMA QuietEndCounts ==
  ASSUME SoundState, CountState, FxNext, Awake, body'.walks = <<>>, Innermost.quiet
  PROVE  body.modified - body.base \in Cardinality(Bonuses \ Ending) .. Cardinality(Bonuses)
<1>1. Len(body.walks) = 1 /\ \A j \in DOMAIN body.effects : j < body.walks[1].at
  BY EndsWhenPassed
<1>2. ~Loud(body)
  BY DEF Loud, Innermost, Awake
<1>3. PICK S : Counts(body, fate, S)
  BY <1>2 DEF CountState, Counted
<1>4. Accounted(body, fate)
  BY DEF SoundState, Sound
<1>5. S \subseteq Bonuses
  BY <1>3 DEF Counts, Bonuses
<1>6. ASSUME NEW k \in Bonuses \ Ending PROVE k \in S
  <2>1. /\ k \in DOMAIN fate \ body.gone /\ ~Over(fate[k])
        /\ fate[k].kind = "bonus" /\ fate[k].span > 0 /\ fate[k].last = now
    BY <1>6 DEF Bonuses, Ending
  <2>2. PICK j \in DOMAIN body.effects : body.effects[j].id = k
    BY <1>4, <2>1 DEF Accounted
  <2>3. j < body.walks[1].at
    BY <1>1
  <2> QED
    BY <1>3, <2>1, <2>2, <2>3 DEF Counts
<1>7. IsFiniteSet(Bonuses)
  <2>1. Bonuses \subseteq DOMAIN fate
    BY DEF Bonuses
  <2> QED
    BY <2>1, FatesAreFinite, FS_Subset
<1>8. IsFiniteSet(S) /\ Cardinality(S) <= Cardinality(Bonuses)
  BY <1>5, <1>7, FS_Subset
<1>9. IsFiniteSet(Bonuses \ Ending) /\ Cardinality(Bonuses \ Ending) <= Cardinality(S)
  <2>1. Bonuses \ Ending \subseteq S
    BY <1>6
  <2> QED
    BY <1>8, <2>1, FS_Subset
<1>10. /\ Cardinality(S) \in Nat /\ Cardinality(Bonuses) \in Nat
       /\ Cardinality(Bonuses \ Ending) \in Nat
  BY <1>7, <1>8, <1>9, FS_CardinalityType
<1>11. body.modified - body.base = Cardinality(S)
  BY <1>3 DEF Counts
<1>12. PICK low, some, all : /\ low = Cardinality(Bonuses \ Ending) /\ some = Cardinality(S)
                             /\ all = Cardinality(Bonuses)
  OBVIOUS
<1>13. some \in low .. all
  <2>1. low \in Nat /\ some \in Nat /\ all \in Nat /\ low <= some /\ some <= all
    BY <1>8, <1>9, <1>10, <1>12
  <2> QED
    BY ONLY <2>1
<1> QED
  BY <1>11, <1>12, <1>13

\* A refresh in which nothing was given or removed counts every bonus in force
\* once, whatever opcodes the queue holds and whatever a save has lost.
\* (Actor.cpp, RefreshEffects; EffectQueue.cpp, ApplyAllEffects)
THEOREM RefreshesCountOnce == FxSpec => RefreshSetsRight
<1>1. SoundState /\ CountState /\ [FxNext]_fxVars => (SoundState /\ CountState)'
  BY SoundNext, SoundStutters, CountNext, CountStutters
<1>2. FxInit => SoundState /\ CountState
  BY SoundAtFirst, CountAtFirst
<1>3. SoundState /\ CountState /\ [FxNext]_fxVars =>
        [Awake /\ body'.walks = <<>> /\ Innermost.quiet =>
           body.modified - body.base
             \in Cardinality(Bonuses \ Ending) .. Cardinality(Bonuses)]_fxVars
  BY QuietEndCounts
<1> QED
  BY <1>1, <1>2, <1>3, PTL DEF FxSpec, RefreshSetsRight
=============================================================================
