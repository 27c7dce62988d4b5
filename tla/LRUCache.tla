------------------------------ MODULE LRUCache ------------------------------
(***************************************************************************)
(* core/LRUCache.h, which keeps the sound buffers of core/Audio: a map     *)
(* whose entries are linked in a list, the least recently used first.  An  *)
(* item of the list is named by its key; the list is a record, so that an  *)
(* operation can pass it from one step to the next.                        *)
(***************************************************************************)
EXTENDS Integers, Sequences, FiniteSets

CONSTANTS
  Keys,
  Null,       \* nullptr
  CacheSize,
  LoneTouch   \* whether Touch may be called for the only entry

ASSUME NullAssumption == Null \notin Keys
ASSUME CacheSizeAssumption == CacheSize \in Nat \ {0}
ASSUME LoneTouchAssumption == LoneTouch \in BOOLEAN

VARIABLES
  list,       \* front and back, and every item's prev and next
  map,        \* the keys that have an entry
  disposable  \* those for whose value the predicate holds

cacheVars == <<list, map, disposable>>

EmptyList == [front |-> Null, back |-> Null,
              prev |-> [k \in Keys |-> Null], next |-> [k \in Keys |-> Null]]

CacheInit == list = EmptyList /\ map = {} /\ disposable = {}

--------------------------------------------------------------------------
(* The list *)

Unlinked(l, k) ==
  [front |-> IF l.prev[k] = Null THEN l.next[k] ELSE l.front,
   back  |-> IF l.next[k] = Null THEN l.prev[k] ELSE l.back,
   next  |-> [i \in Keys |-> IF i = k THEN Null
                             ELSE IF i = l.prev[k] THEN l.next[k] ELSE l.next[i]],
   prev  |-> [i \in Keys |-> IF i = k THEN Null
                             ELSE IF i = l.next[k] THEN l.prev[k] ELSE l.prev[i]]]

\* mutant: the new item does not know the one before it
LinkedOneWay(l, k) ==
  [front |-> IF l.front = Null THEN k ELSE l.front,
   back  |-> k,
   next  |-> [i \in Keys |-> IF i = l.back THEN k ELSE l.next[i]],
   prev  |-> l.prev]

\* A new item at the end, which is the front if there is no other.
Linked(l, k) ==
  [front |-> IF l.front = Null THEN k ELSE l.front,
   back  |-> k,
   next  |-> [i \in Keys |-> IF i = l.back THEN k ELSE l.next[i]],
   prev  |-> [l.prev EXCEPT ![k] = l.back]]

\* moveToBack, which never sets front.
MovedToBack(l, k) == LET u == Unlinked(l, k) IN [Linked(u, k) EXCEPT !.front = u.front]

\* The items from k on, and no more than there could be and one.
From(l, k) ==
  LET at[n \in 1..(CacheSize + 1)] ==
        IF n = 1 THEN k ELSE IF at[n - 1] = Null THEN Null ELSE l.next[at[n - 1]]
  IN  [n \in 1..Cardinality({m \in DOMAIN at : at[m] # Null}) |-> at[n]]

\* mutant: whichever is the first goes
VictimInUse(l) == IF l.front = Null THEN {} ELSE {l.front}

\* What evict lets go: the first that is disposable, or the last there is.
Victim(l) ==
  LET s == From(l, l.front)
      Goes(i) == i = Len(s) \/ s[i] \in disposable
  IN  {s[i] : i \in {j \in DOMAIN s : Goes(j) /\ \A h \in 1..(j - 1) : ~Goes(h)}}

--------------------------------------------------------------------------
(* The operations *)

\* Room is made first, and an entry that is there is left as it is.
SetAt(k) ==
  LET victims == IF Cardinality(map) = CacheSize THEN Victim(list) ELSE {}
      rest    == map \ victims
      room    == IF victims = {} THEN list ELSE Unlinked(list, CHOOSE v \in victims : TRUE)
  IN  /\ map' = rest \cup {k}
      /\ list' = IF k \in rest THEN room ELSE Linked(room, k)
      /\ UNCHANGED disposable

Touch(k) ==
  /\ k \in map
  /\ LoneTouch \/ map # {k}
  /\ list' = MovedToBack(list, k)
  /\ UNCHANGED <<map, disposable>>

RemoveKey(k) ==
  /\ k \in map
  /\ list' = Unlinked(list, k)
  /\ map' = map \ {k}
  /\ UNCHANGED disposable

\* The sounds that are playing change.
SoundsChange ==
  /\ disposable' \in SUBSET Keys
  /\ UNCHANGED <<list, map>>

CacheNext == SoundsChange \/ \E k \in Keys : SetAt(k) \/ Touch(k) \/ RemoveKey(k)

CacheSpec == CacheInit /\ [][CacheNext]_cacheVars

--------------------------------------------------------------------------
(* Properties *)

\* "Queue items are placed into a doubly-linked list, the front element is the
\* LRU" (LRUCache.h:26): from the front, next leads through every entry once
\* and to the back, prev leads back the same way, and there are no more entries
\* than the cache has room for.
ListIsWhole ==
  LET s == From(list, list.front)
  IN  /\ Cardinality(map) <= CacheSize
      /\ Len(s) = Cardinality(map) /\ {s[i] : i \in DOMAIN s} = map
      /\ list.back = IF s = <<>> THEN Null ELSE s[Len(s)]
      /\ \A i \in DOMAIN s : list.prev[s[i]] = IF i = 1 THEN Null ELSE s[i - 1]
      /\ \A k \in Keys \ map : list.prev[k] = Null /\ list.next[k] = Null

\* The list, from its front, is the order the cache promises to keep: what
\* goes, what stays and what moves are as in LruOrder.
Promised == INSTANCE LruOrder WITH order <- From(list, list.front)
ImplementsLru == Promised!Spec
=============================================================================
