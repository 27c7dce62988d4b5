------------------------------ MODULE LruOrder ------------------------------
(***************************************************************************)
(* What a cache with an eviction predicate promises: its keys in the order *)
(* of their last use, the least recent one first.  Room is made by the     *)
(* first that may go, or by the last if none may.                          *)
(***************************************************************************)
EXTENDS Integers, Sequences, SequencesExt

CONSTANTS Keys, CacheSize

VARIABLES order, disposable

Init == order = <<>> /\ disposable = {}

Goes(s) == SelectInSeq(s, LAMBDA k : k \in disposable)
Room(s) == IF Len(s) < CacheSize THEN s
           ELSE RemoveAt(s, IF Goes(s) = 0 THEN Len(s) ELSE Goes(s))

Put(k) ==
  /\ order' = IF Contains(Room(order), k) THEN Room(order) ELSE Append(Room(order), k)
  /\ UNCHANGED disposable

Use(k) ==
  /\ Contains(order, k)
  /\ order' = Append(RemoveFirst(order, k), k)
  /\ UNCHANGED disposable

Drop(k) ==
  /\ Contains(order, k)
  /\ order' = RemoveFirst(order, k)
  /\ UNCHANGED disposable

Change == disposable' \in SUBSET Keys /\ UNCHANGED order

Next == Change \/ \E k \in Keys : Put(k) \/ Use(k) \/ Drop(k)

Spec == Init /\ [][Next]_<<order, disposable>>
=============================================================================
