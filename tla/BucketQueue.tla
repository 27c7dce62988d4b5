---------------------------- MODULE BucketQueue ----------------------------
(***************************************************************************)
(* core/BucketPriorityQueue.h: what the path finder has still to look at,  *)
(* in buckets by cost.  The buckets are stretches of one array and have no *)
(* ends of their own: what does not fit in a bucket is written where the   *)
(* next one begins.  The last bucket gathers every cost there is no bucket *)
(* for.  Costs are whole numbers of 1/Unit of a step.                      *)
(***************************************************************************)
EXTENDS Integers

CONSTANTS
  BucketsCount,        \* BUCKETS_COUNT
  BucketSize,          \* BUCKET_SIZE
  LastBucketOverflow,  \* LAST_BUCKET_OVERFLOW_SIZE
  SizeRange,           \* the values a bucketSize may have, 256
  Unit,
  Junk                 \* what a cell holds before it is written

ASSUME BucketAssumption ==
  /\ BucketsCount \in Nat \ {0} /\ BucketSize \in Nat \ {0}
  /\ LastBucketOverflow \in Nat /\ SizeRange \in Nat \ {0} /\ Unit \in Nat \ {0}

Buckets == 0..(BucketsCount - 1)
Cellar == 0..(BucketSize * BucketsCount + LastBucketOverflow - 1)

Least(a, b) == IF a < b THEN a ELSE b

\* Where a bucket begins, and the bucket for a cost.
BeginIdx(b) == BucketSize * b
BucketOf(cost) == Least(cost \div Unit, BucketsCount - 1)

EmptyQueue ==
  [size |-> [b \in Buckets |-> 0], store |-> [i \in Cellar |-> Junk],
   minBucket |-> BucketsCount, count |-> 0]

\* mutant: the lowest bucket in use is not remembered
PushedHigh(q, e) ==
  LET b == BucketOf(e.cost)
  IN  [q EXCEPT !.count = q.count + 1,
                !.minBucket = IF q.count = 0 THEN b ELSE q.minBucket,
                !.store[BeginIdx(b) + q.size[b]] = e,
                !.size[b] = (q.size[b] + 1) % SizeRange]

Pushed(q, e) ==
  LET b == BucketOf(e.cost)
  IN  [q EXCEPT !.count = q.count + 1,
                !.minBucket = Least(q.minBucket, b),
                !.store[BeginIdx(b) + q.size[b]] = e,
                !.size[b] = (q.size[b] + 1) % SizeRange]

\* The lowest bucket that is not empty, or the last one.
LowestBucket(q) ==
  CHOOSE b \in q.minBucket..(BucketsCount - 1) :
    /\ q.size[b] > 0 \/ b = BucketsCount - 1
    /\ \A a \in q.minBucket..(b - 1) : q.size[a] = 0

\* The first of the cheapest in a bucket.
CheapestIdx(q, b) ==
  CHOOSE i \in 0..(q.size[b] - 1) :
    /\ \A j \in 0..(q.size[b] - 1) :
         q.store[BeginIdx(b) + i].cost <= q.store[BeginIdx(b) + j].cost
    /\ \A j \in 0..(i - 1) :
         q.store[BeginIdx(b) + i].cost < q.store[BeginIdx(b) + j].cost

PopPoint(q) ==
  LET b == LowestBucket(q) IN q.store[BeginIdx(b) + CheapestIdx(q, b)]

\* The queue without it: the last of the bucket takes its place.
Popped(q) ==
  LET b == LowestBucket(q)
      last == BeginIdx(b) + q.size[b] - 1
  IN  [q EXCEPT !.count = q.count - 1,
                !.minBucket = b,
                !.size[b] = q.size[b] - 1,
                !.store[BeginIdx(b) + CheapestIdx(q, b)] = q.store[last]]

\* mutant: the sizes of the buckets stay
ClearedCount(q) == [q EXCEPT !.count = 0, !.minBucket = BucketsCount]

\* Clear leaves the cells as they are.
Cleared(q) ==
  [q EXCEPT !.count = 0, !.minBucket = BucketsCount, !.size = [b \in Buckets |-> 0]]

\* What is in the queue.
Slots(q) == {i \in Cellar : \E b \in Buckets : BeginIdx(b) <= i /\ i < BeginIdx(b) + q.size[b]}
Content(q) == {q.store[i] : i \in Slots(q)}
=============================================================================
