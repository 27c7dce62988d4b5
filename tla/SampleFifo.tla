----------------------------- MODULE SampleFifo -----------------------------
(***************************************************************************)
(* What the music stream needs of its buffer: a bounded first-in first-out *)
(* queue.  Samples are supplied in the order of the stream; a reader copies*)
(* the oldest ones out, in order, while more may be supplied, and then     *)
(* takes what it has copied off the queue, so that none is lost or         *)
(* repeated.  Drop forgets whatever is queued.  RingBuffer implements it.  *)
(***************************************************************************)
EXTENDS Integers, Sequences

CONSTANT Capacity

VARIABLES queue,   \* the samples supplied and not yet taken, oldest first
          out,     \* the samples the reader has copied and not yet taken
          next     \* the next sample of the stream

Init == queue = <<>> /\ out = <<>> /\ next = 1

\* Put appends the next n samples of the stream, never more than fit.
Put(n) ==
    /\ Len(queue) + n <= Capacity
    /\ queue' = queue \o [i \in 1 .. n |-> next + i - 1]
    /\ next' = next + n
    /\ UNCHANGED out

\* Read copies the n oldest samples the reader does not have yet.
Read(n) ==
    /\ Len(out) + n <= Len(queue)
    /\ out' = SubSeq(queue, 1, Len(out) + n)
    /\ UNCHANGED <<queue, next>>

\* Take removes what the reader has copied.
Take ==
    /\ queue' = SubSeq(queue, Len(out) + 1, Len(queue))
    /\ out' = <<>>
    /\ UNCHANGED next

\* Drop is called while nobody reads.
Drop == out = <<>> /\ queue' = <<>> /\ UNCHANGED <<out, next>>

Next == (\E n \in 1 .. Capacity : Put(n) \/ Read(n)) \/ Take \/ Drop

Spec == Init /\ [][Next]_<<queue, out, next>>
=============================================================================
