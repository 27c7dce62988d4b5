----------------------------- MODULE RingBuffer -----------------------------
(***************************************************************************)
(* plugins/SDLAudio/RingBuffer.h: the single-producer single-consumer ring *)
(* that carries music samples from the music thread (Feed calls Fill) to   *)
(* the audio device's callback (StreamCallback calls Consume).             *)
(*                                                                         *)
(* The mutex of the class protects only the two runners: each side takes a *)
(* snapshot of the other's runner under it, copies samples with no lock    *)
(* held, then publishes its own runner under it.  These are the steps of   *)
(* the model, the copy being split where it wraps around.                  *)
(*                                                                         *)
(* A sample is its position in the stream that is supplied, so that order, *)
(* loss and duplication can be told apart.                                 *)
(***************************************************************************)
EXTENDS Integers, Sequences

CONSTANTS Size,         \* buffer.size()
          Lengths,      \* the lengths Fill and Consume are called with
          MaxSample     \* bound: the last sample the producer may supply

ASSUME RingAssumption ==
    /\ Size \in Nat \ {0}
    /\ Lengths \subseteq Nat \ {0}
    /\ MaxSample \in Nat

VARIABLES buffer,         \* the cells
          consumeRunner,  \* [round, offset] the consumer has published
          supplyRunner,   \* [round, offset] the producer has published
          fill,           \* the Fill in progress: its locals
          consume,        \* the Consume in progress: its locals
          memory,         \* the destination of the Consume in progress
          copied,         \* history: the samples that Consume has copied so far,
                          \* in the order of the copies, wherever it put them
          supplied,       \* samples published by Fill so far
          taken           \* samples published as read, or dropped by Reset

ringVars == <<buffer, consumeRunner, supplyRunner, fill, consume, memory, copied,
          supplied, taken>>

-----------------------------------------------------------------------------
Cells   == 0 .. Size - 1
Runner  == [round : 0 .. 1, offset : Cells]
Start   == [round |-> 0, offset |-> 0]
Unset   == 0                          \* a cell or a destination nobody wrote

Smaller(a, b) == IF a <= b THEN a ELSE b

\* The runner's step of the second copies, which never reach the end.
Forward(runner, n) == [round |-> runner.round, offset |-> runner.offset + n]

\* The runner's step: the offset advances and wraps into the other round.
Advance(runner, n) ==
    IF runner.offset + n = Size
    THEN [round |-> 1 - runner.round, offset |-> 0]
    ELSE [round |-> runner.round, offset |-> runner.offset + n]

\* First copy of Consume: up to the producer when both are in one round, up
\* to the end of the buffer when the producer is a round ahead.
FirstRead(lcr, lsr, length) ==
    IF lsr.round = lcr.round /\ lsr.offset > lcr.offset
    THEN Smaller(length, lsr.offset - lcr.offset)
    ELSE IF lsr.round # lcr.round /\ lsr.offset <= lcr.offset
         THEN Smaller(length, Size - lcr.offset)
         ELSE 0

\* Mutant of SecondRead: no copy after the wrap.
SecondReadNever(lcr, lsr, rest) == 0

\* Second copy of Consume, from the start of the buffer.
SecondRead(lcr, lsr, rest) ==
    IF lsr.round = lcr.round /\ lsr.offset > lcr.offset
    THEN Smaller(rest, lsr.offset - lcr.offset)
    ELSE 0

\* First copy of Fill: up to the end of the buffer.
FirstWrite(lsr, lcr, length) ==
    IF lsr.round = lcr.round /\ lsr.offset >= lcr.offset
    THEN Smaller(length, Size - lsr.offset)
    ELSE 0

\* Mutant of SecondWrite: bounded by the end of the buffer, not the consumer.
SecondWriteLaps(lsr, lcr, rest) ==
    IF lsr.round # lcr.round THEN Smaller(rest, Size - 1 - lsr.offset) ELSE 0

\* Second copy of Fill: up to the consumer, who is a round behind.
SecondWrite(lsr, lcr, rest) ==
    IF lsr.round # lcr.round /\ lsr.offset < lcr.offset
    THEN Smaller(rest, lcr.offset - lsr.offset)
    ELSE 0

\* dst with n values, the first one being value, written from index at on.
Written(dst, at, n, value) ==
    [i \in DOMAIN dst |-> IF at <= i /\ i < at + n THEN value + (i - at) ELSE dst[i]]

\* dst with the n cells from offset on copied to its indices from at on.
ReadInto(dst, at, n, offset) ==
    [i \in DOMAIN dst |-> IF at <= i /\ i < at + n THEN buffer[offset + (i - at)] ELSE dst[i]]

\* The n cells from offset on, in order.
Batch(n, offset) == [i \in 1 .. n |-> buffer[offset + (i - 1)]]

-----------------------------------------------------------------------------
Idle == [pc |-> "idle", length |-> 0, done |-> 0, own |-> Start, other |-> Start]

NoMemory == [i \in {} |-> Unset]

\* A call after one of its two copies, of n samples.
Progress(call, pc, n, own) ==
    [pc |-> pc, length |-> call.length, done |-> call.done + n,
     own |-> own, other |-> call.other]

RingInit ==
    /\ buffer = [c \in Cells |-> Unset]
    /\ consumeRunner = Start
    /\ supplyRunner = Start
    /\ fill = Idle
    /\ consume = Idle
    /\ memory = NoMemory
    /\ copied = <<>>
    /\ supplied = 0
    /\ taken = 0

\* Fill: read the own runner, snapshot the consumer's under the mutex.
FillBegin(length) ==
    /\ fill.pc = "idle"
    /\ supplied + length <= MaxSample
    /\ fill' = [pc |-> "first", length |-> length, done |-> 0,
                own |-> supplyRunner, other |-> consumeRunner]
    /\ UNCHANGED <<buffer, consumeRunner, supplyRunner, consume, memory, copied, supplied, taken>>

\* Fill: the copy up to the end of the buffer, and the wrap.
FillFirst ==
    /\ fill.pc = "first"
    /\ LET n == FirstWrite(fill.own, fill.other, fill.length)
       IN /\ buffer' = Written(buffer, fill.own.offset, n, supplied + 1)
          /\ fill' = Progress(fill, "second", n, Advance(fill.own, n))
    /\ UNCHANGED <<consumeRunner, supplyRunner, consume, memory, copied, supplied, taken>>

\* Fill: the copy up to the consumer.
FillSecond ==
    /\ fill.pc = "second"
    /\ LET n == SecondWrite(fill.own, fill.other, fill.length - fill.done)
       IN /\ buffer' = Written(buffer, fill.own.offset, n, supplied + fill.done + 1)
          /\ fill' = Progress(fill, "publish", n, Forward(fill.own, n))
    /\ UNCHANGED <<consumeRunner, supplyRunner, consume, memory, copied, supplied, taken>>

\* Fill: publish the own runner under the mutex, return the count written.
FillPublish ==
    /\ fill.pc = "publish"
    /\ supplyRunner' = fill.own
    /\ supplied' = supplied + fill.done
    /\ fill' = Idle
    /\ UNCHANGED <<buffer, consumeRunner, consume, memory, copied, taken>>

\* Consume: read the own runner, snapshot the producer's under the mutex.
ConsumeBegin(length) ==
    /\ consume.pc = "idle"
    /\ consume' = [pc |-> "first", length |-> length, done |-> 0,
                   own |-> consumeRunner, other |-> supplyRunner]
    /\ memory' = [i \in 0 .. length - 1 |-> Unset]
    /\ copied' = <<>>
    /\ UNCHANGED <<buffer, consumeRunner, supplyRunner, fill, supplied, taken>>

\* Consume: the copy up to the producer or the end of the buffer, the wrap.
ConsumeFirst ==
    /\ consume.pc = "first"
    /\ LET n == FirstRead(consume.own, consume.other, consume.length)
       IN /\ memory' = ReadInto(memory, 0, n, consume.own.offset)
          /\ copied' = copied \o Batch(n, consume.own.offset)
          /\ consume' = Progress(consume, "second", n, Advance(consume.own, n))
    /\ UNCHANGED <<buffer, consumeRunner, supplyRunner, fill, supplied, taken>>

\* Consume: the copy after the wrap.  Its destination is `memory' again, not
\* `memory + consumed'.
ConsumeSecond ==
    /\ consume.pc = "second"
    /\ LET n == SecondRead(consume.own, consume.other, consume.length - consume.done)
       IN /\ memory' = ReadInto(memory, 0, n, consume.own.offset)
          /\ copied' = copied \o Batch(n, consume.own.offset)
          /\ consume' = Progress(consume, "publish", n, Forward(consume.own, n))
    /\ UNCHANGED <<buffer, consumeRunner, supplyRunner, fill, supplied, taken>>

\* Consume: publish the own runner under the mutex, return the count read.
ConsumePublish ==
    /\ consume.pc = "publish"
    /\ consumeRunner' = consume.own
    /\ taken' = taken + consume.done
    /\ consume' = Idle
    /\ memory' = NoMemory
    /\ copied' = <<>>
    /\ UNCHANGED <<buffer, supplyRunner, fill, supplied>>

\* Mutant of Reset: the consumer's runner is left where it was.
ResetSupplyOnly ==
    /\ fill.pc = "idle" /\ consume.pc = "idle"
    /\ supplyRunner' = Start
    /\ taken' = supplied
    /\ UNCHANGED <<buffer, consumeRunner, fill, consume, memory, copied, supplied>>

\* Reset: its one caller, Reclaim, holds the mutex of the callback and runs
\* under the mutex of the music loop, so neither call is in progress.
Reset ==
    /\ fill.pc = "idle" /\ consume.pc = "idle"
    /\ consumeRunner' = Start
    /\ supplyRunner' = Start
    /\ taken' = supplied
    /\ UNCHANGED <<buffer, fill, consume, memory, copied, supplied>>

Fill    == (\E length \in Lengths : FillBegin(length)) \/ FillFirst \/ FillSecond \/ FillPublish
Consume == (\E length \in Lengths : ConsumeBegin(length)) \/ ConsumeFirst \/ ConsumeSecond \/ ConsumePublish

RingNext == Fill \/ Consume \/ Reset

RingSpec == RingInit /\ [][RingNext]_ringVars

-----------------------------------------------------------------------------
\* The samples between two runners, the consumer's and the producer's.
Between(lcr, lsr) ==
    IF lcr.round = lsr.round THEN lsr.offset - lcr.offset
                             ELSE Size - lcr.offset + lsr.offset

Used == Between(consumeRunner, supplyRunner)

Cell(offset) == IF offset >= Size THEN offset - Size ELSE offset

Call(pc) == [pc : pc, length : Nat, done : Nat, own : Runner, other : Runner]

RingPhases == {"idle", "first", "second", "publish"}

\* Type invariant: the runners never leave the buffer, whatever is read.
RingTypeOK ==
    /\ buffer \in [Cells -> Nat]
    /\ consumeRunner \in Runner
    /\ supplyRunner \in Runner
    /\ fill \in Call(RingPhases)
    /\ consume \in Call(RingPhases)
    /\ DOMAIN memory \subseteq Nat
    /\ copied \in Seq(Nat)
    /\ supplied \in Nat
    /\ taken \in Nat

\* The runners agree with what was supplied and taken: the consumer never
\* overtakes the producer and the producer never laps the consumer.
RunnersAgree ==
    /\ Used \in 0 .. Size
    /\ Used = supplied - taken

\* Every unread cell still holds the sample that was supplied for it: no Fill
\* overwrites, while Consume runs beside it, a sample that is still to be read.
UnreadIntact ==
    \A k \in 0 .. Used - 1 : buffer[Cell(consumeRunner.offset + k)] = taken + k + 1

\* The cells the next copy of the Fill in progress writes.
WriteCells ==
    LET n == IF fill.pc = "first" THEN FirstWrite(fill.own, fill.other, fill.length)
             ELSE IF fill.pc = "second" THEN SecondWrite(fill.own, fill.other, fill.length - fill.done)
             ELSE 0
    IN  {c \in Cells : fill.own.offset <= c /\ c < fill.own.offset + n}

\* The cells the next copy of the Consume in progress reads.
ReadCells ==
    LET n == IF consume.pc = "first" THEN FirstRead(consume.own, consume.other, consume.length)
             ELSE IF consume.pc = "second"
                  THEN SecondRead(consume.own, consume.other, consume.length - consume.done)
             ELSE 0
    IN  {c \in Cells : consume.own.offset <= c /\ c < consume.own.offset + n}

\* The two unlocked copies never touch the same cell, whatever the order in
\* which the two threads took their snapshots.
CopiesDisjoint == WriteCells \cap ReadCells = {}

\* Consume returns less than it was asked for (the callback then plays
\* silence) only when it has read all that its snapshot offered.
ShortReadMeansDrained ==
    consume.pc = "publish" /\ consume.done < consume.length => consume.own = consume.other

\* Fill accepts less than it was given (Feed then sleeps) only when it has
\* filled the ring up to the consumer its snapshot showed.
ShortWriteMeansFull ==
    fill.pc = "publish" /\ fill.done < fill.length =>
        /\ fill.own.offset = fill.other.offset
        /\ fill.own.round # fill.other.round

\* Neither side gives up early.
ShortMeansNoMore == ShortReadMeansDrained /\ ShortWriteMeansFull

\* What Test_RingBuffer.cpp:74 says of the destination of a Consume that wraps:
\* it holds the samples in the order of the stream, from its first element on.
\* The code does not do it, since its second copy starts at the first element
\* again (see ConsumeSecond): a run shows how.
ReadsLandInOrder ==
    consume.pc = "publish" => \A i \in 0 .. consume.done - 1 : memory[i] = taken + i + 1

\* The ring is a first-in first-out queue: its unread cells, in order, and the
\* samples the copies of Consume have read of them.  Which samples are copied,
\* and in which order, is what this says; ReadsLandInOrder says where they land.
Fifo == INSTANCE SampleFifo
            WITH Capacity <- Size,
                 queue <- [k \in 1 .. Used |-> buffer[Cell(consumeRunner.offset + k - 1)]],
                 out <- copied,
                 next <- supplied + 1

ImplementsFifo == Fifo!Spec

-----------------------------------------------------------------------------
(* The inductive invariant the proofs use. *)

\* The consumer's runner is not ahead of the producer's.
Ordered(lcr, lsr) ==
    IF lcr.round = lsr.round THEN lcr.offset <= lsr.offset ELSE lsr.offset <= lcr.offset

\* A Fill in progress: its snapshot of the consumer can only be too early, its
\* own runner is what it wrote past the published one, and it is still short
\* of its length only if it has reached the round after the consumer's.
FillInv ==
    /\ fill.done <= fill.length
    /\ fill.pc = "idle" => fill.done = 0
    /\ fill.pc # "idle" =>
        /\ Ordered(fill.other, supplyRunner)
        /\ Used <= Between(fill.other, supplyRunner)
        /\ Ordered(fill.other, fill.own)
        /\ Between(fill.other, fill.own) = Between(fill.other, supplyRunner) + fill.done
    /\ fill.pc = "first" => fill.done = 0 /\ fill.own = supplyRunner
    /\ fill.pc = "second" /\ fill.done < fill.length => fill.own.round # fill.other.round

\* A Consume in progress, likewise.
ConsumeInv ==
    /\ consume.done <= consume.length
    /\ consume.pc = "idle" => consume.done = 0
    /\ consume.pc # "idle" =>
        /\ Ordered(consumeRunner, consume.other)
        /\ Between(consumeRunner, consume.other) <= Used
        /\ Ordered(consume.own, consume.other)
        /\ Between(consume.own, consume.other) = Between(consumeRunner, consume.other) - consume.done
    /\ consume.pc = "first" => consume.done = 0 /\ consume.own = consumeRunner
    /\ consume.pc = "second" /\ consume.done < consume.length => consume.own.round = consume.other.round

RunnerInv ==
    /\ Ordered(consumeRunner, supplyRunner)
    /\ Used = supplied - taken

\* UnreadIntact, extended to the samples written and not yet published.
WrittenIntact ==
    \A k \in 0 .. Used + fill.done - 1 : buffer[Cell(consumeRunner.offset + k)] = taken + k + 1

\* The copies of Consume have read the oldest samples, in their order.
CopiedOldest == copied = [i \in 1 .. consume.done |-> taken + i]

IInv == RingTypeOK /\ RunnerInv /\ FillInv /\ ConsumeInv /\ WrittenIntact /\ CopiedOldest
=============================================================================
