------------------------------- MODULE Logger -------------------------------
(***************************************************************************)
(* The log: a queue that any thread appends to, and a thread that swaps    *)
(* it for an empty one and hands what it took to the writers               *)
(* (core/Logging/Logger.cpp).  Messages are numbered as they are logged.   *)
(*                                                                         *)
(* queueLock is held by the log's thread from its look at the queue until  *)
(* it either takes it or falls asleep ("drowsy"); writerLock while it      *)
(* writes.  Who logs holds either only for the step it takes.              *)
(***************************************************************************)
EXTENDS Integers, Sequences, SequencesExt

CONSTANTS
  Writers,
  MaxMessages   \* bound: messages logged

ASSUME MaxMessagesAssumption == MaxMessages \in Nat

VARIABLES
  messageQueue,
  batch,      \* what ProcessMessages has still to write
  writers,    \* the logger's
  written,    \* what every writer has been given
  running,
  thread,     \* loggingThread: where it is
  owner,      \* the thread that made the logger: where it is
  logged,     \* how many messages there have been
  fatal       \* those of level FATAL

logVars == <<messageQueue, batch, writers, written, running, thread, owner, logged, fatal>>
messages == <<logged, fatal>>

LogInit ==
  /\ messageQueue = <<>> /\ batch = <<>>
  /\ writers = {} /\ written = [w \in Writers |-> <<>>]
  /\ running = TRUE /\ thread = "none" /\ owner = "logging"
  /\ logged = 0 /\ fatal = {}

QueueLocked == thread = "drowsy"
WritersLocked == thread = "writing"

\* mutant: who finds the queue empty does not wake the thread
NotifiedFirst(t) == IF t = "asleep" /\ messageQueue # <<>> THEN "awake" ELSE t

\* cv.notify_all()
Notified(t) == IF t = "asleep" THEN "awake" ELSE t

HandedTo(w, n) == [v \in Writers |-> IF v \in w THEN Append(written[v], n) ELSE written[v]]

--------------------------------------------------------------------------
(* What other threads do *)

\* The first writer starts the thread.
AddLogWriter(w) ==
  /\ owner = "logging" /\ ~WritersLocked
  /\ w \notin writers
  /\ writers' = writers \cup {w}
  /\ thread' = IF thread = "none" THEN "loop" ELSE thread
  /\ UNCHANGED <<messageQueue, batch, written, running, owner, messages>>

LogMsg ==
  /\ owner = "logging" /\ ~QueueLocked
  /\ logged < MaxMessages
  /\ logged' = logged + 1
  /\ messageQueue' = Append(messageQueue, logged')
  /\ thread' = Notified(thread)
  /\ UNCHANGED <<batch, writers, written, running, owner, fatal>>

\* "fatal errors must happen now!": past the queue.
LogFatal ==
  /\ owner = "logging" /\ ~WritersLocked
  /\ logged < MaxMessages
  /\ logged' = logged + 1
  /\ fatal' = fatal \cup {logged'}
  /\ written' = HandedTo(writers, logged')
  /\ UNCHANGED <<messageQueue, batch, writers, running, thread, owner>>

Flush ==
  /\ owner = "logging"
  /\ thread' = Notified(thread)
  /\ UNCHANGED <<messageQueue, batch, writers, written, running, owner, messages>>

\* The destructor, which takes no lock.
StopRunning ==
  /\ owner = "logging"
  /\ running' = FALSE
  /\ owner' = "stopping"
  /\ UNCHANGED <<messageQueue, batch, writers, written, thread, messages>>

NotifyEnd ==
  /\ owner = "stopping"
  /\ thread' = Notified(thread)
  /\ owner' = "joining"
  /\ UNCHANGED <<messageQueue, batch, writers, written, running, messages>>

Join ==
  /\ owner = "joining"
  /\ thread \in {"none", "over"}
  /\ owner' = "done"
  /\ UNCHANGED <<messageQueue, batch, writers, written, running, thread, messages>>

--------------------------------------------------------------------------
(* The log's thread *)

Loop ==
  /\ thread = "loop"
  /\ thread' = IF running THEN "awake" ELSE "over"
  /\ UNCHANGED <<messageQueue, batch, writers, written, running, owner, messages>>

\* mutant: the queue is copied and not swapped
TakeCopy ==
  /\ thread = "awake"
  /\ messageQueue # <<>> \/ ~running
  /\ batch' = messageQueue
  /\ thread' = "taken"
  /\ UNCHANGED <<messageQueue, writers, written, running, owner, messages>>

\* mutant: only the oldest message is taken, and the others dropped
TakeFirst ==
  /\ thread = "awake"
  /\ messageQueue # <<>> \/ ~running
  /\ batch' = IF messageQueue = <<>> THEN <<>> ELSE <<Head(messageQueue)>>
  /\ messageQueue' = <<>>
  /\ thread' = "taken"
  /\ UNCHANGED <<writers, written, running, owner, messages>>

\* The predicate of the wait holds.
Take ==
  /\ thread = "awake"
  /\ messageQueue # <<>> \/ ~running
  /\ batch' = messageQueue
  /\ messageQueue' = <<>>
  /\ thread' = "taken"
  /\ UNCHANGED <<writers, written, running, owner, messages>>

\* It does not hold.
Look ==
  /\ thread = "awake"
  /\ messageQueue = <<>> /\ running
  /\ thread' = "drowsy"
  /\ UNCHANGED <<messageQueue, batch, writers, written, running, owner, messages>>

FallAsleep ==
  /\ thread = "drowsy"
  /\ thread' = "asleep"
  /\ UNCHANGED <<messageQueue, batch, writers, written, running, owner, messages>>

\* A condition variable may wake up without having been notified.
WakeUp ==
  /\ thread = "asleep"
  /\ thread' = "awake"
  /\ UNCHANGED <<messageQueue, batch, writers, written, running, owner, messages>>

BeginWriting ==
  /\ thread = "taken"
  /\ thread' = "writing"
  /\ UNCHANGED <<messageQueue, batch, writers, written, running, owner, messages>>

Write ==
  /\ thread = "writing" /\ batch # <<>>
  /\ written' = HandedTo(writers, Head(batch))
  /\ batch' = Tail(batch)
  /\ UNCHANGED <<messageQueue, writers, running, thread, owner, messages>>

EndWriting ==
  /\ thread = "writing" /\ batch = <<>>
  /\ thread' = "loop"
  /\ UNCHANGED <<messageQueue, batch, writers, written, running, owner, messages>>

ThreadStep == Loop \/ Take \/ Look \/ FallAsleep \/ BeginWriting \/ Write \/ EndWriting

LogNext ==
  \/ \E w \in Writers : AddLogWriter(w)
  \/ LogMsg \/ LogFatal \/ Flush
  \/ StopRunning \/ NotifyEnd \/ Join
  \/ ThreadStep \/ WakeUp

LogSpec == LogInit /\ [][LogNext]_logVars

\* The threads run.  Nobody need log, and nothing wakes the thread of itself.
LogFairSpec == LogSpec /\ WF_logVars(ThreadStep) /\ WF_logVars(NotifyEnd) /\ WF_logVars(Join)

--------------------------------------------------------------------------
(* Properties *)

LogTypeOK ==
  /\ messageQueue \in Seq(1..MaxMessages) /\ batch \in Seq(1..MaxMessages)
  /\ writers \subseteq Writers
  /\ written \in [Writers -> Seq(1..MaxMessages)]
  /\ running \in BOOLEAN
  /\ thread \in {"none", "loop", "awake", "drowsy", "asleep", "taken", "writing", "over"}
  /\ owner \in {"logging", "stopping", "joining", "done"}
  /\ logged \in 0..MaxMessages
  /\ fatal \subseteq 1..logged

\* A writer is given the messages in the order in which they were logged and
\* no message twice; only fatal ones overtake.
InOrder ==
  \A w \in Writers : \A i, j \in DOMAIN written[w] :
    i < j /\ written[w][i] \notin fatal /\ written[w][j] \notin fatal =>
      written[w][i] < written[w][j]

\* What a writer has been given or will be.
Coming(w) == Range(written[w]) \cup Range(batch) \cup Range(messageQueue)

\* From its first message on, a writer misses none: what it has not got is in
\* the thread's hands or in the queue.
NothingLost ==
  \A w \in writers : \A m \in Coming(w) \ fatal : (m..logged) \ fatal \subseteq Coming(w)

\* What is queued when there is a thread to write it comes to be written,
\* however the thread's falling asleep and the logging interleave, unless the
\* logger is destroyed first.
EverythingWritten ==
  \A n \in 1..MaxMessages :
    Contains(messageQueue, n) /\ thread # "none" ~>
      \/ \A w \in writers : Contains(written[w], n)
      \/ owner # "logging"

\* "clear old loggers if any" (tests/core/Test_SaveGame.cpp:91): the
\* destructor comes to its end.
EndsWhenDestroyed == owner = "stopping" ~> owner = "done"
=============================================================================
