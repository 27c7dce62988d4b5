---------------------------- MODULE ThreadsProofs ----------------------------
(***************************************************************************)
(* Two queues between threads. The log, for every set of writers and       *)
(* every number of messages: the order of what a writer is given rests on  *)
(* the order of what the thread and the queue still hold, for all of it is *)
(* newer than what has been written, the queue is newer than the thread's  *)
(* batch, and both rise. And the ring of the music, for every size of it   *)
(* and every set of lengths: IInv is inductive and implies the invariants  *)
(* the threads run checks.                                                 *)
(***************************************************************************)
EXTENDS Logger, RingBuffer, SequenceTheorems, TLAPS

--------------------------------------------------------------------------
(* The log *)

Held == Range(batch) \cup Range(messageQueue)
Rising(s) == \A i, j \in DOMAIN s : i < j => s[i] < s[j]

\* Messages are numbered up to logged, and only others than fatal ones queue.
Numbered ==
  /\ fatal \subseteq 1..logged
  /\ Held \subseteq (1..logged) \ fatal
  /\ \A w \in Writers : Range(written[w]) \subseteq 1..logged

\* What is held rises, and is newer than what has been written.
Sorted ==
  /\ Rising(batch) /\ Rising(messageQueue)
  /\ \A m \in Range(batch), n \in Range(messageQueue) : m < n
  /\ \A w \in Writers : \A m \in Range(written[w]) \ fatal, n \in Held : m < n

\* What is held has no gaps.
HeldWhole == \A m \in Held : (m..logged) \ fatal \subseteq Held

\* A batch is in the thread's hands only between the queue and the writers.
BatchInHand == batch # <<>> => thread \in {"taken", "writing"}

NewWritersEmpty == \A w \in Writers \ writers : written[w] = <<>>

Inv == /\ LogTypeOK /\ Numbered /\ Sorted /\ HeldWhole /\ BatchInHand
       /\ NewWritersEmpty /\ InOrder /\ NothingLost

--------------------------------------------------------------------------
(* Sequences and what is in them *)

\* What is appended is the only new element, and the last one.
LEMMA AppendRange ==
  ASSUME NEW S, NEW s \in Seq(S), NEW e \in S
  PROVE  /\ Append(s, e) \in Seq(S)
         /\ DOMAIN Append(s, e) = 1..(Len(s) + 1) /\ DOMAIN s = 1..Len(s)
         /\ Len(s) \in Nat
         /\ \A i \in 1..Len(s) : Append(s, e)[i] = s[i]
         /\ Append(s, e)[Len(s) + 1] = e
         /\ Range(Append(s, e)) = Range(s) \cup {e}
<1> DEFINE t == Append(s, e)
<1>1. /\ t \in Seq(S) /\ DOMAIN t = 1..(Len(s) + 1) /\ DOMAIN s = 1..Len(s)
      /\ Len(s) \in Nat
      /\ \A i \in 1..Len(s) : t[i] = s[i]
      /\ t[Len(s) + 1] = e
  OBVIOUS
<1>2. Range(t) = Range(s) \cup {e}
  <2> HIDE DEF t
  <2>1. Len(s) + 1 \in DOMAIN t /\ \A i \in DOMAIN s : i \in DOMAIN t
    BY <1>1
  <2>2. \A i \in DOMAIN t : i \in DOMAIN s \/ i = Len(s) + 1
    BY <1>1
  <2>3. \A i \in DOMAIN s : t[i] = s[i]
    BY <1>1
  <2> QED  BY <1>1, <2>1, <2>2, <2>3 DEF Range
<1> QED  BY <1>1, <1>2

\* Head and tail of a sequence are what is in it.
LEMMA TailRange ==
  ASSUME NEW S, NEW s \in Seq(S), s # <<>>
  PROVE  /\ Head(s) \in S /\ Tail(s) \in Seq(S)
         /\ Head(s) = s[1] /\ 1 \in DOMAIN s
         /\ \A i \in DOMAIN Tail(s) :
              i \in Nat \ {0} /\ i + 1 \in DOMAIN s /\ Tail(s)[i] = s[i + 1]
         /\ Range(s) = {Head(s)} \cup Range(Tail(s))
<1>1. /\ Head(s) \in S /\ Tail(s) \in Seq(S)
      /\ Head(s) = s[1] /\ Len(s) \in Nat \ {0}
      /\ DOMAIN s = 1..Len(s) /\ DOMAIN Tail(s) = 1..(Len(s) - 1)
  OBVIOUS
<1>2. \A i \in DOMAIN Tail(s) :
        i \in Nat \ {0} /\ i + 1 \in DOMAIN s /\ Tail(s)[i] = s[i + 1]
  BY <1>1
<1>3. \A i \in DOMAIN s : i = 1 \/ (i - 1 \in DOMAIN Tail(s) /\ s[i] = Tail(s)[i - 1])
  BY <1>1, <1>2
<1>4. Range(s) = {Head(s)} \cup Range(Tail(s))
  BY <1>1, <1>2, <1>3 DEF Range
<1> QED  BY <1>1, <1>2, <1>4

\* Nothing is in the empty sequence.
LEMMA EmptyRange == Range(<<>>) = {} /\ DOMAIN <<>> = {}
BY DEF Range

--------------------------------------------------------------------------
(* The invariant *)

LEMMA InitInv == LogInit => Inv
BY EmptyRange, MaxMessagesAssumption
   DEF LogInit, Inv, LogTypeOK, Numbered, Held, Sorted, Rising, HeldWhole, BatchInHand,
       NewWritersEmpty, InOrder, NothingLost, Coming

\* A step that neither logs nor moves a message, nor adds a writer.
LEMMA QuietStep ==
  ASSUME Inv, UNCHANGED <<messageQueue, batch, writers, written, logged, fatal>>,
         LogTypeOK', BatchInHand'
  PROVE  Inv'
BY DEF Inv, Numbered, Held, Sorted, Rising, HeldWhole, NewWritersEmpty, InOrder,
       NothingLost, Coming

LEMMA LogMsgStep == Inv /\ LogMsg => Inv'
<1> SUFFICES ASSUME Inv, LogMsg  PROVE Inv'
  OBVIOUS
<1> USE MaxMessagesAssumption
<1> DEFINE q == messageQueue
<1>1. /\ logged \in Nat /\ logged' = logged + 1 /\ logged' \in 1..MaxMessages
      /\ q \in Seq(1..MaxMessages) /\ q' = Append(q, logged')
      /\ UNCHANGED <<batch, writers, written, running, owner, fatal>>
      /\ thread' = Notified(thread)
  BY DEF Inv, LogTypeOK, LogMsg
<1>2. /\ q' \in Seq(1..MaxMessages)
      /\ DOMAIN q' = 1..(Len(q) + 1) /\ DOMAIN q = 1..Len(q) /\ Len(q) \in Nat
      /\ \A i \in 1..Len(q) : q'[i] = q[i]
      /\ q'[Len(q) + 1] = logged'
      /\ Range(q') = Range(q) \cup {logged'}
  BY <1>1, AppendRange
<1>3. Held' = Held \cup {logged'}
  BY <1>1, <1>2 DEF Held
<1>4. \A w : Coming(w)' = Coming(w) \cup {logged'}
  BY <1>1, <1>2 DEF Coming
<1>5. LogTypeOK'
  BY <1>1, <1>2 DEF Inv, LogTypeOK, Notified
<1>6. Numbered'
  BY <1>1, <1>3 DEF Inv, Numbered
<1>7. Sorted'
  <2>1. \A i \in DOMAIN q : q[i] \in 1..logged
    BY DEF Inv, Numbered, Held, Range
  <2>2. Rising(q')
    BY <1>1, <1>2, <2>1 DEF Inv, Sorted, Rising
  <2>3. \A m \in Range(batch), n \in Range(q') : m < n
    BY <1>1, <1>2 DEF Inv, Sorted, Numbered, Held
  <2>4. \A w \in Writers : \A m \in Range(written[w]) \ fatal, n \in Held' : m < n
    <3>1. \A w \in Writers : \A m \in Range(written[w]) : m < logged'
      BY <1>1 DEF Inv, Numbered
    <3> QED  BY <3>1, <1>3 DEF Inv, Sorted
  <2> QED  BY <1>1, <2>2, <2>3, <2>4 DEF Inv, Sorted, Rising
<1>8. HeldWhole'
  BY <1>1, <1>3 DEF Inv, HeldWhole, Numbered
<1>9. BatchInHand' /\ NewWritersEmpty' /\ InOrder'
  BY <1>1 DEF Inv, BatchInHand, NewWritersEmpty, InOrder, Notified
<1>10. NothingLost'
  <2> SUFFICES ASSUME NEW w \in writers, NEW m \in Coming(w)' \ fatal,
                      NEW n \in (m..logged') \ fatal
               PROVE  n \in Coming(w)'
    BY <1>1 DEF NothingLost
  <2>1. Coming(w) \subseteq Nat
    BY <1>1 DEF Coming, Inv, Numbered, Held, LogTypeOK
  <2>2. CASE n = logged'
    BY <2>2, <1>4
  <2>3. CASE n # logged'
    <3>1. m # logged' /\ m \in Coming(w) \ fatal
      BY <2>3, <1>1, <1>4
    <3>2. m \in Nat /\ n \in (m..logged) \ fatal
      BY <2>1, <2>3, <3>1, <1>1
    <3> QED  BY <3>1, <3>2, <1>4 DEF Inv, NothingLost
  <2> QED  BY <2>2, <2>3
<1> QED
  BY <1>5, <1>6, <1>7, <1>8, <1>9, <1>10 DEF Inv

LEMMA LogFatalStep == Inv /\ LogFatal => Inv'
<1> SUFFICES ASSUME Inv, LogFatal  PROVE Inv'
  OBVIOUS
<1> USE MaxMessagesAssumption
<1>1. /\ logged \in Nat /\ logged' = logged + 1 /\ logged' \in 1..MaxMessages
      /\ fatal' = fatal \cup {logged'} /\ fatal \subseteq 1..logged
      /\ writers \subseteq Writers
      /\ written' = [v \in Writers |->
                       IF v \in writers THEN Append(written[v], logged') ELSE written[v]]
      /\ UNCHANGED <<messageQueue, batch, writers, running, thread, owner>>
  BY DEF Inv, LogTypeOK, LogFatal, HandedTo, Numbered
<1>2. ASSUME NEW w \in Writers
      PROVE  /\ written[w] \in Seq(1..MaxMessages)
             /\ written'[w] \in Seq(1..MaxMessages)
             /\ \A i \in DOMAIN written'[w] : i \in Nat /\ 
                  \/ i \in DOMAIN written[w] /\ written'[w][i] = written[w][i]
                  \/ written'[w][i] = logged'
             /\ Range(written'[w]) \subseteq Range(written[w]) \cup {logged'}
             /\ Range(written[w]) \subseteq Range(written'[w])
             /\ w \notin writers => written'[w] = written[w]
  <2>1. written[w] \in Seq(1..MaxMessages)
    BY DEF Inv, LogTypeOK
  <2>2. CASE w \in writers
    <3> DEFINE s == written[w]
               t == Append(written[w], logged')
    <3>1. /\ t \in Seq(1..MaxMessages)
          /\ DOMAIN t = 1..(Len(s) + 1) /\ DOMAIN s = 1..Len(s) /\ Len(s) \in Nat
          /\ \A i \in 1..Len(s) : t[i] = s[i]
          /\ t[Len(s) + 1] = logged'
          /\ Range(t) = Range(s) \cup {logged'}
      BY <1>1, <2>1, AppendRange
    <3>2. written'[w] = t
      BY <1>1, <2>2
    <3> HIDE DEF t
    <3>3. \A i \in DOMAIN t :
            i \in Nat /\ ((i \in DOMAIN s /\ t[i] = s[i]) \/ t[i] = logged')
      <4> TAKE i \in DOMAIN t
      <4>1. i \in Nat /\ (i \in 1..Len(s) \/ i = Len(s) + 1)
        BY <3>1
      <4>2. CASE i \in 1..Len(s)
        BY <3>1, <4>1, <4>2
      <4>3. CASE i = Len(s) + 1
        BY <3>1, <4>1, <4>3
      <4> QED  BY <4>1, <4>2, <4>3
    <3> QED  BY <2>1, <2>2, <3>1, <3>2, <3>3
  <2>3. CASE w \notin writers
    BY <1>1, <2>1, <2>3, LenProperties
  <2> QED  BY <2>2, <2>3
<1>3. Held' = Held
  BY <1>1 DEF Held
<1>4. LogTypeOK'
  BY <1>1, <1>2 DEF Inv, LogTypeOK
<1>5. Numbered'
  <2>1. /\ Held \subseteq (1..logged) \ fatal
        /\ \A w \in Writers : Range(written[w]) \subseteq 1..logged
    BY DEF Inv, Numbered
  <2>2. 1..logged \subseteq 1..logged' /\ logged' \in 1..logged' /\ logged' \notin 1..logged
    BY <1>1
  <2>3. \A w \in Writers : Range(written'[w]) \subseteq 1..logged'
    BY <2>1, <2>2, <1>2
  <2>4. Held' \subseteq (1..logged') \ fatal'
    BY <2>1, <2>2, <1>1, <1>3
  <2> QED  BY <2>2, <2>3, <2>4, <1>1 DEF Numbered
<1>6. Sorted'
  <2>1. \A w \in Writers : \A m \in Range(written'[w]) \ fatal' : m \in Range(written[w]) \ fatal
    BY <1>1, <1>2
  <2> QED  BY <2>1, <1>1, <1>3 DEF Inv, Sorted, Rising
<1>7. HeldWhole'
  <2>1. Held \subseteq 1..logged
    BY DEF Inv, Numbered
  <2> QED  BY <2>1, <1>1, <1>3 DEF Inv, HeldWhole
<1>8. BatchInHand' /\ NewWritersEmpty'
  BY <1>1, <1>2 DEF Inv, BatchInHand, NewWritersEmpty
<1>9. InOrder'
  <2> SUFFICES ASSUME NEW w \in Writers, NEW i \in DOMAIN written'[w],
                      NEW j \in DOMAIN written'[w], i < j,
                      written'[w][i] \notin fatal', written'[w][j] \notin fatal'
               PROVE  written'[w][i] < written'[w][j]
    BY DEF InOrder
  <2>1. /\ i \in DOMAIN written[w] /\ written'[w][i] = written[w][i]
        /\ j \in DOMAIN written[w] /\ written'[w][j] = written[w][j]
    BY <1>1, <1>2
  <2> QED  BY <2>1, <1>1 DEF Inv, InOrder
<1>10. NothingLost'
  <2> SUFFICES ASSUME NEW w \in writers, NEW m \in Coming(w)' \ fatal',
                      NEW n \in (m..logged') \ fatal'
               PROVE  n \in Coming(w)'
    BY <1>1 DEF NothingLost
  <2>1. m \in Coming(w) \ fatal /\ Coming(w) \subseteq Coming(w)'
    BY <1>1, <1>2 DEF Coming
  <2>2. m \in Nat /\ n \in (m..logged) \ fatal
    BY <2>1, <1>1 DEF Coming, Inv, Numbered, Held
  <2> QED  BY <2>1, <2>2 DEF Inv, NothingLost
<1> QED
  BY <1>4, <1>5, <1>6, <1>7, <1>8, <1>9, <1>10 DEF Inv

LEMMA TakeStep == Inv /\ Take => Inv'
<1> SUFFICES ASSUME Inv, Take  PROVE Inv'
  OBVIOUS
<1>1. /\ batch = <<>> /\ batch' = messageQueue /\ messageQueue' = <<>>
      /\ thread' = "taken"
      /\ UNCHANGED <<writers, written, running, owner, logged, fatal>>
  BY DEF Inv, BatchInHand, Take, messages
<1>2. Held' = Held /\ \A w : Coming(w)' = Coming(w)
  BY <1>1, EmptyRange DEF Held, Coming
<1>3. LogTypeOK' /\ BatchInHand' /\ NewWritersEmpty' /\ InOrder'
  BY <1>1 DEF Inv, LogTypeOK, BatchInHand, NewWritersEmpty, InOrder
<1>4. Numbered' /\ HeldWhole' /\ NothingLost'
  BY <1>1, <1>2 DEF Inv, Numbered, HeldWhole, NothingLost
<1>5. Sorted'
  BY <1>1, <1>2, EmptyRange DEF Inv, Sorted, Rising
<1> QED  BY <1>3, <1>4, <1>5 DEF Inv

LEMMA WriteStep == Inv /\ Write => Inv'
<1> SUFFICES ASSUME Inv, Write  PROVE Inv'
  OBVIOUS
<1> USE MaxMessagesAssumption
<1> DEFINE h == Head(batch)
<1>1. /\ batch # <<>> /\ batch \in Seq(1..MaxMessages) /\ batch' = Tail(batch)
      /\ thread = "writing" /\ writers \subseteq Writers /\ logged \in Nat
      /\ written' = [v \in Writers |->
                       IF v \in writers THEN Append(written[v], h) ELSE written[v]]
      /\ UNCHANGED <<messageQueue, writers, running, thread, owner, logged, fatal>>
  BY DEF Inv, LogTypeOK, Write, HandedTo, messages
<1>2. /\ h \in 1..MaxMessages /\ Tail(batch) \in Seq(1..MaxMessages)
      /\ h = batch[1] /\ 1 \in DOMAIN batch
      /\ \A i \in DOMAIN Tail(batch) :
           i \in Nat \ {0} /\ i + 1 \in DOMAIN batch /\ Tail(batch)[i] = batch[i + 1]
      /\ Range(batch) = {h} \cup Range(Tail(batch))
  BY <1>1, TailRange
<1>3. /\ Held = Held' \cup {h} /\ h \in Held
      /\ h \in 1..logged /\ h \notin fatal
      /\ \A n \in Held' : n \in Nat /\ h < n
      /\ Held' \subseteq (1..logged) \ fatal
  <2>1. Held = Held' \cup {h} /\ h \in Held
    BY <1>1, <1>2 DEF Held
  <2>2. Held \subseteq (1..logged) \ fatal
    BY DEF Inv, Numbered
  <2>3. \A n \in Range(Tail(batch)) : h < n
    BY <1>1, <1>2 DEF Inv, Sorted, Rising, Range
  <2>4. \A n \in Range(messageQueue) : h < n
    BY <1>1, <1>2 DEF Inv, Sorted
  <2>5. Held' = Range(Tail(batch)) \cup Range(messageQueue)
    BY <1>1 DEF Held
  <2> QED  BY <2>1, <2>2, <2>3, <2>4, <2>5
<1>4. ASSUME NEW w \in Writers
      PROVE  /\ written[w] \in Seq(1..MaxMessages)
             /\ written'[w] \in Seq(1..MaxMessages)
             /\ \A i \in DOMAIN written'[w] : i \in Nat /\
                  \/ i \in DOMAIN written[w] /\ written'[w][i] = written[w][i]
                  \/ written'[w][i] = h /\ \A j \in DOMAIN written'[w] : j <= i
             /\ Range(written'[w]) \subseteq Range(written[w]) \cup {h}
             /\ w \in writers => Range(written'[w]) = Range(written[w]) \cup {h}
             /\ w \notin writers => written'[w] = written[w]
  <2>1. written[w] \in Seq(1..MaxMessages)
    BY DEF Inv, LogTypeOK
  <2>2. CASE w \in writers
    <3> DEFINE s == written[w]
               t == Append(written[w], h)
    <3>1. /\ t \in Seq(1..MaxMessages)
          /\ DOMAIN t = 1..(Len(s) + 1) /\ DOMAIN s = 1..Len(s) /\ Len(s) \in Nat
          /\ \A i \in 1..Len(s) : t[i] = s[i]
          /\ t[Len(s) + 1] = h
          /\ Range(t) = Range(s) \cup {h}
      BY <1>2, <2>1, AppendRange
    <3>2. written'[w] = t
      BY <1>1, <2>2
    <3> HIDE DEF t, h
    <3>3. \A i \in DOMAIN t : i \in Nat /\
            \/ i \in DOMAIN s /\ t[i] = s[i]
            \/ t[i] = h /\ \A j \in DOMAIN t : j <= i
      <4>1. \A i \in DOMAIN t : i \in Nat /\ (i \in DOMAIN s \/ i = Len(s) + 1)
        BY <3>1
      <4>2. \A j \in DOMAIN t : j <= Len(s) + 1
        BY <3>1
      <4>3. \A i \in DOMAIN s : t[i] = s[i]
        BY <3>1
      <4> QED  BY <4>1, <4>2, <4>3, <3>1
    <3> QED  BY <2>1, <2>2, <3>1, <3>2, <3>3
  <2>3. CASE w \notin writers
    BY <1>1, <2>1, <2>3, LenProperties
  <2> QED  BY <2>2, <2>3
<1> HIDE DEF h
<1>5. LogTypeOK'
  BY <1>1, <1>2, <1>4 DEF Inv, LogTypeOK
<1>6. Numbered'
  BY <1>1, <1>3, <1>4 DEF Inv, Numbered
<1>7. Sorted'
  <2>1. Rising(batch')
    BY <1>1, <1>2 DEF Inv, Sorted, Rising
  <2>2. \A m \in Range(batch'), n \in Range(messageQueue) : m < n
    BY <1>1, <1>2 DEF Inv, Sorted
  <2>3. ASSUME NEW w \in Writers, NEW m \in Range(written'[w]) \ fatal, NEW n \in Held'
        PROVE  m < n
    <3>1. m \in Range(written[w]) \/ m = h
      BY <1>4
    <3>2. n \in Held
      BY <1>3
    <3> QED  BY <3>1, <3>2, <1>3 DEF Inv, Sorted
  <2> QED  BY <1>1, <2>1, <2>2, <2>3 DEF Inv, Sorted, Rising
<1>8. HeldWhole'
  BY <1>1, <1>3 DEF Inv, HeldWhole
<1>9. BatchInHand' /\ NewWritersEmpty'
  BY <1>1, <1>4 DEF Inv, BatchInHand, NewWritersEmpty
<1>10. InOrder'
  <2> SUFFICES ASSUME NEW w \in Writers, NEW i \in DOMAIN written'[w],
                      NEW j \in DOMAIN written'[w], i < j,
                      written'[w][i] \notin fatal, written'[w][j] \notin fatal
               PROVE  written'[w][i] < written'[w][j]
    BY <1>1 DEF InOrder
  <2>1. i \in Nat /\ j \in Nat /\ ~(j <= i)
    BY <1>4
  <2>2. i \in DOMAIN written[w] /\ written'[w][i] = written[w][i]
    BY <1>4, <2>1
  <2>3. CASE j \in DOMAIN written[w] /\ written'[w][j] = written[w][j]
    BY <2>2, <2>3 DEF Inv, InOrder
  <2>4. CASE written'[w][j] = h
    BY <2>2, <2>4, <1>3 DEF Inv, Sorted, Range
  <2> QED  BY <1>4, <2>3, <2>4
<1>11. NothingLost'
  <2>1. \A w \in writers : Coming(w)' = Coming(w)
    BY <1>1, <1>2, <1>4 DEF Coming
  <2> QED  BY <2>1, <1>1 DEF Inv, NothingLost
<1> QED
  BY <1>5, <1>6, <1>7, <1>8, <1>9, <1>10, <1>11 DEF Inv

LEMMA AddLogWriterStep ==
  ASSUME Inv, NEW v \in Writers, AddLogWriter(v)
  PROVE  Inv'
<1>1. /\ writers' = writers \cup {v} /\ v \notin writers
      /\ UNCHANGED <<messageQueue, batch, written, running, owner, logged, fatal>>
      /\ thread' = IF thread = "none" THEN "loop" ELSE thread
  BY DEF AddLogWriter, messages
<1>2. LogTypeOK' /\ BatchInHand' /\ NewWritersEmpty'
  BY <1>1 DEF Inv, LogTypeOK, BatchInHand, NewWritersEmpty
<1>3. Numbered' /\ Sorted' /\ HeldWhole' /\ InOrder'
  BY <1>1 DEF Inv, Numbered, Sorted, Rising, HeldWhole, Held, InOrder
<1>4. Coming(v) = Held
  BY <1>1, EmptyRange DEF Inv, NewWritersEmpty, Coming, Held
<1>5. NothingLost'
  BY <1>1, <1>4 DEF Inv, NothingLost, HeldWhole, Coming
<1> QED  BY <1>2, <1>3, <1>5 DEF Inv

LEMMA NextInv == Inv /\ [LogNext]_logVars => Inv'
<1> SUFFICES ASSUME Inv, [LogNext]_logVars  PROVE Inv'
  OBVIOUS
<1> DEFINE Quiet == UNCHANGED <<messageQueue, batch, writers, written, logged, fatal>>
<1>1. CASE \E w \in Writers : AddLogWriter(w)
  BY <1>1, AddLogWriterStep
<1>2. CASE LogMsg
  BY <1>2, LogMsgStep
<1>3. CASE LogFatal
  BY <1>3, LogFatalStep
<1>4. CASE Flush \/ StopRunning \/ NotifyEnd \/ Join
  <2>1. Quiet /\ LogTypeOK' /\ BatchInHand'
    BY <1>4 DEF Inv, LogTypeOK, BatchInHand, Flush, StopRunning, NotifyEnd, Join,
                Notified, messages
  <2> QED  BY <2>1, QuietStep
<1>5. CASE Take
  BY <1>5, TakeStep
<1>6. CASE Write
  BY <1>6, WriteStep
<1>7. CASE Loop \/ Look \/ FallAsleep \/ WakeUp \/ BeginWriting \/ EndWriting
  <2>1. Quiet /\ LogTypeOK' /\ BatchInHand'
    BY <1>7 DEF Inv, LogTypeOK, BatchInHand, Loop, Look, FallAsleep, WakeUp,
                BeginWriting, EndWriting, messages
  <2> QED  BY <2>1, QuietStep
<1>8. CASE UNCHANGED logVars
  <2>1. Quiet /\ LogTypeOK' /\ BatchInHand'
    BY <1>8 DEF Inv, LogTypeOK, BatchInHand, logVars
  <2> QED  BY <2>1, QuietStep
<1> QED
  BY <1>1, <1>2, <1>3, <1>4, <1>5, <1>6, <1>7, <1>8 DEF LogNext, ThreadStep

--------------------------------------------------------------------------
(* Theorems *)

\* The inductive invariant: what the thread and the queue hold is in order,
\* whole, and newer than what has been written.
THEOREM InvHolds == LogSpec => []Inv
BY InitInv, NextInv, PTL DEF LogSpec

\* Every variable of the logger has its type in every reachable state.
THEOREM LogTypeCorrect == LogSpec => []LogTypeOK
<1>1. Inv => LogTypeOK
  BY DEF Inv
<1> QED  BY InvHolds, <1>1, PTL

\* Whatever threads log and whenever writers are added, each writer is given
\* the messages in the order in which they were logged, none of them twice.
THEOREM AlwaysInOrder == LogSpec => []InOrder
<1>1. Inv => InOrder
  BY DEF Inv
<1> QED  BY InvHolds, <1>1, PTL

\* Nothing that is logged after what a writer has been given is lost on its
\* way through the queue and the thread's batch.
THEOREM NothingEverLost == LogSpec => []NothingLost
<1>1. Inv => NothingLost
  BY DEF Inv
<1> QED  BY InvHolds, <1>1, PTL

--------------------------------------------------------------------------
(* The ring *)

USE RingAssumption

\* The runner arithmetic of Fill: what the first copy writes lies between the
\* producer and the snapshot of the consumer, and Advance keeps them ordered.
LEMMA FirstWriteFits ==
    ASSUME NEW lsr \in Runner, NEW lcr \in Runner, NEW length \in Nat, Ordered(lcr, lsr)
    PROVE  LET n == FirstWrite(lsr, lcr, length)
               own == Advance(lsr, n)
           IN /\ n \in Nat /\ n <= length
              /\ lsr.offset + n <= Size
              /\ own \in Runner
              /\ Ordered(lcr, own)
              /\ Between(lcr, own) = Between(lcr, lsr) + n
              /\ n < length => own.round # lcr.round
  BY DEF FirstWrite, Advance, Runner, Cells, Ordered, Between, Smaller

\* Likewise for the second copy of Fill.
LEMMA SecondWriteFits ==
    ASSUME NEW lsr \in Runner, NEW lcr \in Runner, NEW rest \in Nat, Ordered(lcr, lsr)
    PROVE  LET n == SecondWrite(lsr, lcr, rest)
               own == Forward(lsr, n)
           IN /\ n \in Nat /\ n <= rest
              /\ own \in Runner
              /\ Ordered(lcr, own)
              /\ Between(lcr, own) = Between(lcr, lsr) + n
              /\ n < rest /\ lsr.round # lcr.round => own.offset = lcr.offset
  BY DEF SecondWrite, Forward, Runner, Cells, Ordered, Between, Smaller

\* The runner arithmetic of Consume: the first copy reads what the snapshot of
\* the producer offers, up to the end of the buffer.
LEMMA FirstReadFits ==
    ASSUME NEW lcr \in Runner, NEW lsr \in Runner, NEW length \in Nat, Ordered(lcr, lsr)
    PROVE  LET n == FirstRead(lcr, lsr, length)
               own == Advance(lcr, n)
           IN /\ n \in Nat /\ n <= length
              /\ lcr.offset + n <= Size
              /\ own \in Runner
              /\ Ordered(own, lsr)
              /\ Between(own, lsr) = Between(lcr, lsr) - n
              /\ n < length => own.round = lsr.round
  BY DEF FirstRead, Advance, Runner, Cells, Ordered, Between, Smaller

\* Likewise for the second copy of Consume.
LEMMA SecondReadFits ==
    ASSUME NEW lcr \in Runner, NEW lsr \in Runner, NEW rest \in Nat, Ordered(lcr, lsr)
    PROVE  LET n == SecondRead(lcr, lsr, rest)
               own == Forward(lcr, n)
           IN /\ n \in Nat /\ n <= rest
              /\ own \in Runner
              /\ Ordered(own, lsr)
              /\ Between(own, lsr) = Between(lcr, lsr) - n
              /\ n < rest /\ lsr.round = lcr.round => own.offset = lsr.offset
  BY DEF SecondRead, Forward, Runner, Cells, Ordered, Between, Smaller

\* Neither copy of Consume reads past the filler.
LEMMA ReadsFit ==
    ASSUME NEW lcr \in Runner, NEW lsr \in Runner, NEW length \in Nat, Ordered(lcr, lsr)
    PROVE  /\ FirstRead(lcr, lsr, length) \in Nat
           /\ FirstRead(lcr, lsr, length) <= Between(lcr, lsr)
           /\ SecondRead(lcr, lsr, length) \in Nat
           /\ SecondRead(lcr, lsr, length) <= Between(lcr, lsr)
  <1>1. /\ FirstRead(lcr, lsr, length) \in Nat
        /\ FirstRead(lcr, lsr, length) <= Between(lcr, lsr)
    BY DEF FirstRead, Runner, Cells, Ordered, Between, Smaller
  <1>2. /\ SecondRead(lcr, lsr, length) \in Nat
        /\ SecondRead(lcr, lsr, length) <= Between(lcr, lsr)
    BY DEF SecondRead, Runner, Cells, Ordered, Between, Smaller
  <1> QED BY <1>1, <1>2

\* The number of samples between two runners in order is a natural number
\* that never exceeds the size of the buffer.
LEMMA BetweenBounds ==
    ASSUME NEW lcr \in Runner, NEW lsr \in Runner, Ordered(lcr, lsr)
    PROVE  Between(lcr, lsr) \in 0 .. Size
  BY DEF Runner, Cells, Ordered, Between

\* std::copy into the buffer changes the cells it is given and no other.
LEMMA WrittenCells ==
    ASSUME NEW dst \in [Cells -> Nat], NEW at \in Nat, NEW n \in Nat, NEW value \in Nat
    PROVE  /\ Written(dst, at, n, value) \in [Cells -> Nat]
           /\ \A i \in Cells : at <= i /\ i < at + n => Written(dst, at, n, value)[i] = value + (i - at)
           /\ \A i \in Cells : i < at \/ at + n <= i => Written(dst, at, n, value)[i] = dst[i]
  BY DEF Written, Cells

\* Sequences given by their elements.
LEMMA Counted ==
    ASSUME NEW n \in Nat, NEW t \in Nat
    PROVE  /\ [i \in 1 .. n |-> t + i] \in Seq(Nat)
           /\ Len([i \in 1 .. n |-> t + i]) = n
           /\ \A i \in 1 .. n : [j \in 1 .. n |-> t + j][i] = t + i
  OBVIOUS

\* What a copy out of the buffer yields is a sequence of samples.
LEMMA BatchType ==
    ASSUME NEW cells \in [Cells -> Nat], buffer = cells,
           NEW n \in Nat, NEW offset \in Nat, offset + n <= Size
    PROVE  /\ Batch(n, offset) \in Seq(Nat)
           /\ Len(Batch(n, offset)) = n
           /\ \A i \in 1 .. n : Batch(n, offset)[i] = buffer[offset + (i - 1)]
  <1>1. \A i \in 1 .. n : buffer[offset + (i - 1)] \in Nat
    BY DEF Cells
  <1> QED BY <1>1 DEF Batch

-----------------------------------------------------------------------------
(* The arithmetic part of the inductive invariant: everything but the cells. *)
ArithInv == RingTypeOK /\ RunnerInv /\ FillInv /\ ConsumeInv

LEMMA IdleType == Idle \in Call(RingPhases) /\ Start \in Runner
  BY DEF Idle, Call, RingPhases, Start, Runner, Cells

LEMMA ArithInit == RingInit => ArithInv
  BY DEF RingInit, ArithInv, RingTypeOK, RunnerInv, FillInv, ConsumeInv, Runner, Cells, Start,
         Idle, Call, RingPhases, Unset, Used, Between, Ordered, NoMemory

LEMMA ArithFillBegin ==
    ASSUME ArithInv, NEW length \in Lengths, FillBegin(length)
    PROVE  ArithInv'
  <1>1. RingTypeOK'
    BY DEF ArithInv, RingTypeOK, FillBegin, Call, RingPhases
  <1>2. RunnerInv' /\ ConsumeInv'
    BY DEF ArithInv, RunnerInv, ConsumeInv, FillBegin, Used
  <1>3. length \in Nat /\ Used \in Nat
    BY BetweenBounds DEF ArithInv, RingTypeOK, RunnerInv, Used
  <1>4. FillInv'
    BY <1>3 DEF ArithInv, RingTypeOK, RunnerInv, FillInv, FillBegin, Used
  <1> QED BY <1>1, <1>2, <1>4 DEF ArithInv

LEMMA ArithFillFirst ==
    ASSUME ArithInv, FillFirst
    PROVE  ArithInv'
  <1> DEFINE n == FirstWrite(fill.own, fill.other, fill.length)
             own == Advance(fill.own, n)
  <1>1. /\ fill.own \in Runner /\ fill.other \in Runner /\ fill.length \in Nat
        /\ Ordered(fill.other, fill.own)
    BY DEF ArithInv, RingTypeOK, FillInv, FillFirst, Call
  <1>2. /\ n \in Nat /\ n <= fill.length
        /\ fill.own.offset + n <= Size
        /\ own \in Runner
        /\ Ordered(fill.other, own)
        /\ Between(fill.other, own) = Between(fill.other, fill.own) + n
        /\ n < fill.length => own.round # fill.other.round
    BY <1>1, FirstWriteFits
  <1> HIDE DEF n, own
  <1>3. fill' = Progress(fill, "second", n, own)
    BY DEF FillFirst, n, own
  <1>4. RingTypeOK'
    <2>1. buffer' \in [Cells -> Nat]
      <3>1. buffer' = Written(buffer, fill.own.offset, n, supplied + 1)
        BY DEF FillFirst, n
      <3>2. fill.own.offset \in Nat
        BY <1>1 DEF Runner, Cells
      <3>3. buffer \in [Cells -> Nat] /\ supplied + 1 \in Nat
        BY DEF ArithInv, RingTypeOK
      <3> QED BY <1>2, <3>1, <3>2, <3>3, WrittenCells
    <2>2. fill' \in Call(RingPhases)
      BY <1>1, <1>2, <1>3 DEF ArithInv, RingTypeOK, FillInv, FillFirst, Call, RingPhases, Progress
    <2> QED BY <2>1, <2>2 DEF ArithInv, RingTypeOK, FillFirst
  <1>5. RunnerInv' /\ ConsumeInv'
    BY DEF ArithInv, RunnerInv, ConsumeInv, FillFirst, Used
  <1>6. FillInv'
    BY <1>1, <1>2, <1>3 DEF ArithInv, RingTypeOK, FillInv, FillFirst, Used, Call, Progress
  <1> QED BY <1>4, <1>5, <1>6 DEF ArithInv

LEMMA ArithFillSecond ==
    ASSUME ArithInv, FillSecond
    PROVE  ArithInv'
  <1> DEFINE n == SecondWrite(fill.own, fill.other, fill.length - fill.done)
             own == Forward(fill.own, n)
  <1>1. /\ fill.own \in Runner /\ fill.other \in Runner
        /\ fill.length \in Nat /\ fill.done \in Nat /\ fill.length - fill.done \in Nat
        /\ Ordered(fill.other, fill.own)
    BY DEF ArithInv, RingTypeOK, FillInv, FillSecond, Call
  <1>2. /\ n \in Nat /\ n <= fill.length - fill.done
        /\ own \in Runner
        /\ Ordered(fill.other, own)
        /\ Between(fill.other, own) = Between(fill.other, fill.own) + n
    BY <1>1, SecondWriteFits
  <1> HIDE DEF n, own
  <1>3. fill' = Progress(fill, "publish", n, own)
    BY DEF FillSecond, n, own
  <1>4. RingTypeOK'
    <2>1. buffer' \in [Cells -> Nat]
      <3>1. buffer' = Written(buffer, fill.own.offset, n, supplied + fill.done + 1)
        BY DEF FillSecond, n
      <3>2. fill.own.offset \in Nat
        BY <1>1 DEF Runner, Cells
      <3>3. buffer \in [Cells -> Nat] /\ supplied + fill.done + 1 \in Nat
        BY <1>1 DEF ArithInv, RingTypeOK
      <3> QED BY <1>2, <3>1, <3>2, <3>3, WrittenCells
    <2>2. fill' \in Call(RingPhases)
      BY <1>1, <1>2, <1>3 DEF ArithInv, RingTypeOK, Call, RingPhases, Progress
    <2> QED BY <2>1, <2>2 DEF ArithInv, RingTypeOK, FillSecond
  <1>5. RunnerInv' /\ ConsumeInv'
    BY DEF ArithInv, RunnerInv, ConsumeInv, FillSecond, Used
  <1>6. Between(fill.other, supplyRunner) \in Nat /\ Between(fill.other, fill.own) \in Nat
    BY <1>1, BetweenBounds DEF ArithInv, RingTypeOK, FillInv, FillSecond
  <1>7. FillInv'
    BY <1>1, <1>2, <1>3, <1>6 DEF ArithInv, RingTypeOK, FillInv, FillSecond, Used, Call, Progress
  <1> QED BY <1>4, <1>5, <1>7 DEF ArithInv

LEMMA ArithFillPublish ==
    ASSUME ArithInv, FillPublish
    PROVE  ArithInv'
  <1>1. /\ fill.own \in Runner /\ fill.other \in Runner
        /\ consumeRunner \in Runner /\ supplyRunner \in Runner
        /\ fill.done \in Nat /\ fill.length \in Nat
        /\ supplied \in Nat /\ taken \in Nat
    BY DEF ArithInv, RingTypeOK, Call
  <1>2. /\ Ordered(consumeRunner, supplyRunner)
        /\ Ordered(fill.other, supplyRunner)
        /\ Between(consumeRunner, supplyRunner) <= Between(fill.other, supplyRunner)
        /\ Ordered(fill.other, fill.own)
        /\ Between(fill.other, fill.own) = Between(fill.other, supplyRunner) + fill.done
    BY DEF ArithInv, RunnerInv, FillInv, FillPublish, Used
  \* The consumer has only moved on since the snapshot, so what was free then
  \* is free now.
  <1>3. /\ Ordered(consumeRunner, fill.own)
        /\ Between(consumeRunner, fill.own) = Between(consumeRunner, supplyRunner) + fill.done
    BY <1>1, <1>2 DEF Runner, Cells, Ordered, Between
  <1>4. RingTypeOK'
    BY <1>1, IdleType DEF ArithInv, RingTypeOK, FillPublish
  <1>5. RunnerInv'
    BY <1>1, <1>3, BetweenBounds DEF ArithInv, RunnerInv, FillPublish, Used
  <1>6. FillInv'
    BY DEF FillInv, FillPublish, Idle
  <1>7. Between(consumeRunner, supplyRunner) \in Nat
    BY <1>1, <1>2, BetweenBounds
  <1>8. consume.pc # "idle" =>
            Between(consumeRunner, consume.other) \in Nat
    BY BetweenBounds DEF ArithInv, RingTypeOK, ConsumeInv, Call
  <1>9. ConsumeInv'
    BY <1>1, <1>3, <1>7, <1>8 DEF ArithInv, ConsumeInv, FillPublish, Used
  <1> QED BY <1>4, <1>5, <1>6, <1>9 DEF ArithInv

LEMMA ArithConsumeBegin ==
    ASSUME ArithInv, NEW length \in Lengths, ConsumeBegin(length)
    PROVE  ArithInv'
  <1>1. length \in Nat /\ Used \in Nat
    BY BetweenBounds DEF ArithInv, RingTypeOK, RunnerInv, Used
  <1>2. RingTypeOK'
    BY <1>1 DEF ArithInv, RingTypeOK, ConsumeBegin, Call, RingPhases
  <1>3. RunnerInv' /\ FillInv'
    BY DEF ArithInv, RunnerInv, FillInv, ConsumeBegin, Used
  <1>4. ConsumeInv'
    BY <1>1 DEF ArithInv, RingTypeOK, RunnerInv, ConsumeInv, ConsumeBegin, Used
  <1> QED BY <1>2, <1>3, <1>4 DEF ArithInv

LEMMA ArithConsumeFirst ==
    ASSUME ArithInv, ConsumeFirst
    PROVE  ArithInv'
  <1> DEFINE n == FirstRead(consume.own, consume.other, consume.length)
             own == Advance(consume.own, n)
  <1>1. /\ consume.own \in Runner /\ consume.other \in Runner /\ consume.length \in Nat
        /\ Ordered(consume.own, consume.other)
    BY DEF ArithInv, RingTypeOK, ConsumeInv, ConsumeFirst, Call
  <1>2. /\ n \in Nat /\ n <= consume.length
        /\ consume.own.offset + n <= Size
        /\ own \in Runner
        /\ Ordered(own, consume.other)
        /\ Between(own, consume.other) = Between(consume.own, consume.other) - n
        /\ n < consume.length => own.round = consume.other.round
    BY <1>1, FirstReadFits
  <1> HIDE DEF n, own
  <1>3. /\ consume' = Progress(consume, "second", n, own)
        /\ copied' = copied \o Batch(n, consume.own.offset)
    BY DEF ConsumeFirst, n, own
  <1>7. copied' \in Seq(Nat)
    <2>1. /\ buffer \in [Cells -> Nat] /\ copied \in Seq(Nat)
          /\ consume.own.offset \in Nat
      BY <1>1 DEF ArithInv, RingTypeOK, Runner, Cells
    <2>2. Batch(n, consume.own.offset) \in Seq(Nat)
      BY <1>2, <2>1, BatchType
    <2> QED BY <1>3, <2>1, <2>2, ConcatProperties
  <1>4. RingTypeOK'
    BY <1>1, <1>2, <1>3, <1>7 DEF ArithInv, RingTypeOK, ConsumeInv, ConsumeFirst, Call, RingPhases, Progress, ReadInto
  <1>5. RunnerInv' /\ FillInv'
    BY DEF ArithInv, RunnerInv, FillInv, ConsumeFirst, Used
  <1>6. ConsumeInv'
    BY <1>1, <1>2, <1>3 DEF ArithInv, RingTypeOK, ConsumeInv, ConsumeFirst, Used, Call, Progress
  <1> QED BY <1>4, <1>5, <1>6 DEF ArithInv

LEMMA ArithConsumeSecond ==
    ASSUME ArithInv, ConsumeSecond
    PROVE  ArithInv'
  <1> DEFINE n == SecondRead(consume.own, consume.other, consume.length - consume.done)
             own == Forward(consume.own, n)
  <1>1. /\ consume.own \in Runner /\ consume.other \in Runner
        /\ consume.length \in Nat /\ consume.done \in Nat /\ consume.length - consume.done \in Nat
        /\ Ordered(consume.own, consume.other)
    BY DEF ArithInv, RingTypeOK, ConsumeInv, ConsumeSecond, Call
  <1>2. /\ n \in Nat /\ n <= consume.length - consume.done
        /\ own \in Runner
        /\ Ordered(own, consume.other)
        /\ Between(own, consume.other) = Between(consume.own, consume.other) - n
    BY <1>1, SecondReadFits
  <1>8. consume.own.offset + n <= Size
    BY <1>1, <1>2 DEF Forward, Runner, Cells
  <1> HIDE DEF n, own
  <1>3. /\ consume' = Progress(consume, "publish", n, own)
        /\ copied' = copied \o Batch(n, consume.own.offset)
    BY DEF ConsumeSecond, n, own
  <1>9. copied' \in Seq(Nat)
    <2>1. /\ buffer \in [Cells -> Nat] /\ copied \in Seq(Nat)
          /\ consume.own.offset \in Nat
      BY <1>1 DEF ArithInv, RingTypeOK, Runner, Cells
    <2>2. Batch(n, consume.own.offset) \in Seq(Nat)
      BY <1>2, <1>8, <2>1, BatchType
    <2> QED BY <1>3, <2>1, <2>2, ConcatProperties
  <1>4. RingTypeOK'
    BY <1>1, <1>2, <1>3, <1>9 DEF ArithInv, RingTypeOK, ConsumeSecond, Call, RingPhases, Progress, ReadInto
  <1>5. RunnerInv' /\ FillInv'
    BY DEF ArithInv, RunnerInv, FillInv, ConsumeSecond, Used
  <1>6. Between(consumeRunner, consume.other) \in Nat /\ Between(consume.own, consume.other) \in Nat
    BY <1>1, BetweenBounds DEF ArithInv, RingTypeOK, ConsumeInv, ConsumeSecond
  <1>7. ConsumeInv'
    BY <1>1, <1>2, <1>3, <1>6 DEF ArithInv, RingTypeOK, ConsumeInv, ConsumeSecond, Used, Call, Progress
  <1> QED BY <1>4, <1>5, <1>7 DEF ArithInv

LEMMA ArithConsumePublish ==
    ASSUME ArithInv, ConsumePublish
    PROVE  ArithInv'
  <1>1. /\ consume.own \in Runner /\ consume.other \in Runner
        /\ consumeRunner \in Runner /\ supplyRunner \in Runner
        /\ consume.done \in Nat
        /\ supplied \in Nat /\ taken \in Nat
        /\ fill.pc # "idle" => fill.other \in Runner /\ Ordered(fill.other, supplyRunner)
    BY DEF ArithInv, RingTypeOK, Call, FillInv
  <1>2. /\ Ordered(consumeRunner, supplyRunner)
        /\ Ordered(consumeRunner, consume.other)
        /\ Between(consumeRunner, consume.other) <= Between(consumeRunner, supplyRunner)
        /\ Ordered(consume.own, consume.other)
        /\ Between(consume.own, consume.other) = Between(consumeRunner, consume.other) - consume.done
    BY DEF ArithInv, RunnerInv, ConsumeInv, ConsumePublish, Used
  \* The producer has only moved on since the snapshot, so what was unread
  \* then is unread now.
  <1>3. /\ Ordered(consume.own, supplyRunner)
        /\ Between(consume.own, supplyRunner) = Between(consumeRunner, supplyRunner) - consume.done
    BY <1>1, <1>2 DEF Runner, Cells, Ordered, Between
  <1>4. RingTypeOK'
    BY <1>1, IdleType DEF ArithInv, RingTypeOK, ConsumePublish, NoMemory
  <1>5. Between(consumeRunner, supplyRunner) \in Nat
    BY <1>1, <1>2, BetweenBounds
  <1>6. RunnerInv'
    BY <1>1, <1>3, <1>5 DEF ArithInv, RunnerInv, ConsumePublish, Used
  <1>7. ConsumeInv'
    BY DEF ConsumeInv, ConsumePublish, Idle
  <1>8. fill.pc # "idle" => Between(fill.other, supplyRunner) \in Nat
    BY <1>1, BetweenBounds
  <1>9. FillInv'
    BY <1>1, <1>3, <1>5, <1>8 DEF ArithInv, FillInv, ConsumePublish, Used
  <1> QED BY <1>4, <1>6, <1>7, <1>9 DEF ArithInv

LEMMA ArithReset ==
    ASSUME ArithInv, Reset
    PROVE  ArithInv'
  <1>1. RingTypeOK'
    BY DEF ArithInv, RingTypeOK, Reset, Start, Runner, Cells
  <1>2. RunnerInv'
    BY DEF ArithInv, RingTypeOK, Reset, RunnerInv, Start, Ordered, Used, Between
  <1>3. FillInv' /\ ConsumeInv'
    BY DEF ArithInv, Reset, FillInv, ConsumeInv
  <1> QED BY <1>1, <1>2, <1>3 DEF ArithInv

LEMMA ArithStep == ArithInv /\ [RingNext]_ringVars => ArithInv'
  <1> SUFFICES ASSUME ArithInv, [RingNext]_ringVars PROVE ArithInv'
    OBVIOUS
  <1>1. CASE Fill
    BY <1>1, ArithFillBegin, ArithFillFirst, ArithFillSecond, ArithFillPublish DEF Fill
  <1>2. CASE Consume
    BY <1>2, ArithConsumeBegin, ArithConsumeFirst, ArithConsumeSecond, ArithConsumePublish DEF Consume
  <1>3. CASE Reset
    BY <1>3, ArithReset
  <1>4. CASE UNCHANGED ringVars
    BY <1>4 DEF ringVars, ArithInv, RingTypeOK, RunnerInv, FillInv, ConsumeInv, Used
  <1> QED BY <1>1, <1>2, <1>3, <1>4 DEF RingNext

\* Type correctness: for every size of the buffer, neither runner nor a local
\* copy of one ever leaves it.
THEOREM RingTypeCorrect == RingSpec => []RingTypeOK
  <1>1. ArithInv => RingTypeOK
    BY DEF ArithInv
  <1> QED BY <1>1, ArithInit, ArithStep, PTL DEF RingSpec

\* The consumer never overtakes the producer and is never lapped by it, for
\* every size, every set of lengths and every interleaving of the two calls.
THEOREM RunnersAlwaysAgree == RingSpec => []RunnersAgree
  <1>1. ArithInv => RunnersAgree
    BY BetweenBounds DEF ArithInv, RingTypeOK, RunnerInv, RunnersAgree, Used
  <1> QED BY <1>1, ArithInit, ArithStep, PTL DEF RingSpec

-----------------------------------------------------------------------------
(* The cells. *)

\* A Fill counts its free room from a snapshot of the consumer, which may have
\* moved on: its own runner is as far ahead of the consumer as it believes.
LEMMA SnapshotIsEarly ==
    ASSUME ArithInv, fill.pc # "idle"
    PROVE  /\ fill.own \in Runner /\ fill.done \in Nat /\ fill.length - fill.done \in Nat
           /\ fill.other \in Runner /\ consumeRunner \in Runner
           /\ Used \in Nat
           /\ Ordered(fill.other, fill.own)
           /\ Ordered(consumeRunner, fill.own)
           /\ Between(consumeRunner, fill.own) = Used + fill.done
           /\ Between(consumeRunner, fill.own) <= Between(fill.other, fill.own)
  <1>1. /\ fill.own \in Runner /\ fill.other \in Runner
        /\ consumeRunner \in Runner /\ supplyRunner \in Runner
        /\ fill.done \in Nat /\ fill.length - fill.done \in Nat
    BY DEF ArithInv, RingTypeOK, Call, FillInv
  <1>2. /\ Ordered(consumeRunner, supplyRunner)
        /\ Ordered(fill.other, supplyRunner)
        /\ Between(consumeRunner, supplyRunner) <= Between(fill.other, supplyRunner)
        /\ Ordered(fill.other, fill.own)
        /\ Between(fill.other, fill.own) = Between(fill.other, supplyRunner) + fill.done
    BY DEF ArithInv, RunnerInv, FillInv, Used
  <1> QED BY <1>1, <1>2, BetweenBounds DEF Runner, Cells, Ordered, Between, Used

\* Copying n samples in the free room behind a producer at own leaves alone the
\* cells between the consumer and own, and extends them by n.
LEMMA CopyExtends ==
    ASSUME NEW lcr \in Runner, NEW own \in Runner, Ordered(lcr, own),
           NEW n \in Nat, own.offset + n <= Size, Between(lcr, own) + n <= Size,
           NEW k \in 0 .. Between(lcr, own) + n - 1
    PROVE  LET c == Cell(lcr.offset + k)
           IN  /\ c \in Cells
               /\ k < Between(lcr, own) => c < own.offset \/ own.offset + n <= c
               /\ k >= Between(lcr, own) => c = own.offset + (k - Between(lcr, own))
  BY DEF Runner, Cells, Ordered, Between, Cell

\* The two copies of Fill, at once: n samples written from the own runner on.
LEMMA CopyKeepsWritten ==
    ASSUME ArithInv, WrittenIntact, fill.pc # "idle", NEW n \in Nat,
           fill.own.offset + n <= Size,
           Between(fill.other, fill.own) + n <= Size,
           buffer' = Written(buffer, fill.own.offset, n, supplied + fill.done + 1),
           fill'.done = fill.done + n,
           UNCHANGED <<consumeRunner, supplyRunner, supplied, taken>>
    PROVE  WrittenIntact'
  <1>1. /\ fill.own \in Runner /\ fill.done \in Nat /\ consumeRunner \in Runner
        /\ Used \in Nat /\ supplied \in Nat /\ taken \in Nat
        /\ Ordered(consumeRunner, fill.own)
        /\ Between(consumeRunner, fill.own) = Used + fill.done
        /\ Used = supplied - taken
    BY SnapshotIsEarly DEF ArithInv, RingTypeOK, RunnerInv
  <1>2. Between(consumeRunner, fill.own) + n <= Size
    BY <1>1, SnapshotIsEarly, BetweenBounds
  <1>3. /\ \A i \in Cells : fill.own.offset <= i /\ i < fill.own.offset + n
                            => buffer'[i] = supplied + fill.done + 1 + (i - fill.own.offset)
        /\ \A i \in Cells : i < fill.own.offset \/ fill.own.offset + n <= i => buffer'[i] = buffer[i]
        /\ fill.own.offset \in Nat
    <2>1. buffer \in [Cells -> Nat]
      BY DEF ArithInv, RingTypeOK
    <2>2. fill.own.offset \in Nat
      BY <1>1 DEF Runner, Cells
    <2>3. supplied + fill.done + 1 \in Nat
      BY <1>1
    <2>4. \A i \in Cells : buffer'[i] = IF fill.own.offset <= i /\ i < fill.own.offset + n
                                        THEN supplied + fill.done + 1 + (i - fill.own.offset)
                                        ELSE buffer[i]
      BY <2>1 DEF Written
    <2> QED BY <2>2, <2>4 DEF Cells
  <1>4. Used' = Used
    BY DEF Used
  <1> SUFFICES ASSUME NEW k \in 0 .. Used + (fill.done + n) - 1
               PROVE  buffer'[Cell(consumeRunner.offset + k)] = taken + k + 1
    BY <1>4 DEF WrittenIntact
  <1> DEFINE c == Cell(consumeRunner.offset + k)
  <1>5. /\ c \in Cells
        /\ k < Used + fill.done => c < fill.own.offset \/ fill.own.offset + n <= c
        /\ k >= Used + fill.done => c = fill.own.offset + (k - (Used + fill.done))
    BY <1>1, <1>2, CopyExtends
  <1> HIDE DEF c
  <1>6. CASE k < Used + fill.done
    <2>1. buffer'[c] = buffer[c]
      BY <1>3, <1>5, <1>6
    <2>2. buffer[c] = taken + k + 1
      BY <1>1, <1>6 DEF WrittenIntact, c
    <2> QED BY <2>1, <2>2 DEF c
  <1>7. CASE k >= Used + fill.done
    <2>1. fill.own.offset <= c /\ c < fill.own.offset + n
      BY <1>1, <1>3, <1>5, <1>7
    <2>2. buffer'[c] = supplied + fill.done + 1 + (c - fill.own.offset)
      BY <1>3, <1>5, <2>1
    <2>3. buffer'[c] = taken + k + 1
      BY <1>1, <1>3, <1>5, <1>7, <2>2
    <2> QED BY <2>3 DEF c
  <1> QED BY <1>1, <1>6, <1>7

LEMMA CellsStep == ArithInv /\ WrittenIntact /\ [RingNext]_ringVars => WrittenIntact'
  <1> SUFFICES ASSUME ArithInv, WrittenIntact, [RingNext]_ringVars PROVE WrittenIntact'
    OBVIOUS
  <1>1. ASSUME NEW length \in Lengths, FillBegin(length) PROVE WrittenIntact'
    BY <1>1 DEF FillBegin, WrittenIntact, Used, ArithInv, FillInv
  <1>2. CASE FillFirst
    <2> DEFINE n == FirstWrite(fill.own, fill.other, fill.length)
    <2>1. /\ fill.pc = "first" /\ fill.done = 0
          /\ fill.own \in Runner /\ fill.other \in Runner /\ fill.length \in Nat
          /\ Ordered(fill.other, fill.own)
      BY <1>2, SnapshotIsEarly DEF ArithInv, RingTypeOK, FillInv, FillFirst, Call
    <2>2. /\ n \in Nat /\ fill.own.offset + n <= Size
          /\ Between(fill.other, fill.own) + n <= Size
      <3>1. /\ n \in Nat /\ fill.own.offset + n <= Size
            /\ Advance(fill.own, n) \in Runner
            /\ Ordered(fill.other, Advance(fill.own, n))
            /\ Between(fill.other, Advance(fill.own, n)) = Between(fill.other, fill.own) + n
        BY <2>1, FirstWriteFits
      <3> QED BY <2>1, <3>1, BetweenBounds
    <2>3. /\ buffer' = Written(buffer, fill.own.offset, n, supplied + fill.done + 1)
          /\ fill'.done = fill.done + n
          /\ UNCHANGED <<consumeRunner, supplyRunner, supplied, taken>>
      BY <1>2, <2>1 DEF FillFirst, Progress, ArithInv, RingTypeOK
    <2> HIDE DEF n
    <2> QED BY <2>1, <2>2, <2>3, CopyKeepsWritten
  <1>3. CASE FillSecond
    <2> DEFINE n == SecondWrite(fill.own, fill.other, fill.length - fill.done)
    <2>1. /\ fill.pc = "second" /\ fill.done \in Nat /\ fill.length - fill.done \in Nat
          /\ fill.own \in Runner /\ fill.other \in Runner
          /\ Ordered(fill.other, fill.own)
      BY <1>3, SnapshotIsEarly DEF FillSecond
    <2>2. /\ n \in Nat /\ fill.own.offset + n <= Size
          /\ Between(fill.other, fill.own) + n <= Size
      <3>1. /\ n \in Nat
            /\ Forward(fill.own, n) \in Runner
            /\ Ordered(fill.other, Forward(fill.own, n))
            /\ Between(fill.other, Forward(fill.own, n)) = Between(fill.other, fill.own) + n
        BY <2>1, SecondWriteFits
      <3>2. fill.own.offset + n <= Size
        BY <3>1 DEF Forward, Runner, Cells
      <3> QED BY <2>1, <3>1, <3>2, BetweenBounds
    <2>3. /\ buffer' = Written(buffer, fill.own.offset, n, supplied + fill.done + 1)
          /\ fill'.done = fill.done + n
          /\ UNCHANGED <<consumeRunner, supplyRunner, supplied, taken>>
      BY <1>3 DEF FillSecond, Progress
    <2> HIDE DEF n
    <2> QED BY <2>1, <2>2, <2>3, CopyKeepsWritten
  <1>4. CASE FillPublish
    <2>1. /\ Used \in Nat /\ fill.done \in Nat
          /\ Between(consumeRunner, fill.own) = Used + fill.done
      BY <1>4, SnapshotIsEarly DEF FillPublish
    <2>2. /\ Used' + fill'.done = Used + fill.done
          /\ Used' \in Nat /\ fill'.done \in Nat
      BY <1>4, <2>1 DEF FillPublish, Used, Idle
    <2>3. UNCHANGED <<buffer, consumeRunner, taken>>
      BY <1>4 DEF FillPublish
    <2> QED BY <2>1, <2>2, <2>3 DEF WrittenIntact
  <1>5. ASSUME NEW length \in Lengths, ConsumeBegin(length) PROVE WrittenIntact'
    BY <1>5 DEF ConsumeBegin, WrittenIntact, Used
  <1>6. CASE ConsumeFirst
    BY <1>6 DEF ConsumeFirst, WrittenIntact, Used
  <1>7. CASE ConsumeSecond
    BY <1>7 DEF ConsumeSecond, WrittenIntact, Used
  <1>8. CASE ConsumePublish
    <2>1. /\ consume.own \in Runner /\ consume.other \in Runner
          /\ consumeRunner \in Runner /\ supplyRunner \in Runner
          /\ consume.done \in Nat /\ taken \in Nat /\ fill.done \in Nat
          /\ Ordered(consumeRunner, supplyRunner)
          /\ Ordered(consumeRunner, consume.other)
          /\ Between(consumeRunner, consume.other) <= Used
          /\ Ordered(consume.own, consume.other)
          /\ Between(consume.own, consume.other) = Between(consumeRunner, consume.other) - consume.done
      BY <1>8 DEF ArithInv, RingTypeOK, Call, RunnerInv, ConsumeInv, ConsumePublish
    <2>9. consumeRunner' = consume.own /\ supplyRunner' = supplyRunner
      BY <1>8 DEF ConsumePublish
    <2>2. Used' = Used - consume.done /\ Used \in 0 .. Size
      BY <2>1, <2>9 DEF Used, Runner, Cells, Ordered, Between
    <2>3. consume.own.offset = Cell(consumeRunner.offset + consume.done) /\ consume.done <= Size
      BY <2>1 DEF Runner, Cells, Ordered, Between, Used, Cell
    <2>4. Used + fill.done <= Size
      <3>1. CASE fill.pc = "idle"
        BY <2>2, <3>1 DEF ArithInv, FillInv
      <3>2. CASE fill.pc # "idle"
        BY <3>2, SnapshotIsEarly, BetweenBounds
      <3> QED BY <3>1, <3>2
    <2>5. SUFFICES ASSUME NEW k \in 0 .. (Used - consume.done) + fill.done - 1
                   PROVE  buffer[Cell(consume.own.offset + k)] = taken + consume.done + k + 1
      BY <1>8, <2>2 DEF ConsumePublish, WrittenIntact
    <2>6. Cell(consume.own.offset + k) = Cell(consumeRunner.offset + (consume.done + k))
      BY <2>1, <2>2, <2>3, <2>4 DEF Cell, Runner, Cells
    <2>7. consume.done + k \in 0 .. Used + fill.done - 1
      BY <2>1, <2>2
    <2>8. buffer[Cell(consumeRunner.offset + (consume.done + k))] = taken + (consume.done + k) + 1
      BY <2>7 DEF WrittenIntact
    <2> QED BY <2>1, <2>6, <2>8
  <1>9. CASE Reset
    <2>1. Used' = 0 /\ fill'.done = 0
      BY <1>9 DEF Reset, Start, Used, Between, ArithInv, FillInv
    <2> QED BY <2>1 DEF WrittenIntact
  <1>10. CASE UNCHANGED ringVars
    BY <1>10 DEF ringVars, WrittenIntact, Used
  <1> QED BY <1>1, <1>2, <1>3, <1>4, <1>5, <1>6, <1>7, <1>8, <1>9, <1>10 DEF RingNext, Fill, Consume

LEMMA Inductive == RingSpec => [](ArithInv /\ WrittenIntact)
  <1>1. RingInit => WrittenIntact
    BY DEF RingInit, WrittenIntact, Used, Between, Start, Idle
  <1> QED BY <1>1, ArithInit, ArithStep, CellsStep, PTL DEF RingSpec

\* No sample is overwritten before it is read, lost or read out of its place:
\* for every size, the unread cells hold the next samples of the stream.
THEOREM UnreadAlwaysIntact == RingSpec => []UnreadIntact
  <1>1. ArithInv /\ WrittenIntact => UnreadIntact
    BY BetweenBounds DEF ArithInv, RingTypeOK, Call, RunnerInv, WrittenIntact, UnreadIntact, Used
  <1> QED BY <1>1, Inductive, PTL

-----------------------------------------------------------------------------
(* The unlocked copies. *)

\* The cells the next copy of Consume reads are unread cells.
LEMMA ReadsAreUnread ==
    ASSUME ArithInv, NEW c \in ReadCells
    PROVE  \E k \in 0 .. Used - 1 : c = Cell(consumeRunner.offset + k)
  <1> DEFINE first  == FirstRead(consume.own, consume.other, consume.length)
             second == SecondRead(consume.own, consume.other, consume.length - consume.done)
  <1>1. consume.pc \in {"first", "second"}
    <2>1. consume.own.offset \in Nat /\ c \in Cells /\ consume.own.offset <= c
      BY DEF ReadCells, ArithInv, RingTypeOK, Call, Runner, Cells
    <2>2. ~(c < consume.own.offset + 0)
      BY <2>1 DEF Cells
    <2> QED BY <2>2 DEF ReadCells
  <1>2. /\ consume.own \in Runner /\ consume.other \in Runner /\ consumeRunner \in Runner
        /\ consume.done \in Nat /\ consume.length \in Nat /\ consume.length - consume.done \in Nat
        /\ Ordered(consumeRunner, consume.other)
        /\ Between(consumeRunner, consume.other) <= Used
        /\ Ordered(consume.own, consume.other)
        /\ Between(consume.own, consume.other) = Between(consumeRunner, consume.other) - consume.done
        /\ Used \in Nat
    BY <1>1, BetweenBounds DEF ArithInv, RingTypeOK, Call, ConsumeInv, RunnerInv, Used
  <1>3. PICK m \in Nat : /\ m <= Between(consume.own, consume.other)
                         /\ c \in Cells /\ consume.own.offset <= c /\ c < consume.own.offset + m
    <2>1. CASE consume.pc = "first"
      <3>1. first \in Nat /\ first <= Between(consume.own, consume.other)
        BY <1>2, ReadsFit
      <3>2. c \in Cells /\ consume.own.offset <= c /\ c < consume.own.offset + first
        BY <2>1 DEF ReadCells
      <3> QED BY <3>1, <3>2
    <2>2. CASE consume.pc = "second"
      <3>1. second \in Nat /\ second <= Between(consume.own, consume.other)
        BY <1>2, ReadsFit
      <3>2. c \in Cells /\ consume.own.offset <= c /\ c < consume.own.offset + second
        BY <2>2 DEF ReadCells
      <3> QED BY <3>1, <3>2
    <2> QED BY <1>1, <2>1, <2>2
  <1> DEFINE k == consume.done + (c - consume.own.offset)
  <1>4. k \in 0 .. Used - 1
    <2>1. Between(consume.own, consume.other) \in Nat /\ Between(consumeRunner, consume.other) \in Nat
      BY <1>2, BetweenBounds
    <2> QED BY <1>2, <1>3, <2>1 DEF Runner, Cells
  <1>5. consume.own.offset = consumeRunner.offset + consume.done \/
        consume.own.offset = consumeRunner.offset + consume.done - Size
    BY <1>2 DEF Runner, Cells, Ordered, Between
  <1>6. c = Cell(consumeRunner.offset + k)
    BY <1>2, <1>3, <1>5 DEF Runner, Cells, Cell
  <1> QED BY <1>4, <1>6

\* The cells the next copy of Fill writes are none of the unread cells.
LEMMA WritesAreFree ==
    ASSUME ArithInv, NEW c \in WriteCells, NEW k \in 0 .. Used - 1
    PROVE  c # Cell(consumeRunner.offset + k)
  <1> DEFINE first  == FirstWrite(fill.own, fill.other, fill.length)
             second == SecondWrite(fill.own, fill.other, fill.length - fill.done)
  <1>1. fill.pc \in {"first", "second"}
    <2>1. fill.own.offset \in Nat /\ c \in Cells /\ fill.own.offset <= c
      BY DEF WriteCells, ArithInv, RingTypeOK, Call, Runner, Cells
    <2>2. ~(c < fill.own.offset + 0)
      BY <2>1 DEF Cells
    <2> QED BY <2>2 DEF WriteCells
  <1>2. /\ fill.own \in Runner /\ fill.done \in Nat /\ fill.length - fill.done \in Nat
        /\ fill.other \in Runner /\ consumeRunner \in Runner
        /\ Used \in Nat
        /\ Ordered(fill.other, fill.own)
        /\ Ordered(consumeRunner, fill.own)
        /\ Between(consumeRunner, fill.own) = Used + fill.done
        /\ Between(consumeRunner, fill.own) <= Between(fill.other, fill.own)
    BY <1>1, SnapshotIsEarly
  <1>3. fill.length \in Nat
    BY DEF ArithInv, RingTypeOK, Call
  <1>4. PICK n \in Nat : /\ fill.own.offset + n <= Size
                         /\ Between(fill.other, fill.own) + n <= Size
                         /\ fill.own.offset <= c /\ c < fill.own.offset + n
    <2>1. CASE fill.pc = "first"
      <3>1. /\ first \in Nat /\ fill.own.offset + first <= Size
            /\ Advance(fill.own, first) \in Runner
            /\ Ordered(fill.other, Advance(fill.own, first))
            /\ Between(fill.other, Advance(fill.own, first)) = Between(fill.other, fill.own) + first
        BY <1>2, <1>3, FirstWriteFits
      <3>2. Between(fill.other, fill.own) + first <= Size
        BY <1>2, <3>1, BetweenBounds
      <3>3. fill.own.offset <= c /\ c < fill.own.offset + first
        BY <2>1 DEF WriteCells
      <3> QED BY <3>1, <3>2, <3>3
    <2>2. CASE fill.pc = "second"
      <3>1. /\ second \in Nat
            /\ Forward(fill.own, second) \in Runner
            /\ Ordered(fill.other, Forward(fill.own, second))
            /\ Between(fill.other, Forward(fill.own, second)) = Between(fill.other, fill.own) + second
        BY <1>2, SecondWriteFits
      <3>2. fill.own.offset + second <= Size
        BY <3>1 DEF Forward, Runner, Cells
      <3>3. Between(fill.other, fill.own) + second <= Size
        BY <1>2, <3>1, BetweenBounds
      <3>4. fill.own.offset <= c /\ c < fill.own.offset + second
        BY <2>2 DEF WriteCells
      <3> QED BY <3>1, <3>2, <3>3, <3>4
    <2> QED BY <1>1, <2>1, <2>2
  <1>5. Between(consumeRunner, fill.own) + n <= Size
    BY <1>2, <1>4, BetweenBounds
  <1>6. k \in 0 .. Between(consumeRunner, fill.own) + n - 1 /\ k < Between(consumeRunner, fill.own)
    BY <1>2, <1>4
  <1>7. LET d == Cell(consumeRunner.offset + k)
        IN  d \in Cells /\ (d < fill.own.offset \/ fill.own.offset + n <= d)
    BY <1>2, <1>4, <1>5, <1>6, CopyExtends
  <1> QED BY <1>2, <1>4, <1>7 DEF Cells, Runner

\* A copy of n of the cells that its snapshot offers carries the samples on.
LEMMA CopyReads ==
    ASSUME ArithInv, WrittenIntact, CopiedOldest, consume.pc # "idle",
           NEW n \in Nat, consume.own.offset + n <= Size,
           n <= Between(consume.own, consume.other)
    PROVE  /\ copied \o Batch(n, consume.own.offset)
                 = [i \in 1 .. consume.done + n |-> taken + i]
           /\ consume.done + n <= Used
  <1>1. /\ consume.own \in Runner /\ consume.other \in Runner /\ consumeRunner \in Runner
        /\ consume.done \in Nat /\ taken \in Nat /\ fill.done \in Nat
        /\ consume.own.offset \in Nat
        /\ Ordered(consumeRunner, consume.other)
        /\ Between(consumeRunner, consume.other) <= Used
        /\ Ordered(consume.own, consume.other)
        /\ Between(consume.own, consume.other) = Between(consumeRunner, consume.other) - consume.done
        /\ Used \in Nat
    <2>1. /\ consume.own \in Runner /\ consume.other \in Runner /\ consumeRunner \in Runner
          /\ supplyRunner \in Runner
          /\ consume.done \in Nat /\ taken \in Nat /\ fill.done \in Nat
          /\ Ordered(consumeRunner, supplyRunner)
      BY DEF ArithInv, RingTypeOK, Call, RunnerInv
    <2>2. /\ Ordered(consumeRunner, consume.other)
          /\ Between(consumeRunner, consume.other) <= Used
          /\ Ordered(consume.own, consume.other)
          /\ Between(consume.own, consume.other) = Between(consumeRunner, consume.other) - consume.done
      BY DEF ArithInv, ConsumeInv
    <2>3. Used \in Nat
      BY <2>1, BetweenBounds DEF Used
    <2>4. consume.own.offset \in Nat
      BY <2>1 DEF Runner, Cells
    <2> QED BY <2>1, <2>2, <2>3, <2>4
  <1>2. Between(consume.own, consume.other) \in Nat /\ Between(consumeRunner, consume.other) \in Nat
    BY <1>1, BetweenBounds
  <1>3. consume.done + n <= Used
    BY <1>1, <1>2
  <1>4. consume.own.offset = consumeRunner.offset + consume.done \/
        consume.own.offset = consumeRunner.offset + consume.done - Size
    BY <1>1 DEF Runner, Cells, Ordered, Between
  <1>5. ASSUME NEW i \in 1 .. n
        PROVE  buffer[consume.own.offset + (i - 1)] = taken + (consume.done + i)
    <2> DEFINE k == consume.done + (i - 1)
    <2>1. k \in 0 .. Used + fill.done - 1
      BY <1>1, <1>3
    <2>2. Cell(consumeRunner.offset + k) = consume.own.offset + (i - 1)
      BY <1>1, <1>4 DEF Cell, Runner, Cells
    <2>3. buffer[Cell(consumeRunner.offset + k)] = taken + k + 1
      BY <2>1 DEF WrittenIntact
    <2>4. taken + k + 1 = taken + (consume.done + i)
      BY <1>1
    <2> QED BY <2>2, <2>3, <2>4
  <1> DEFINE b == Batch(n, consume.own.offset)
             told == [i \in 1 .. consume.done + n |-> taken + i]
  <1>6. /\ copied \in Seq(Nat) /\ Len(copied) = consume.done
        /\ \A i \in 1 .. consume.done : copied[i] = taken + i
    <2>1. copied = [i \in 1 .. consume.done |-> taken + i]
      BY DEF CopiedOldest
    <2> QED BY <1>1, <2>1, Counted
  <1>7. /\ b \in Seq(Nat) /\ Len(b) = n
        /\ \A i \in 1 .. n : b[i] = taken + (consume.done + i)
    <2>1. buffer \in [Cells -> Nat]
      BY DEF ArithInv, RingTypeOK
    <2> QED BY <1>1, <1>5, <2>1, BatchType
  <1>8. /\ told \in Seq(Nat) /\ Len(told) = consume.done + n
        /\ \A i \in 1 .. consume.done + n : told[i] = taken + i
    <2>1. consume.done + n \in Nat /\ taken \in Nat
      BY <1>1
    <2> QED BY <2>1, Counted
  <1> HIDE DEF b, told
  <1>9. copied \o b = told
    <2>1. /\ copied \o b \in Seq(Nat) /\ Len(copied \o b) = consume.done + n
          /\ \A i \in 1 .. consume.done + n :
                (copied \o b)[i] = IF i <= consume.done THEN copied[i] ELSE b[i - consume.done]
      <3>1. /\ copied \o b \in Seq(Nat) /\ Len(copied \o b) = Len(copied) + Len(b)
            /\ \A i \in 1 .. Len(copied) + Len(b) :
                  (copied \o b)[i] = IF i <= Len(copied) THEN copied[i] ELSE b[i - Len(copied)]
        BY <1>6, <1>7, ConcatProperties
      <3>2. Len(copied) = consume.done /\ Len(b) = n
        BY <1>6, <1>7
      <3> QED BY <3>1, <3>2, Zenon
    <2>2. ASSUME NEW i \in 1 .. consume.done + n
          PROVE  (IF i <= consume.done THEN copied[i] ELSE b[i - consume.done]) = told[i]
      <3>1. CASE i <= consume.done
        BY <1>1, <1>6, <1>8, <3>1
      <3>2. CASE i > consume.done
        <4>1. i - consume.done \in 1 .. n /\ taken + (consume.done + (i - consume.done)) = taken + i
          BY <1>1, <3>2
        <4>2. b[i - consume.done] = taken + (consume.done + (i - consume.done))
          BY <1>7, <4>1
        <4> QED BY <1>1, <1>8, <3>2, <4>1, <4>2
      <3> QED BY <1>1, <3>1, <3>2
    <2>3. \A i \in 1 .. Len(copied \o b) : (copied \o b)[i] = told[i]
      BY <2>1, <2>2
    <2> QED BY <1>8, <2>1, <2>3, SeqEqual
  <1> QED BY <1>3, <1>9 DEF b, told

\* The two copies of Consume, with the facts CopyReads needs of them.
LEMMA FirstCopy ==
    ASSUME ArithInv, WrittenIntact, CopiedOldest, ConsumeFirst
    PROVE  \E n \in Nat : /\ copied' = copied \o Batch(n, consume.own.offset)
                          /\ copied' = [i \in 1 .. consume.done + n |-> taken + i]
                          /\ consume'.done = consume.done + n
                          /\ consume.done + n <= Used
  <1> DEFINE n == FirstRead(consume.own, consume.other, consume.length)
  <1>1. /\ consume.own \in Runner /\ consume.other \in Runner /\ consume.length \in Nat
        /\ Ordered(consume.own, consume.other) /\ consume.pc # "idle"
    BY DEF ArithInv, RingTypeOK, ConsumeInv, ConsumeFirst, Call
  <1>2. n \in Nat /\ consume.own.offset + n <= Size
    BY <1>1, FirstReadFits
  <1>3. n <= Between(consume.own, consume.other)
    BY <1>1, ReadsFit
  <1>4. copied' = copied \o Batch(n, consume.own.offset) /\ consume'.done = consume.done + n
    BY DEF ConsumeFirst, Progress
  <1> HIDE DEF n
  <1> QED BY <1>1, <1>2, <1>3, <1>4, CopyReads

LEMMA SecondCopy ==
    ASSUME ArithInv, WrittenIntact, CopiedOldest, ConsumeSecond
    PROVE  \E n \in Nat : /\ copied' = copied \o Batch(n, consume.own.offset)
                          /\ copied' = [i \in 1 .. consume.done + n |-> taken + i]
                          /\ consume'.done = consume.done + n
                          /\ consume.done + n <= Used
  <1> DEFINE n == SecondRead(consume.own, consume.other, consume.length - consume.done)
  <1>1. /\ consume.own \in Runner /\ consume.other \in Runner
        /\ consume.length - consume.done \in Nat
        /\ Ordered(consume.own, consume.other) /\ consume.pc # "idle"
    BY DEF ArithInv, RingTypeOK, ConsumeInv, ConsumeSecond, Call
  <1>2. n \in Nat /\ Forward(consume.own, n) \in Runner
    BY <1>1, SecondReadFits
  <1>3. consume.own.offset + n <= Size
    BY <1>1, <1>2 DEF Forward, Runner, Cells
  <1>4. n <= Between(consume.own, consume.other)
    BY <1>1, ReadsFit
  <1>5. copied' = copied \o Batch(n, consume.own.offset) /\ consume'.done = consume.done + n
    BY DEF ConsumeSecond, Progress
  <1> HIDE DEF n
  <1> QED BY <1>1, <1>2, <1>3, <1>4, <1>5, CopyReads

LEMMA CopiedStep == ArithInv /\ WrittenIntact /\ CopiedOldest /\ [RingNext]_ringVars => CopiedOldest'
  <1> SUFFICES ASSUME ArithInv, WrittenIntact, CopiedOldest, [RingNext]_ringVars PROVE CopiedOldest'
    OBVIOUS
  <1>1. CASE ConsumeFirst
    BY <1>1, FirstCopy DEF CopiedOldest, ConsumeFirst
  <1>2. CASE ConsumeSecond
    BY <1>2, SecondCopy DEF CopiedOldest, ConsumeSecond
  <1>3. ASSUME NEW length \in Lengths, ConsumeBegin(length) PROVE CopiedOldest'
    BY <1>3 DEF CopiedOldest, ConsumeBegin
  <1>4. CASE ConsumePublish
    BY <1>4 DEF CopiedOldest, ConsumePublish, Idle
  <1>5. CASE Reset
    BY <1>5 DEF CopiedOldest, Reset, ArithInv, ConsumeInv, RingTypeOK, Call
  <1>6. CASE UNCHANGED <<consume, copied, taken>>
    BY <1>6 DEF CopiedOldest
  <1> QED BY <1>1, <1>2, <1>3, <1>4, <1>5, <1>6
          DEF RingNext, Fill, Consume, FillBegin, FillFirst, FillSecond, FillPublish, ringVars

LEMMA CopiedHolds == RingSpec => []CopiedOldest
  <1>1. RingInit => CopiedOldest
    BY DEF RingInit, CopiedOldest, Idle
  <1> QED BY <1>1, CopiedStep, Inductive, PTL DEF RingSpec

\* The copies made with no lock held never share a cell, for every size.
THEOREM CopiesAlwaysDisjoint == RingSpec => []CopiesDisjoint
  <1>1. ArithInv => CopiesDisjoint
    BY ReadsAreUnread, WritesAreFree DEF CopiesDisjoint
  <1> QED BY <1>1, ArithInit, ArithStep, PTL DEF RingSpec

\* Consume comes back short only when it has read all its snapshot offered.
THEOREM ShortReadsDrain == RingSpec => []ShortReadMeansDrained
  <1>1. RingInit => ShortReadMeansDrained
    BY DEF RingInit, Idle, ShortReadMeansDrained
  <1>2. ArithInv /\ ShortReadMeansDrained /\ [RingNext]_ringVars => ShortReadMeansDrained'
    <2> SUFFICES ASSUME ArithInv, ShortReadMeansDrained, [RingNext]_ringVars PROVE ShortReadMeansDrained'
      OBVIOUS
    <2>1. CASE ConsumeSecond
      <3> DEFINE rest == consume.length - consume.done
                 n == SecondRead(consume.own, consume.other, rest)
      <3>1. /\ consume.own \in Runner /\ consume.other \in Runner /\ rest \in Nat
            /\ consume.length \in Nat /\ consume.done \in Nat
            /\ Ordered(consume.own, consume.other)
            /\ consume.done < consume.length => consume.own.round = consume.other.round
        BY <2>1 DEF ArithInv, RingTypeOK, Call, ConsumeInv, ConsumeSecond
      <3>2. /\ n \in Nat /\ n <= rest
            /\ n < rest /\ consume.own.round = consume.other.round
                 => Forward(consume.own, n).offset = consume.other.offset
        BY <3>1, SecondReadFits
      <3> HIDE DEF n
      <3>3. consume' = Progress(consume, "publish", n, Forward(consume.own, n))
        BY <2>1 DEF ConsumeSecond, n
      <3> QED BY <3>1, <3>2, <3>3 DEF ShortReadMeansDrained, Progress, Forward, Runner
    <2>2. CASE ~ConsumeSecond
      BY <2>2 DEF RingNext, Fill, Consume, FillBegin, FillFirst, FillSecond, FillPublish, ConsumeBegin,
                  ConsumeFirst, ConsumePublish, Reset, ringVars, Idle, Progress, ShortReadMeansDrained
    <2> QED BY <2>1, <2>2
  <1> QED BY <1>1, <1>2, ArithInit, ArithStep, PTL DEF RingSpec

\* Fill comes back short only when it has filled the ring up to its snapshot.
THEOREM ShortWritesFill == RingSpec => []ShortWriteMeansFull
  <1>1. RingInit => ShortWriteMeansFull
    BY DEF RingInit, Idle, ShortWriteMeansFull
  <1>2. ArithInv /\ ShortWriteMeansFull /\ [RingNext]_ringVars => ShortWriteMeansFull'
    <2> SUFFICES ASSUME ArithInv, ShortWriteMeansFull, [RingNext]_ringVars PROVE ShortWriteMeansFull'
      OBVIOUS
    <2>1. CASE FillSecond
      <3> DEFINE rest == fill.length - fill.done
                 n == SecondWrite(fill.own, fill.other, rest)
      <3>1. /\ fill.own \in Runner /\ fill.other \in Runner /\ rest \in Nat
            /\ fill.length \in Nat /\ fill.done \in Nat
            /\ Ordered(fill.other, fill.own)
            /\ fill.done < fill.length => fill.own.round # fill.other.round
        BY <2>1 DEF ArithInv, RingTypeOK, Call, FillInv, FillSecond
      <3>2. /\ n \in Nat /\ n <= rest
            /\ n < rest /\ fill.own.round # fill.other.round
                 => Forward(fill.own, n).offset = fill.other.offset
        BY <3>1, SecondWriteFits
      <3> HIDE DEF n
      <3>3. fill' = Progress(fill, "publish", n, Forward(fill.own, n))
        BY <2>1 DEF FillSecond, n
      <3> QED BY <3>1, <3>2, <3>3 DEF ShortWriteMeansFull, Progress, Forward, Runner
    <2>2. CASE ~FillSecond
      BY <2>2 DEF RingNext, Fill, Consume, FillBegin, FillFirst, FillPublish, ConsumeBegin, ConsumeFirst,
                  ConsumeSecond, ConsumePublish, Reset, ringVars, Idle, Progress, ShortWriteMeansFull
    <2> QED BY <2>1, <2>2
  <1> QED BY <1>1, <1>2, ArithInit, ArithStep, PTL DEF RingSpec

\* Neither side comes back short while it could go on.
THEOREM CallsGoOn == RingSpec => []ShortMeansNoMore
  BY ShortReadsDrain, ShortWritesFill, PTL DEF ShortMeansNoMore

-----------------------------------------------------------------------------
(* The refinement. *)

\* The queue the ring stands for, spelled out: the samples supplied and not yet
\* taken, in order.
Queue == [k \in 1 .. Used |-> taken + k]

QueueFacts ==
    /\ [k \in 1 .. Used |-> buffer[Cell(consumeRunner.offset + k - 1)]] = Queue
    /\ Used \in 0 .. Size /\ Used = supplied - taken /\ supplied \in Nat /\ taken \in Nat

LEMMA QueueIs == ArithInv /\ UnreadIntact => QueueFacts
  <1> SUFFICES ASSUME ArithInv, UnreadIntact PROVE QueueFacts
    OBVIOUS
  <1>1. /\ Used \in 0 .. Size /\ Used = supplied - taken
        /\ supplied \in Nat /\ taken \in Nat /\ consumeRunner.offset \in Nat
    BY BetweenBounds DEF ArithInv, RingTypeOK, RunnerInv, Used, Runner, Cells
  <1>2. ASSUME NEW k \in 1 .. Used
        PROVE  buffer[Cell(consumeRunner.offset + k - 1)] = taken + k
    <2>1. k - 1 \in 0 .. Used - 1
      BY <1>1
    <2>2. buffer[Cell(consumeRunner.offset + (k - 1))] = taken + (k - 1) + 1
      BY <2>1 DEF UnreadIntact
    <2>3. consumeRunner.offset + k - 1 = consumeRunner.offset + (k - 1) /\ taken + (k - 1) + 1 = taken + k
      BY <1>1, <2>1
    <2> QED BY <2>2, <2>3
  <1> QED BY <1>1, <1>2 DEF Queue, QueueFacts

\* What the steps do to the queue: publishing a Fill appends to it, a copy of
\* Consume reads on, publishing removes what was read, Reset empties it.
Appends == \E n \in 1 .. Size : /\ Used + n <= Size /\ Used' = Used + n
                                /\ supplied' = supplied + n /\ UNCHANGED <<taken, copied>>
ReadsOn == \E n \in Nat : /\ consume.done + n <= Used /\ consume'.done = consume.done + n
                          /\ copied' = [i \in 1 .. consume.done + n |-> taken + i]
                          /\ UNCHANGED <<Used, taken, supplied>>
Removes == /\ Used' = Used - consume.done /\ taken' = taken + consume.done
           /\ copied' = <<>> /\ UNCHANGED supplied
Empties == Used' = 0 /\ copied = <<>> /\ copied' = <<>> /\ UNCHANGED supplied
Leaves  == UNCHANGED <<Used, taken, supplied, copied>>

LEMMA QueueStep ==
    ASSUME ArithInv, ArithInv', WrittenIntact, CopiedOldest, CopiedOldest', [RingNext]_ringVars
    PROVE  Appends \/ ReadsOn \/ Removes \/ Empties \/ Leaves
  <1>0. /\ Used \in 0 .. Size /\ Used = supplied - taken /\ supplied \in Nat /\ taken \in Nat
        /\ Used' \in 0 .. Size /\ Used' = supplied' - taken' /\ supplied' \in Nat /\ taken' \in Nat
        /\ fill.done \in Nat /\ consume.done \in Nat
    BY BetweenBounds DEF ArithInv, RingTypeOK, RunnerInv, Used, Call
  <1>1. CASE FillPublish
    BY <1>0, <1>1 DEF FillPublish, Appends, Leaves
  <1>2. CASE ConsumeFirst
    BY <1>2, FirstCopy DEF ConsumeFirst, Used, ReadsOn
  <1>3. CASE ConsumeSecond
    BY <1>3, SecondCopy DEF ConsumeSecond, Used, ReadsOn
  <1>4. CASE ConsumePublish
    BY <1>0, <1>4 DEF ConsumePublish, Removes
  <1>5. CASE Reset
    <2>1. consume.done = 0
      BY <1>5 DEF Reset, ArithInv, ConsumeInv, Idle, RingTypeOK, Call
    <2>2. copied = <<>>
      BY <2>1 DEF CopiedOldest
    <2> QED BY <1>0, <1>5, <2>2 DEF Reset, Empties
  <1>6. ASSUME NEW length \in Lengths, ConsumeBegin(length)
        PROVE  Leaves
    <2>1. consume.done = 0
      BY <1>6 DEF ConsumeBegin, ArithInv, ConsumeInv
    <2>2. copied = <<>>
      BY <2>1 DEF CopiedOldest
    <2> QED BY <1>6, <2>2 DEF ConsumeBegin, Used, Leaves
  <1>7. CASE (\E length \in Lengths : FillBegin(length)) \/ FillFirst \/ FillSecond \/ UNCHANGED ringVars
    BY <1>7 DEF FillBegin, FillFirst, FillSecond, ringVars, Used, Leaves
  <1>8. \/ FillPublish \/ ConsumeFirst \/ ConsumeSecond \/ ConsumePublish \/ Reset
        \/ \E length \in Lengths : ConsumeBegin(length)
        \/ (\E length \in Lengths : FillBegin(length)) \/ FillFirst \/ FillSecond \/ UNCHANGED ringVars
    BY DEF RingNext, Fill, Consume
  <1> QED BY <1>1, <1>2, <1>3, <1>4, <1>5, <1>6, <1>7, <1>8, Zenon

\* The ring implements a bounded first-in first-out queue of samples, for every
\* size of the buffer and every interleaving of Fill, Consume and Reset: the
\* samples Consume copies are the oldest, in order, and those it takes.
THEOREM RingIsFifo == RingSpec => ImplementsFifo
  <1> DEFINE q == [k \in 1 .. Used |-> buffer[Cell(consumeRunner.offset + k - 1)]]
  <1>1. RingInit => Fifo!Init
    BY DEF RingInit, Fifo!Init, Used, Between, Start
  <1>2. ASSUME ArithInv, ArithInv', UnreadIntact, UnreadIntact', WrittenIntact,
               CopiedOldest, CopiedOldest', [RingNext]_ringVars
        PROVE  [Fifo!Next]_(<<q, copied, supplied + 1>>)
    <2>1. /\ q = Queue /\ q' = Queue'
          /\ Used \in 0 .. Size /\ Used' \in 0 .. Size
          /\ supplied \in Nat /\ taken \in Nat /\ Used = supplied - taken
          /\ consume.done \in Nat /\ Len(copied) = consume.done
      <3>1. QueueFacts
        BY <1>2, QueueIs
      <3>2. ArithInv' /\ UnreadIntact' => QueueFacts'
        BY QueueIs, PTL
      <3>3. consume.done \in Nat /\ taken \in Nat
        BY <1>2 DEF ArithInv, RingTypeOK, Call
      <3>4. Len(copied) = consume.done
        BY <1>2, <3>3 DEF CopiedOldest
      <3> QED BY <1>2, <3>1, <3>2, <3>3, <3>4 DEF QueueFacts
    <2>2. /\ Queue \in Seq(Nat) /\ Len(Queue) = Used
          /\ \A i \in 1 .. Used : Queue[i] = taken + i
      <3>1. Used \in Nat /\ taken \in Nat
        BY <2>1
      <3> QED BY <3>1, Counted DEF Queue
    <2> HIDE DEF q
    <2>3. CASE Appends
      <3>1. PICK n \in 1 .. Size : /\ Used + n <= Size /\ Used' = Used + n
                                   /\ supplied' = supplied + n /\ UNCHANGED <<taken, copied>>
        BY <2>3 DEF Appends
      <3>2. Queue' = Queue \o [i \in 1 .. n |-> supplied + 1 + i - 1]
        BY <2>1, <2>2, <3>1 DEF Queue
      <3>3. Len(q) + n <= Size
        BY <2>1, <2>2, <3>1
      <3>4. q' = q \o [i \in 1 .. n |-> supplied + 1 + i - 1]
        BY <2>1, <3>2
      <3>5. (supplied + 1)' = supplied + 1 + n
        BY <2>1, <3>1
      <3>6. Fifo!Put(n)
        BY <3>1, <3>3, <3>4, <3>5 DEF Fifo!Put, q
      <3> QED BY <3>6 DEF Fifo!Next
    <2>4. CASE ReadsOn
      <3>1. PICK n \in Nat : /\ consume.done + n <= Used /\ consume'.done = consume.done + n
                             /\ copied' = [i \in 1 .. consume.done + n |-> taken + i]
                             /\ UNCHANGED <<Used, taken, supplied>>
        BY <2>4 DEF ReadsOn
      <3>2. Queue' = Queue
        BY <3>1 DEF Queue
      <3>3. copied' = SubSeq(Queue, 1, consume.done + n)
        BY <2>1, <2>2, <3>1 DEF Queue
      <3>4. CASE n = 0
        <4>1. copied' = copied
          BY <1>2, <2>1, <3>1, <3>4 DEF CopiedOldest
        <4> QED BY <2>1, <3>1, <3>2, <4>1
      <3>5. CASE n # 0
        <4>1. n \in 1 .. Size
          BY <2>1, <3>1, <3>5
        <4>2. Len(copied) + n <= Len(q) /\ copied' = SubSeq(q, 1, Len(copied) + n) /\ q' = q
          BY <2>1, <2>2, <3>1, <3>2, <3>3
        <4>3. Fifo!Read(n)
          BY <3>1, <4>2 DEF Fifo!Read, q
        <4> QED BY <4>1, <4>3 DEF Fifo!Next
      <3> QED BY <3>4, <3>5
    <2>5. CASE Removes
      <3>1. consume.done <= Used
        BY <2>1, <2>5 DEF Removes
      <3>2. Queue' = SubSeq(Queue, consume.done + 1, Len(Queue))
        <4>1. /\ Used - consume.done \in Nat /\ taken + consume.done \in Nat
              /\ consume.done + 1 \in Nat /\ Used \in Nat
          BY <2>1, <3>1
        <4>2. Queue' = [k \in 1 .. Used - consume.done |-> (taken + consume.done) + k]
          BY <2>5 DEF Queue, Removes
        <4>3. /\ Queue' \in Seq(Nat) /\ Len(Queue') = Used - consume.done
              /\ \A i \in 1 .. Used - consume.done : Queue'[i] = (taken + consume.done) + i
          BY <4>1, <4>2, Counted
        <4> DEFINE rest == SubSeq(Queue, consume.done + 1, Used)
        <4>4. \A i \in consume.done + 1 .. Used : Queue[i] \in Nat
          BY <2>1, <2>2
        <4>5. /\ rest \in Seq(Nat)
              /\ Len(rest) = IF consume.done + 1 <= Used THEN Used - (consume.done + 1) + 1 ELSE 0
              /\ \A i \in 1 .. Used - (consume.done + 1) + 1 : rest[i] = Queue[consume.done + 1 + i - 1]
          BY <4>1, <4>4, SubSeqProperties
        <4> HIDE DEF rest
        <4>6. Len(rest) = Used - consume.done
          BY <2>1, <3>1, <4>5
        <4>7. ASSUME NEW i \in 1 .. Used - consume.done
              PROVE  Queue'[i] = rest[i]
          <5>1. /\ i \in 1 .. Used - (consume.done + 1) + 1
                /\ consume.done + 1 + i - 1 = consume.done + i
                /\ consume.done + i \in 1 .. Used
                /\ taken + (consume.done + i) = (taken + consume.done) + i
            BY <2>1, <3>1
          <5>2. rest[i] = Queue[consume.done + i]
            BY <4>5, <5>1
          <5>3. Queue[consume.done + i] = taken + (consume.done + i)
            BY <2>2, <5>1
          <5>4. Queue'[i] = (taken + consume.done) + i
            BY <4>3
          <5> QED BY <5>1, <5>2, <5>3, <5>4
        <4>8. Queue' = rest
          <5>1. \A i \in 1 .. Len(Queue') : Queue'[i] = rest[i]
            BY <4>3, <4>7
          <5> QED BY <4>3, <4>5, <4>6, <5>1, SeqEqual
        <4> QED BY <2>2, <4>8 DEF rest
      <3>3. q' = SubSeq(q, Len(copied) + 1, Len(q))
        BY <2>1, <2>2, <3>2
      <3>4. Fifo!Take
        BY <2>5, <3>3 DEF Fifo!Take, q, Removes
      <3> QED BY <3>4 DEF Fifo!Next
    <2>6. CASE Empties
      <3>1. q' = <<>>
        BY <2>1, <2>6 DEF Queue, Empties
      <3> QED BY <2>6, <3>1 DEF Fifo!Next, Fifo!Drop, q, Empties
    <2>7. CASE Leaves
      BY <2>1, <2>7 DEF Queue, Leaves
    <2> QED BY <1>2, <2>3, <2>4, <2>5, <2>6, <2>7, QueueStep
  <1> QED BY <1>1, <1>2, ArithInit, ArithStep, UnreadAlwaysIntact, Inductive, CopiedHolds, PTL
          DEF RingSpec, ImplementsFifo, Fifo!Spec

=============================================================================
