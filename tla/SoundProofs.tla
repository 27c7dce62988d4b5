---------------------------- MODULE SoundProofs ----------------------------
(***************************************************************************)
(* The sounds, for any channels, sources, sounds and caches.               *)
(***************************************************************************)
EXTENDS SoundChannels, LRUCache, FiniteSetTheorems, SequenceTheorems, TLAPS

-----------------------------------------------------------------------------
(***************************************************************************)
(* Whose channel it is, for any channels, sources, sounds and caches.  A   *)
(* channel's owner may be wrong only in two windows: from Mix_PlayChannel  *)
(* to the entry of the owner, which is a critical section of the manager,  *)
(* and from the end of a sound to the report of it, which is one of SDL's. *)
(***************************************************************************)

AllTasks ==
  {k \in [what : {"tidy", "fetch", "enqueue", "stop", "fade", "leave"},
          source : Sources \cup {Nobody}, sound : Sounds \cup {Nobody}] :
     /\ k.what \in {"enqueue", "stop", "fade"} => k.source \in Sources
     /\ k.what \in {"fetch", "enqueue"} => k.sound \in Sounds}

MixerTypeOK ==
  /\ on \in [AllChannels -> BOOLEAN]
  /\ by \in [AllChannels -> Sources \cup {Nobody}]
  /\ sdl \in SoundThreads \cup {"mixer", Nobody}
  /\ ending \in AllChannels \cup {Nobody}
  /\ sdl = "mixer" => ending \in AllChannels

OwnersTypeOK ==
  /\ stateMutex \in SoundThreads \cup {Nobody}
  /\ channelMap \in [AllChannels -> Sources \cup {Nobody}]
  /\ channel \in [Sources -> AllChannels \cup {Nobody}]
  /\ orphaned \subseteq AllChannels

ProgramTypeOK ==
  /\ buffered \in [SoundThreads -> SUBSET Sounds]
  /\ born \subseteq Sources /\ live \subseteq Sources /\ held \subseteq Sources
  /\ ambientSource \in Hums \cup {Nobody}
  /\ mutex \in SoundThreads \cup {Nobody} /\ active \in BOOLEAN

\* Where a thread is says what it does.
WorkTypeOK ==
  /\ agenda \in [SoundThreads -> Seq(AllTasks)]
  /\ step \in [SoundThreads -> {"begin", "free", "lock", "play", "note", "halt", "halted"}]
  /\ got \in [SoundThreads -> AllChannels \cup Sounds \cup {Nobody}]
  /\ \A t \in SoundThreads :
       /\ step[t] # "begin" => agenda[t] # <<>>
       /\ step[t] = "free" => It(t).what = "fetch"
       /\ step[t] \in {"lock", "play", "note"} => It(t).what = "enqueue"
       /\ step[t] = "halt" => It(t).what \in {"stop", "fade"}
       /\ step[t] = "halted" => It(t).what = "stop"
       /\ step[t] = "note" => got[t] \in AllChannels

SoundTypeOK == MixerTypeOK /\ OwnersTypeOK /\ ProgramTypeOK /\ WorkTypeOK

\* The manager's mutex is held where a channel is asked for.
MutexHeld == \A t \in SoundThreads : stateMutex = t <=> step[t] \in {"play", "note"}

\* SDL's lock is held by who has it report a channel that it halts.
LockHeld == \A t \in SoundThreads : sdl = t <=> step[t] = "halted"

Reported(c) == sdl = "mixer" /\ ending = c

\* A channel that is reported is silent.
EndedIsSilent == sdl = "mixer" => ~on[ending]

\* Who is about to enter itself plays on the channel, unless its sound has
\* already ended and waits to be reported.
NotedPlays ==
  \A t \in SoundThreads : step[t] = "note" =>
    \/ got[t] \in orphaned
    \/ Reported(got[t])
    \/ on[got[t]] /\ by[got[t]] = It(t).source

Right(c) == channelMap[c] = IF on[c] THEN by[c] ELSE Nobody
Unentered(c) == channelMap[c] = Nobody /\ \E t \in SoundThreads : step[t] = "note" /\ got[t] = c

OwnersFollow == \A c \in AllChannels \ orphaned : Right(c) \/ Unentered(c) \/ Reported(c)

\* What plays is somebody's.
HeardIsSomebodys == \A c \in AllChannels : on[c] => by[c] # Nobody

OwnerInv ==
  MutexHeld /\ LockHeld /\ EndedIsSilent /\ NotedPlays /\ OwnersFollow /\ HeardIsSomebodys

--------------------------------------------------------------------------
(* Types *)

\* Nobody is none of the sources, channels and threads.
LEMMA NobodyIsNone ==
  /\ Nobody \notin Sources /\ Nobody \notin AllChannels /\ Nobody \notin SoundThreads
  /\ "mixer" \notin SoundThreads /\ Nobody # "mixer"
  BY SoundAssumption DEF Sources, AllChannels, SoundThreads

\* A task for nobody is one that acts on no source.
LEMMA TaskTyped ==
  /\ \A what \in {"tidy", "leave"} : Task(what, Nobody, Nobody) \in AllTasks
  /\ \A k \in Sounds : Task("fetch", Nobody, k) \in AllTasks
  /\ \A s \in Sources, k \in Sounds : Task("enqueue", s, k) \in AllTasks
  /\ \A s \in Sources, what \in {"stop", "fade"} : Task(what, s, Nobody) \in AllTasks
  BY DEF Task, AllTasks

\* What is at the head of a thread's tasks is a task.
LEMMA HeadTyped ==
  ASSUME WorkTypeOK, NEW t \in SoundThreads, agenda[t] # <<>>
  PROVE  /\ It(t) \in AllTasks /\ Tail(agenda[t]) \in Seq(AllTasks)
         /\ It(t).what \in {"enqueue", "stop", "fade"} => It(t).source \in Sources
         /\ It(t).what \in {"fetch", "enqueue"} => It(t).sound \in Sounds
  <1>1. agenda[t] \in Seq(AllTasks)
    BY DEF WorkTypeOK
  <1>2. Head(agenda[t]) \in AllTasks /\ Tail(agenda[t]) \in Seq(AllTasks)
    BY <1>1
  <1> QED BY <1>2 DEF It, AllTasks

LEMMA FinishTyped ==
  ASSUME WorkTypeOK, NEW t \in SoundThreads, agenda[t] # <<>>, Finish(t)
  PROVE  WorkTypeOK'
  BY HeadTyped DEF WorkTypeOK, Finish, It

\* A thread at rest is at the beginning; it may take up any tasks.
LEMMA TakesUpTyped ==
  ASSUME WorkTypeOK, NEW t \in SoundThreads, AtRest(t), NEW tasks \in Seq(AllTasks),
         TakesUp(t, tasks)
  PROVE  WorkTypeOK'
  BY DEF WorkTypeOK, AtRest, TakesUp, It

\* As long as its task stays, a thread may be where the task allows.
LEMMA GoTyped ==
  ASSUME WorkTypeOK, NEW t \in SoundThreads, agenda[t] # <<>>,
         NEW where \in {"lock", "play", "halt", "halted"}, Go(t, where),
         where \in {"lock", "play"} => It(t).what = "enqueue",
         where = "halt" => It(t).what \in {"stop", "fade"},
         where = "halted" => It(t).what = "stop"
  PROVE  WorkTypeOK'
  BY DEF WorkTypeOK, Go, It


\* To go on to nothing new leaves what is typed typed.
LEMMA KeepTyped ==
  ASSUME SoundTypeOK, UNCHANGED <<mixer, sdl, owners, channel, program, ambience>>
  PROVE  MixerTypeOK' /\ OwnersTypeOK' /\ ProgramTypeOK'
  BY DEF SoundTypeOK, MixerTypeOK, OwnersTypeOK, ProgramTypeOK, mixer, owners, program, ambience

LEMMA SilentTyped ==
  ASSUME MixerTypeOK, NEW Cut, Silent(Cut)
  PROVE  /\ on' \in [AllChannels -> BOOLEAN]
         /\ by' \in [AllChannels -> Sources \cup {Nobody}]
  BY DEF MixerTypeOK, Silent

\* What is buffered are sounds, and so is what goes.
LEMMA EvictedTyped ==
  ASSUME ProgramTypeOK, NEW t \in SoundThreads
  PROVE  Evicted(t) \subseteq Sounds
  BY DEF Evicted, ProgramTypeOK

\* What a thread does next is typed.
LEMMA TidyTyped ==
  ASSUME SoundTypeOK, NEW t \in SoundThreads, Tidy(t)
  PROVE  SoundTypeOK'
<1> USE NobodyIsNone DEF SoundTypeOK
<1>1. MixerTypeOK' /\ OwnersTypeOK'
  BY DEF Tidy, MixerTypeOK, OwnersTypeOK, mixer, owners
<1>2. ProgramTypeOK'
  BY DEF Tidy, ProgramTypeOK, ambience
<1>3. WorkTypeOK'
  <2>1. CASE \E s \in live : /\ agenda' = [agenda EXCEPT ![t] = Ending(s, held) \o @]
                             /\ UNCHANGED <<step, got>>
    <3>1. PICK s \in live : agenda' = [agenda EXCEPT ![t] = Ending(s, held) \o @]
      BY <2>1
    <3>2. Ending(s, held) \in Seq(AllTasks)
      BY TaskTyped DEF Ending, ProgramTypeOK
    <3>3. agenda[t] \in Seq(AllTasks) /\ step[t] = "begin"
      BY DEF Tidy, Does, WorkTypeOK
    <3>4. (Ending(s, held) \o agenda[t]) \in Seq(AllTasks)
      BY <3>2, <3>3
    <3> QED BY <2>1, <3>1, <3>3, <3>4 DEF WorkTypeOK, It
  <2>2. CASE Finish(t)
    BY <2>2, FinishTyped DEF Tidy, Does
  <2> QED BY <2>1, <2>2 DEF Tidy
<1> QED BY <1>1, <1>2, <1>3

LEMMA FetchTyped ==
  ASSUME SoundTypeOK, NEW t \in SoundThreads, Fetch(t) \/ FetchFails(t) \/ Free(t)
  PROVE  SoundTypeOK'
<1> USE NobodyIsNone DEF SoundTypeOK
<1>1. CASE Fetch(t)
  <2>1. MixerTypeOK' /\ OwnersTypeOK'
    BY <1>1 DEF Fetch, MixerTypeOK, OwnersTypeOK, mixer, owners
  <2>2. It(t).sound \in Sounds /\ Evicted(t) \subseteq Sounds
    BY <1>1, HeadTyped, EvictedTyped DEF Fetch, Does, It
  <2>3. ProgramTypeOK'
    BY <1>1, <2>2 DEF Fetch, ProgramTypeOK, ambience
  <2>4. CASE Finish(t)
    BY <1>1, <2>1, <2>3, <2>4, FinishTyped DEF Fetch, Does
  <2>5. CASE \E v \in Evicted(t) : /\ got' = [got EXCEPT ![t] = v]
                                   /\ step' = [step EXCEPT ![t] = "free"]
                                   /\ UNCHANGED agenda
    <3>1. WorkTypeOK'
      BY <1>1, <2>2, <2>5 DEF Fetch, Does, WorkTypeOK, It
    <3> QED BY <2>1, <2>3, <3>1
  <2> QED BY <1>1, <2>4, <2>5 DEF Fetch
<1>2. CASE FetchFails(t)
  <2>1. MixerTypeOK' /\ OwnersTypeOK' /\ ProgramTypeOK'
    BY <1>2, KeepTyped DEF FetchFails
  <2>2. <<Task("leave", Nobody, Nobody)>> \in Seq(AllTasks) /\ <<>> \in Seq(AllTasks)
    BY TaskTyped
  <2>3. step[t] = "begin"
    BY <1>2 DEF FetchFails, Does
  <2>4. WorkTypeOK'
    BY <1>2, <2>2, <2>3 DEF FetchFails, WorkTypeOK, It
  <2> QED BY <2>1, <2>4
<1>3. CASE Free(t)
  <2>1. MixerTypeOK'
    BY <1>3, SilentTyped DEF Free, MixerTypeOK
  <2>2. OwnersTypeOK' /\ ProgramTypeOK'
    BY <1>3 DEF Free, OwnersTypeOK, ProgramTypeOK, program, ambience
  <2>3. WorkTypeOK'
    BY <1>3, FinishTyped DEF Free, Does
  <2> QED BY <2>1, <2>2, <2>3
<1> QED BY <1>1, <1>2, <1>3

\* The channel SDL gives is one it has.
LEMMA OfferedTyped ==
  ASSUME OwnersTypeOK, NEW s \in Sources
  PROVE  Offered(channel[s]) \subseteq AllChannels
  BY DEF Offered, OwnersTypeOK, AllChannels

LEMMA EnqueueTyped ==
  ASSUME SoundTypeOK, NEW t \in SoundThreads, Aim(t) \/ Request(t) \/ PlayChannel(t) \/ Note(t)
  PROVE  SoundTypeOK'
<1> USE NobodyIsNone DEF SoundTypeOK
<1>1. agenda[t] # <<>> /\ It(t).what = "enqueue" /\ It(t).source \in Sources
  BY HeadTyped DEF Aim, Request, PlayChannel, Note, Does, It
<1>2. CASE Aim(t)
  <2>1. MixerTypeOK' /\ OwnersTypeOK' /\ ProgramTypeOK'
    BY <1>1, <1>2 DEF Aim, MixerTypeOK, OwnersTypeOK, ProgramTypeOK, mixer, owners, ambience
  <2>2. WorkTypeOK'
    BY <1>1, <1>2, GoTyped DEF Aim
  <2> QED BY <2>1, <2>2
<1>3. CASE Request(t)
  <2>1. MixerTypeOK' /\ OwnersTypeOK' /\ ProgramTypeOK'
    BY <1>3 DEF Request, MixerTypeOK, OwnersTypeOK, ProgramTypeOK, mixer, program, ambience
  <2>2. WorkTypeOK'
    BY <1>1, <1>3, GoTyped DEF Request
  <2> QED BY <2>1, <2>2
<1>4. CASE PlayChannel(t)
  <2>1. ProgramTypeOK'
    BY <1>4 DEF PlayChannel, ProgramTypeOK, program, ambience
  <2>2. CASE Offered(channel[It(t).source]) = {}
    <3>1. MixerTypeOK' /\ OwnersTypeOK'
      BY <1>4, <2>2 DEF PlayChannel, MixerTypeOK, OwnersTypeOK
    <3>2. WorkTypeOK'
      BY <1>1, <1>4, <2>2, FinishTyped DEF PlayChannel
    <3> QED BY <2>1, <3>1, <3>2
  <2>3. CASE Offered(channel[It(t).source]) # {}
    <3>1. PICK c \in Offered(channel[It(t).source]) :
            /\ IF on[c] THEN ForgetOwner(c) ELSE UNCHANGED <<channelMap, orphaned>>
            /\ on' = [on EXCEPT ![c] = TRUE]
            /\ by' = [by EXCEPT ![c] = It(t).source]
            /\ got' = [got EXCEPT ![t] = c]
            /\ step' = [step EXCEPT ![t] = "note"]
            /\ UNCHANGED <<agenda, stateMutex>>
      BY <1>4, <2>3 DEF PlayChannel
    <3>2. c \in AllChannels
      BY <1>1, OfferedTyped
    <3>3. MixerTypeOK' /\ OwnersTypeOK'
      BY <1>1, <1>4, <3>1, <3>2 DEF PlayChannel, MixerTypeOK, OwnersTypeOK, ForgetOwner
    <3>4. WorkTypeOK'
      BY <1>1, <3>1, <3>2 DEF WorkTypeOK, It
    <3> QED BY <2>1, <3>3, <3>4
  <2> QED BY <2>2, <2>3
<1>5. CASE Note(t)
  <2>1. got[t] \in AllChannels
    BY <1>5 DEF Note, Does, WorkTypeOK
  <2>2. MixerTypeOK' /\ OwnersTypeOK' /\ ProgramTypeOK'
    BY <1>1, <1>5, <2>1 DEF Note, MixerTypeOK, OwnersTypeOK, ProgramTypeOK, mixer, program, ambience
  <2>3. WorkTypeOK'
    BY <1>1, <1>5, FinishTyped DEF Note
  <2> QED BY <2>2, <2>3
<1> QED BY <1>2, <1>3, <1>4, <1>5

LEMMA StopTyped ==
  ASSUME SoundTypeOK, NEW t \in SoundThreads,
         Check(t) \/ Halt(t) \/ Halted(t) \/ Fade(t) \/ LeaveAmbients(t)
  PROVE  SoundTypeOK'
<1> USE NobodyIsNone DEF SoundTypeOK
<1>1. CASE Check(t)
  <2>1. MixerTypeOK' /\ OwnersTypeOK' /\ ProgramTypeOK'
    BY <1>1, KeepTyped DEF Check
  <2>2. WorkTypeOK'
    BY <1>1, GoTyped, FinishTyped DEF Check, Does, It
  <2> QED BY <2>1, <2>2
<1>2. CASE Halt(t)
  <2>1. MixerTypeOK' /\ OwnersTypeOK' /\ ProgramTypeOK'
    BY <1>2 DEF Halt, MixerTypeOK, OwnersTypeOK, ProgramTypeOK, mixer, owners, program, ambience
  <2>2. WorkTypeOK'
    BY <1>2, GoTyped, FinishTyped DEF Halt, Does, It
  <2> QED BY <2>1, <2>2
<1>3. CASE Halted(t)
  <2>1. MixerTypeOK'
    BY <1>3, SilentTyped DEF Halted, MixerTypeOK
  <2>2. OwnersTypeOK' /\ ProgramTypeOK'
    BY <1>3 DEF Halted, OwnersTypeOK, ProgramTypeOK, ForgetOwner, program, ambience
  <2>3. WorkTypeOK'
    BY <1>3, FinishTyped DEF Halted, Does
  <2> QED BY <2>1, <2>2, <2>3
<1>4. CASE Fade(t)
  <2>1. MixerTypeOK' /\ OwnersTypeOK' /\ ProgramTypeOK'
    BY <1>4 DEF Fade, MixerTypeOK, OwnersTypeOK, ProgramTypeOK, mixer, owners, program, ambience
  <2>2. WorkTypeOK'
    BY <1>4, FinishTyped DEF Fade, Does
  <2> QED BY <2>1, <2>2
<1>5. CASE LeaveAmbients(t)
  <2>1. MixerTypeOK' /\ OwnersTypeOK' /\ ProgramTypeOK'
    BY <1>5 DEF LeaveAmbients, MixerTypeOK, OwnersTypeOK, ProgramTypeOK, mixer, owners, program
  <2>2. WorkTypeOK'
    BY <1>5, FinishTyped DEF LeaveAmbients, Does
  <2> QED BY <2>1, <2>2
<1> QED BY <1>1, <1>2, <1>3, <1>4, <1>5

LEMMA MixerTyped ==
  ASSUME SoundTypeOK, (\E c \in AllChannels : MixEnd(c)) \/ FinishedCallback
  PROVE  SoundTypeOK'
<1> USE NobodyIsNone DEF SoundTypeOK
<1>1. WorkTypeOK' /\ ProgramTypeOK'
  BY DEF MixEnd, FinishedCallback, WorkTypeOK, It, ProgramTypeOK, work, program, ambience
<1>2. ASSUME NEW c \in AllChannels, MixEnd(c)
      PROVE  MixerTypeOK' /\ OwnersTypeOK'
  <2>1. OwnersTypeOK'
    BY <1>2 DEF MixEnd, OwnersTypeOK, owners
  <2>2. MixerTypeOK'
    BY <1>2, SilentTyped DEF MixEnd, MixerTypeOK
  <2> QED BY <2>1, <2>2
<1>3. CASE FinishedCallback
  BY <1>1, <1>3 DEF FinishedCallback, ForgetOwner, MixerTypeOK, OwnersTypeOK
<1> QED BY <1>1, <1>2, <1>3

\* The tasks that threads take up.
LEMMA ListsTyped ==
  /\ \A s \in Sources, k \in Sounds :
       /\ <<Task("tidy", Nobody, Nobody), Task("fetch", Nobody, k), Task("enqueue", s, k)>>
            \in Seq(AllTasks)
       /\ <<Task("fetch", Nobody, k), Task("enqueue", s, k)>> \in Seq(AllTasks)
  /\ \A k \in Sounds :
       <<Task("tidy", Nobody, Nobody), Task("fetch", Nobody, k)>> \in Seq(AllTasks)
  /\ \A s \in Sources : \A what \in {"stop", "fade"} : <<Task(what, s, Nobody)>> \in Seq(AllTasks)
  /\ \A s \in Sources : <<Task("tidy", Nobody, Nobody), Task("stop", s, Nobody)>> \in Seq(AllTasks)
  /\ \A s \in Sources, k \in Sounds : <<Task("enqueue", s, k)>> \in Seq(AllTasks)
  /\ <<Task("leave", Nobody, Nobody)>> \in Seq(AllTasks)
  /\ <<>> \in Seq(AllTasks)
  BY TaskTyped

LEMMA OrderTyped ==
  ASSUME SoundTypeOK, NEW tasks \in Seq(AllTasks), MainDoes(tasks)
  PROVE  MixerTypeOK' /\ OwnersTypeOK' /\ WorkTypeOK'
<1>1. MixerTypeOK' /\ OwnersTypeOK'
  BY DEF MainDoes, SoundTypeOK, MixerTypeOK, OwnersTypeOK, mixer, owners
<1>2. WorkTypeOK'
  BY TakesUpTyped DEF MainDoes, SoundTypeOK, SoundThreads
<1> QED BY <1>1, <1>2

LEMMA OrdersTyped ==
  ASSUME SoundTypeOK, MainOrders
  PROVE  SoundTypeOK'
<1> USE NobodyIsNone DEF SoundTypeOK
<1>1. Voices \subseteq Sources /\ Hums \subseteq Sources /\ Speech \in Sources
  BY DEF Sources
<1>2. ASSUME NEW tasks \in Seq(AllTasks), MainDoes(tasks), held' \subseteq Sources
      PROVE  SoundTypeOK'
  <2>1. ProgramTypeOK'
    BY <1>2 DEF MainDoes, ProgramTypeOK, ambience
  <2> QED BY <1>2, <2>1, OrderTyped
<1>3. held \subseteq Sources
  BY DEF ProgramTypeOK
<1>4. ASSUME NEW s \in Voices, NEW k \in Sounds, Play(s, k)
      PROVE  SoundTypeOK'
  BY <1>1, <1>2, <1>3, <1>4, ListsTyped DEF Play
<1>5. ASSUME NEW k \in Sounds, NEW interrupt \in BOOLEAN, PlaySpeech(k, interrupt)
      PROVE  SoundTypeOK'
  <2> DEFINE first == <<Task("tidy", Nobody, Nobody), Task("fetch", Nobody, k)>>
             stop == IF interrupt THEN <<Task("stop", Speech, Nobody)>> ELSE <<>>
             last == <<Task("enqueue", Speech, k)>>
  <2>1. first \in Seq(AllTasks) /\ stop \in Seq(AllTasks) /\ last \in Seq(AllTasks)
    BY <1>1, ListsTyped
  <2>2. MainDoes(first \o stop \o last) /\ held' = held
    BY <1>5 DEF PlaySpeech
  <2> HIDE DEF first, stop, last
  <2>3. (first \o stop \o last) \in Seq(AllTasks)
    BY <2>1
  <2> QED BY <1>2, <1>3, <2>2, <2>3
<1>6. CASE StopSpeech
  BY <1>1, <1>2, <1>3, <1>6, ListsTyped DEF StopSpeech
<1>7. ASSUME NEW s \in Voices, StopVoice(s) \/ DropVoice(s) \/ FadeVoice(s)
      PROVE  SoundTypeOK'
  <2>1. <<Task("stop", s, Nobody)>> \in Seq(AllTasks) /\ <<Task("fade", s, Nobody)>> \in Seq(AllTasks)
    BY <1>1, ListsTyped
  <2>2. Ending(s, live) \in Seq(AllTasks)
    BY <2>1, ListsTyped DEF Ending
  <2>3. (<<Task("stop", s, Nobody)>> \o Ending(s, live)) \in Seq(AllTasks)
    BY <2>1, <2>2
  <2> QED BY <1>2, <1>3, <1>7, <2>1, <2>2, <2>3 DEF StopVoice, DropVoice, FadeVoice
<1>8. ASSUME NEW off \in BOOLEAN, Silence(off)
      PROVE  SoundTypeOK'
  <2> DEFINE stop == <<Task("stop", ambientSource, Nobody)>>
             before == IF ambientSource = Nobody THEN <<>> ELSE IF off THEN stop \o stop ELSE stop
             last == <<Task("leave", Nobody, Nobody)>>
  <2>1. before \in Seq(AllTasks) /\ last \in Seq(AllTasks)
    <3>1. ambientSource # Nobody => stop \in Seq(AllTasks)
      BY <1>1, ListsTyped DEF ProgramTypeOK
    <3> HIDE DEF stop
    <3>2. ambientSource # Nobody => (stop \o stop) \in Seq(AllTasks)
      BY <3>1
    <3> QED BY <3>1, <3>2, ListsTyped
  <2>2. AtRest("main") /\ TakesUp("main", before \o last)
    BY <1>8 DEF Silence
  <2> HIDE DEF before, last
  <2>3. (before \o last) \in Seq(AllTasks)
    BY <2>1
  <2>4. WorkTypeOK'
    BY <2>2, <2>3, TakesUpTyped DEF SoundThreads
  <2>5. MixerTypeOK' /\ OwnersTypeOK' /\ ProgramTypeOK'
    BY <1>8 DEF Silence, MixerTypeOK, OwnersTypeOK, ProgramTypeOK, mixer, owners, program, SoundThreads
  <2> QED BY <2>4, <2>5
<1>9. CASE Activate
  <2>1. WorkTypeOK'
    BY <1>9 DEF Activate, WorkTypeOK, work, It
  <2>2. MixerTypeOK' /\ OwnersTypeOK' /\ ProgramTypeOK'
    BY <1>9 DEF Activate, MixerTypeOK, OwnersTypeOK, ProgramTypeOK, mixer, owners, program
  <2> QED BY <2>1, <2>2
<1> QED BY <1>4, <1>5, <1>6, <1>7, <1>8, <1>9 DEF MainOrders

LEMMA TicksTyped ==
  ASSUME SoundTypeOK, Ticks
  PROVE  SoundTypeOK'
<1> USE NobodyIsNone DEF SoundTypeOK
<1>1. ASSUME NEW tasks \in Seq(AllTasks), Ticking(tasks), ambientSource' \in Hums \cup {Nobody}
      PROVE  SoundTypeOK'
  <2>1. (tasks \o <<Task("leave", Nobody, Nobody)>>) \in Seq(AllTasks)
    BY ListsTyped
  <2>2. WorkTypeOK'
    BY <1>1, <2>1, TakesUpTyped DEF Ticking, SoundThreads
  <2>3. MixerTypeOK' /\ OwnersTypeOK' /\ ProgramTypeOK'
    BY <1>1 DEF Ticking, MixerTypeOK, OwnersTypeOK, ProgramTypeOK, mixer, owners, program, SoundThreads
  <2> QED BY <2>2, <2>3
<1>2. CASE TickOff
  BY <1>1, <1>2, ListsTyped DEF TickOff, ProgramTypeOK, Sources
<1>3. ASSUME NEW s \in Hums, NEW k \in Sounds, TickOn(s, k)
      PROVE  SoundTypeOK'
  BY <1>1, <1>3, ListsTyped DEF TickOn, Sources
<1> QED BY <1>2, <1>3 DEF Ticks

LEMMA NextTyped ==
  ASSUME SoundTypeOK, [SoundNext]_soundVars
  PROVE  SoundTypeOK'
<1>1. CASE UNCHANGED soundVars
  BY <1>1 DEF soundVars, mixer, owners, program, ambience, work, SoundTypeOK, MixerTypeOK,
     OwnersTypeOK, ProgramTypeOK, WorkTypeOK, It
<1>2. CASE SoundNext
  BY <1>2, TidyTyped, FetchTyped, EnqueueTyped, StopTyped, MixerTyped, OrdersTyped, TicksTyped
     DEF SoundNext, Serve
<1> QED BY <1>1, <1>2

LEMMA InitTyped == ASSUME SoundInit PROVE SoundTypeOK
<1>1. MixerTypeOK /\ OwnersTypeOK
  BY NobodyIsNone DEF SoundInit, MixerTypeOK, OwnersTypeOK, AllChannels, Sources
<1>2. ProgramTypeOK
  BY DEF SoundInit, ProgramTypeOK
<1>3. WorkTypeOK
  BY ListsTyped DEF SoundInit, WorkTypeOK
<1> QED BY <1>1, <1>2, <1>3 DEF SoundTypeOK

\* Whatever is played, stopped, faded, freed or reported, every owner is a source,
\* every channel remembered is one SDL has, and a thread is where its task can be.
THEOREM TypeCorrect == SoundSpec => []SoundTypeOK
  BY InitTyped, NextTyped, PTL DEF SoundSpec

--------------------------------------------------------------------------
(* Owners *)

\* A step of a thread outside the critical sections, which leaves the manager and
\* SDL as they are, disturbs no owner.
Aside(t) ==
  /\ UNCHANGED <<on, by, ending, stateMutex, channelMap, orphaned>>
  /\ step[t] # "halted"
  /\ IF step'[t] = "halted" THEN sdl = Nobody /\ sdl' = t ELSE sdl' = sdl
  /\ \A u \in SoundThreads \ {t} : step'[u] = step[u] /\ got'[u] = got[u] /\ agenda'[u] = agenda[u]
  /\ step[t] \notin {"play", "note"} /\ step'[t] \notin {"play", "note"}

LEMMA AsideKeepsOwners ==
  ASSUME OwnerInv, NEW t \in SoundThreads, Aside(t)
  PROVE  OwnerInv'
<1> USE NobodyIsNone
<1>1. MutexHeld' /\ LockHeld'
  BY DEF OwnerInv, Aside, MutexHeld, LockHeld
<1>2. EndedIsSilent' /\ HeardIsSomebodys'
  BY DEF OwnerInv, Aside, EndedIsSilent, HeardIsSomebodys
<1>3. \A c : Reported(c)' <=> Reported(c)
  BY DEF Aside, Reported
<1>4. NotedPlays'
  BY <1>3 DEF OwnerInv, Aside, NotedPlays, It
<1>5. \A c : Unentered(c)' <=> Unentered(c)
  BY DEF Aside, Unentered
<1>6. OwnersFollow'
  BY <1>3, <1>5 DEF OwnerInv, Aside, OwnersFollow, Right
<1> QED BY <1>1, <1>2, <1>4, <1>6 DEF OwnerInv

LEMMA FinishAside ==
  ASSUME WorkTypeOK, NEW t \in SoundThreads, Finish(t)
  PROVE  /\ \A u \in SoundThreads \ {t} : step'[u] = step[u] /\ got'[u] = got[u] /\ agenda'[u] = agenda[u]
         /\ step'[t] = "begin"
  BY DEF WorkTypeOK, Finish

LEMMA GoAside ==
  ASSUME WorkTypeOK, NEW t \in SoundThreads, NEW where, Go(t, where)
  PROVE  /\ \A u \in SoundThreads \ {t} : step'[u] = step[u] /\ got'[u] = got[u] /\ agenda'[u] = agenda[u]
         /\ step'[t] = where /\ agenda'[t] = agenda[t] /\ got'[t] = got[t]
  BY DEF WorkTypeOK, Go

LEMMA TakesUpAside ==
  ASSUME WorkTypeOK, NEW t \in SoundThreads, NEW tasks, AtRest(t), TakesUp(t, tasks)
  PROVE  /\ \A u \in SoundThreads \ {t} : step'[u] = step[u] /\ got'[u] = got[u] /\ agenda'[u] = agenda[u]
         /\ step[t] = "begin" /\ step'[t] = "begin"
  BY DEF WorkTypeOK, AtRest, TakesUp

\* The steps that are aside.
LEMMA ServeAside ==
  ASSUME SoundTypeOK, NEW t \in SoundThreads,
         \/ Tidy(t) \/ Fetch(t) \/ FetchFails(t) \/ Aim(t)
         \/ Check(t) \/ Halt(t) \/ Fade(t) \/ LeaveAmbients(t)
  PROVE  Aside(t)
<1> USE NobodyIsNone DEF SoundTypeOK
<1>1. CASE Tidy(t)
  BY <1>1, FinishAside DEF Tidy, Does, Aside, mixer, owners, WorkTypeOK
<1>2. CASE Fetch(t)
  BY <1>2, FinishAside DEF Fetch, Does, Aside, mixer, owners, WorkTypeOK
<1>3. CASE FetchFails(t)
  BY <1>3 DEF FetchFails, Does, Aside, mixer, owners, WorkTypeOK
<1>4. CASE Aim(t)
  BY <1>4, GoAside DEF Aim, Does, Aside, mixer, owners
<1>5. CASE Check(t)
  BY <1>5, GoAside, FinishAside DEF Check, Does, Aside, mixer, owners
<1>6. CASE Halt(t)
  BY <1>6, GoAside, FinishAside DEF Halt, Does, Aside, mixer, owners
<1>7. CASE Fade(t)
  BY <1>7, FinishAside DEF Fade, Does, Aside, mixer, owners
<1>8. CASE LeaveAmbients(t)
  BY <1>8, FinishAside DEF LeaveAmbients, Does, Aside, mixer, owners
<1> QED BY <1>1, <1>2, <1>3, <1>4, <1>5, <1>6, <1>7, <1>8

LEMMA OthersAside ==
  ASSUME SoundTypeOK, MainOrders \/ Ticks
  PROVE  \E t \in SoundThreads : Aside(t)
<1> USE NobodyIsNone DEF SoundTypeOK
<1>1. "main" \in SoundThreads /\ "ambient" \in SoundThreads
  BY DEF SoundThreads
<1>2. ASSUME NEW tasks, MainDoes(tasks) PROVE Aside("main")
  BY <1>1, <1>2, TakesUpAside DEF MainDoes, Aside, mixer, owners
<1>3. ASSUME NEW tasks, Ticking(tasks) PROVE Aside("ambient")
  BY <1>1, <1>3, TakesUpAside DEF Ticking, Aside, mixer, owners
<1>4. ASSUME NEW off \in BOOLEAN, Silence(off) PROVE Aside("main")
  <2>1. PICK tasks : AtRest("main") /\ TakesUp("main", tasks)
    BY <1>4 DEF Silence
  <2> QED BY <1>1, <1>4, <2>1, TakesUpAside DEF Silence, Aside, mixer, owners
<1>5. CASE Activate
  BY <1>1, <1>5 DEF Activate, AtRest, Aside, mixer, owners, work, WorkTypeOK
<1>6. CASE MainOrders
  BY <1>1, <1>2, <1>4, <1>5, <1>6
     DEF MainOrders, Play, PlaySpeech, StopSpeech, StopVoice, DropVoice, FadeVoice
<1>7. CASE Ticks
  BY <1>1, <1>3, <1>7 DEF Ticks, TickOff, TickOn
<1> QED BY <1>6, <1>7

\* Who is in the manager's critical section is alone there.
LEMMA Alone ==
  ASSUME OwnerInv, NEW t \in SoundThreads, step[t] \in {"play", "note"}
  PROVE  stateMutex = t /\ \A u \in SoundThreads \ {t} : step[u] \notin {"play", "note"}
  BY DEF OwnerInv, MutexHeld

LEMMA NobodyThere ==
  ASSUME OwnerInv, stateMutex = Nobody
  PROVE  \A t \in SoundThreads : step[t] \notin {"play", "note"}
  BY NobodyIsNone DEF OwnerInv, MutexHeld

LEMMA RequestKeepsOwners ==
  ASSUME SoundTypeOK, OwnerInv, NEW t \in SoundThreads, Request(t)
  PROVE  OwnerInv'
<1> USE NobodyIsNone DEF SoundTypeOK
<1>1. /\ \A u \in SoundThreads \ {t} : step'[u] = step[u]
      /\ step[t] = "lock" /\ step'[t] = "play"
  BY GoAside DEF Request, Does
<1>2. MutexHeld' /\ LockHeld'
  BY <1>1, NobodyThere DEF Request, OwnerInv, MutexHeld, LockHeld
<1>3. EndedIsSilent' /\ HeardIsSomebodys' /\ NotedPlays'
  BY <1>1, NobodyThere
     DEF Request, OwnerInv, EndedIsSilent, HeardIsSomebodys, NotedPlays, mixer
<1>4. OwnersFollow'
  BY NobodyThere DEF Request, OwnerInv, OwnersFollow, Right, Unentered, Reported, mixer
<1> QED BY <1>2, <1>3, <1>4 DEF OwnerInv

LEMMA PlayChannelKeepsOwners ==
  ASSUME SoundTypeOK, OwnerInv, NEW t \in SoundThreads, PlayChannel(t)
  PROVE  OwnerInv'
<1> USE NobodyIsNone DEF SoundTypeOK
<1>1. /\ step[t] = "play" /\ sdl = Nobody /\ stateMutex = t
      /\ \A u \in SoundThreads \ {t} : step[u] \notin {"play", "note"}
      /\ agenda[t] # <<>> /\ It(t).source \in Sources
  BY Alone, HeadTyped DEF PlayChannel, Does, It
<1>2. \A c \in AllChannels \ orphaned : Right(c)
  BY <1>1 DEF OwnerInv, OwnersFollow, Unentered, Reported
<1>3. CASE Offered(channel[It(t).source]) = {}
  <2>1. /\ stateMutex' = Nobody /\ step'[t] = "begin"
        /\ \A u \in SoundThreads \ {t} : step'[u] = step[u]
        /\ UNCHANGED <<channelMap, orphaned, on, by, ending, sdl>>
    BY <1>3, FinishAside DEF PlayChannel
  <2>2. MutexHeld' /\ LockHeld'
    BY <1>1, <2>1 DEF OwnerInv, MutexHeld, LockHeld
  <2>3. EndedIsSilent' /\ HeardIsSomebodys' /\ NotedPlays'
    BY <1>1, <2>1 DEF OwnerInv, EndedIsSilent, HeardIsSomebodys, NotedPlays
  <2>4. OwnersFollow'
    BY <1>2, <2>1 DEF OwnersFollow, Right
  <2> QED BY <2>2, <2>3, <2>4 DEF OwnerInv
<1>4. CASE Offered(channel[It(t).source]) # {}
  <2>1. PICK c \in Offered(channel[It(t).source]) :
          /\ IF on[c] THEN ForgetOwner(c) ELSE UNCHANGED <<channelMap, orphaned>>
          /\ on' = [on EXCEPT ![c] = TRUE]
          /\ by' = [by EXCEPT ![c] = It(t).source]
          /\ got' = [got EXCEPT ![t] = c]
          /\ step' = [step EXCEPT ![t] = "note"]
          /\ UNCHANGED <<agenda, stateMutex>>
    BY <1>4 DEF PlayChannel
  <2>2. c \in AllChannels
    BY <1>1, OfferedTyped
  <2>3. /\ step'[t] = "note" /\ got'[t] = c /\ It(t)' = It(t)
        /\ \A u \in SoundThreads \ {t} : step'[u] = step[u]
        /\ UNCHANGED <<sdl, ending, stateMutex>>
    BY <2>1 DEF PlayChannel, WorkTypeOK, It
  <2>4. MutexHeld' /\ LockHeld'
    BY <1>1, <2>3 DEF OwnerInv, MutexHeld, LockHeld
  <2>5. on'[c] /\ by'[c] = It(t).source
    BY <2>1, <2>2 DEF MixerTypeOK
  <2>6. \A d \in AllChannels \ {c} : on'[d] = on[d] /\ by'[d] = by[d]
    BY <2>1 DEF MixerTypeOK
  <2>7. EndedIsSilent' /\ HeardIsSomebodys'
    BY <1>1, <2>2, <2>3, <2>5, <2>6 DEF OwnerInv, EndedIsSilent, HeardIsSomebodys
  <2>8. NotedPlays'
    BY <1>1, <2>3, <2>5 DEF NotedPlays
  <2>9. OwnersFollow'
    <3>1. ASSUME NEW d \in AllChannels \ orphaned', d # c
          PROVE  Right(d)'
      BY <1>2, <2>1, <2>6, <3>1 DEF ForgetOwner, Right, OwnersTypeOK
    <3>2. ASSUME c \notin orphaned'
          PROVE  Unentered(c)'
      <4>1. channelMap'[c] = Nobody
        BY <1>2, <2>1, <2>2, <3>2 DEF ForgetOwner, Right, OwnersTypeOK
      <4> QED BY <2>3, <4>1 DEF Unentered
    <3> QED BY <3>1, <3>2 DEF OwnersFollow
  <2> QED BY <2>4, <2>7, <2>8, <2>9 DEF OwnerInv
<1> QED BY <1>3, <1>4

LEMMA NoteKeepsOwners ==
  ASSUME SoundTypeOK, OwnerInv, NEW t \in SoundThreads, Note(t)
  PROVE  OwnerInv'
<1> USE NobodyIsNone DEF SoundTypeOK
<1>1. /\ step[t] = "note" /\ stateMutex = t /\ got[t] \in AllChannels
      /\ \A u \in SoundThreads \ {t} : step[u] \notin {"play", "note"}
      /\ It(t).source \in Sources
  BY Alone, HeadTyped DEF Note, Does, It, WorkTypeOK
<1>2. /\ stateMutex' = Nobody /\ step'[t] = "begin"
      /\ \A u \in SoundThreads \ {t} : step'[u] = step[u]
      /\ UNCHANGED <<orphaned, on, by, ending, sdl>>
  BY FinishAside DEF Note, mixer
<1>3. MutexHeld' /\ LockHeld'
  BY <1>1, <1>2 DEF OwnerInv, MutexHeld, LockHeld
<1>4. EndedIsSilent' /\ HeardIsSomebodys' /\ NotedPlays'
  BY <1>1, <1>2 DEF OwnerInv, EndedIsSilent, HeardIsSomebodys, NotedPlays
<1>5. OwnersFollow'
  <2>1. ASSUME NEW d \in AllChannels \ orphaned, d # got[t]
        PROVE  Right(d)' \/ Reported(d)'
    <3>1. Right(d) \/ Reported(d)
      BY <1>1, <2>1 DEF OwnerInv, OwnersFollow, Unentered
    <3>2. channelMap'[d] = channelMap[d]
      BY <2>1 DEF Note, OwnersTypeOK
    <3> QED BY <1>2, <3>1, <3>2 DEF Right, Reported
  <2>2. ASSUME NEW c \in AllChannels \ orphaned, c = got[t]
        PROVE  Right(c)' \/ Reported(c)'
    <3>1. CASE Reported(c)
      BY <1>2, <3>1 DEF Reported
    <3>2. CASE ~Reported(c)
      <4>1. on[c] /\ by[c] = It(t).source
        BY <1>1, <2>2, <3>2 DEF OwnerInv, NotedPlays
      <4>2. channelMap[c] # Nobody => Right(c)
        BY <1>1, <2>2, <3>2 DEF OwnerInv, OwnersFollow, Unentered
      <4>3. channelMap'[c] = It(t).source
        BY <1>1, <2>2, <4>1, <4>2 DEF Note, OwnersTypeOK, Right
      <4> QED BY <1>2, <4>1, <4>3 DEF Right
    <3> QED BY <3>1, <3>2
  <2> QED BY <1>2, <2>1, <2>2 DEF OwnersFollow
<1> QED BY <1>3, <1>4, <1>5 DEF OwnerInv

\* What Mix_FreeChunk silences is excused if its owner is known or about to be.
LEMMA FreeKeepsOwners ==
  ASSUME SoundTypeOK, OwnerInv, NEW t \in SoundThreads, Free(t)
  PROVE  OwnerInv'
<1> USE NobodyIsNone DEF SoundTypeOK
<1> DEFINE Cut == {c \in AllChannels : Plays(c, t, got[t])}
<1>1. /\ step[t] = "free" /\ step'[t] = "begin" /\ sdl = Nobody
      /\ \A u \in SoundThreads \ {t} : step'[u] = step[u] /\ got'[u] = got[u] /\ agenda'[u] = agenda[u]
      /\ UNCHANGED <<ending, sdl, stateMutex, channelMap>>
  BY FinishAside DEF Free, Does
<1>2. /\ orphaned' = orphaned \cup {c \in Cut : channelMap[c] # Nobody \/ Unnoted(c)}
      /\ Silent(Cut)
  BY DEF Free
<1>3. \A c \in AllChannels : /\ on'[c] <=> on[c] /\ c \notin Cut
                             /\ c \notin Cut => by'[c] = by[c]
  BY <1>2 DEF Silent
<1> HIDE DEF Cut
<1>4. MutexHeld' /\ LockHeld'
  BY <1>1 DEF OwnerInv, MutexHeld, LockHeld
<1>5. EndedIsSilent' /\ HeardIsSomebodys'
  BY <1>1, <1>3 DEF OwnerInv, EndedIsSilent, HeardIsSomebodys
<1>6. NotedPlays'
  <2> SUFFICES ASSUME NEW u \in SoundThreads, step[u] = "note"
               PROVE  \/ got[u] \in orphaned'
                      \/ on'[got[u]] /\ by'[got[u]] = It(u).source
    BY <1>1 DEF NotedPlays, It
  <2>1. got[u] \in AllChannels /\ Does(u, "enqueue", "note")
    BY DEF WorkTypeOK, Does, It
  <2>2. \/ got[u] \in orphaned
        \/ on[got[u]] /\ by[got[u]] = It(u).source
    BY <1>1 DEF OwnerInv, NotedPlays, Reported
  <2>3. CASE got[u] \in Cut
    BY <1>2, <2>1, <2>3 DEF Unnoted
  <2>4. CASE got[u] \notin Cut
    BY <1>2, <1>3, <2>1, <2>2, <2>4
  <2> QED BY <2>3, <2>4
<1>7. OwnersFollow'
  <2> SUFFICES ASSUME NEW c \in AllChannels \ orphaned'
               PROVE  Right(c)' \/ Unentered(c)'
    BY DEF OwnersFollow
  <2>1. Right(c) \/ Unentered(c)
    BY <1>1, <1>2 DEF OwnerInv, OwnersFollow, Reported
  <2>2. CASE c \in Cut
    BY <1>1, <1>2, <1>3, <2>2 DEF Right
  <2>3. CASE c \notin Cut
    <3>1. CASE Right(c)
      BY <1>1, <1>3, <2>3, <3>1, <2>1 DEF Right, MixerTypeOK
    <3>2. CASE Unentered(c)
      BY <1>1, <3>2 DEF Unentered
    <3> QED BY <2>1, <3>1, <3>2
  <2> QED BY <2>2, <2>3
<1> QED BY <1>4, <1>5, <1>6, <1>7 DEF OwnerInv

LEMMA HaltedKeepsOwners ==
  ASSUME SoundTypeOK, OwnerInv, NEW t \in SoundThreads, Halted(t)
  PROVE  OwnerInv'
<1> USE NobodyIsNone DEF SoundTypeOK
<1> DEFINE halt == channel[It(t).source]
<1>1. /\ step[t] = "halted" /\ step'[t] = "begin" /\ sdl = t /\ sdl' = Nobody
      /\ \A u \in SoundThreads : step[u] \notin {"play", "note"}
      /\ \A u \in SoundThreads \ {t} : step'[u] = step[u]
      /\ UNCHANGED stateMutex
  BY FinishAside, NobodyThere DEF Halted, Does, OwnerInv, LockHeld
<1>2. ForgetOwner(halt) /\ Silent({halt})
  BY DEF Halted
<1> HIDE DEF halt
<1>3. MutexHeld' /\ LockHeld'
  BY <1>1 DEF OwnerInv, MutexHeld, LockHeld
<1>4. EndedIsSilent' /\ HeardIsSomebodys' /\ NotedPlays'
  BY <1>1, <1>2 DEF OwnerInv, EndedIsSilent, HeardIsSomebodys, NotedPlays, Silent
<1>5. OwnersFollow'
  <2> SUFFICES ASSUME NEW c \in AllChannels \ orphaned'
               PROVE  Right(c)'
    BY DEF OwnersFollow
  <2>1. CASE c = halt
    BY <1>2, <2>1 DEF ForgetOwner, Silent, Right, OwnersTypeOK
  <2>2. CASE c # halt
    <3>1. Right(c)
      BY <1>1, <1>2, <2>2 DEF OwnerInv, OwnersFollow, Unentered, Reported, ForgetOwner
    <3>2. /\ channelMap'[c] = channelMap[c] /\ by'[c] = by[c]
          /\ on'[c] <=> on[c]
      BY <1>2, <2>2 DEF ForgetOwner, Silent, OwnersTypeOK
    <3> QED BY <3>1, <3>2 DEF Right
  <2> QED BY <2>1, <2>2
<1> QED BY <1>3, <1>4, <1>5 DEF OwnerInv

LEMMA MixEndKeepsOwners ==
  ASSUME SoundTypeOK, OwnerInv, NEW c \in AllChannels, MixEnd(c)
  PROVE  OwnerInv'
<1> USE NobodyIsNone DEF SoundTypeOK
<1>1. /\ sdl = Nobody /\ sdl' = "mixer" /\ ending' = c
      /\ UNCHANGED <<step, got, agenda, stateMutex, channelMap, orphaned>>
  BY DEF MixEnd, work, owners
<1>2. ~on'[c] /\ \A d \in AllChannels \ {c} : (on'[d] <=> on[d]) /\ by'[d] = by[d]
  BY DEF MixEnd, Silent
<1>3. MutexHeld' /\ LockHeld'
  BY <1>1 DEF OwnerInv, MutexHeld, LockHeld
<1>4. EndedIsSilent' /\ HeardIsSomebodys'
  BY <1>1, <1>2 DEF OwnerInv, EndedIsSilent, HeardIsSomebodys
<1>5. NotedPlays'
  <2> SUFFICES ASSUME NEW t \in SoundThreads, step[t] = "note"
               PROVE  \/ got[t] \in orphaned \/ got[t] = c
                      \/ on'[got[t]] /\ by'[got[t]] = It(t).source
    BY <1>1 DEF NotedPlays, Reported, It
  <2>1. got[t] \in AllChannels
    BY DEF WorkTypeOK
  <2> QED BY <1>1, <1>2, <2>1 DEF OwnerInv, NotedPlays, Reported
<1>6. OwnersFollow'
  <2> SUFFICES ASSUME NEW d \in AllChannels \ orphaned, d # c
               PROVE  Right(d)' \/ Unentered(d)'
    BY <1>1 DEF OwnersFollow, Reported
  <2>1. Right(d) \/ Unentered(d)
    BY <1>1 DEF OwnerInv, OwnersFollow, Reported
  <2>2. Right(d) => Right(d)'
    BY <1>1, <1>2 DEF Right
  <2>3. Unentered(d) => Unentered(d)'
    BY <1>1 DEF Unentered
  <2> QED BY <2>1, <2>2, <2>3
<1> QED BY <1>3, <1>4, <1>5, <1>6 DEF OwnerInv

LEMMA ReportKeepsOwners ==
  ASSUME SoundTypeOK, OwnerInv, FinishedCallback
  PROVE  OwnerInv'
<1> USE NobodyIsNone DEF SoundTypeOK
<1>1. /\ sdl = "mixer" /\ sdl' = Nobody /\ ending \in AllChannels /\ ~on[ending]
      /\ \A t \in SoundThreads : step[t] \notin {"play", "note"}
      /\ UNCHANGED <<step, on, by, stateMutex>>
      /\ ForgetOwner(ending)
  BY NobodyThere DEF FinishedCallback, MixerTypeOK, OwnerInv, EndedIsSilent, work
<1>2. MutexHeld' /\ LockHeld'
  BY <1>1 DEF OwnerInv, MutexHeld, LockHeld
<1>3. EndedIsSilent' /\ HeardIsSomebodys' /\ NotedPlays'
  BY <1>1 DEF OwnerInv, EndedIsSilent, HeardIsSomebodys, NotedPlays
<1>4. OwnersFollow'
  <2> SUFFICES ASSUME NEW c \in AllChannels \ orphaned'
               PROVE  Right(c)'
    BY DEF OwnersFollow
  <2>1. CASE c = ending
    BY <1>1, <2>1 DEF ForgetOwner, Right, OwnersTypeOK
  <2>2. CASE c # ending
    BY <1>1, <2>2 DEF ForgetOwner, Right, OwnersTypeOK, OwnerInv, OwnersFollow, Unentered, Reported
  <2> QED BY <2>1, <2>2
<1> QED BY <1>2, <1>3, <1>4 DEF OwnerInv

LEMMA NextKeepsOwners ==
  ASSUME SoundTypeOK, OwnerInv, [SoundNext]_soundVars
  PROVE  OwnerInv'
<1>1. CASE UNCHANGED soundVars
  BY <1>1 DEF soundVars, mixer, owners, work, OwnerInv, MutexHeld, LockHeld, EndedIsSilent,
     NotedPlays, OwnersFollow, HeardIsSomebodys, Right, Unentered, Reported, It
<1>2. ASSUME NEW t \in SoundThreads, Serve(t) PROVE OwnerInv'
  BY <1>2, ServeAside, AsideKeepsOwners, RequestKeepsOwners, PlayChannelKeepsOwners,
     NoteKeepsOwners, FreeKeepsOwners, HaltedKeepsOwners DEF Serve
<1>3. CASE MainOrders \/ Ticks
  BY <1>3, OthersAside, AsideKeepsOwners
<1> QED BY <1>1, <1>2, <1>3, MixEndKeepsOwners, ReportKeepsOwners DEF SoundNext

LEMMA InitOwners == ASSUME SoundInit PROVE OwnerInv
  BY NobodyIsNone DEF SoundInit, OwnerInv, MutexHeld, LockHeld, EndedIsSilent, NotedPlays,
     OwnersFollow, HeardIsSomebodys, Right, Unentered, Reported

\* When no critical section is under way, nothing excuses an owner.
LEMMA OwnersAreThenRight == ASSUME OwnerInv PROVE OwnersAreRight
<1> SUFFICES ASSUME stateMutex = Nobody, sdl = Nobody, NEW c \in AllChannels \ orphaned
             PROVE  channelMap[c] = IF on[c] THEN by[c] ELSE Nobody
  BY DEF OwnersAreRight
<1> QED BY NobodyThere, NobodyIsNone DEF OwnerInv, OwnersFollow, Right, Unentered, Reported

\* "We need this to know if some source handle still has a channel assigned that
\* it actually no longer owns" (ChannelManager.h:16): between two critical sections
\* every channel's owner is whose sound plays on it, and a silent one has none.
THEOREM OwnersAlwaysRight == SoundSpec => []OwnersAreRight
<1>1. SoundInit => SoundTypeOK /\ OwnerInv
  BY InitTyped, InitOwners
<1>2. SoundTypeOK /\ OwnerInv /\ [SoundNext]_soundVars => (SoundTypeOK /\ OwnerInv)'
  BY NextTyped, NextKeepsOwners
<1>3. SoundTypeOK /\ OwnerInv => OwnersAreRight
  BY OwnersAreThenRight
<1> QED BY <1>1, <1>2, <1>3, PTL DEF SoundSpec


--------------------------------------------------------------------------
(* Ambients *)

(***************************************************************************)
(* "Hard stop": an ambient that is switched off is silent, for any         *)
(* channels, sources and sounds.  Who plays an ambient sound is either the *)
(* one AmbientMgr has, or is being stopped by the main thread, which holds *)
(* AmbientMgr's mutex until it is silent.  A stop works only on a channel  *)
(* whose owner is known, so the argument rests on the one above.           *)
(***************************************************************************)

\* What each thread may have to do.
MainTasks == {k \in AllTasks : k.what \in {"enqueue", "fade"} => k.source \notin Hums}
AmbientTasks(s) ==
  {k \in AllTasks : /\ k.what \in {"fetch", "enqueue", "stop", "leave"}
                    /\ k.what \in {"enqueue", "stop"} => k.source = s}

\* The mutex is left by the last task of who holds it, and by no other.
Open(q) == \A i \in 1 .. Len(q) : q[i].what # "leave"
Closes(q) ==
  /\ Len(q) > 0 /\ q[Len(q)].what = "leave"
  /\ \A i \in 1 .. Len(q) - 1 : q[i].what # "leave"

QueuesOK ==
  /\ agenda["main"] \in Seq(MainTasks) /\ agenda["ambient"] \in Seq(AmbientTasks(ambientSource))
  /\ \A t \in SoundThreads : IF mutex = t THEN Closes(agenda[t]) ELSE Open(agenda[t])
  /\ mutex # "ambient" => agenda["ambient"] = <<>>

InactiveHasNone == ~active => ambientSource = Nobody

\* The channel of an ambient sound is its source's, or will be in a moment.
KnowsIt(s, c) ==
  \/ channel[s] = c
  \/ step["ambient"] = "note" /\ got["ambient"] = c /\ It("ambient").source = s

\* The main thread is about to stop it.
Stopping(s) ==
  /\ mutex = "main" /\ agenda["main"] # <<>>
  /\ It("main").what = "stop" /\ It("main").source = s

HumsKept ==
  \A c \in AllChannels \ orphaned : on[c] /\ by[c] \in Hums =>
    KnowsIt(by[c], c) /\ (by[c] = ambientSource \/ Stopping(by[c]))

\* The channel it is about to enter is the one it asked for, if it asked for one.
NotesItsOwn ==
  step["ambient"] = "note" => channel[It("ambient").source] \in {Nobody, got["ambient"]}

AmbientInv == QueuesOK /\ InactiveHasNone /\ HumsKept /\ NotesItsOwn

--------------------------------------------------------------------------
(* What threads have to do *)

LEMMA TailOpen ==
  ASSUME NEW q \in Seq(AllTasks), q # <<>>
  PROVE  /\ Open(q) => Open(Tail(q))
         /\ Closes(q) /\ Head(q).what # "leave" => Closes(Tail(q))
         /\ Closes(q) /\ Head(q).what = "leave" => Tail(q) = <<>>
<1>1. /\ Len(Tail(q)) = Len(q) - 1 /\ Len(q) \in Nat /\ Len(q) > 0
      /\ \A i \in 1 .. Len(q) - 1 : Tail(q)[i] = q[i + 1]
      /\ Head(q) = q[1] /\ Tail(q) \in Seq(AllTasks)
  OBVIOUS
<1>2. Open(q) => Open(Tail(q))
  BY <1>1 DEF Open
<1>3. ASSUME Closes(q), Head(q).what # "leave" PROVE Closes(Tail(q))
  <2>1. Len(q) > 1
    BY <1>1, <1>3 DEF Closes
  <2>2. Tail(q)[Len(q) - 1] = q[Len(q)]
    BY <1>1, <2>1
  <2>3. \A i \in 1 .. Len(q) - 2 : Tail(q)[i].what # "leave"
    BY <1>1, <1>3 DEF Closes
  <2> QED BY <1>1, <1>3, <2>1, <2>2, <2>3 DEF Closes
<1>4. ASSUME Closes(q), Head(q).what = "leave" PROVE Tail(q) = <<>>
  <2>1. Len(q) = 1
    BY <1>1, <1>4 DEF Closes
  <2>2. Len(Tail(q)) = 0
    BY <1>1, <2>1
  <2> QED BY <1>1, <2>2, EmptySeq
<1> QED BY <1>2, <1>3, <1>4

LEMMA ConcatOpen ==
  ASSUME NEW p \in Seq(AllTasks), NEW q \in Seq(AllTasks), Open(p)
  PROVE  /\ Open(q) => Open(p \o q)
         /\ Closes(q) => Closes(p \o q)
<1>1. /\ Len(p \o q) = Len(p) + Len(q) /\ Len(p) \in Nat /\ Len(q) \in Nat
      /\ \A i \in 1 .. Len(p) : (p \o q)[i] = p[i]
      /\ \A i \in Len(p) + 1 .. Len(p) + Len(q) : (p \o q)[i] = q[i - Len(p)]
  OBVIOUS
<1> DEFINE r == p \o q
<1>2. /\ Len(r) = Len(p) + Len(q)
      /\ \A i \in 1 .. Len(p) : r[i] = p[i]
      /\ \A i \in Len(p) + 1 .. Len(p) + Len(q) : r[i] = q[i - Len(p)]
  BY <1>1
<1> HIDE DEF r
<1>3. ASSUME Open(q) PROVE Open(r)
  <2> SUFFICES ASSUME NEW i \in 1 .. Len(r) PROVE r[i].what # "leave"
    BY DEF Open
  <2>1. CASE i \in 1 .. Len(p)
    BY <1>2, <2>1 DEF Open
  <2>2. CASE i \notin 1 .. Len(p)
    <3>1. i \in Len(p) + 1 .. Len(p) + Len(q) /\ i - Len(p) \in 1 .. Len(q)
      BY <1>1, <1>2, <2>2
    <3> QED BY <1>2, <1>3, <3>1 DEF Open
  <2> QED BY <2>1, <2>2
<1>4. ASSUME Closes(q) PROVE Closes(r)
  <2>1. Len(r) > 0 /\ r[Len(r)].what = "leave"
    BY <1>1, <1>2, <1>4 DEF Closes
  <2>2. ASSUME NEW i \in 1 .. Len(r) - 1 PROVE r[i].what # "leave"
    <3>1. CASE i \in 1 .. Len(p)
      BY <1>2, <3>1 DEF Open
    <3>2. CASE i \notin 1 .. Len(p)
      <4>1. i \in Len(p) + 1 .. Len(p) + Len(q) /\ i - Len(p) \in 1 .. Len(q) - 1
        BY <1>1, <1>2, <3>2
      <4> QED BY <1>2, <1>4, <4>1 DEF Closes
    <3> QED BY <3>1, <3>2
  <2> QED BY <2>1, <2>2 DEF Closes
<1> QED BY <1>3, <1>4 DEF r

LEMMA TasksNamed ==
  /\ MainTasks \subseteq AllTasks
  /\ \A s : AmbientTasks(s) \subseteq AllTasks
  /\ Task("leave", Nobody, Nobody) \in MainTasks
  /\ \A s : Task("leave", Nobody, Nobody) \in AmbientTasks(s)
  BY TaskTyped DEF MainTasks, AmbientTasks, Task

\* Who has something to do in AmbientMgr's thread has the mutex.
LEMMA AmbientHolds ==
  ASSUME QueuesOK, agenda["ambient"] # <<>>
  PROVE  mutex = "ambient"
  BY DEF QueuesOK

\* What is at the head of the ambients' thread, and of the main one.
LEMMA AmbientHead ==
  ASSUME SoundTypeOK, QueuesOK, agenda["ambient"] # <<>>
  PROVE  /\ It("ambient").what \in {"fetch", "enqueue", "stop", "leave"}
         /\ It("ambient").what \in {"enqueue", "stop"} =>
              It("ambient").source = ambientSource /\ ambientSource \in Hums
<1>1. It("ambient") \in AmbientTasks(ambientSource)
  BY DEF QueuesOK, It
<1> QED BY <1>1, NobodyIsNone DEF AmbientTasks, AllTasks, SoundTypeOK, ProgramTypeOK

LEMMA MainHead ==
  ASSUME QueuesOK, agenda["main"] # <<>>
  PROVE  It("main").what \in {"enqueue", "fade"} => It("main").source \notin Hums
  BY DEF QueuesOK, It, MainTasks

\* A task that is done leaves the rest, unless it is the one that leaves.
LEMMA FinishQueues ==
  ASSUME SoundTypeOK, QueuesOK, NEW t \in SoundThreads, agenda[t] # <<>>, It(t).what # "leave",
         Finish(t), UNCHANGED <<mutex, ambientSource>>
  PROVE  QueuesOK'
<1>1. agenda[t] \in Seq(AllTasks) /\ agenda'[t] = Tail(agenda[t])
  BY DEF SoundTypeOK, WorkTypeOK, Finish
<1>2. \A u \in SoundThreads \ {t} : agenda'[u] = agenda[u]
  BY DEF Finish, SoundTypeOK, WorkTypeOK
<1>3. agenda'["main"] \in Seq(MainTasks) /\ agenda'["ambient"] \in Seq(AmbientTasks(ambientSource))
  <2>1. \A S, q : q \in Seq(S) /\ q # <<>> => Tail(q) \in Seq(S)
    OBVIOUS
  <2>2. CASE t = "main"
    BY <1>1, <1>2, <2>1, <2>2 DEF QueuesOK, SoundThreads
  <2>3. CASE t = "ambient"
    BY <1>1, <1>2, <2>1, <2>3 DEF QueuesOK, SoundThreads
  <2> QED BY <2>2, <2>3 DEF SoundThreads
<1>4. \A u \in SoundThreads : IF mutex = u THEN Closes(agenda'[u]) ELSE Open(agenda'[u])
  BY <1>1, <1>2, TailOpen DEF QueuesOK, It
<1>5. mutex # "ambient" => agenda'["ambient"] = <<>>
  BY <1>1, <1>2 DEF QueuesOK, SoundThreads
<1>6. AmbientTasks(ambientSource)' = AmbientTasks(ambientSource)
  BY DEF AmbientTasks
<1> QED BY <1>3, <1>4, <1>5, <1>6 DEF QueuesOK, Open, Closes

LEMMA StayQueues ==
  ASSUME QueuesOK, UNCHANGED <<agenda, mutex, ambientSource>>
  PROVE  QueuesOK'
  BY DEF QueuesOK, Open, Closes, AmbientTasks

--------------------------------------------------------------------------
(* Ambient sounds *)

Same(t) == step'[t] = step[t] /\ got'[t] = got[t] /\ agenda'[t] = agenda[t]

\* A step that starts no ambient sound leaves every one with who has it, as long
\* as each is still the source's or about to be stopped.
LEMMA HumsStay ==
  ASSUME SoundTypeOK, QueuesOK, HumsKept, NotesItsOwn,
         Same("ambient") \/ (step["ambient"] # "note" /\ step'["ambient"] # "note"),
         \A s \in Hums : channel'[s] = channel[s],
         \A c \in AllChannels \ orphaned', s \in Hums : on'[c] /\ by'[c] = s =>
           c \notin orphaned /\ on[c] /\ by[c] = s /\ (s = ambientSource' \/ Stopping(s)')
  PROVE  HumsKept' /\ NotesItsOwn'
<1>1. HumsKept'
  <2> SUFFICES ASSUME NEW c \in AllChannels \ orphaned', on'[c],
                      NEW s \in Hums, by'[c] = s
               PROVE  KnowsIt(s, c)'
    BY DEF HumsKept
  <2>1. KnowsIt(s, c)
    BY DEF HumsKept
  <2>2. channel'[s] = channel[s]
    OBVIOUS
  <2>3. CASE Same("ambient")
    BY <2>1, <2>2, <2>3 DEF KnowsIt, Same, It
  <2>4. CASE step["ambient"] # "note" /\ step'["ambient"] # "note"
    BY <2>1, <2>2, <2>4 DEF KnowsIt
  <2> QED BY <2>3, <2>4
<1>2. NotesItsOwn'
  <2>1. CASE step'["ambient"] # "note"
    BY <2>1 DEF NotesItsOwn
  <2>2. CASE step'["ambient"] = "note"
    <3>1. Same("ambient") /\ step["ambient"] = "note"
      BY <2>2 DEF Same
    <3>2. agenda["ambient"] # <<>> /\ It("ambient").what = "enqueue"
      BY <3>1 DEF SoundTypeOK, WorkTypeOK, SoundThreads
    <3>3. It("ambient")' = It("ambient") /\ It("ambient").source \in Hums
      BY <3>1, <3>2, AmbientHead DEF Same, It
    <3>4. channel'[It("ambient").source] \in {Nobody, got'["ambient"]}
      BY <3>1, <3>3 DEF NotesItsOwn, Same
    <3> QED BY <3>3, <3>4 DEF NotesItsOwn
  <2> QED BY <2>1, <2>2
<1> QED BY <1>1, <1>2

\* So does every step of a thread that does not stop one.
LEMMA Bystander ==
  ASSUME SoundTypeOK, QueuesOK, HumsKept, NotesItsOwn, NEW t \in SoundThreads, agenda[t] # <<>>,
         t = "main" => It(t).what # "stop",
         t = "ambient" => step[t] # "note" /\ step'[t] # "note",
         \A u \in SoundThreads \ {t} : Same(u),
         \A s \in Hums : channel'[s] = channel[s],
         UNCHANGED ambientSource,
         \A c \in AllChannels \ orphaned', s \in Hums : on'[c] /\ by'[c] = s =>
           on[c] /\ by[c] = s /\ c \notin orphaned
  PROVE  HumsKept' /\ NotesItsOwn'
<1>1. \A s : ~Stopping(s)
  BY AmbientHolds DEF Stopping, SoundThreads
<1>2. Same("ambient") \/ (step["ambient"] # "note" /\ step'["ambient"] # "note")
  BY DEF SoundThreads
<1>3. ASSUME NEW c \in AllChannels \ orphaned', NEW s \in Hums, on'[c], by'[c] = s
      PROVE  c \notin orphaned /\ on[c] /\ by[c] = s /\ s = ambientSource'
  BY <1>1, <1>3 DEF HumsKept
<1> QED BY <1>2, <1>3, HumsStay

\* Who ends a task, or goes on with it, leaves the other thread alone.
LEMMA ServeSame ==
  ASSUME SoundTypeOK, NEW t \in SoundThreads, NEW where, Finish(t) \/ Go(t, where)
  PROVE  /\ \A u \in SoundThreads \ {t} : Same(u)
         /\ step'[t] \in {"begin", where}
  BY FinishAside, GoAside DEF SoundTypeOK, Same

LEMMA FetchKeeps ==
  ASSUME SoundTypeOK, AmbientInv, NEW t \in SoundThreads, Fetch(t) \/ FetchFails(t) \/ Free(t)
  PROVE  AmbientInv'
<1> USE DEF AmbientInv
<1>1. /\ agenda[t] # <<>> /\ It(t).what = "fetch" /\ step[t] # "note"
      /\ UNCHANGED <<channel, mutex, active, ambientSource>>
  BY DEF Fetch, FetchFails, Free, Does, It, ambience
<1>2. InactiveHasNone'
  BY <1>1 DEF InactiveHasNone
<1>3. CASE Fetch(t)
  <2>1. QueuesOK'
    BY <1>1, <1>3, FinishQueues, StayQueues DEF Fetch
  <2>2. (\A u \in SoundThreads \ {t} : Same(u)) /\ step'[t] # "note"
    <3>1. CASE Finish(t)
      BY <3>1, ServeSame
    <3>2. CASE ~Finish(t)
      BY <1>3, <3>2 DEF Fetch, Same, SoundTypeOK, WorkTypeOK
    <3> QED BY <3>1, <3>2
  <2>3. UNCHANGED <<on, by, orphaned>>
    BY <1>3 DEF Fetch, mixer, owners
  <2>4. HumsKept' /\ NotesItsOwn'
    BY <1>1, <2>2, <2>3, Bystander
  <2> QED BY <1>2, <2>1, <2>4
<1>4. CASE FetchFails(t)
  <2> DEFINE rest == IF mutex = t THEN <<Task("leave", Nobody, Nobody)>> ELSE <<>>
  <2>1. agenda' = [agenda EXCEPT ![t] = rest]
    BY <1>4 DEF FetchFails
  <2>2. IF mutex = t THEN Closes(rest) ELSE Open(rest)
    BY DEF Closes, Open, Task
  <2>3. rest \in Seq(MainTasks) /\ rest \in Seq(AmbientTasks(ambientSource))
    BY TasksNamed
  <2> HIDE DEF rest
  <2>4. /\ agenda'[t] = rest
        /\ \A u \in SoundThreads \ {t} : agenda'[u] = agenda[u]
    BY <2>1 DEF SoundTypeOK, WorkTypeOK
  <2>5. t = "ambient" => mutex = "ambient"
    BY <1>1, AmbientHolds
  <2>6. agenda'["main"] \in Seq(MainTasks) /\ agenda'["ambient"] \in Seq(AmbientTasks(ambientSource))
    BY <2>3, <2>4 DEF QueuesOK, SoundThreads
  <2>7. \A u \in SoundThreads : IF mutex = u THEN Closes(agenda'[u]) ELSE Open(agenda'[u])
    BY <2>2, <2>4 DEF QueuesOK
  <2>8. mutex # "ambient" => agenda'["ambient"] = <<>>
    BY <2>4, <2>5 DEF QueuesOK, SoundThreads
  <2>9. QueuesOK'
    BY <1>1, <2>6, <2>7, <2>8 DEF QueuesOK, Closes, Open, AmbientTasks
  <2>10. UNCHANGED <<on, by, orphaned, step, got>>
    BY <1>4 DEF FetchFails, mixer, owners
  <2>11. HumsKept' /\ NotesItsOwn'
    BY <1>1, <2>4, <2>10, Bystander DEF Same
  <2> QED BY <1>2, <2>9, <2>11
<1>5. CASE Free(t)
  <2>1. QueuesOK'
    BY <1>1, <1>5, FinishQueues DEF Free
  <2>2. (\A u \in SoundThreads \ {t} : Same(u)) /\ step'[t] # "note"
    BY <1>5, ServeSame DEF Free
  <2>3. /\ orphaned \subseteq orphaned'
        /\ \A c \in AllChannels : on'[c] => on[c] /\ by'[c] = by[c]
    BY <1>5 DEF Free, Silent
  <2>4. HumsKept' /\ NotesItsOwn'
    BY <1>1, <2>2, <2>3, Bystander
  <2> QED BY <1>2, <2>1, <2>4
<1> QED BY <1>3, <1>4, <1>5

--------------------------------------------------------------------------
(* Enqueue *)

\* An enqueue of the ambients' thread is of the source.
LEMMA EnqueueOfSource ==
  ASSUME SoundTypeOK, QueuesOK, agenda["ambient"] # <<>>, It("ambient").what = "enqueue"
  PROVE  /\ It("ambient").source = ambientSource /\ ambientSource \in Hums /\ ambientSource \in Sources
         /\ ambientSource # Speech /\ ambientSource # Nobody /\ mutex = "ambient"
         /\ \A s : ~Stopping(s)
<1>1. It("ambient").source = ambientSource /\ ambientSource \in Hums /\ mutex = "ambient"
  BY AmbientHead, AmbientHolds
<1> QED BY <1>1, SoundAssumption DEF Sources, Stopping

LEMMA AimKeeps ==
  ASSUME SoundTypeOK, AmbientInv, NEW t \in SoundThreads, Aim(t)
  PROVE  AmbientInv'
<1> USE DEF AmbientInv
<1>1. /\ agenda[t] # <<>> /\ It(t).what = "enqueue" /\ step[t] = "begin" /\ Go(t, "lock")
      /\ UNCHANGED <<mutex, active, ambientSource, on, by, orphaned>>
      /\ It(t).source \in Sources
  BY HeadTyped DEF Aim, Does, It, ambience, mixer, owners, SoundTypeOK
<1>2. InactiveHasNone' /\ QueuesOK'
  BY <1>1, StayQueues DEF InactiveHasNone, Go
<1>3. /\ \A u \in SoundThreads \ {t} : Same(u)
      /\ step'[t] = "lock"
  BY <1>1, GoAside DEF SoundTypeOK, Same
<1>4. channel \in [Sources -> AllChannels \cup {Nobody}] /\ Hums \subseteq Sources
  BY DEF SoundTypeOK, OwnersTypeOK, Sources
<1>5. CASE t = "main"
  <2>1. It(t).source \notin Hums
    BY <1>1, <1>5, MainHead
  <2>2. \A s \in Hums : channel'[s] = channel[s]
    BY <1>4, <2>1 DEF Aim
  <2>3. HumsKept' /\ NotesItsOwn'
    BY <1>1, <1>3, <1>5, <2>2, Bystander
  <2> QED BY <1>2, <2>3
<1>6. CASE t = "ambient"
  <2>1. /\ It("ambient").source = ambientSource /\ ambientSource \in Hums /\ ambientSource \in Sources
        /\ ambientSource # Speech /\ \A s : ~Stopping(s)
    BY <1>1, <1>6, EnqueueOfSource
  <2>2. NotesItsOwn'
    BY <1>3, <1>6 DEF NotesItsOwn
  <2>3. channel' # channel => channel[ambientSource] # Nobody /\ ~on[channel[ambientSource]]
    BY <1>6, <2>1 DEF Aim, CanOperate, IsMyChannel, Sounding
  <2>4. HumsKept'
    <3> SUFFICES ASSUME NEW c \in AllChannels \ orphaned, on[c], NEW s \in Hums, by[c] = s
                 PROVE  KnowsIt(s, c)' /\ s = ambientSource
      BY <1>1 DEF HumsKept
    <3>1. KnowsIt(s, c) /\ s = ambientSource
      BY <2>1 DEF HumsKept
    <3>2. channel[s] = c
      BY <1>1, <1>6, <3>1 DEF KnowsIt
    <3>3. channel' = channel
      BY <2>3, <3>1, <3>2
    <3> QED BY <3>1, <3>2, <3>3 DEF KnowsIt
  <2> QED BY <1>2, <2>2, <2>4
<1> QED BY <1>5, <1>6 DEF SoundThreads

LEMMA RequestKeeps ==
  ASSUME SoundTypeOK, AmbientInv, NEW t \in SoundThreads, Request(t)
  PROVE  AmbientInv'
<1> USE DEF AmbientInv
<1>1. /\ agenda[t] # <<>> /\ It(t).what = "enqueue" /\ step[t] = "lock" /\ Go(t, "play")
      /\ UNCHANGED <<mutex, active, ambientSource, on, by, orphaned, channel>>
  BY DEF Request, Does, It, ambience, mixer
<1>2. InactiveHasNone' /\ QueuesOK'
  BY <1>1, StayQueues DEF InactiveHasNone, Go
<1>3. (\A u \in SoundThreads \ {t} : Same(u)) /\ step'[t] = "play"
  BY <1>1, GoAside DEF SoundTypeOK, Same
<1>4. HumsKept' /\ NotesItsOwn'
  BY <1>1, <1>3, Bystander
<1> QED BY <1>2, <1>4

LEMMA PlayChannelKeeps ==
  ASSUME SoundTypeOK, AmbientInv, NEW t \in SoundThreads, PlayChannel(t)
  PROVE  AmbientInv'
<1> USE DEF AmbientInv
<1> DEFINE Takes == Offered(channel[It(t).source])
<1>1. /\ agenda[t] # <<>> /\ It(t).what = "enqueue" /\ step[t] = "play"
      /\ UNCHANGED <<mutex, active, ambientSource, channel>>
      /\ It(t).source \in Sources
  BY HeadTyped DEF PlayChannel, Does, It, ambience, SoundTypeOK
<1>2. InactiveHasNone'
  BY <1>1 DEF InactiveHasNone
<1>3. CASE Takes = {}
  <2>1. Finish(t) /\ UNCHANGED <<on, by, orphaned>>
    BY <1>3 DEF PlayChannel
  <2>2. QueuesOK'
    BY <1>1, <2>1, FinishQueues
  <2>3. (\A u \in SoundThreads \ {t} : Same(u)) /\ step'[t] = "begin"
    BY <2>1, FinishAside DEF SoundTypeOK, Same
  <2>4. HumsKept' /\ NotesItsOwn'
    BY <1>1, <2>1, <2>3, Bystander
  <2> QED BY <1>2, <2>2, <2>4
<1>4. CASE Takes # {}
  <2>1. PICK c \in Takes :
          /\ IF on[c] THEN ForgetOwner(c) ELSE UNCHANGED <<channelMap, orphaned>>
          /\ on' = [on EXCEPT ![c] = TRUE]
          /\ by' = [by EXCEPT ![c] = It(t).source]
          /\ got' = [got EXCEPT ![t] = c]
          /\ step' = [step EXCEPT ![t] = "note"]
          /\ agenda' = agenda
    BY <1>4 DEF PlayChannel
  <2>2. c \in AllChannels
    BY <1>1, OfferedTyped DEF SoundTypeOK
  <2>3. /\ on'[c] /\ by'[c] = It(t).source
        /\ \A d \in AllChannels \ {c} :
             /\ on'[d] = on[d] /\ by'[d] = by[d]
             /\ d \in orphaned <=> d \in orphaned'
    BY <2>1, <2>2 DEF SoundTypeOK, MixerTypeOK, ForgetOwner
  <2>4. /\ \A u \in SoundThreads \ {t} : Same(u)
        /\ step'[t] = "note" /\ got'[t] = c
    BY <2>1 DEF SoundTypeOK, WorkTypeOK, Same
  <2>5. QueuesOK'
    BY <1>1, <2>1, StayQueues
  <2>6. CASE t = "main"
    <3>1. It(t).source \notin Hums
      BY <1>1, <2>6, MainHead
    <3>2. \A d \in AllChannels \ orphaned', s \in Hums : on'[d] /\ by'[d] = s =>
            on[d] /\ by[d] = s /\ d \notin orphaned
      BY <2>3, <3>1
    <3>3. HumsKept' /\ NotesItsOwn'
      BY <1>1, <2>4, <2>6, <3>2, Bystander
    <3> QED BY <1>2, <2>5, <3>3
  <2>7. CASE t = "ambient"
    <3>1. /\ It("ambient").source = ambientSource /\ ambientSource \in Hums /\ \A s : ~Stopping(s)
      BY <1>1, <2>7, EnqueueOfSource
    <3>2. It("ambient")' = It("ambient")
      BY <2>1 DEF It
    <3>3. channel[ambientSource] \in {Nobody, c}
      BY <2>7, <3>1 DEF Offered
    <3>4. NotesItsOwn'
      BY <1>1, <2>4, <2>7, <3>1, <3>2, <3>3 DEF NotesItsOwn
    <3>5. HumsKept'
      <4> SUFFICES ASSUME NEW d \in AllChannels \ orphaned', on'[d],
                          NEW s \in Hums, by'[d] = s
                   PROVE  KnowsIt(s, d)' /\ s = ambientSource'
        BY DEF HumsKept
      <4>1. CASE d = c
        BY <1>1, <2>3, <2>4, <2>7, <3>1, <3>2, <4>1 DEF KnowsIt
      <4>2. CASE d # c
        <5>1. on[d] /\ by[d] = s /\ d \notin orphaned
          BY <2>3, <4>2
        <5>2. KnowsIt(s, d) /\ s = ambientSource
          BY <3>1, <5>1 DEF HumsKept
        <5>3. channel[s] = d
          BY <1>1, <2>7, <5>2 DEF KnowsIt
        <5> QED BY <1>1, <5>2, <5>3 DEF KnowsIt
      <4> QED BY <4>1, <4>2
    <3> QED BY <1>2, <2>5, <3>4, <3>5
  <2> QED BY <2>6, <2>7 DEF SoundThreads
<1> QED BY <1>3, <1>4

LEMMA NoteKeeps ==
  ASSUME SoundTypeOK, AmbientInv, NEW t \in SoundThreads, Note(t)
  PROVE  AmbientInv'
<1> USE DEF AmbientInv
<1>1. /\ agenda[t] # <<>> /\ It(t).what = "enqueue" /\ step[t] = "note" /\ Finish(t)
      /\ UNCHANGED <<mutex, active, ambientSource, on, by, orphaned>>
      /\ It(t).source \in Sources
      /\ channel' = [channel EXCEPT ![It(t).source] = got[t]]
  BY HeadTyped DEF Note, Does, It, ambience, mixer, SoundTypeOK
<1>2. InactiveHasNone' /\ QueuesOK'
  BY <1>1, FinishQueues DEF InactiveHasNone
<1>3. (\A u \in SoundThreads \ {t} : Same(u)) /\ step'[t] = "begin"
  BY <1>1, FinishAside DEF SoundTypeOK, Same
<1>4. channel \in [Sources -> AllChannels \cup {Nobody}] /\ Hums \subseteq Sources
  BY DEF SoundTypeOK, OwnersTypeOK, Sources
<1>5. CASE t = "main"
  <2>1. It(t).source \notin Hums
    BY <1>1, <1>5, MainHead
  <2>2. \A s \in Hums : channel'[s] = channel[s]
    BY <1>1, <1>4, <2>1
  <2>3. HumsKept' /\ NotesItsOwn'
    BY <1>1, <1>3, <1>5, <2>2, Bystander
  <2> QED BY <1>2, <2>3
<1>6. CASE t = "ambient"
  <2>1. /\ It("ambient").source = ambientSource /\ ambientSource \in Hums /\ ambientSource \in Sources
        /\ ambientSource # Nobody /\ \A s : ~Stopping(s)
    BY <1>1, <1>6, EnqueueOfSource
  <2>2. NotesItsOwn'
    BY <1>3, <1>6 DEF NotesItsOwn
  <2>3. channel[ambientSource] \in {Nobody, got["ambient"]}
    BY <1>1, <1>6, <2>1 DEF NotesItsOwn
  <2>4. HumsKept'
    <3> SUFFICES ASSUME NEW c \in AllChannels \ orphaned, on[c], NEW s \in Hums, by[c] = s
                 PROVE  KnowsIt(s, c)' /\ s = ambientSource
      BY <1>1 DEF HumsKept
    <3>1. KnowsIt(s, c) /\ s = ambientSource
      BY <2>1 DEF HumsKept
    <3>2. got["ambient"] = c
      BY <2>3, <3>1, NobodyIsNone DEF KnowsIt
    <3>3. channel'[ambientSource] = c
      BY <1>1, <1>4, <1>6, <2>1, <3>2
    <3> QED BY <3>1, <3>3 DEF KnowsIt
  <2> QED BY <1>2, <2>2, <2>4
<1> QED BY <1>5, <1>6 DEF SoundThreads

--------------------------------------------------------------------------
(* Stop *)

\* A sound that the main thread is stopping can be stopped: its channel is known
\* to its source, and its owner to the manager.
LEMMA StoppedIsKnown ==
  ASSUME SoundTypeOK, OwnerInv, AmbientInv, step["main"] # "note",
         NEW c \in AllChannels \ orphaned, on[c], by[c] \in Hums, Stopping(by[c])
  PROVE  channel[by[c]] = c /\ CanOperate(by[c])
<1>1. agenda["ambient"] = <<>>
  BY SoundAssumption DEF AmbientInv, QueuesOK, Stopping
<1>2. \A t \in SoundThreads : step[t] # "note"
  BY <1>1 DEF SoundThreads, SoundTypeOK, WorkTypeOK
<1>3. channel[by[c]] = c
  BY <1>2 DEF AmbientInv, HumsKept, KnowsIt, SoundThreads
<1>4. ~Reported(c) /\ ~Unentered(c)
  BY <1>2 DEF OwnerInv, EndedIsSilent, Reported, Unentered
<1>5. channelMap[c] = by[c]
  BY <1>4 DEF OwnerInv, OwnersFollow, Right
<1> QED BY <1>3, <1>5, NobodyIsNone DEF CanOperate, IsMyChannel

\* A stop is over when there is nothing to stop.
LEMMA StopKeeps ==
  ASSUME SoundTypeOK, OwnerInv, AmbientInv, NEW t \in SoundThreads,
         Check(t) \/ Halt(t) \/ Halted(t)
  PROVE  AmbientInv'
<1> USE DEF AmbientInv
<1>1. /\ agenda[t] # <<>> /\ It(t).what \in {"stop", "fade"} /\ step[t] # "note"
      /\ UNCHANGED <<mutex, active, ambientSource, channel>>
      /\ It(t).source \in Sources
  BY HeadTyped DEF Check, Halt, Halted, Does, It, ambience, SoundTypeOK
<1>2. Finish(t) \/ Go(t, "halt") \/ Go(t, "halted")
  BY DEF Check, Halt, Halted
<1>3. InactiveHasNone' /\ QueuesOK'
  BY <1>1, <1>2, FinishQueues, StayQueues DEF InactiveHasNone, Go
<1>4. (\A u \in SoundThreads \ {t} : Same(u)) /\ step'[t] # "note"
  BY <1>2, ServeSame
<1>5. \A c \in AllChannels \ orphaned' :
        on'[c] => on[c] /\ by'[c] = by[c] /\ c \notin orphaned
  BY DEF Check, Halt, Halted, Silent, ForgetOwner, mixer, owners
<1>6. CASE t = "ambient" \/ It(t).what # "stop"
  <2>1. HumsKept' /\ NotesItsOwn'
    BY <1>1, <1>4, <1>5, <1>6, Bystander
  <2> QED BY <1>3, <2>1
<1>7. CASE t = "main" /\ It(t).what = "stop"
  <2>1. ASSUME NEW c \in AllChannels \ orphaned', NEW s \in Hums, on'[c], by'[c] = s
        PROVE  c \notin orphaned /\ on[c] /\ by[c] = s /\ (s = ambientSource' \/ Stopping(s)')
    <3>1. c \notin orphaned /\ on[c] /\ by[c] = s
      BY <1>5, <2>1
    <3>2. CASE s = ambientSource
      BY <1>1, <3>1, <3>2
    <3>3. CASE s # ambientSource
      <4>1. Stopping(s)
        BY <3>1, <3>3 DEF HumsKept
      <4>2. channel[s] = c /\ CanOperate(s) /\ It(t).source = s
        BY <1>1, <1>7, <3>1, <4>1, StoppedIsKnown DEF Stopping
      <4>3. ~Halted(t)
        BY <2>1, <4>2 DEF Halted, Silent
      <4>4. Go(t, "halt") \/ Go(t, "halted")
        BY <3>1, <4>2, <4>3 DEF Check, Halt
      <4>5. Stopping(s)'
        BY <1>1, <4>1, <4>4 DEF Stopping, Go, It
      <4> QED BY <3>1, <4>5
    <3> QED BY <3>2, <3>3
  <2>2. HumsKept' /\ NotesItsOwn'
    <3>1. Same("ambient")
      BY <1>4, <1>7 DEF SoundThreads
    <3> QED BY <1>1, <2>1, <3>1, HumsStay
  <2> QED BY <1>3, <2>2
<1> QED BY <1>1, <1>6, <1>7 DEF SoundThreads

LEMMA FadeKeeps ==
  ASSUME SoundTypeOK, AmbientInv, NEW t \in SoundThreads, Fade(t)
  PROVE  AmbientInv'
<1> USE DEF AmbientInv
<1>1. /\ agenda[t] # <<>> /\ It(t).what = "fade" /\ step[t] = "halt" /\ Finish(t)
      /\ UNCHANGED <<mutex, active, ambientSource, on, by, orphaned>>
      /\ channel' = [channel EXCEPT ![It(t).source] = Nobody]
  BY DEF Fade, Does, It, ambience, mixer, owners
<1>2. t = "main" /\ It(t).source \notin Hums
  BY <1>1, AmbientHead, MainHead DEF SoundThreads
<1>3. InactiveHasNone' /\ QueuesOK'
  BY <1>1, FinishQueues DEF InactiveHasNone
<1>4. (\A u \in SoundThreads \ {t} : Same(u)) /\ step'[t] = "begin"
  BY <1>1, FinishAside DEF SoundTypeOK, Same
<1>5. \A s \in Hums : channel'[s] = channel[s]
  BY <1>1, <1>2 DEF SoundTypeOK, OwnersTypeOK, Sources
<1>6. HumsKept' /\ NotesItsOwn'
  BY <1>1, <1>2, <1>4, <1>5, Bystander
<1> QED BY <1>3, <1>6

LEMMA TidyKeeps ==
  ASSUME SoundTypeOK, AmbientInv, NEW t \in SoundThreads, Tidy(t)
  PROVE  AmbientInv'
<1> USE DEF AmbientInv
<1>1. /\ agenda[t] # <<>> /\ It(t).what = "tidy" /\ step[t] = "begin"
      /\ UNCHANGED <<mutex, active, ambientSource, on, by, orphaned, channel>>
  BY DEF Tidy, Does, It, ambience, mixer, owners
<1>2. t = "main" /\ InactiveHasNone'
  BY <1>1, AmbientHead DEF SoundThreads, InactiveHasNone
<1>3. CASE Finish(t)
  <2>1. QueuesOK'
    BY <1>1, <1>3, FinishQueues
  <2>2. (\A u \in SoundThreads \ {t} : Same(u)) /\ step'[t] = "begin"
    BY <1>3, FinishAside DEF SoundTypeOK, Same
  <2>3. HumsKept' /\ NotesItsOwn'
    BY <1>1, <1>2, <2>2, Bystander
  <2> QED BY <1>2, <2>1, <2>3
<1>4. CASE ~Finish(t)
  <2>1. PICK s \in live : agenda' = [agenda EXCEPT ![t] = Ending(s, held) \o @]
    BY <1>4 DEF Tidy
  <2>2. UNCHANGED <<step, got>>
    BY <1>4 DEF Tidy
  <2> DEFINE more == Ending(s, held)
  <2>3. s \in Sources
    BY DEF SoundTypeOK, ProgramTypeOK
  <2>4. more \in Seq(AllTasks) /\ more \in Seq(MainTasks) /\ Open(more)
    <3>1. Task("stop", s, Nobody) \in AllTasks /\ Task("stop", s, Nobody).what = "stop"
      BY <2>3, TaskTyped DEF Task
    <3>2. Task("stop", s, Nobody) \in MainTasks
      BY <3>1 DEF MainTasks
    <3>3. more = <<>> \/ more = <<Task("stop", s, Nobody)>>
      BY DEF Ending
    <3>4. CASE more = <<>>
      BY <3>4 DEF Open
    <3>5. CASE more = <<Task("stop", s, Nobody)>>
      <4>1. more \in Seq(AllTasks) /\ more \in Seq(MainTasks)
        BY <3>1, <3>2, <3>5
      <4>2. Len(more) = 1 /\ more[1].what = "stop"
        BY <3>1, <3>5
      <4> QED BY <4>1, <4>2 DEF Open
    <3> QED BY <3>3, <3>4, <3>5
  <2> HIDE DEF more
  <2>5. agenda'["main"] = more \o agenda["main"] /\ agenda'["ambient"] = agenda["ambient"]
    BY <1>2, <2>1 DEF more, SoundTypeOK, WorkTypeOK, SoundThreads
  <2>6. agenda["main"] \in Seq(AllTasks) /\ agenda["main"] \in Seq(MainTasks)
    BY DEF SoundTypeOK, WorkTypeOK, QueuesOK, SoundThreads
  <2>7. /\ Open(agenda["main"]) => Open(agenda'["main"])
        /\ Closes(agenda["main"]) => Closes(agenda'["main"])
    BY <2>4, <2>5, <2>6, ConcatOpen
  <2>8. agenda'["main"] \in Seq(MainTasks)
    BY <2>4, <2>5, <2>6
  <2>9. QueuesOK'
    BY <1>1, <2>5, <2>7, <2>8 DEF QueuesOK, SoundThreads, AmbientTasks, Open, Closes
  <2>10. HumsKept' /\ NotesItsOwn'
    BY <1>1, <1>2, <2>2, <2>5, Bystander DEF Same, SoundThreads
  <2> QED BY <1>2, <2>9, <2>10
<1> QED BY <1>3, <1>4

LEMMA LeaveKeeps ==
  ASSUME SoundTypeOK, AmbientInv, NEW t \in SoundThreads, LeaveAmbients(t)
  PROVE  AmbientInv'
<1> USE DEF AmbientInv
<1>1. /\ agenda[t] # <<>> /\ It(t).what = "leave" /\ step[t] = "begin" /\ Finish(t)
      /\ UNCHANGED <<active, ambientSource, on, by, orphaned, channel>> /\ mutex' = Nobody
  BY DEF LeaveAmbients, Does, It, mixer, owners
<1>2. InactiveHasNone'
  BY <1>1 DEF InactiveHasNone
<1>3. (\A u \in SoundThreads \ {t} : Same(u)) /\ step'[t] = "begin"
  BY <1>1, FinishAside DEF SoundTypeOK, Same
<1>4. HumsKept' /\ NotesItsOwn'
  BY <1>1, <1>3, Bystander
<1>5. agenda[t] \in Seq(AllTasks) /\ agenda'[t] = Tail(agenda[t])
  BY <1>1 DEF SoundTypeOK, WorkTypeOK, Finish
<1>6. Head(agenda[t]) = agenda[t][1] /\ Len(agenda[t]) > 0
  BY <1>1, <1>5
<1>7. Closes(agenda[t]) /\ mutex = t
  BY <1>1, <1>6 DEF QueuesOK, Open, It
<1>8. agenda'[t] = <<>>
  BY <1>1, <1>5, <1>7, TailOpen DEF It
<1>9. \A u \in SoundThreads : Open(agenda'[u])
  BY <1>3, <1>7, <1>8 DEF QueuesOK, Open, Same
<1>10. agenda'["main"] \in Seq(MainTasks) /\ agenda'["ambient"] = <<>>
  BY <1>3, <1>7, <1>8, SoundAssumption DEF QueuesOK, Same, SoundThreads
<1>11. QueuesOK'
  BY <1>1, <1>9, <1>10, NobodyIsNone DEF QueuesOK, Open
<1> QED BY <1>2, <1>4, <1>11

--------------------------------------------------------------------------
(* The mixer, and what the program asks for *)

LEMMA MixerKeeps ==
  ASSUME SoundTypeOK, OwnerInv, AmbientInv,
         FinishedCallback \/ \E c \in AllChannels : MixEnd(c)
  PROVE  AmbientInv'
<1> USE DEF AmbientInv
<1>1. UNCHANGED <<mutex, active, ambientSource, channel, agenda, step, got>>
  BY DEF FinishedCallback, MixEnd, work, ambience
<1>2. InactiveHasNone' /\ QueuesOK'
  BY <1>1, StayQueues DEF InactiveHasNone
<1>3. \A c \in AllChannels \ orphaned' :
        on'[c] => on[c] /\ by'[c] = by[c] /\ c \notin orphaned
  BY DEF FinishedCallback, ForgetOwner, MixEnd, Silent, owners, OwnerInv, EndedIsSilent
<1>4. \A c \in AllChannels \ orphaned', s \in Hums : on'[c] /\ by'[c] = s =>
        c \notin orphaned /\ on[c] /\ by[c] = s /\ (s = ambientSource' \/ Stopping(s)')
  BY <1>1, <1>3 DEF HumsKept, Stopping, It
<1>5. HumsKept' /\ NotesItsOwn'
  BY <1>1, <1>4, HumsStay DEF Same
<1> QED BY <1>2, <1>5

\* The main thread takes up tasks of its own when it is at rest.
LEMMA OrderKeeps ==
  ASSUME SoundTypeOK, AmbientInv, NEW tasks \in Seq(MainTasks), Open(tasks), MainDoes(tasks)
  PROVE  AmbientInv'
<1> USE DEF AmbientInv
<1>1. /\ agenda["main"] = <<>> /\ TakesUp("main", tasks) /\ step["main"] = "begin"
      /\ UNCHANGED <<mutex, active, ambientSource, channel, on, by, orphaned, step, got>>
  BY DEF MainDoes, AtRest, TakesUp, ambience, mixer, owners, SoundTypeOK, WorkTypeOK, SoundThreads
<1>2. agenda'["main"] = tasks /\ agenda'["ambient"] = agenda["ambient"]
  BY <1>1 DEF TakesUp, SoundTypeOK, WorkTypeOK, SoundThreads
<1>3. mutex # "main"
  <2>1. ~Closes(agenda["main"])
    BY <1>1 DEF Closes
  <2> QED BY <2>1 DEF QueuesOK, SoundThreads
<1>4. QueuesOK'
  BY <1>1, <1>2, <1>3 DEF QueuesOK, Open, Closes, AmbientTasks, SoundThreads
<1>5. \A s : ~Stopping(s)
  BY <1>3 DEF Stopping
<1>6. \A c \in AllChannels \ orphaned', s \in Hums : on'[c] /\ by'[c] = s =>
        c \notin orphaned /\ on[c] /\ by[c] = s /\ s = ambientSource'
  BY <1>1, <1>5 DEF HumsKept
<1>7. HumsKept' /\ NotesItsOwn'
  BY <1>1, <1>2, <1>6, HumsStay DEF Same
<1>8. InactiveHasNone'
  BY <1>1 DEF InactiveHasNone
<1> QED BY <1>4, <1>7, <1>8

\* What the program asks of Playback is the main thread's, and opens.
LEMMA ListsOpen ==
  /\ \A k \in MainTasks : <<k>> \in Seq(MainTasks) /\ (k.what # "leave" => Open(<<k>>))
  /\ \A p, q \in Seq(MainTasks) : p \o q \in Seq(MainTasks) /\ (Open(p) /\ Open(q) => Open(p \o q))
  /\ <<>> \in Seq(MainTasks) /\ Open(<<>>)
<1>1. \A k \in MainTasks : <<k>> \in Seq(MainTasks)
  OBVIOUS
<1>2. ASSUME NEW k \in MainTasks, k.what # "leave" PROVE Open(<<k>>)
  BY <1>2 DEF Open
<1>3. \A p, q \in Seq(MainTasks) : p \o q \in Seq(MainTasks)
  OBVIOUS
<1>4. Seq(MainTasks) \subseteq Seq(AllTasks)
  BY TasksNamed
<1>5. \A p, q \in Seq(MainTasks) : Open(p) /\ Open(q) => Open(p \o q)
  BY <1>4, ConcatOpen
<1>6. <<>> \in Seq(MainTasks) /\ Open(<<>>)
  BY DEF Open
<1> QED BY <1>1, <1>2, <1>3, <1>5, <1>6

LEMMA PlaybackKeeps ==
  ASSUME SoundTypeOK, AmbientInv,
         \/ \E s \in Voices, k \in Sounds : Play(s, k)
         \/ \E k \in Sounds, interrupt \in BOOLEAN : PlaySpeech(k, interrupt)
         \/ StopSpeech
         \/ \E s \in Voices : StopVoice(s) \/ DropVoice(s) \/ FadeVoice(s)
  PROVE  AmbientInv'
<1> DEFINE Fine(q) == q \in Seq(MainTasks) /\ Open(q)
           TidyUp == Task("tidy", Nobody, Nobody)
           Get(k) == Task("fetch", Nobody, k)
           Put(s, k) == Task("enqueue", s, k)
           Stop(s) == Task("stop", s, Nobody)
<1>1. /\ TidyUp \in MainTasks /\ TidyUp.what # "leave"
      /\ \A k \in Sounds : Get(k) \in MainTasks /\ Get(k).what # "leave"
  BY TaskTyped DEF MainTasks, Task
<1>2. \A s \in Voices \cup {Speech} :
        /\ \A k \in Sounds : Put(s, k) \in MainTasks /\ Put(s, k).what # "leave"
        /\ Stop(s) \in MainTasks /\ Stop(s).what # "leave"
        /\ Task("fade", s, Nobody) \in MainTasks /\ Task("fade", s, Nobody).what # "leave"
  BY TaskTyped, SoundAssumption DEF MainTasks, Task, Sources
<1> HIDE DEF TidyUp, Get, Put, Stop
<1>3. \A a \in MainTasks : a.what # "leave" => Fine(<<a>>)
  BY ListsOpen
<1>4. \A a, b \in MainTasks : a.what # "leave" /\ b.what # "leave" => Fine(<<a, b>>)
  BY DEF Open
<1>5. \A a, b, c \in MainTasks :
        a.what # "leave" /\ b.what # "leave" /\ c.what # "leave" => Fine(<<a, b, c>>)
  BY DEF Open
<1>6. Fine(<<>>) /\ \A p, q : Fine(p) /\ Fine(q) => Fine(p \o q)
  BY ListsOpen
<1> HIDE DEF Fine
<1>7. \A tasks : Fine(tasks) /\ MainDoes(tasks) => AmbientInv'
  BY OrderKeeps DEF Fine
<1>8. ASSUME NEW s \in Voices, NEW k \in Sounds, Play(s, k) PROVE AmbientInv'
  <2>1. Fine(<<TidyUp, Get(k), Put(s, k)>>)
    BY <1>1, <1>2, <1>5
  <2>2. MainDoes(<<TidyUp, Get(k), Put(s, k)>>)
    BY <1>8 DEF Play, TidyUp, Get, Put
  <2> QED BY <1>7, <2>1, <2>2
<1>9. ASSUME NEW k \in Sounds, NEW interrupt \in BOOLEAN, PlaySpeech(k, interrupt)
      PROVE  AmbientInv'
  <2> DEFINE cut == IF interrupt THEN <<Stop(Speech)>> ELSE <<>>
  <2>1. Fine(<<TidyUp, Get(k)>>) /\ Fine(<<Put(Speech, k)>>) /\ Fine(<<Stop(Speech)>>)
    BY <1>1, <1>2, <1>3, <1>4
  <2>2. Fine(cut)
    BY <1>6, <2>1
  <2> HIDE DEF cut
  <2>3. Fine(<<TidyUp, Get(k)>> \o cut \o <<Put(Speech, k)>>)
    BY <1>6, <2>1, <2>2
  <2>4. MainDoes(<<TidyUp, Get(k)>> \o cut \o <<Put(Speech, k)>>)
    BY <1>9 DEF PlaySpeech, cut, TidyUp, Get, Put, Stop
  <2> QED BY <1>7, <2>3, <2>4
<1>10. CASE StopSpeech
  <2>1. Fine(<<TidyUp, Stop(Speech)>>)
    BY <1>1, <1>2, <1>4
  <2>2. MainDoes(<<TidyUp, Stop(Speech)>>)
    BY <1>10 DEF StopSpeech, TidyUp, Stop
  <2> QED BY <1>7, <2>1, <2>2
<1>11. ASSUME NEW s \in Voices, StopVoice(s) \/ DropVoice(s) \/ FadeVoice(s)
       PROVE  AmbientInv'
  <2>1. Fine(<<Stop(s)>>) /\ Fine(<<Task("fade", s, Nobody)>>)
    BY <1>2, <1>3
  <2>2. \A holders : Fine(Ending(s, holders))
    BY <1>6, <2>1 DEF Ending, Stop
  <2>3. Fine(<<Stop(s)>> \o Ending(s, live))
    BY <1>6, <2>1, <2>2
  <2>4. CASE StopVoice(s)
    BY <1>7, <2>3, <2>4 DEF StopVoice, Stop
  <2>5. CASE DropVoice(s)
    BY <1>7, <2>2, <2>5 DEF DropVoice
  <2>6. CASE FadeVoice(s)
    BY <1>7, <2>1, <2>6 DEF FadeVoice
  <2> QED BY <1>11, <2>4, <2>5, <2>6
<1> QED BY <1>8, <1>9, <1>10, <1>11

--------------------------------------------------------------------------
(* AmbientMgr *)

\* From now on the source's sound is the main thread's to stop.
LEMMA SilenceKeeps ==
  ASSUME SoundTypeOK, AmbientInv, NEW off \in BOOLEAN, Silence(off)
  PROVE  AmbientInv'
<1> USE DEF AmbientInv
<1> DEFINE stop == Task("stop", ambientSource, Nobody)
           leave == Task("leave", Nobody, Nobody)
           stops == IF ambientSource = Nobody THEN <<>> ELSE IF off THEN <<stop>> \o <<stop>> ELSE <<stop>>
           tasks == stops \o <<leave>>
<1>1. /\ agenda["main"] = <<>> /\ TakesUp("main", tasks)
      /\ mutex = Nobody /\ mutex' = "main" /\ ambientSource' = Nobody
      /\ UNCHANGED <<channel, on, by, orphaned, step, got>>
  BY DEF Silence, AtRest, TakesUp, mixer, owners
<1>2. ambientSource # Nobody => stop \in MainTasks /\ stop.what = "stop" /\ stop.source = ambientSource
  BY TaskTyped DEF MainTasks, Task, SoundTypeOK, ProgramTypeOK, Sources
<1>3. leave \in MainTasks /\ leave.what = "leave"
  BY TasksNamed DEF Task
<1> HIDE DEF stop, leave
<1>4. stops \in Seq(MainTasks) /\ Open(stops)
  <2>1. CASE ambientSource = Nobody
    BY <2>1, ListsOpen
  <2>2. CASE ambientSource # Nobody
    <3>1. <<stop>> \in Seq(MainTasks) /\ Open(<<stop>>)
      BY <1>2, <2>2, ListsOpen
    <3>2. (<<stop>> \o <<stop>>) \in Seq(MainTasks) /\ Open(<<stop>> \o <<stop>>)
      BY <3>1, ListsOpen
    <3> QED BY <2>2, <3>1, <3>2
  <2> QED BY <2>1, <2>2
<1>5. <<leave>> \in Seq(MainTasks) /\ Closes(<<leave>>)
  BY <1>3 DEF Closes
<1>6. ambientSource # Nobody => tasks # <<>> /\ Head(tasks) = stop
  <2> SUFFICES ASSUME ambientSource # Nobody PROVE tasks # <<>> /\ Head(tasks) = stop
    OBVIOUS
  <2>1. stops \in Seq(MainTasks) /\ <<leave>> \in Seq(MainTasks) /\ stop \in MainTasks
    BY <1>2, <1>4, <1>5
  <2>2. Len(<<stop>>) = 1 /\ <<stop>>[1] = stop /\ <<stop>> \in Seq(MainTasks)
    BY <2>1
  <2>3. Len(<<stop>> \o <<stop>>) = 2 /\ (<<stop>> \o <<stop>>)[1] = stop
    BY <2>1, <2>2
  <2>4. Len(stops) > 0 /\ stops[1] = stop
    BY <2>2, <2>3
  <2> HIDE DEF stops
  <2>5. Len(tasks) = Len(stops) + 1 /\ tasks[1] = stops[1] /\ tasks \in Seq(MainTasks)
    BY <2>1, <2>4
  <2> HIDE DEF tasks
  <2> QED BY <2>1, <2>4, <2>5
<1> HIDE DEF stops
<1>7. tasks \in Seq(MainTasks) /\ Closes(tasks)
  <2>1. tasks \in Seq(MainTasks)
    BY <1>4, <1>5
  <2>2. stops \in Seq(AllTasks) /\ <<leave>> \in Seq(AllTasks)
    BY <1>4, <1>5, TasksNamed
  <2>3. Closes(stops \o <<leave>>)
    BY <1>4, <1>5, <2>2, ConcatOpen
  <2> QED BY <2>1, <2>3
<1> HIDE DEF tasks
<1>8. agenda'["main"] = tasks /\ agenda'["ambient"] = agenda["ambient"]
  BY <1>1 DEF TakesUp, SoundTypeOK, WorkTypeOK, SoundThreads
<1>9. agenda["ambient"] = <<>> /\ step["ambient"] # "note"
  BY <1>1, SoundAssumption DEF QueuesOK, SoundTypeOK, WorkTypeOK, SoundThreads
<1>10. QueuesOK'
  BY <1>1, <1>7, <1>8, <1>9 DEF QueuesOK, Open, Closes, SoundThreads
<1>11. InactiveHasNone'
  BY <1>1 DEF InactiveHasNone
<1>12. HumsKept' /\ NotesItsOwn'
  <2>1. ASSUME NEW c \in AllChannels \ orphaned', NEW s \in Hums, on'[c], by'[c] = s
        PROVE  c \notin orphaned /\ on[c] /\ by[c] = s /\ Stopping(s)'
    <3>1. c \notin orphaned /\ on[c] /\ by[c] = s
      BY <1>1, <2>1
    <3>2. ~Stopping(s)
      BY <1>1, SoundAssumption DEF Stopping
    <3>3. s = ambientSource /\ ambientSource # Nobody
      BY <3>1, <3>2, SoundAssumption DEF HumsKept
    <3>4. Stopping(s)'
      BY <1>1, <1>2, <1>6, <1>8, <3>3 DEF Stopping, It
    <3> QED BY <3>1, <3>4
  <2> QED BY <1>1, <1>9, <2>1, HumsStay
<1> QED BY <1>10, <1>11, <1>12

\* A Tick gives the ambients' thread tasks for the source it has from now on.
LEMMA TicksKeep ==
  ASSUME SoundTypeOK, AmbientInv, Ticks
  PROVE  AmbientInv'
<1> USE DEF AmbientInv
<1>1. ASSUME NEW tasks, Ticking(tasks), tasks \in Seq(AmbientTasks(ambientSource)'), Open(tasks),
             ambientSource' = ambientSource \/ (ambientSource = Nobody /\ ambientSource' \in Hums)
      PROVE  AmbientInv'
  <2> DEFINE leave == Task("leave", Nobody, Nobody)
             all == tasks \o <<leave>>
  <2>1. /\ agenda["ambient"] = <<>> /\ TakesUp("ambient", all) /\ active
        /\ mutex = Nobody /\ mutex' = "ambient"
        /\ UNCHANGED <<active, channel, on, by, orphaned, step, got>>
    BY <1>1 DEF Ticking, AtRest, TakesUp, mixer, owners
  <2>2. leave \in AmbientTasks(ambientSource)' /\ leave.what = "leave"
    BY TasksNamed DEF Task, AmbientTasks
  <2> HIDE DEF leave
  <2>3. <<leave>> \in Seq(AmbientTasks(ambientSource)') /\ Closes(<<leave>>)
    BY <2>2 DEF Closes
  <2>4. Seq(AmbientTasks(ambientSource)') \subseteq Seq(AllTasks)
    BY DEF AmbientTasks
  <2>5. all \in Seq(AmbientTasks(ambientSource)') /\ Closes(all)
    <3>1. all \in Seq(AmbientTasks(ambientSource)')
      BY <1>1, <2>3
    <3>2. tasks \in Seq(AllTasks) /\ <<leave>> \in Seq(AllTasks)
      BY <1>1, <2>3, <2>4
    <3>3. Closes(tasks \o <<leave>>)
      BY <1>1, <2>3, <3>2, ConcatOpen
    <3> QED BY <3>1, <3>3
  <2> HIDE DEF all
  <2>6. agenda'["ambient"] = all /\ agenda'["main"] = agenda["main"]
    BY <2>1 DEF TakesUp, SoundTypeOK, WorkTypeOK, SoundThreads
  <2>7. step["ambient"] # "note"
    BY <2>1 DEF SoundTypeOK, WorkTypeOK, SoundThreads
  <2>8. Open(agenda["main"])
    BY <2>1, SoundAssumption DEF QueuesOK, SoundThreads
  <2>9. QueuesOK'
    BY <2>1, <2>5, <2>6, <2>8 DEF QueuesOK, Open, Closes, SoundThreads
  <2>10. \A s : ~Stopping(s)
    BY <2>1, SoundAssumption DEF Stopping
  <2>11. \A c \in AllChannels \ orphaned', s \in Hums : on'[c] /\ by'[c] = s =>
           c \notin orphaned /\ on[c] /\ by[c] = s /\ s = ambientSource'
    BY <1>1, <2>1, <2>10, SoundAssumption DEF HumsKept
  <2>12. HumsKept' /\ NotesItsOwn'
    BY <2>1, <2>7, <2>11, HumsStay
  <2>13. InactiveHasNone'
    BY <2>1 DEF InactiveHasNone
  <2> QED BY <2>9, <2>12, <2>13
<1>2. ASSUME TickOff PROVE AmbientInv'
  <2> DEFINE stop == Task("stop", ambientSource, Nobody)
  <2>1. Ticking(<<stop>>) /\ ambientSource' = ambientSource
    BY <1>2 DEF TickOff
  <2>2. ambientSource \in Sources
    BY <1>2 DEF TickOff, SoundTypeOK, ProgramTypeOK, Sources
  <2>3. stop \in AmbientTasks(ambientSource) /\ stop.what = "stop"
    BY <2>2, TaskTyped DEF AmbientTasks, Task
  <2> HIDE DEF stop
  <2>4. AmbientTasks(ambientSource)' = AmbientTasks(ambientSource)
    BY <2>1 DEF AmbientTasks
  <2>5. <<stop>> \in Seq(AmbientTasks(ambientSource)') /\ Open(<<stop>>)
    BY <2>3, <2>4 DEF Open
  <2> QED BY <1>1, <2>1, <2>5
<1>3. ASSUME NEW s \in Hums, NEW k \in Sounds, TickOn(s, k) PROVE AmbientInv'
  <2> DEFINE get == Task("fetch", Nobody, k)
             put == Task("enqueue", s, k)
  <2>1. Ticking(<<get, put>>) /\ ambientSource' = s /\ (ambientSource = s \/ ambientSource = Nobody)
    BY <1>3 DEF TickOn
  <2>2. /\ get \in AllTasks /\ get.what = "fetch"
        /\ put \in AllTasks /\ put.what = "enqueue" /\ put.source = s
    BY TaskTyped DEF Task, Sources
  <2> HIDE DEF get, put
  <2>3. get \in AmbientTasks(ambientSource)' /\ put \in AmbientTasks(ambientSource)'
    BY <2>1, <2>2 DEF AmbientTasks
  <2>4. <<get, put>> \in Seq(AmbientTasks(ambientSource)') /\ Open(<<get, put>>)
    BY <2>2, <2>3 DEF Open
  <2> QED BY <1>1, <2>1, <2>4
<1> QED BY <1>2, <1>3 DEF Ticks

LEMMA ActivateKeeps ==
  ASSUME SoundTypeOK, AmbientInv, Activate
  PROVE  AmbientInv'
<1>1. /\ UNCHANGED <<mutex, ambientSource, channel, on, by, orphaned, agenda, step, got>>
      /\ active'
  BY DEF Activate, mixer, owners, work
<1> QED BY <1>1 DEF AmbientInv, QueuesOK, InactiveHasNone, HumsKept, NotesItsOwn, KnowsIt,
     Stopping, Open, Closes, AmbientTasks, It

LEMMA NextKeepsAmbient ==
  ASSUME SoundTypeOK, OwnerInv, AmbientInv, [SoundNext]_soundVars
  PROVE  AmbientInv'
<1>1. CASE UNCHANGED soundVars
  BY <1>1 DEF soundVars, mixer, owners, ambience, work, AmbientInv, QueuesOK,
     InactiveHasNone, HumsKept, NotesItsOwn, KnowsIt, Stopping, Open, Closes, AmbientTasks, It
<1>2. ASSUME NEW t \in SoundThreads, Serve(t) PROVE AmbientInv'
  BY <1>2, TidyKeeps, FetchKeeps, AimKeeps, RequestKeeps, PlayChannelKeeps, NoteKeeps,
     StopKeeps, FadeKeeps, LeaveKeeps DEF Serve
<1>3. CASE MainOrders
  BY <1>3, PlaybackKeeps, SilenceKeeps, ActivateKeeps DEF MainOrders
<1> QED BY <1>1, <1>2, <1>3, MixerKeeps, TicksKeep DEF SoundNext

LEMMA InitAmbient == ASSUME SoundInit PROVE AmbientInv
  BY SoundAssumption DEF SoundInit, AmbientInv, QueuesOK, InactiveHasNone, HumsKept,
     NotesItsOwn, Open, SoundThreads

\* Who is inactive has no source, and what no source has is being stopped.
LEMMA InactiveIsSilent == ASSUME AmbientInv PROVE Silenced
<1> SUFFICES ASSUME ~active, mutex # "main", NEW c \in Channels \ orphaned, on[c],
                    by[c] \in Hums
             PROVE  FALSE
  BY DEF Silenced
<1>1. ambientSource = Nobody
  BY DEF AmbientInv, InactiveHasNone
<1>2. by[c] = ambientSource
  BY DEF AmbientInv, HumsKept, Stopping, AllChannels
<1> QED BY <1>1, <1>2, SoundAssumption

\* "Hard stop" (AmbientMgr.h): when Deactivate has returned no ambient plays until
\* Activate, whatever its thread and the mixer were doing.
THEOREM OffIsSilent == SoundSpec => []Silenced
<1>1. SoundInit => SoundTypeOK /\ OwnerInv /\ AmbientInv
  BY InitTyped, InitOwners, InitAmbient
<1>2. SoundTypeOK /\ OwnerInv /\ AmbientInv /\ [SoundNext]_soundVars
        => (SoundTypeOK /\ OwnerInv /\ AmbientInv)'
  BY NextTyped, NextKeepsOwners, NextKeepsAmbient
<1>3. AmbientInv => Silenced
  BY InactiveIsSilent
<1> QED BY <1>1, <1>2, <1>3, PTL DEF SoundSpec

-----------------------------------------------------------------------------
(***************************************************************************)
(* The cache of sound buffers, for any keys and any size: its list, linked *)
(* by hand, is one sequence of its keys, and what happens to that sequence *)
(* is what LruOrder promises.  Touch is left out for the only entry, which *)
(* it would lose.                                                          *)
(***************************************************************************)

--------------------------------------------------------------------------
(* The inductive invariant *)

At(s, i) == IF i \in DOMAIN s THEN s[i] ELSE Null
In(s) == {s[i] : i \in DOMAIN s}

Lists == [front : Keys \cup {Null}, back : Keys \cup {Null},
          prev : [Keys -> Keys \cup {Null}], next : [Keys -> Keys \cup {Null}]]

\* Every pointer of the list, of items that are in it and of keys that are not.
LinkedAs(l, s) ==
  /\ l \in Lists
  /\ s \in Seq(Keys)
  /\ \A i, j \in DOMAIN s : s[i] = s[j] => i = j
  /\ l.front = At(s, 1) /\ l.back = At(s, Len(s))
  /\ \A i \in DOMAIN s : l.prev[s[i]] = At(s, i - 1) /\ l.next[s[i]] = At(s, i + 1)
  /\ \A k \in Keys \ In(s) : l.prev[k] = Null /\ l.next[k] = Null

CacheInv ==
  /\ disposable \in SUBSET Keys
  /\ \E s \in Seq(Keys) : LinkedAs(list, s) /\ Len(s) <= CacheSize /\ map = In(s)

--------------------------------------------------------------------------
(* What the recursion along the list computes *)

\* Induction over the natural numbers, for a set: were some k missing from T,
\* n + 1 would put the members of T up to k, one to one, in fewer places.
LEMMA SetInduction ==
  ASSUME NEW T \in SUBSET Nat, 0 \in T, \A n \in T : n + 1 \in T
  PROVE  T = Nat
<1> SUFFICES ASSUME NEW k \in Nat, k \notin T PROVE FALSE
  OBVIOUS
<1> DEFINE S == T \cap 0..k
           f == [n \in S |-> n + 1]
<1>1. 0 \in S /\ \A n \in S : n + 1 \in S \ {0}
  OBVIOUS
<1>2. IsFiniteSet(0..k)
  BY FS_Interval
<1>3. /\ IsFiniteSet(S) /\ IsFiniteSet(S \ {0})
      /\ Cardinality(S \ {0}) = Cardinality(S) - 1
  <2>1. S \in SUBSET 0..k
    OBVIOUS
  <2> HIDE DEF S
  <2>2. IsFiniteSet(S)
    BY <1>2, <2>1, FS_Subset
  <2> QED
    BY <1>1, <2>2, FS_RemoveElement
<1>4. Cardinality(S \ {0}) < Cardinality(S)
  BY <1>3, FS_CardinalityType
<1>5. f \in [S -> S \ {0}]
  BY <1>1
<1>6. PICK m \in S, n \in S : m # n /\ f[m] = f[n]
  <2> HIDE DEF S, f
  <2> QED
    BY <1>3, <1>4, <1>5, FS_PigeonHole
<1> QED
  BY <1>6

LEMMA Interval ==
  ASSUME NEW n \in Nat
  PROVE  IsFiniteSet(1..n) /\ Cardinality(1..n) = n
<1>1. /\ IsFiniteSet(1..n)
      /\ Cardinality(1..n) = IF 1 > n THEN 0 ELSE n - 1 + 1
  <2>1. 1 \in Int /\ n \in Int
    OBVIOUS
  <2> QED
    BY <2>1, FS_Interval, Zenon
<1> QED
  BY <1>1

\* The function that From defines takes the item after, step by step.
Steps(l, k, at) ==
  [n \in 1..(CacheSize + 1) |->
     IF n = 1 THEN k ELSE IF at[n - 1] = Null THEN Null ELSE l.next[at[n - 1]]]

LEMMA ItemsAre ==
  ASSUME NEW l, NEW s, LinkedAs(l, s), Len(s) <= CacheSize
  PROVE  From(l, l.front) = s
<1> DEFINE h == [n \in 1..(CacheSize + 1) |-> At(s, n)]
           at == CHOOSE f : f = Steps(l, l.front, f)
<1>1. /\ CacheSize \in Nat \ {0} /\ Len(s) \in Nat /\ DOMAIN s = 1..Len(s)
      /\ s \in Seq(Keys) /\ s \in [1..Len(s) -> Keys] /\ Null \notin Keys
  BY CacheSizeAssumption, NullAssumption DEF LinkedAs
<1>2. h = Steps(l, l.front, h)
  <2> SUFFICES ASSUME NEW n \in 1..(CacheSize + 1)
               PROVE  h[n] = IF n = 1 THEN l.front
                             ELSE IF h[n - 1] = Null THEN Null ELSE l.next[h[n - 1]]
    BY <1>1 DEF Steps
  <2>1. CASE n = 1
    BY <1>1, <2>1 DEF LinkedAs
  <2>2. CASE n # 1
    <3>1. n - 1 \in 1..(CacheSize + 1) /\ h[n - 1] = At(s, n - 1) /\ h[n] = At(s, n)
      BY <1>1, <2>2
    <3>2. CASE n - 1 \in DOMAIN s
      <4>1. h[n - 1] = s[n - 1] /\ s[n - 1] # Null /\ (n - 1) + 1 = n
        BY <1>1, <3>1, <3>2 DEF At
      <4> HIDE DEF h
      <4> QED
        BY <2>2, <3>1, <3>2, <4>1 DEF LinkedAs
    <3>3. CASE n - 1 \notin DOMAIN s
      <4>1. n \notin DOMAIN s
        BY <1>1, <2>2, <3>1, <3>3
      <4> QED
        BY <2>2, <3>1, <3>3, <4>1 DEF At
    <3> QED
      BY <3>2, <3>3
  <2> QED
    BY <2>1, <2>2
<1>3. at = Steps(l, l.front, at)
  <2> HIDE DEF h
  <2> QED
    BY <1>2
<1>4. \A n \in 1..(CacheSize + 1) : at[n] = h[n]
  <2> HIDE DEF at, h
  <2> DEFINE T == {n \in Nat : n + 1 \in 1..(CacheSize + 1) => at[n + 1] = h[n + 1]}
  <2>1. /\ \A n \in 1..(CacheSize + 1) : at[n] = Steps(l, l.front, at)[n]
        /\ \A n \in 1..(CacheSize + 1) : h[n] = Steps(l, l.front, h)[n]
    BY <1>2, <1>3, Zenon
  <2>2. 0 \in T
    BY <1>1, <2>1 DEF Steps
  <2>3. \A n \in T : n + 1 \in T
    BY <1>1, <2>1 DEF Steps
  <2>4. T \in SUBSET Nat
    OBVIOUS
  <2> HIDE DEF T
  <2>5. T = Nat
    BY <2>2, <2>3, <2>4, SetInduction
  <2> SUFFICES ASSUME NEW n \in 1..(CacheSize + 1) PROVE at[n] = h[n]
    OBVIOUS
  <2>6. n - 1 \in T /\ (n - 1) + 1 = n
    BY <1>1, <2>5
  <2> QED
    BY <2>6 DEF T
<1>5. DOMAIN at = 1..(CacheSize + 1)
  BY <1>3 DEF Steps
<1>6. From(l, l.front) = [n \in 1..Cardinality({m \in DOMAIN at : at[m] # Null}) |-> at[n]]
  BY DEF From, Steps
<1>7. {m \in DOMAIN at : at[m] # Null} = 1..Len(s)
  <2> HIDE DEF at
  <2> QED
    BY <1>1, <1>4, <1>5 DEF At
<1>8. Cardinality(1..Len(s)) = Len(s)
  BY <1>1, Interval
<1>9. From(l, l.front) = [n \in 1..Len(s) |-> at[n]]
  BY <1>6, <1>7, <1>8
<1>10. \A n \in 1..Len(s) : at[n] = s[n]
  <2> HIDE DEF at
  <2> QED
    BY <1>1, <1>4 DEF At
<1> QED
  <2> HIDE DEF at
  <2> QED
    BY <1>1, <1>9, <1>10

--------------------------------------------------------------------------
(* Items come and go *)

Without(s, i) == Promised!RemoveAt(s, i)

LEMMA WithoutIs ==
  ASSUME NEW s \in Seq(Keys), NEW i \in DOMAIN s
  PROVE  /\ Without(s, i) \in Seq(Keys)
         /\ Len(Without(s, i)) = Len(s) - 1
         /\ DOMAIN Without(s, i) = 1..(Len(s) - 1)
         /\ \A j \in 1..(Len(s) - 1) :
              Without(s, i)[j] = IF j < i THEN s[j] ELSE s[j + 1]
<1> DEFINE a == SubSeq(s, 1, i - 1)
           b == SubSeq(s, i + 1, Len(s))
<1>1. i \in Nat /\ i >= 1 /\ i <= Len(s) /\ Len(s) \in Nat
  OBVIOUS
<1>2. /\ a \in Seq(Keys) /\ Len(a) = i - 1
      /\ \A j \in 1..(i - 1) : a[j] = s[j]
  BY <1>1
<1>3. /\ b \in Seq(Keys) /\ Len(b) = Len(s) - i
      /\ \A j \in 1..(Len(s) - i) : b[j] = s[i + j]
  BY <1>1
<1>4. Without(s, i) = a \o b
  BY DEF Without, Promised!RemoveAt
<1> HIDE DEF a, b
<1>5. /\ a \o b \in Seq(Keys) /\ Len(a \o b) = Len(s) - 1
      /\ \A j \in 1..(Len(s) - 1) : (a \o b)[j] = IF j < i THEN a[j] ELSE b[j - (i - 1)]
  BY <1>1, <1>2, <1>3
<1>6. ASSUME NEW j \in 1..(Len(s) - 1)
      PROVE  (a \o b)[j] = IF j < i THEN s[j] ELSE s[j + 1]
  <2>1. CASE j < i
    BY <1>1, <1>2, <1>5, <2>1
  <2>2. CASE ~(j < i)
    <3>1. j - (i - 1) \in 1..(Len(s) - i) /\ i + (j - (i - 1)) = j + 1
      BY <1>1, <2>2
    <3> QED
      BY <1>3, <1>5, <2>2, <3>1
  <2> QED
    BY <2>1, <2>2
<1>7. DOMAIN (a \o b) = 1..(Len(s) - 1)
  BY ONLY <1>5
<1> QED
  BY ONLY <1>4, <1>5, <1>6, <1>7

LEMMA WithoutMembers ==
  ASSUME NEW s \in Seq(Keys), NEW i \in DOMAIN s,
         \A h, j \in DOMAIN s : s[h] = s[j] => h = j
  PROVE  /\ \A h, j \in DOMAIN Without(s, i) : Without(s, i)[h] = Without(s, i)[j] => h = j
         /\ In(Without(s, i)) = In(s) \ {s[i]}
<1>1. /\ i \in 1..Len(s) /\ Len(s) \in Nat /\ DOMAIN s = 1..Len(s)
      /\ DOMAIN Without(s, i) = 1..(Len(s) - 1)
      /\ \A j \in 1..(Len(s) - 1) :
           Without(s, i)[j] = IF j < i THEN s[j] ELSE s[j + 1]
  <2>1. i \in 1..Len(s) /\ Len(s) \in Nat /\ DOMAIN s = 1..Len(s)
    OBVIOUS
  <2> QED
    BY <2>1, WithoutIs, Zenon
<1> DEFINE w == Without(s, i)
<1> HIDE DEF w
<1>2. /\ DOMAIN w = 1..(Len(s) - 1)
      /\ \A j \in 1..(Len(s) - 1) : w[j] = IF j < i THEN s[j] ELSE s[j + 1]
  BY <1>1 DEF w
<1>3. ASSUME NEW h \in DOMAIN w, NEW j \in DOMAIN w, w[h] = w[j]
      PROVE  h = j
  <2>1. /\ w[h] = IF h < i THEN s[h] ELSE s[h + 1]
        /\ w[j] = IF j < i THEN s[j] ELSE s[j + 1]
        /\ h \in DOMAIN s /\ h + 1 \in DOMAIN s /\ j \in DOMAIN s /\ j + 1 \in DOMAIN s
    BY <1>1, <1>2
  <2>2. \A p, q \in DOMAIN s : s[p] = s[q] => p = q
    OBVIOUS
  <2>3. h \in Int /\ j \in Int /\ i \in Int
    BY <1>1, <1>2
  <2>4. CASE h < i /\ j < i
    <3>1. s[h] = s[j]
      BY <1>3, <2>1, <2>4
    <3> QED
      BY <2>1, <2>2, <3>1
  <2>5. CASE h < i /\ ~(j < i)
    <3>1. s[h] = s[j + 1]
      BY <1>3, <2>1, <2>5
    <3>2. h = j + 1
      BY <2>1, <2>2, <3>1
    <3> QED
      BY <2>3, <2>5, <3>2
  <2>6. CASE ~(h < i) /\ j < i
    <3>1. s[h + 1] = s[j]
      BY <1>3, <2>1, <2>6
    <3>2. h + 1 = j
      BY <2>1, <2>2, <3>1
    <3> QED
      BY <2>3, <2>6, <3>2
  <2>7. CASE ~(h < i) /\ ~(j < i)
    <3>1. s[h + 1] = s[j + 1]
      BY <1>3, <2>1, <2>7
    <3>2. h + 1 = j + 1
      BY <2>1, <2>2, <3>1
    <3> QED
      BY <2>3, <3>2
  <2> QED
    BY <2>4, <2>5, <2>6, <2>7
<1>4. ASSUME NEW k PROVE k \in In(w) <=> k \in In(s) /\ k # s[i]
  <2>1. ASSUME NEW j \in DOMAIN w
        PROVE  w[j] \in In(s) /\ w[j] # s[i]
    <3>1. /\ w[j] = IF j < i THEN s[j] ELSE s[j + 1]
          /\ j \in DOMAIN s /\ j + 1 \in DOMAIN s
      BY <1>1, <1>2
    <3>2. CASE j < i
      BY <1>1, <3>1, <3>2 DEF In
    <3>3. CASE ~(j < i)
      <4>1. j + 1 # i
        BY <1>1, <1>2, <3>3
      <4> QED
        BY <3>1, <3>3, <4>1 DEF In
    <3> QED
      BY <3>2, <3>3
  <2>2. ASSUME NEW j \in DOMAIN s, j # i
        PROVE  s[j] \in In(w)
    <3>1. CASE j < i
      <4>1. j \in DOMAIN w /\ w[j] = s[j]
        BY <1>1, <1>2, <3>1
      <4> QED
        BY <4>1 DEF In
    <3>2. CASE j > i
      <4>1. j - 1 \in DOMAIN w /\ w[j - 1] = s[j]
        BY <1>1, <1>2, <3>2
      <4> QED
        BY <4>1 DEF In
    <3> QED
      BY <1>1, <2>2, <3>1, <3>2
  <2> QED
    BY <2>1, <2>2 DEF In
<1> QED
  BY <1>3, <1>4 DEF w

LEMMA WithoutAt ==
  ASSUME NEW s \in Seq(Keys), NEW i \in DOMAIN s, NEW j \in Int
  PROVE  At(Without(s, i), j) = IF j < i THEN At(s, j) ELSE At(s, j + 1)
<1> DEFINE w == Without(s, i)
<1>1. i \in 1..Len(s) /\ Len(s) \in Nat /\ DOMAIN s = 1..Len(s)
  OBVIOUS
<1>2. /\ DOMAIN w = 1..(Len(s) - 1)
      /\ \A h \in 1..(Len(s) - 1) : w[h] = IF h < i THEN s[h] ELSE s[h + 1]
  BY WithoutIs, Zenon
<1> HIDE DEF w
<1>3. CASE j < i
  <2>1. j \in DOMAIN w <=> j \in DOMAIN s
    BY <1>1, <1>2, <1>3
  <2> QED
    BY <1>2, <1>3, <2>1 DEF At, w
<1>4. CASE ~(j < i)
  <2>1. j \in DOMAIN w <=> j + 1 \in DOMAIN s
    BY <1>1, <1>2, <1>4
  <2> QED
    BY <1>2, <1>4, <2>1 DEF At, w
<1> QED
  BY <1>3, <1>4

\* Who is where in the list.
LEMMA LinkedFacts ==
  ASSUME NEW l, NEW s, LinkedAs(l, s)
  PROVE  /\ s \in Seq(Keys) /\ Len(s) \in Nat /\ DOMAIN s = 1..Len(s)
         /\ \A i \in DOMAIN s : s[i] \in Keys /\ s[i] # Null
         /\ \A i, j \in DOMAIN s : s[i] = s[j] => i = j
         /\ \A i \in Int : At(s, i) \in Keys \cup {Null}
         /\ \A i \in Int : At(s, i) = Null <=> i \notin DOMAIN s
         /\ \A i \in Int, j \in DOMAIN s : At(s, i) = s[j] => i = j
         /\ \A i \in Int : At(s, i) \in In(s) \cup {Null}
<1>1. s \in Seq(Keys) /\ \A i, j \in DOMAIN s : s[i] = s[j] => i = j
  BY DEF LinkedAs
<1>2. Len(s) \in Nat /\ DOMAIN s = 1..Len(s) /\ \A i \in DOMAIN s : s[i] \in Keys
  BY <1>1
<1>3. \A i \in DOMAIN s : s[i] # Null
  BY <1>2, NullAssumption
<1> QED
  BY <1>1, <1>2, <1>3 DEF At, In

LEMMA UnlinkedIs ==
  ASSUME NEW l, NEW s, LinkedAs(l, s), NEW i \in DOMAIN s
  PROVE  LinkedAs(Unlinked(l, s[i]), Without(s, i))
<1> DEFINE k == s[i]
           w == Without(s, i)
           u == Unlinked(l, k)
<1>1. /\ s \in Seq(Keys) /\ Len(s) \in Nat /\ DOMAIN s = 1..Len(s)
      /\ \A j \in DOMAIN s : s[j] \in Keys /\ s[j] # Null
      /\ \A h, j \in DOMAIN s : s[h] = s[j] => h = j
      /\ \A j \in Int : At(s, j) \in Keys \cup {Null}
      /\ \A j \in Int : At(s, j) = Null <=> j \notin DOMAIN s
      /\ \A h \in Int, j \in DOMAIN s : At(s, h) = s[j] => h = j
      /\ \A j \in Int : At(s, j) \in In(s) \cup {Null}
  BY LinkedFacts
<1>2. /\ l \in Lists /\ l.front = At(s, 1) /\ l.back = At(s, Len(s))
      /\ \A j \in DOMAIN s : l.prev[s[j]] = At(s, j - 1) /\ l.next[s[j]] = At(s, j + 1)
      /\ \A x \in Keys \ In(s) : l.prev[x] = Null /\ l.next[x] = Null
  BY DEF LinkedAs
<1>3. k \in Keys /\ l.prev[k] = At(s, i - 1) /\ l.next[k] = At(s, i + 1)
  BY <1>1, <1>2
<1>4. /\ w \in Seq(Keys) /\ Len(w) = Len(s) - 1 /\ DOMAIN w = 1..(Len(s) - 1)
      /\ \A j \in 1..(Len(s) - 1) : w[j] = IF j < i THEN s[j] ELSE s[j + 1]
  BY <1>1, WithoutIs, Zenon
<1>5. /\ \A h, j \in DOMAIN w : w[h] = w[j] => h = j
      /\ In(w) = In(s) \ {k}
  BY <1>1, WithoutMembers, Zenon
<1>6. \A j \in Int : At(w, j) = IF j < i THEN At(s, j) ELSE At(s, j + 1)
  BY <1>1, WithoutAt, Zenon
<1>7. i \in Int /\ i >= 1 /\ i <= Len(s)
  BY <1>1
<1>8. /\ u.front = IF At(s, i - 1) = Null THEN At(s, i + 1) ELSE At(s, 1)
      /\ u.back = IF At(s, i + 1) = Null THEN At(s, i - 1) ELSE At(s, Len(s))
      /\ u.next = [x \in Keys |-> IF x = k THEN Null
                                  ELSE IF x = At(s, i - 1) THEN At(s, i + 1) ELSE l.next[x]]
      /\ u.prev = [x \in Keys |-> IF x = k THEN Null
                                  ELSE IF x = At(s, i + 1) THEN At(s, i - 1) ELSE l.prev[x]]
      /\ u = [front |-> u.front, back |-> u.back, next |-> u.next, prev |-> u.prev]
  BY <1>2, <1>3 DEF Unlinked
<1> HIDE DEF u, w, k
<1>9. u \in Lists
  <2>1. l.next \in [Keys -> Keys \cup {Null}] /\ l.prev \in [Keys -> Keys \cup {Null}]
    BY <1>2 DEF Lists
  <2>2. /\ u.next \in [Keys -> Keys \cup {Null}]
        /\ u.prev \in [Keys -> Keys \cup {Null}]
        /\ u.front \in Keys \cup {Null} /\ u.back \in Keys \cup {Null}
    BY <1>1, <1>7, <1>8, <2>1
  <2> QED
    BY <1>8, <2>2 DEF Lists
<1>10. u.front = At(w, 1) /\ u.back = At(w, Len(w))
  <2>1. /\ At(w, 1) = IF 1 < i THEN At(s, 1) ELSE At(s, 2)
        /\ At(w, Len(w)) = IF Len(s) - 1 < i THEN At(s, Len(s) - 1) ELSE At(s, Len(s))
    <3>1. Len(s) - 1 \in Int /\ (Len(s) - 1) + 1 = Len(s) /\ 1 \in Int /\ 1 + 1 = 2
      BY <1>1
    <3>2. At(w, 1) = IF 1 < i THEN At(s, 1) ELSE At(s, 2)
      BY ONLY <1>6, <3>1
    <3>3. At(w, Len(s) - 1) = IF Len(s) - 1 < i THEN At(s, Len(s) - 1) ELSE At(s, Len(s))
      BY ONLY <1>6, <3>1
    <3> QED
      BY ONLY <1>4, <3>2, <3>3
  <2>2. /\ At(s, i - 1) = Null <=> i = 1
        /\ At(s, i + 1) = Null <=> i = Len(s)
    BY <1>1, <1>7
  <2>3. u.front = At(w, 1)
    BY <1>7, <1>8, <2>1, <2>2
  <2>4. u.back = At(w, Len(w))
    <3>1. CASE i = Len(s)
      BY <1>7, <1>8, <2>1, <2>2, <3>1
    <3>2. CASE i # Len(s)
      BY <1>1, <1>7, <1>8, <2>1, <2>2, <3>2
    <3> QED
      BY <3>1, <3>2
  <2> QED
    BY <2>3, <2>4
<1>11. ASSUME NEW j \in DOMAIN w
       PROVE  u.prev[w[j]] = At(w, j - 1) /\ u.next[w[j]] = At(w, j + 1)
  <2>1. CASE j < i
    <3>1. w[j] = s[j] /\ j \in DOMAIN s /\ s[j] # k /\ s[j] \in Keys
      BY <1>1, <1>4, <1>7, <2>1 DEF k
    <3>2. /\ s[j] # At(s, i + 1)
          /\ s[j] = At(s, i - 1) <=> j = i - 1
      BY <1>1, <1>7, <2>1, <3>1 DEF At
    <3>3. u.prev[w[j]] = At(s, j - 1)
      BY <1>2, <1>8, <3>1, <3>2
    <3>4. u.next[w[j]] = IF j = i - 1 THEN At(s, i + 1) ELSE At(s, j + 1)
      BY <1>2, <1>8, <3>1, <3>2
    <3>5. /\ j \in Int /\ j - 1 \in Int /\ j + 1 \in Int /\ j - 1 < i
          /\ j + 1 < i <=> j # i - 1
          /\ j = i - 1 => (j + 1) + 1 = i + 1
      BY <1>1, <1>7, <2>1, <3>1
    <3>6. At(w, j - 1) = At(s, j - 1)
      BY ONLY <1>6, <3>5
    <3>7. At(w, j + 1) = IF j = i - 1 THEN At(s, i + 1) ELSE At(s, j + 1)
      BY ONLY <1>6, <3>5
    <3> QED
      BY ONLY <3>3, <3>4, <3>6, <3>7
  <2>2. CASE ~(j < i)
    <3>1. w[j] = s[j + 1] /\ j + 1 \in DOMAIN s /\ s[j + 1] # k /\ s[j + 1] \in Keys /\ j \in Int
      BY <1>1, <1>4, <1>7, <2>2 DEF k
    <3>2. /\ s[j + 1] # At(s, i - 1)
          /\ s[j + 1] = At(s, i + 1) <=> j = i
      BY <1>1, <1>7, <2>2, <3>1 DEF At
    <3>3. u.next[w[j]] = At(s, (j + 1) + 1)
      BY <1>2, <1>8, <3>1, <3>2
    <3>4. u.prev[w[j]] = IF j = i THEN At(s, i - 1) ELSE At(s, (j + 1) - 1)
      BY <1>2, <1>8, <3>1, <3>2
    <3>5. /\ j - 1 \in Int /\ j + 1 \in Int /\ ~(j + 1 < i)
          /\ j - 1 < i <=> j = i
          /\ (j - 1) + 1 = (j + 1) - 1
          /\ j = i => j - 1 = i - 1
      BY <1>1, <1>7, <2>2, <3>1
    <3>6. At(w, j - 1) = IF j = i THEN At(s, i - 1) ELSE At(s, (j + 1) - 1)
      BY ONLY <1>6, <3>5
    <3>7. At(w, j + 1) = At(s, (j + 1) + 1)
      BY ONLY <1>6, <3>5
    <3> QED
      BY ONLY <3>3, <3>4, <3>6, <3>7
  <2> QED
    BY <2>1, <2>2
<1>12. ASSUME NEW x \in Keys \ In(w)
       PROVE  u.prev[x] = Null /\ u.next[x] = Null
  <2>1. CASE x = k
    BY <1>8, <2>1
  <2>2. CASE x # k
    <3>1. x \in Keys \ In(s)
      BY <1>5, <2>2
    <3>2. x # At(s, i - 1) /\ x # At(s, i + 1)
      BY <1>1, <1>7, <3>1, NullAssumption
    <3> QED
      BY <1>2, <1>8, <3>1, <3>2
  <2> QED
    BY <2>1, <2>2
<1>13. LinkedAs(u, w)
  BY <1>4, <1>5, <1>9, <1>10, <1>11, <1>12 DEF LinkedAs
<1> QED
  BY <1>13 DEF u, w, k

LEMMA LinkedIs ==
  ASSUME NEW l, NEW s, LinkedAs(l, s), NEW k \in Keys \ In(s)
  PROVE  /\ LinkedAs(Linked(l, k), Append(s, k))
         /\ In(Append(s, k)) = In(s) \cup {k}
         /\ s # <<>> => Linked(l, k).front = l.front
<1> DEFINE a == Append(s, k)
           m == Linked(l, k)
           n == Len(s)
<1>1. /\ s \in Seq(Keys) /\ n \in Nat /\ DOMAIN s = 1..n
      /\ \A j \in DOMAIN s : s[j] \in Keys /\ s[j] # Null
      /\ \A h, j \in DOMAIN s : s[h] = s[j] => h = j
      /\ \A j \in Int : At(s, j) \in Keys \cup {Null}
      /\ \A j \in Int : At(s, j) = Null <=> j \notin DOMAIN s
      /\ \A h \in Int, j \in DOMAIN s : At(s, h) = s[j] => h = j
      /\ \A j \in Int : At(s, j) \in In(s) \cup {Null}
  BY LinkedFacts
<1>2. /\ l \in Lists /\ l.front = At(s, 1) /\ l.back = At(s, n)
      /\ \A j \in DOMAIN s : l.prev[s[j]] = At(s, j - 1) /\ l.next[s[j]] = At(s, j + 1)
      /\ \A x \in Keys \ In(s) : l.prev[x] = Null /\ l.next[x] = Null
  BY DEF LinkedAs
<1>3. k # Null
  BY NullAssumption
<1>4. /\ a \in Seq(Keys) /\ Len(a) = n + 1 /\ DOMAIN a = 1..(n + 1)
      /\ a[n + 1] = k /\ \A j \in 1..n : a[j] = s[j]
  BY <1>1
<1>5. /\ m.front = IF At(s, 1) = Null THEN k ELSE At(s, 1)
      /\ m.back = k
      /\ m.next = [x \in Keys |-> IF x = At(s, n) THEN k ELSE l.next[x]]
      /\ m.prev = [l.prev EXCEPT ![k] = At(s, n)]
      /\ m = [front |-> m.front, back |-> m.back, next |-> m.next, prev |-> m.prev]
  BY <1>2 DEF Linked
<1> HIDE DEF a, m, n
<1>6. \A j \in DOMAIN s : s[j] # k /\ s[j] \in In(s)
  BY DEF In
<1>7. \A j \in Int : At(a, j) = IF j = n + 1 THEN k ELSE At(s, j)
  BY <1>1, <1>4 DEF At
<1>8. \A h, j \in DOMAIN a : a[h] = a[j] => h = j
  <2> SUFFICES ASSUME NEW h \in DOMAIN a, NEW j \in DOMAIN a, a[h] = a[j] PROVE h = j
    OBVIOUS
  <2>1. /\ h \in DOMAIN s \/ h = n + 1
        /\ j \in DOMAIN s \/ j = n + 1
    BY <1>1, <1>4
  <2>2. CASE h \in DOMAIN s /\ j \in DOMAIN s
    BY <1>1, <1>4, <2>2
  <2>3. CASE h = n + 1 \/ j = n + 1
    BY <1>1, <1>4, <1>6, <2>1, <2>3
  <2> QED
    BY <2>1, <2>2, <2>3
<1>9. In(a) = In(s) \cup {k}
  <2>1. ASSUME NEW x PROVE x \in In(a) <=> x \in In(s) \/ x = k
    <3>1. \A j \in DOMAIN a : j \in DOMAIN s \/ j = n + 1
      BY <1>1, <1>4
    <3>2. \A j \in DOMAIN s : j \in DOMAIN a
      BY <1>1, <1>4
    <3>3. n + 1 \in DOMAIN a
      BY <1>1, <1>4
    <3> QED
      BY <1>1, <1>4, <3>1, <3>2, <3>3 DEF In
  <2> QED
    BY <2>1
<1>10. m \in Lists
  <2>1. l.next \in [Keys -> Keys \cup {Null}] /\ l.prev \in [Keys -> Keys \cup {Null}]
    BY <1>2 DEF Lists
  <2>2. /\ m.next \in [Keys -> Keys \cup {Null}]
        /\ m.prev \in [Keys -> Keys \cup {Null}]
        /\ m.front \in Keys \cup {Null} /\ m.back \in Keys \cup {Null}
    BY <1>1, <1>5, <2>1
  <2> QED
    BY <1>5, <2>2 DEF Lists
<1>11. m.front = At(a, 1) /\ m.back = At(a, Len(a))
  <2>1. At(a, 1) = IF n = 0 THEN k ELSE At(s, 1)
    BY <1>1, <1>7
  <2>2. At(s, 1) = Null <=> n = 0
    BY <1>1
  <2>3. At(a, Len(a)) = k
    BY <1>1, <1>4, <1>7
  <2> QED
    BY <1>5, <2>1, <2>2, <2>3
<1>12. ASSUME NEW j \in DOMAIN a
       PROVE  m.prev[a[j]] = At(a, j - 1) /\ m.next[a[j]] = At(a, j + 1)
  <2>0. l.prev \in [Keys -> Keys \cup {Null}]
    BY <1>2 DEF Lists
  <2>1. CASE j \in DOMAIN s
    <3>1. a[j] = s[j] /\ s[j] # k /\ s[j] \in Keys /\ j \in Int /\ j # n + 1 /\ j - 1 # n + 1
      BY <1>1, <1>4, <1>6, <2>1
    <3>2. m.prev[a[j]] = At(s, j - 1)
      BY <1>2, <1>5, <2>0, <2>1, <3>1
    <3>3. s[j] = At(s, n) <=> j = n
      BY <1>1, <2>1 DEF At
    <3>4. m.next[a[j]] = IF j = n THEN k ELSE At(s, j + 1)
      BY <1>2, <1>5, <2>1, <3>1, <3>3
    <3>5. At(a, j - 1) = At(s, j - 1) /\ At(a, j + 1) = IF j = n THEN k ELSE At(s, j + 1)
      BY <1>1, <1>7, <3>1
    <3> QED
      BY <3>2, <3>4, <3>5
  <2>2. CASE j = n + 1
    <3>1. a[j] = k /\ k # At(s, n)
      BY <1>1, <1>3, <1>4, <2>2
    <3>2. m.prev[k] = At(s, n) /\ m.next[k] = Null
      BY <1>2, <1>5, <2>0, <3>1
    <3>3. At(a, j - 1) = At(s, n) /\ At(a, j + 1) = Null
      BY <1>1, <1>7, <2>2
    <3> QED
      BY <3>1, <3>2, <3>3
  <2> QED
    BY <1>1, <1>4, <2>1, <2>2
<1>13. ASSUME NEW x \in Keys \ In(a)
       PROVE  m.prev[x] = Null /\ m.next[x] = Null
  <2>1. x \in Keys \ In(s) /\ x # k /\ x # At(s, n)
    BY <1>1, <1>9, NullAssumption
  <2>2. l.prev \in [Keys -> Keys \cup {Null}]
    BY <1>2 DEF Lists
  <2> QED
    BY <1>2, <1>5, <2>1, <2>2
<1>14. LinkedAs(m, a)
  BY <1>4, <1>8, <1>10, <1>11, <1>12, <1>13 DEF LinkedAs
<1>15. s # <<>> => m.front = l.front
  <2>1. s # <<>> => 1 \in DOMAIN s
    BY <1>1 DEF n
  <2> QED
    BY <1>1, <1>2, <1>5, <2>1
<1> QED
  BY <1>9, <1>14, <1>15 DEF a, m

\* moveToBack does not set front, and need not where the item is not alone.
LEMMA MovedIs ==
  ASSUME NEW l, NEW s, LinkedAs(l, s), NEW i \in DOMAIN s, Len(s) > 1
  PROVE  /\ LinkedAs(MovedToBack(l, s[i]), Append(Without(s, i), s[i]))
         /\ In(Append(Without(s, i), s[i])) = In(s)
<1> DEFINE k == s[i]
           w == Without(s, i)
           u == Unlinked(l, k)
<1>1. LinkedAs(u, w)
  BY UnlinkedIs
<1>2. /\ s \in Seq(Keys) /\ Len(s) \in Nat /\ k \in Keys /\ k \in In(s)
      /\ \A h, j \in DOMAIN s : s[h] = s[j] => h = j
  BY LinkedFacts DEF In
<1>3. In(w) = In(s) \ {k}
  BY <1>2, WithoutMembers, Zenon
<1>4. w # <<>>
  <2>1. Len(w) = Len(s) - 1
    BY <1>2, WithoutIs, Zenon
  <2> HIDE DEF w
  <2> QED
    BY <1>2, <2>1
<1> HIDE DEF k, w, u
<1>5. /\ LinkedAs(Linked(u, k), Append(w, k))
      /\ In(Append(w, k)) = In(w) \cup {k}
      /\ Linked(u, k).front = u.front
  BY <1>1, <1>2, <1>3, <1>4, LinkedIs
<1>6. [Linked(u, k) EXCEPT !.front = u.front] = Linked(u, k)
  <2>1. Linked(u, k) = [front |-> Linked(u, k).front, back |-> Linked(u, k).back,
                        next |-> Linked(u, k).next, prev |-> Linked(u, k).prev]
    BY DEF Linked
  <2> QED
    BY <1>5, <2>1
<1>7. MovedToBack(l, k) = Linked(u, k)
  BY <1>6 DEF MovedToBack, u
<1> QED
  BY <1>2, <1>3, <1>5, <1>7 DEF k, w

\* No key is in the list twice, so it is as long as it has members.
LEMMA MembersCounted ==
  ASSUME NEW l, NEW s, LinkedAs(l, s)
  PROVE  IsFiniteSet(In(s)) /\ Cardinality(In(s)) = Len(s)
<1>1. /\ s \in Seq(Keys) /\ Len(s) \in Nat /\ DOMAIN s = 1..Len(s)
      /\ \A h, j \in DOMAIN s : s[h] = s[j] => h = j
  BY LinkedFacts
<1>2. s \in Bijection(1..Len(s), In(s))
  <2>1. s \in [1..Len(s) -> In(s)]
    BY <1>1 DEF In
  <2> QED
    BY <1>1, <2>1 DEF Bijection, Injection, Surjection, IsInjective, In
<1>3. ExistsBijection(1..Len(s), In(s))
  BY <1>2 DEF ExistsBijection
<1>4. IsFiniteSet(1..Len(s)) /\ Cardinality(1..Len(s)) = Len(s)
  BY <1>1, Interval
<1> QED
  BY <1>3, <1>4, FS_Bijection

--------------------------------------------------------------------------
(* Who goes *)

LEMMA LeastMember ==
  ASSUME NEW T \in SUBSET Nat, T # {}
  PROVE  Promised!Min(T) \in T /\ \A y \in T : Promised!Min(T) <= y
<1>1. \E x \in T : \A y \in T : x <= y
  <2> SUFFICES ASSUME \A x \in T : \E y \in T : y < x PROVE FALSE
    OBVIOUS
  <2> DEFINE U == {n \in Nat : \A x \in T : n <= x}
  <2>1. 0 \in U /\ U \in SUBSET Nat
    OBVIOUS
  <2>2. \A n \in U : n + 1 \in U
    <3> SUFFICES ASSUME NEW n \in U, NEW x \in T PROVE n + 1 <= x
      OBVIOUS
    <3>1. PICK y \in T : y < x
      OBVIOUS
    <3> QED
      BY <3>1
  <2> HIDE DEF U
  <2>3. U = Nat
    BY <2>1, <2>2, SetInduction
  <2>4. PICK x \in T : TRUE
    OBVIOUS
  <2>5. x + 1 \in U
    BY <2>3, <2>4
  <2>6. x + 1 <= x
    BY <2>4, <2>5 DEF U
  <2> QED
    BY <2>4, <2>6
<1> QED
  BY <1>1 DEF Promised!Min

\* The position of the one who goes.
Out(s) == IF Promised!Goes(s) = 0 THEN Len(s) ELSE Promised!Goes(s)

LEMMA Below ==
  ASSUME NEW n \in Nat, NEW o \in 1..n, NEW h \in 1..(o - 1)
  PROVE  h \in 1..n /\ h # n /\ ~(o <= h)
OBVIOUS

LEMMA OutIs ==
  ASSUME NEW s \in Seq(Keys), s # <<>>
  PROVE  /\ Out(s) \in DOMAIN s
         /\ Out(s) = Len(s) \/ s[Out(s)] \in disposable
         /\ \A h \in 1..(Out(s) - 1) : h # Len(s) /\ s[h] \notin disposable
<1> DEFINE I == {i \in 1..Len(s) : s[i] \in disposable}
<1>1. Len(s) \in Nat /\ Len(s) >= 1 /\ DOMAIN s = 1..Len(s)
  OBVIOUS
<1>2. Promised!Goes(s) = IF I # {} THEN Promised!Min(I) ELSE 0
  BY DEF Promised!Goes, Promised!SelectInSeq
<1>3. I \in SUBSET Nat
  OBVIOUS
<1>4. CASE I = {}
  <2>1. Out(s) = Len(s)
    BY <1>2, <1>4 DEF Out
  <2>2. \A h \in 1..Len(s) : s[h] \notin disposable
    BY <1>4
  <2>3. Len(s) \in 1..Len(s)
    BY <1>1
  <2>4. \A h \in 1..(Len(s) - 1) : h # Len(s) /\ h \in 1..Len(s)
    BY <1>1, <2>3, Below, Zenon
  <2> QED
    BY <1>1, <2>1, <2>2, <2>3, <2>4, Zenon
<1>5. CASE I # {}
  <2>1. Promised!Min(I) \in I /\ \A y \in I : Promised!Min(I) <= y
    <3> HIDE DEF I
    <3> QED
      BY <1>3, <1>5, LeastMember
  <2>2. Out(s) = Promised!Min(I)
    BY <1>2, <1>5, <2>1 DEF Out
  <2> DEFINE o == Out(s)
  <2>3. o \in I /\ \A y \in I : o <= y
    BY <2>1, <2>2
  <2> HIDE DEF o
  <2>4. /\ o \in 1..Len(s) /\ s[o] \in disposable
        /\ \A y \in 1..Len(s) : s[y] \in disposable => o <= y
    BY <2>3
  <2>5. \A h \in 1..(o - 1) : h # Len(s) /\ s[h] \notin disposable
    BY <1>1, <2>4, Below, Zenon
  <2> QED
    BY <1>1, <2>4, <2>5 DEF o
<1> QED
  BY <1>4, <1>5

LEMMA VictimIs ==
  ASSUME NEW l, NEW s, LinkedAs(l, s), Len(s) <= CacheSize, s # <<>>
  PROVE  Out(s) \in DOMAIN s /\ Victim(l) = {s[Out(s)]}
<1>1. From(l, l.front) = s
  BY ItemsAre
<1>2. s \in Seq(Keys)
  BY DEF LinkedAs
<1> DEFINE Goes(i) == i = Len(s) \/ s[i] \in disposable
           J == {j \in DOMAIN s : Goes(j) /\ \A h \in 1..(j - 1) : ~Goes(h)}
<1>3. Victim(l) = {s[i] : i \in J}
  BY <1>1 DEF Victim
<1> DEFINE o == Out(s)
<1>4. /\ o \in DOMAIN s /\ (o = Len(s) \/ s[o] \in disposable)
      /\ \A h \in 1..(o - 1) : h # Len(s) /\ s[h] \notin disposable
  BY <1>2, OutIs, Zenon
<1> HIDE DEF o
<1>5. J = {o}
  <2>1. DOMAIN s = 1..Len(s) /\ Len(s) \in Nat
    BY <1>2
  <2>2. o \in J
    BY <1>4
  <2>3. ASSUME NEW j \in J PROVE j = o
    <3>1. /\ j \in DOMAIN s /\ Goes(j) /\ Goes(o)
          /\ \A h \in 1..(j - 1) : ~Goes(h)
          /\ \A h \in 1..(o - 1) : ~Goes(h)
      BY <1>4
    <3> HIDE DEF Goes, J
    <3>2. o \notin 1..(j - 1) /\ j \notin 1..(o - 1)
      BY <3>1
    <3>3. j \in 1..Len(s) /\ o \in 1..Len(s)
      BY <1>4, <2>1, <3>1
    <3> QED
      BY <2>1, <3>2, <3>3
  <2> QED
    BY <2>2, <2>3
<1> QED
  BY <1>3, <1>4, <1>5 DEF o

--------------------------------------------------------------------------
(* The steps *)

\* The list is s, the map has what is in it, and there is room for both.
Now(s) == LinkedAs(list, s) /\ Len(s) <= CacheSize /\ map = In(s)

LEMMA CountedNow ==
  ASSUME NEW s, Now(s)
  PROVE  /\ s \in Seq(Keys) /\ Len(s) \in Nat /\ DOMAIN s = 1..Len(s)
         /\ Cardinality(map) = Len(s)
         /\ From(list, list.front) = s
         /\ \A k : Promised!Contains(s, k) <=> k \in map
<1>1. s \in Seq(Keys) /\ Len(s) \in Nat /\ DOMAIN s = 1..Len(s)
  BY LinkedFacts DEF Now
<1>2. Cardinality(map) = Len(s)
  BY MembersCounted DEF Now
<1>3. From(list, list.front) = s
  BY ItemsAre DEF Now
<1>4. \A k : Promised!Contains(s, k) <=> k \in map
  BY <1>1 DEF Promised!Contains, Now, In
<1> QED
  BY <1>1, <1>2, <1>3, <1>4

LEMMA RemovedIs ==
  ASSUME NEW s, Now(s), NEW k \in map
  PROVE  \E i \in DOMAIN s : s[i] = k /\ Promised!RemoveFirst(s, k) = Without(s, i)
<1>1. /\ s \in Seq(Keys) /\ Len(s) \in Nat /\ DOMAIN s = 1..Len(s)
      /\ \A h, j \in DOMAIN s : s[h] = s[j] => h = j
  BY LinkedFacts DEF Now
<1>2. PICK i \in DOMAIN s : s[i] = k
  BY DEF Now, In
<1>3. {j \in 1..Len(s) : s[j] = k} = {i}
  BY <1>1, <1>2
<1>4. i \in Nat
  BY <1>1
<1>5. Promised!Min({i}) = i
  BY <1>4, LeastMember
<1>6. Promised!SelectInSeq(s, LAMBDA v : v = k) = i
  BY <1>3, <1>5 DEF Promised!SelectInSeq
<1>7. Promised!RemoveFirst(s, k) = Promised!RemoveAt(s, i)
  BY <1>1, <1>2, <1>6 DEF Promised!RemoveFirst
<1> QED
  BY <1>2, <1>7 DEF Without

\* What is left when room has been made.
LEMMA RoomIs ==
  ASSUME NEW s, Now(s),
         NEW victims, victims = IF Cardinality(map) = CacheSize THEN Victim(list) ELSE {},
         NEW room, room = IF victims = {} THEN list
                          ELSE Unlinked(list, CHOOSE v \in victims : TRUE)
  PROVE  /\ LinkedAs(room, Promised!Room(s))
         /\ map \ victims = In(Promised!Room(s))
         /\ Len(Promised!Room(s)) < CacheSize
<1>1. /\ s \in Seq(Keys) /\ Len(s) \in Nat /\ Cardinality(map) = Len(s)
      /\ Len(s) <= CacheSize /\ LinkedAs(list, s) /\ map = In(s)
  BY CountedNow DEF Now
<1>2. CacheSize \in Nat \ {0}
  BY CacheSizeAssumption
<1>3. CASE Len(s) < CacheSize
  <2>1. Promised!Room(s) = s
    BY <1>3 DEF Promised!Room
  <2>2. victims = {} /\ room = list
    BY <1>1, <1>2, <1>3
  <2> QED
    BY <1>1, <1>3, <2>1, <2>2
<1>4. CASE ~(Len(s) < CacheSize)
  <2>1. Len(s) = CacheSize /\ s # <<>>
    BY <1>1, <1>2, <1>4
  <2>2. Out(s) \in DOMAIN s /\ Victim(list) = {s[Out(s)]}
    BY <1>1, <2>1, VictimIs
  <2>3. victims = {s[Out(s)]}
    BY <1>1, <2>1, <2>2
  <2>4. room = Unlinked(list, s[Out(s)])
    BY <2>3
  <2>5. Promised!Room(s) = Without(s, Out(s))
    BY <1>4 DEF Promised!Room, Out, Without
  <2>6. LinkedAs(room, Without(s, Out(s)))
    BY <1>1, <2>2, <2>4, UnlinkedIs
  <2>7. \A h, j \in DOMAIN s : s[h] = s[j] => h = j
    BY <1>1 DEF LinkedAs
  <2>8. In(Without(s, Out(s))) = In(s) \ {s[Out(s)]}
    BY <1>1, <2>2, <2>7, WithoutMembers, Zenon
  <2>9. Len(Without(s, Out(s))) = Len(s) - 1
    BY <1>1, <2>2, WithoutIs, Zenon
  <2> HIDE DEF Out
  <2> QED
    BY <1>1, <1>2, <2>1, <2>3, <2>5, <2>6, <2>8, <2>9
<1> QED
  BY <1>3, <1>4

LEMMA SetAtKeeps ==
  ASSUME NEW s, Now(s), NEW k \in Keys, SetAt(k)
  PROVE  \E t : Now(t)' /\ t = IF Promised!Contains(Promised!Room(s), k) THEN Promised!Room(s)
                               ELSE Append(Promised!Room(s), k)
<1> PICK victims : victims = IF Cardinality(map) = CacheSize THEN Victim(list) ELSE {}
  OBVIOUS
<1> PICK room : room = IF victims = {} THEN list
                       ELSE Unlinked(list, CHOOSE v \in victims : TRUE)
  OBVIOUS
<1>0. PICK r : r = Promised!Room(s)
  OBVIOUS
<1>1. LinkedAs(room, r) /\ map \ victims = In(r) /\ Len(r) < CacheSize
  BY <1>0, RoomIs
<1>2. /\ map' = (map \ victims) \cup {k}
      /\ list' = IF k \in map \ victims THEN room ELSE Linked(room, k)
  BY DEF SetAt
<1>3. r \in Seq(Keys) /\ Len(r) \in Nat /\ DOMAIN r = 1..Len(r)
  BY <1>1, LinkedFacts
<1>4. Promised!Contains(r, k) <=> k \in In(r)
  BY <1>3 DEF Promised!Contains, In
<1>5. CASE k \in In(r)
  <2>1. LinkedAs(list', r) /\ map' = In(r) /\ Len(r) <= CacheSize
    BY <1>1, <1>2, <1>3, <1>5, CacheSizeAssumption
  <2>2. Now(r)'
    BY <2>1 DEF Now
  <2> QED
    BY <1>4, <1>5, <2>2, <1>0
<1>6. CASE k \notin In(r)
  <2>1. LinkedAs(Linked(room, k), Append(r, k)) /\ In(Append(r, k)) = In(r) \cup {k}
    BY <1>1, <1>6, LinkedIs
  <2>2. Len(Append(r, k)) <= CacheSize
    BY <1>1, <1>3, CacheSizeAssumption
  <2>3. list' = Linked(room, k) /\ map' = In(r) \cup {k}
    BY <1>1, <1>2, <1>6
  <2>4. Now(Append(r, k))'
    BY <2>1, <2>2, <2>3 DEF Now
  <2> QED
    BY <1>4, <1>6, <2>4, <1>0
<1> QED
  BY <1>5, <1>6

LEMMA TouchKeeps ==
  ASSUME ~LoneTouch, NEW s, Now(s), NEW k \in Keys, Touch(k)
  PROVE  Now(Append(Promised!RemoveFirst(s, k), k))'
<1>1. /\ k \in map /\ map # {k} /\ list' = MovedToBack(list, k) /\ map' = map
  BY DEF Touch
<1>2. PICK i \in DOMAIN s : s[i] = k /\ Promised!RemoveFirst(s, k) = Without(s, i)
  BY <1>1, RemovedIs
<1>3. s \in Seq(Keys) /\ Len(s) \in Nat /\ DOMAIN s = 1..Len(s)
  BY CountedNow
<1>4. Len(s) > 1
  <2>1. PICK x \in map : x # k
    BY <1>1
  <2>2. PICK j \in DOMAIN s : s[j] = x
    BY DEF Now, In
  <2> QED
    BY <1>2, <1>3, <2>1, <2>2
<1>5. /\ LinkedAs(MovedToBack(list, k), Append(Without(s, i), k))
      /\ In(Append(Without(s, i), k)) = In(s)
  BY <1>2, <1>4, MovedIs DEF Now
<1>6. Len(Append(Without(s, i), k)) <= CacheSize
  <2>1. Without(s, i) \in Seq(Keys) /\ Len(Without(s, i)) = Len(s) - 1
    BY <1>3, WithoutIs, Zenon
  <2>2. Len(s) <= CacheSize
    BY DEF Now
  <2> HIDE DEF Without
  <2> QED
    BY <1>3, <2>1, <2>2
<1> QED
  BY <1>1, <1>2, <1>5, <1>6 DEF Now

LEMMA RemoveKeeps ==
  ASSUME NEW s, Now(s), NEW k \in Keys, RemoveKey(k)
  PROVE  Now(Promised!RemoveFirst(s, k))'
<1>1. /\ k \in map /\ list' = Unlinked(list, k) /\ map' = map \ {k}
  BY DEF RemoveKey
<1>2. PICK i \in DOMAIN s : s[i] = k /\ Promised!RemoveFirst(s, k) = Without(s, i)
  BY <1>1, RemovedIs
<1>3. s \in Seq(Keys) /\ Len(s) \in Nat /\ DOMAIN s = 1..Len(s)
  BY CountedNow
<1>4. LinkedAs(Unlinked(list, k), Without(s, i))
  BY <1>2, UnlinkedIs DEF Now
<1>5. \A h, j \in DOMAIN s : s[h] = s[j] => h = j
  BY DEF Now, LinkedAs
<1>6. In(Without(s, i)) = map \ {k}
  <2>1. In(Without(s, i)) = In(s) \ {s[i]}
    BY <1>3, <1>5, WithoutMembers, Zenon
  <2> QED
    BY <1>2, <2>1 DEF Now
<1>7. Len(Without(s, i)) <= CacheSize
  <2>1. Len(Without(s, i)) = Len(s) - 1
    BY <1>3, WithoutIs, Zenon
  <2>2. Len(s) <= CacheSize
    BY DEF Now
  <2> QED
    BY <1>3, <2>1, <2>2, CacheSizeAssumption
<1> QED
  BY <1>1, <1>2, <1>4, <1>6, <1>7 DEF Now

LEMMA StepKeeps ==
  ASSUME ~LoneTouch, CacheInv, [CacheNext]_cacheVars
  PROVE  CacheInv' /\ [Promised!Next]_<<From(list, list.front), disposable>>
<1>1. disposable \in SUBSET Keys
  BY DEF CacheInv
<1>2. PICK s : Now(s)
  BY DEF CacheInv, Now
<1>3. s \in Seq(Keys) /\ From(list, list.front) = s
      /\ \A k : Promised!Contains(s, k) <=> k \in map
  BY <1>2, CountedNow
<1>4. ASSUME NEW t, Now(t)', disposable' \in SUBSET Keys
      PROVE  CacheInv' /\ From(list', list'.front) = t
  <2>1. t \in Seq(Keys)
    BY <1>4 DEF Now, LinkedAs
  <2>2. CacheInv'
    BY <1>4, <2>1 DEF CacheInv, Now
  <2>3. LinkedAs(list', t) /\ Len(t) <= CacheSize
    BY <1>4 DEF Now
  <2> QED
    BY <2>2, <2>3, ItemsAre
<1>5. ASSUME NEW k \in Keys, SetAt(k)
      PROVE  CacheInv' /\ Promised!Put(k)
  <2>1. PICK t : Now(t)' /\ t = IF Promised!Contains(Promised!Room(s), k) THEN Promised!Room(s)
                                ELSE Append(Promised!Room(s), k)
    BY <1>2, <1>5, SetAtKeeps
  <2>2. disposable' = disposable
    BY <1>5 DEF SetAt
  <2>3. CacheInv' /\ From(list', list'.front) = t
    BY <1>1, <1>4, <2>1, <2>2
  <2> QED
    BY <1>3, <2>1, <2>2, <2>3 DEF Promised!Put
<1>6. ASSUME NEW k \in Keys, Touch(k)
      PROVE  CacheInv' /\ Promised!Use(k)
  <2>1. PICK t : t = Append(Promised!RemoveFirst(s, k), k)
    OBVIOUS
  <2>2. Now(t)'
    BY <1>2, <1>6, <2>1, TouchKeeps
  <2>3. disposable' = disposable /\ k \in map
    BY <1>6 DEF Touch
  <2>4. CacheInv' /\ From(list', list'.front) = t
    BY <1>1, <1>4, <2>2, <2>3
  <2> QED
    BY <1>3, <2>1, <2>3, <2>4 DEF Promised!Use
<1>7. ASSUME NEW k \in Keys, RemoveKey(k)
      PROVE  CacheInv' /\ Promised!Drop(k)
  <2>1. PICK t : t = Promised!RemoveFirst(s, k)
    OBVIOUS
  <2>2. Now(t)'
    BY <1>2, <1>7, <2>1, RemoveKeeps
  <2>3. disposable' = disposable /\ k \in map
    BY <1>7 DEF RemoveKey
  <2>4. CacheInv' /\ From(list', list'.front) = t
    BY <1>1, <1>4, <2>2, <2>3
  <2> QED
    BY <1>3, <2>1, <2>3, <2>4 DEF Promised!Drop
<1>8. CASE SoundsChange
  <2>1. disposable' \in SUBSET Keys /\ list' = list /\ map' = map
    BY <1>8 DEF SoundsChange
  <2>2. Now(s)'
    BY <1>2, <2>1 DEF Now
  <2>3. CacheInv' /\ From(list', list'.front) = s
    BY <1>4, <2>1, <2>2
  <2> QED
    BY <1>3, <2>1, <2>3 DEF Promised!Next, Promised!Change
<1>9. CASE UNCHANGED cacheVars
  <2>1. disposable' = disposable /\ list' = list /\ map' = map
    BY <1>9 DEF cacheVars
  <2>2. Now(s)'
    BY <1>2, <2>1 DEF Now
  <2>3. CacheInv' /\ From(list', list'.front) = s
    BY <1>1, <1>4, <2>1, <2>2
  <2> QED
    BY <1>3, <2>1, <2>3
<1> QED
  BY <1>5, <1>6, <1>7, <1>8, <1>9 DEF CacheNext, Promised!Next

LEMMA InitKeeps ==
  ASSUME CacheInit
  PROVE  CacheInv /\ Promised!Init
<1>1. list = EmptyList /\ map = {} /\ disposable = {}
  BY DEF CacheInit
<1>2. << >> \in Seq(Keys) /\ Len(<< >>) = 0 /\ DOMAIN << >> = {}
  OBVIOUS
<1>3. In(<< >>) = {} /\ \A i : At(<< >>, i) = Null
  BY <1>2 DEF In, At
<1>4. EmptyList \in Lists
  BY DEF EmptyList, Lists
<1>5. LinkedAs(EmptyList, << >>)
  BY <1>2, <1>3, <1>4 DEF LinkedAs, EmptyList
<1>6. Now(<< >>)
  BY <1>1, <1>2, <1>3, <1>5, CacheSizeAssumption DEF Now
<1>7. CacheInv
  BY <1>1, <1>2, <1>6 DEF CacheInv, Now
<1>8. From(list, list.front) = << >>
  BY <1>6, CountedNow
<1> QED
  BY <1>1, <1>7, <1>8 DEF Promised!Init

\* The invariant, where Touch is not called for the only entry.
THEOREM CacheInvHolds ==
  ASSUME ~LoneTouch
  PROVE  CacheSpec => []CacheInv
<1>1. CacheInit => CacheInv
  BY InitKeeps
<1>2. CacheInv /\ [CacheNext]_cacheVars => CacheInv'
  BY StepKeeps
<1> QED
  BY <1>1, <1>2, PTL DEF CacheSpec

\* For any keys and size: from the front, next leads through every entry once
\* and to the back, prev leads back the same way, and the cache is never
\* overfull, whatever is removed, evicted, entered and moved by hand.
THEOREM ListAlwaysWhole ==
  ASSUME ~LoneTouch
  PROVE  CacheSpec => []ListIsWhole
<1>1. CacheInv => ListIsWhole
  <2> SUFFICES ASSUME CacheInv PROVE ListIsWhole
    OBVIOUS
  <2>1. PICK s : Now(s)
    BY DEF CacheInv, Now
  <2>2. /\ s \in Seq(Keys) /\ Len(s) \in Nat /\ DOMAIN s = 1..Len(s)
        /\ Cardinality(map) = Len(s) /\ From(list, list.front) = s
    BY <2>1, CountedNow
  <2>3. /\ Len(s) <= CacheSize /\ map = In(s) /\ list.back = At(s, Len(s))
        /\ \A i \in DOMAIN s : list.prev[s[i]] = At(s, i - 1)
        /\ \A k \in Keys \ map : list.prev[k] = Null /\ list.next[k] = Null
    BY <2>1 DEF Now, LinkedAs
  <2>4. list.back = IF s = <<>> THEN Null ELSE s[Len(s)]
    <3>1. CASE s = <<>>
      BY <2>2, <2>3, <3>1 DEF At
    <3>2. CASE s # <<>>
      <4>1. Len(s) \in DOMAIN s
        BY <2>2, <3>2
      <4> QED
        BY <2>3, <3>2, <4>1 DEF At
    <3> QED
      BY <3>1, <3>2
  <2>5. ASSUME NEW i \in DOMAIN s
        PROVE  list.prev[s[i]] = IF i = 1 THEN Null ELSE s[i - 1]
    <3>1. i - 1 \in DOMAIN s <=> i # 1
      BY <2>2
    <3> QED
      BY <2>3, <3>1 DEF At
  <2> QED
    BY <2>2, <2>3, <2>4, <2>5 DEF ListIsWhole, In
<1> QED
  BY <1>1, CacheInvHolds, PTL

\* For any keys and size: what the pointers do is what a cache promises that
\* keeps its keys in the order of their last use, and makes room by the first
\* that may go, or by the last if none may.
THEOREM PointersImplementLru ==
  ASSUME ~LoneTouch
  PROVE  CacheSpec => ImplementsLru
<1>1. CacheInit => Promised!Init
  BY InitKeeps
<1>2. CacheInv /\ [CacheNext]_cacheVars
        => [Promised!Next]_<<From(list, list.front), disposable>>
  BY StepKeeps
<1> QED
  BY <1>1, <1>2, CacheInvHolds, PTL DEF CacheSpec, ImplementsLru, Promised!Spec
=============================================================================
