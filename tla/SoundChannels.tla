--------------------------- MODULE SoundChannels ---------------------------
(***************************************************************************)
(* Sounds on the channels of SDL_mixer.  Sources (plugins/SDLAudio/        *)
(* SDLAudio.cpp) ask ChannelManager for a channel and remember it; the     *)
(* manager remembers the owner of every channel, and forgets it when SDL   *)
(* reports that the channel is done.  Two of the program's threads play:   *)
(* the main one (core/Audio/Playback.cpp) and that of the ambient sounds   *)
(* (core/Audio/AmbientMgr.cpp); SDL's mixer is a third.  A thread works    *)
(* through a list of tasks; a step of a task is what it does between two   *)
(* locks.                                                                  *)
(***************************************************************************)
EXTENDS Naturals, Sequences, FiniteSets

CONSTANTS
  Channels,        \* from 1 on, all but the reserved one
  SpeechChannel,   \* 0, RESERVED_CHANNELS is 1
  Voices,          \* the sources Play creates
  Speech,          \* the source of PlaySpeech
  Hums,            \* the sources of the one ambient
  Sounds,          \* resources
  Buffers,         \* the size of a thread's buffer cache
  Nobody

ASSUME SoundAssumption ==
  /\ Channels \subseteq Nat /\ SpeechChannel \notin Channels
  /\ Speech \notin Voices \cup Hums /\ Voices \cap Hums = {}
  /\ Nobody \notin Channels \cup {SpeechChannel}
  /\ Nobody \notin Voices \cup Hums \cup Sounds \cup {Speech}
  /\ Nobody \notin {"main", "ambient", "mixer"}
  /\ Buffers \in Nat \ {0}

SoundThreads == {"main", "ambient"}
Sources == Voices \cup Hums \cup {Speech}
AllChannels == Channels \cup {SpeechChannel}

VARIABLES
  on, by, chunk,   \* SDL, of every channel: whether it plays, whose sound, which one
  sdl, ending,     \* who holds SDL's lock, and the channel the mixer reports
  stateMutex, channelMap,
  channel,         \* of every source
  born, live, held, \* sources: created, in activeSources, in a caller's PlaybackHandle
  buffered,        \* of every thread, what is in its buffer cache
  mutex, active,   \* AmbientMgr
  ambientSource,   \* AmbientSource::source
  agenda, step, got, \* of every thread: its tasks, where the first one is, its channel
  orphaned         \* the channels that have lost their buffer and keep their owner

mixer == <<on, by, chunk, ending>>
owners == <<stateMutex, channelMap, orphaned>>
program == <<born, live, held, buffered>>
ambience == <<mutex, active, ambientSource>>
work == <<agenda, step, got>>
soundVars == <<mixer, sdl, owners, channel, program, ambience, work>>

SoundInit ==
  /\ on = [c \in AllChannels |-> FALSE]
  /\ by = [c \in AllChannels |-> Nobody] /\ chunk = [c \in AllChannels |-> Nobody]
  /\ sdl = Nobody /\ ending = Nobody
  /\ stateMutex = Nobody /\ channelMap = [c \in AllChannels |-> Nobody]
  /\ channel = [s \in Sources |-> IF s = Speech THEN SpeechChannel ELSE Nobody]
  /\ born = {} /\ live = {} /\ held = {} /\ buffered = [t \in SoundThreads |-> {}]
  /\ mutex = Nobody /\ active = FALSE /\ ambientSource = Nobody
  /\ agenda = [t \in SoundThreads |-> <<>>] /\ step = [t \in SoundThreads |-> "begin"]
  /\ got = [t \in SoundThreads |-> Nobody]
  /\ orphaned = {}

--------------------------------------------------------------------------
(* What a source sees, without a lock *)

Sounding(c) == IF c = Nobody THEN \E d \in AllChannels : on[d] ELSE on[c]

IsMyChannel(s) == channel[s] # Nobody /\ channelMap[channel[s]] = s
CanOperate(s) == s = Speech \/ IsMyChannel(s)
HasFinished(s) == CanOperate(s) => ~on[channel[s]]

\* SDLSoundBufferHandle::Disposable says whether a channel plays the buffer,
\* which is the thread's own.
Plays(c, t, k) == on[c] /\ chunk[c] = <<t, k>>
Disposable(t, k) == \E c \in AllChannels : Plays(c, t, k)

\* From now on the channels of `Cut` are silent.
Silent(Cut) ==
  /\ on' = [c \in AllChannels |-> on[c] /\ c \notin Cut]
  /\ by' = [c \in AllChannels |-> IF c \in Cut THEN Nobody ELSE by[c]]
  /\ chunk' = [c \in AllChannels |-> IF c \in Cut THEN Nobody ELSE chunk[c]]

--------------------------------------------------------------------------
(* Tasks *)

Task(what, s, k) == [what |-> what, source |-> s, sound |-> k]
Does(t, what, where) == agenda[t] # <<>> /\ Head(agenda[t]).what = what /\ step[t] = where
It(t) == Head(agenda[t])

Go(t, where) == step' = [step EXCEPT ![t] = where] /\ UNCHANGED <<agenda, got>>
Finish(t) ==
  /\ agenda' = [agenda EXCEPT ![t] = Tail(@)]
  /\ step' = [step EXCEPT ![t] = "begin"]
  /\ got' = [got EXCEPT ![t] = Nobody]

AtRest(t) == agenda[t] = <<>>
TakesUp(t, tasks) == agenda' = [agenda EXCEPT ![t] = tasks] /\ UNCHANGED <<step, got>>

\* A source ends when nobody holds it any more: it stops what it plays.
Ending(s, holders) == IF s \in holders THEN <<>> ELSE <<Task("stop", s, Nobody)>>

\* Housekeeping: sources that have finished are given up.
Tidy(t) ==
  /\ Does(t, "tidy", "begin")
  /\ \/ \E s \in live :
          /\ HasFinished(s)
          /\ live' = live \ {s}
          /\ agenda' = [agenda EXCEPT ![t] = Ending(s, held) \o @]
          /\ UNCHANGED <<step, got>>
     \/ (\A s \in live : ~HasFinished(s)) /\ Finish(t) /\ UNCHANGED live
  /\ UNCHANGED <<mixer, sdl, owners, channel, born, held, buffered, ambience>>

\* What the cache lets go: the least recent that is Disposable, or the last.
Evicted(t) ==
  LET Goes == {k \in buffered[t] : Disposable(t, k)}
  IN  IF Cardinality(buffered[t]) < Buffers THEN {}
      ELSE IF Goes = {} THEN buffered[t] ELSE Goes

\* GetBuffer.  What cannot be loaded is not played.
Fetch(t) ==
  /\ Does(t, "fetch", "begin")
  /\ LET k == It(t).sound
     IN  IF k \in buffered[t] \/ Evicted(t) = {}
         THEN buffered' = [buffered EXCEPT ![t] = @ \cup {k}] /\ Finish(t)
         ELSE \E v \in Evicted(t) :
                /\ buffered' = [buffered EXCEPT ![t] = (@ \ {v}) \cup {k}]
                /\ got' = [got EXCEPT ![t] = v]
                /\ step' = [step EXCEPT ![t] = "free"] /\ UNCHANGED agenda
  /\ UNCHANGED <<mixer, sdl, owners, channel, born, live, held, ambience>>

FetchFails(t) ==
  /\ Does(t, "fetch", "begin") /\ It(t).sound \notin buffered[t]
  /\ agenda' = [agenda EXCEPT ![t] = IF mutex = t THEN <<Task("leave", Nobody, Nobody)>>
                                 ELSE <<>>]
  /\ UNCHANGED <<step, got, mixer, sdl, owners, channel, program, ambience>>

\* Its owner is about to be entered.
Unnoted(c) == \E t \in SoundThreads : Does(t, "enqueue", "note") /\ got[t] = c

\* Mix_FreeChunk silences the channels that play it, and reports nothing.
Free(t) ==
  /\ Does(t, "fetch", "free")
  /\ sdl = Nobody
  /\ LET Cut == {c \in AllChannels : Plays(c, t, got[t])}
     IN  /\ Silent(Cut)
         /\ orphaned' = orphaned \cup {c \in Cut : channelMap[c] # Nobody \/ Unnoted(c)}
  /\ Finish(t)
  /\ UNCHANGED <<ending, sdl, stateMutex, channelMap, channel, program, ambience>>

--------------------------------------------------------------------------
(* SDLSoundSourceHandle::Enqueue *)

\* A channel that has ended and is still its own is forgotten.  A voice is new:
\* it is kept in activeSources, and by who has asked for it.
Aim(t) ==
  /\ Does(t, "enqueue", "begin")
  /\ LET s == It(t).source
     IN  channel' = IF s # Speech /\ ~Sounding(channel[s]) /\ CanOperate(s)
                    THEN [channel EXCEPT ![s] = Nobody] ELSE channel
  /\ LET New == {It(t).source} \ {Speech}
         NewVoice == New \cap Voices
     IN  /\ born' = born \cup New
         /\ live' = live \cup NewVoice
         /\ held' = held \cup NewVoice
  /\ Go(t, "lock")
  /\ UNCHANGED <<mixer, sdl, owners, buffered, ambience>>

Request(t) ==
  /\ Does(t, "enqueue", "lock")
  /\ stateMutex = Nobody /\ stateMutex' = t
  /\ Go(t, "play")
  /\ UNCHANGED <<mixer, sdl, channelMap, orphaned, channel, program, ambience>>

\* The first that is silent, if none is asked for.
Offered(c) ==
  IF c # Nobody THEN {c}
  ELSE {d \in Channels : ~on[d] /\ \A e \in Channels : e < d => on[e]}

\* SDL reports that a channel is done: finishedCallback.
ForgetOwner(c) ==
  /\ channelMap' = [channelMap EXCEPT ![c] = Nobody]
  /\ orphaned' = orphaned \ {c}

\* mutant: a failure leaves the mutex locked
PlayChannelKeepsMutex(t) ==
  /\ Does(t, "enqueue", "play")
  /\ sdl = Nobody
  /\ LET s == It(t).source
         Takes == Offered(channel[s])
     IN  IF Takes = {}
         THEN /\ Finish(t)
              /\ UNCHANGED <<stateMutex, channelMap, orphaned, on, by, chunk>>
         ELSE \E c \in Takes :
                /\ IF on[c] THEN ForgetOwner(c) ELSE UNCHANGED <<channelMap, orphaned>>
                /\ on' = [on EXCEPT ![c] = TRUE]
                /\ by' = [by EXCEPT ![c] = s]
                /\ chunk' = [chunk EXCEPT ![c] = <<t, It(t).sound>>]
                /\ got' = [got EXCEPT ![t] = c]
                /\ step' = [step EXCEPT ![t] = "note"]
                /\ UNCHANGED <<agenda, stateMutex>>
  /\ UNCHANGED <<ending, sdl, channel, program, ambience>>

\* Mix_PlayChannel.  What the channel plays is done.  There may be no silent one.
PlayChannel(t) ==
  /\ Does(t, "enqueue", "play")
  /\ sdl = Nobody
  /\ LET s == It(t).source
         Takes == Offered(channel[s])
     IN  IF Takes = {}
         THEN /\ stateMutex' = Nobody /\ Finish(t)
              /\ UNCHANGED <<channelMap, orphaned, on, by, chunk>>
         ELSE \E c \in Takes :
                /\ IF on[c] THEN ForgetOwner(c) ELSE UNCHANGED <<channelMap, orphaned>>
                /\ on' = [on EXCEPT ![c] = TRUE]
                /\ by' = [by EXCEPT ![c] = s]
                /\ chunk' = [chunk EXCEPT ![c] = <<t, It(t).sound>>]
                /\ got' = [got EXCEPT ![t] = c]
                /\ step' = [step EXCEPT ![t] = "note"]
                /\ UNCHANGED <<agenda, stateMutex>>
  /\ UNCHANGED <<ending, sdl, channel, program, ambience>>

\* The owner is entered, if the channel has none.
Note(t) ==
  /\ Does(t, "enqueue", "note")
  /\ LET s == It(t).source
         c == got[t]
     IN  /\ channelMap' = IF channelMap[c] = Nobody THEN [channelMap EXCEPT ![c] = s]
                          ELSE channelMap
         /\ channel' = [channel EXCEPT ![s] = c]
  /\ stateMutex' = Nobody
  /\ Finish(t)
  /\ UNCHANGED <<mixer, sdl, orphaned, program, ambience>>

--------------------------------------------------------------------------
(* Stop and StopLooping *)

Check(t) ==
  /\ Does(t, "stop", "begin") \/ Does(t, "fade", "begin")
  /\ IF CanOperate(It(t).source) THEN Go(t, "halt") ELSE Finish(t)
  /\ UNCHANGED <<mixer, sdl, owners, channel, program, ambience>>

\* Mix_HaltChannel reports the channel while it holds the lock.
Halt(t) ==
  /\ Does(t, "stop", "halt")
  /\ sdl = Nobody
  /\ IF on[channel[It(t).source]] THEN sdl' = t /\ Go(t, "halted")
     ELSE Finish(t) /\ UNCHANGED sdl
  /\ UNCHANGED <<mixer, owners, channel, program, ambience>>

\* mutant: the owner is not forgotten
HaltedOwned(t) ==
  /\ Does(t, "stop", "halted")
  /\ stateMutex = Nobody
  /\ Silent({channel[It(t).source]})
  /\ sdl' = Nobody
  /\ Finish(t)
  /\ UNCHANGED <<ending, owners, channel, program, ambience>>

Halted(t) ==
  /\ Does(t, "stop", "halted")
  /\ stateMutex = Nobody
  /\ LET c == channel[It(t).source]
     IN  ForgetOwner(c) /\ Silent({c})
  /\ sdl' = Nobody
  /\ Finish(t)
  /\ UNCHANGED <<ending, stateMutex, channel, program, ambience>>

\* Mix_FadeOutChannel: it goes on for a second, and is nobody's from now on.
Fade(t) ==
  /\ Does(t, "fade", "halt")
  /\ sdl = Nobody
  /\ channel' = [channel EXCEPT ![It(t).source] = Nobody]
  /\ Finish(t)
  /\ UNCHANGED <<mixer, sdl, owners, program, ambience>>

--------------------------------------------------------------------------
(* The mixer *)

\* A sound is over, or has faded.
MixEnd(c) ==
  /\ sdl = Nobody /\ on[c]
  /\ sdl' = "mixer" /\ ending' = c
  /\ Silent({c})
  /\ UNCHANGED <<owners, channel, program, ambience, work>>

FinishedCallback ==
  /\ sdl = "mixer"
  /\ stateMutex = Nobody
  /\ ForgetOwner(ending)
  /\ sdl' = Nobody /\ ending' = Nobody
  /\ UNCHANGED <<on, by, chunk, stateMutex, channel, program, ambience, work>>

--------------------------------------------------------------------------
(* The main thread: Playback.cpp *)

MainDoes(tasks) ==
  /\ AtRest("main")
  /\ TakesUp("main", tasks)
  /\ UNCHANGED <<mixer, sdl, owners, channel, born, live, buffered, ambience>>

Play(s, k) ==
  /\ s \in Voices \ born
  /\ MainDoes(<<Task("tidy", Nobody, Nobody), Task("fetch", Nobody, k), Task("enqueue", s, k)>>)
  /\ UNCHANGED held

PlaySpeech(k, interrupt) ==
  /\ MainDoes(<<Task("tidy", Nobody, Nobody), Task("fetch", Nobody, k)>>
           \o (IF interrupt THEN <<Task("stop", Speech, Nobody)>> ELSE <<>>)
           \o <<Task("enqueue", Speech, k)>>)
  /\ UNCHANGED held

StopSpeech ==
  /\ MainDoes(<<Task("tidy", Nobody, Nobody), Task("stop", Speech, Nobody)>>)
  /\ UNCHANGED held

\* PlaybackHandle: Stop and the end of the handle let the source go.
StopVoice(s) ==
  /\ s \in held /\ held' = held \ {s}
  /\ MainDoes(<<Task("stop", s, Nobody)>> \o Ending(s, live))
DropVoice(s) == s \in held /\ held' = held \ {s} /\ MainDoes(Ending(s, live))
FadeVoice(s) == s \in held /\ UNCHANGED held /\ MainDoes(<<Task("fade", s, Nobody)>>)

--------------------------------------------------------------------------
(* AmbientMgr *)

LeaveAmbients(t) ==
  /\ Does(t, "leave", "begin")
  /\ mutex' = Nobody
  /\ Finish(t)
  /\ UNCHANGED <<mixer, sdl, owners, channel, program, active, ambientSource>>

\* mutant: the sources are dropped without being stopped
SilenceDrops(off) ==
  /\ AtRest("main") /\ mutex = Nobody
  /\ mutex' = "main" /\ ambientSource' = Nobody
  /\ active' = (active /\ ~off)
  /\ TakesUp("main", <<Task("leave", Nobody, Nobody)>>)
  /\ UNCHANGED <<mixer, sdl, owners, channel, program>>

\* Deactivate, or another list of ambients (AmbientsSet): the source is
\* stopped and ends, which stops it again.
Silence(off) ==
  /\ AtRest("main") /\ mutex = Nobody
  /\ mutex' = "main" /\ ambientSource' = Nobody
  /\ active' = (active /\ ~off)
  /\ LET stop == <<Task("stop", ambientSource, Nobody)>>
     IN  TakesUp("main", (IF ambientSource = Nobody THEN <<>> ELSE IF off THEN stop \o stop ELSE stop)
                       \o <<Task("leave", Nobody, Nobody)>>)
  /\ UNCHANGED <<mixer, sdl, owners, channel, program>>

Activate ==
  /\ AtRest("main") /\ mutex = Nobody
  /\ active' = TRUE
  /\ UNCHANGED <<mixer, sdl, owners, channel, program, mutex, ambientSource, work>>

\* A Tick holds the mutex.
Ticking(tasks) ==
  /\ AtRest("ambient") /\ mutex = Nobody /\ active
  /\ mutex' = "ambient"
  /\ TakesUp("ambient", tasks \o <<Task("leave", Nobody, Nobody)>>)
  /\ UNCHANGED <<mixer, sdl, owners, channel, program, active>>

\* It is disabled, or out of hearing.
TickOff ==
  /\ ambientSource # Nobody /\ ~HasFinished(ambientSource)
  /\ Ticking(<<Task("stop", ambientSource, Nobody)>>)
  /\ UNCHANGED ambientSource

\* Its time has come, and what it has played is over.
TickOn(s, k) ==
  /\ IF ambientSource # Nobody THEN s = ambientSource /\ HasFinished(s) ELSE s \in Hums \ born
  /\ ambientSource' = s
  /\ Ticking(<<Task("fetch", Nobody, k), Task("enqueue", s, k)>>)

--------------------------------------------------------------------------
Serve(t) ==
  \/ Tidy(t) \/ Fetch(t) \/ FetchFails(t) \/ Free(t)
  \/ Aim(t) \/ Request(t) \/ PlayChannel(t) \/ Note(t)
  \/ Check(t) \/ Halt(t) \/ Halted(t) \/ Fade(t)
  \/ LeaveAmbients(t)

MainOrders ==
  \/ \E s \in Voices, k \in Sounds : Play(s, k)
  \/ \E k \in Sounds, interrupt \in BOOLEAN : PlaySpeech(k, interrupt)
  \/ StopSpeech
  \/ \E s \in Voices : StopVoice(s) \/ DropVoice(s) \/ FadeVoice(s)
  \/ \E off \in BOOLEAN : Silence(off)
  \/ Activate

Ticks == TickOff \/ \E s \in Hums, k \in Sounds : TickOn(s, k)

SoundNext ==
  \/ \E t \in SoundThreads : Serve(t)
  \/ \E c \in AllChannels : MixEnd(c)
  \/ FinishedCallback
  \/ MainOrders \/ Ticks

SoundSpec == SoundInit /\ [][SoundNext]_soundVars

--------------------------------------------------------------------------
(* Properties *)

\* "We need this to know if some source handle still has a channel assigned
\* that it actually no longer owns" (ChannelManager.h:16): between two critical
\* sections a channel's owner is whose sound plays on it, and a channel that is
\* silent has none, however three threads take turns; only a channel whose
\* buffer has been freed while it played keeps a wrong one.
OwnersAreRight ==
  stateMutex = Nobody /\ sdl = Nobody =>
    \A c \in AllChannels \ orphaned :
      channelMap[c] = IF on[c] THEN by[c] ELSE Nobody

\* "hard stop" (AmbientMgr.h): when Deactivate has returned no ambient plays,
\* whatever its thread and the mixer were doing, until Activate.
Silenced ==
  ~active /\ mutex # "main" =>
    \A c \in Channels \ orphaned : on[c] => by[c] \notin Hums

\* Who asks for a channel waits for SDL's lock while it holds the manager's, and
\* who reports one waits for the manager's while it holds SDL's.
Embrace ==
  /\ \E t \in SoundThreads : stateMutex = t /\ step[t] = "play"
  /\ sdl # Nobody /\ sdl # stateMutex

\* That is the only way for the threads to come to a standstill: with the
\* ambients' mutex and the caches between them, some thread that is busy can go on.
OnlyEmbraceBlocks ==
  (\E t \in SoundThreads : ~AtRest(t)) =>
    Embrace \/ ENABLED ((\E t \in SoundThreads : Serve(t)) \/ FinishedCallback)

\* "or worse, has been recylced by SDL for another source, so that they compete
\* for one channel" (ChannelManager.h:18): the manager is there so that a source
\* does not take the channel another one is playing on.
NobodyElseCut ==
  [][\A t \in SoundThreads : Does(t, "enqueue", "play") =>
       \A c \in Channels :
         on[c] /\ by[c] # It(t).source => by'[c] # It(t).source]_soundVars
=============================================================================
