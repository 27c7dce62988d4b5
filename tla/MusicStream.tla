---------------------------- MODULE MusicStream ----------------------------
(***************************************************************************)
(* The game's music: the playlist (plugins/MUSImporter), the thread that   *)
(* reads it into the audio driver (core/Audio/MusicLoop.cpp), the stream   *)
(* of the SDL driver (plugins/SDLAudio/SDLAudio.cpp) and SDL's own audio   *)
(* thread, which empties the ring buffer of whichever stream is hooked.    *)
(* Movies bring streams of their own (core/Interface.cpp, MVEPlayer).      *)
(*                                                                         *)
(* Every thread has a program: the steps it has still to take, the next    *)
(* one first.  A call puts the steps of the called function in front.      *)
(* The ring buffer is taken as a count of chunks; RingBuffer is its model. *)
(***************************************************************************)
EXTENDS Integers, Sequences

CONSTANTS
  Lists,      \* the playlists
  Nil,       \* no playlist, no stream
  Orders,     \* which of "soft", "hard", "end", "movie", "quit" main may give
  Missing,    \* which files may be missing: "list", "piece", "movie"
  Capacity,   \* bound: chunks a ring buffer holds
  MaxPiece,   \* bound: chunks of one piece of music
  RampUp,     \* chunks fed at once when a piece begins
  MaxMovies,  \* bound: movies of one run
  MaxFrames   \* bound: chunks of sound of one movie

ASSUME NilAssumption == Nil \notin Lists
ASSUME OrdersAssumption == Orders \subseteq {"soft", "hard", "end", "movie", "quit"}
ASSUME MissingAssumption == Missing \subseteq {"list", "piece", "movie"}
ASSUME BoundsAssumption ==
  /\ Capacity \in Nat \ {0} /\ MaxPiece \in Nat \ {0} /\ RampUp \in Nat \ {0}
  /\ MaxMovies \in Nat /\ MaxFrames \in Nat

Threads == {"main", "loop"}
Streams == {0} \cup (1..MaxMovies)
Music == 0              \* MusicLoop::streamHandle; the others are movies
NoMusic == -1           \* currentMusic is null

VARIABLES
  depth,      \* MusicLoop::mutex, how often each thread holds it
  handle,     \* MixCallbackState::handle
  fillWait,   \* of every stream
  ring,       \* chunks in the ring buffer of every stream
  source,     \* chunks left of currentMusic, or NoMusic
  rampUp,     \* MusicLoop::rampUp
  looping,    \* MusicLoop::loop
  name,       \* PLName, or Nil
  opened,     \* the playlist is not empty
  more,       \* PLnext is not -1
  playing,    \* MUSImporter::Playing
  wanted,     \* PLNameNew, or Nil
  goal,       \* SwitchPlayList's argument
  movie,      \* how many movies there have been
  frames,     \* frames left of the one that is on
  left,       \* FillBuffers: chunks to go
  filled,     \* FillBuffers: what it returned
  prog        \* the programs

device == <<handle, fillWait, ring>>
list   == <<name, opened, more, playing, wanted, goal>>
fill   == <<left, filled>>
screen == <<movie, frames>>
vars == <<depth, device, source, rampUp, looping, list, screen, fill, prog>>

Init ==
  /\ depth = [t \in Threads |-> 0]
  /\ handle = Music
  /\ fillWait = [s \in Streams |-> s = Music]
  /\ ring = [s \in Streams |-> 0]
  /\ source = NoMusic /\ rampUp = FALSE /\ looping = TRUE
  /\ name = Nil /\ opened = FALSE /\ more = FALSE /\ playing = FALSE
  /\ wanted = Nil /\ goal = Nil
  /\ movie = 0 /\ frames = 0
  /\ left = 0 /\ filled = TRUE
  /\ prog = [t \in Threads |-> IF t = "loop" THEN <<"turn">> ELSE <<>>]

--------------------------------------------------------------------------
(* The functions, as the steps they consist of *)

Steps ==
  {"turn", "lock", "look", "unlock", "ramped", "onward", "fill", "feed", "restock",
   "playNext", "advance", "forget", "open", "start", "started", "play",
   "drain", "drained", "load", "reclaim", "hook", "end", "endList", "switched",
   "refuse", "unhook", "drop", "ended", "create", "replace", "frame",
   "quit", "join", "over"}

Load == <<"lock", "drain", "load", "reclaim", "hook", "unlock">>
Stop == <<"refuse", "unhook", "lock", "drop", "unlock">>
HardEnd == Stop \o <<"ended">>

At(t, step) == prog[t] # <<>> /\ Head(prog[t]) = step

\* The step of t is done, and steps are what it has called.
Call(t, steps) == prog' = [prog EXCEPT ![t] = steps \o Tail(@)]
Done(t) == Call(t, <<>>)

--------------------------------------------------------------------------
(* std::recursive_mutex *)

Lock(t) ==
  /\ At(t, "lock")
  /\ \A u \in Threads \ {t} : depth[u] = 0
  /\ depth' = [depth EXCEPT ![t] = @ + 1]
  /\ Done(t)
  /\ UNCHANGED <<device, source, rampUp, looping, list, screen, fill>>

Unlock(t) ==
  /\ At(t, "unlock")
  /\ depth' = [depth EXCEPT ![t] = @ - 1]
  /\ Done(t)
  /\ UNCHANGED <<device, source, rampUp, looping, list, screen, fill>>

--------------------------------------------------------------------------
(* SDLSoundStreamSourceHandle: Feed, Reclaim, Stop, StreamCallback *)

\* FillBuffers reads a chunk; nothing is left of the source, or of the count.
Fill(t) ==
  /\ At(t, "fill")
  /\ IF left = 0 \/ source = 0
     THEN /\ filled' = (left = 0)
          /\ Done(t)
          /\ UNCHANGED source
     ELSE /\ source' = source - 1
          /\ Call(t, <<"feed", "fill">>)
          /\ UNCHANGED filled
  /\ UNCHANGED <<depth, device, rampUp, looping, list, screen, left>>

\* Feed waits for room, but not when it is told not to; FillBuffers takes
\* that for success.  The last chunk may be short, which ends the source.
Feed(t) ==
  /\ At(t, "feed")
  /\ ring[Music] < Capacity \/ ~fillWait[Music]
  /\ ring' = [ring EXCEPT ![Music] = IF @ < Capacity THEN @ + 1 ELSE @]
  /\ \/ /\ fillWait[Music]
        /\ left' = left - 1
        /\ Done(t)
        /\ UNCHANGED filled
     \/ /\ fillWait[Music] => source = 0
        /\ filled' = ~fillWait[Music]
        /\ prog' = [prog EXCEPT ![t] = Tail(Tail(@))]
        /\ UNCHANGED left
  /\ UNCHANGED <<depth, handle, fillWait, source, rampUp, looping, list, screen>>

Reclaim(t) ==
  /\ At(t, "reclaim")
  /\ fillWait' = [fillWait EXCEPT ![Music] = TRUE]
  /\ Done(t)
  /\ UNCHANGED <<depth, handle, ring, source, rampUp, looping, list, screen, fill>>

\* mutant: a stream that is hooked is not replaced
HookIfFree(t) ==
  /\ At(t, "hook")
  /\ handle' = IF handle = Nil THEN Music ELSE handle
  /\ ring' = [ring EXCEPT ![Music] = IF handle = Nil THEN 0 ELSE @]
  /\ Done(t)
  /\ UNCHANGED <<depth, fillWait, source, rampUp, looping, list, screen, fill>>

Hook(t) ==
  /\ At(t, "hook")
  /\ handle' = Music
  /\ ring' = [ring EXCEPT ![Music] = IF handle = Music THEN @ ELSE 0]
  /\ Done(t)
  /\ UNCHANGED <<depth, fillWait, source, rampUp, looping, list, screen, fill>>

Refuse(t) ==
  /\ At(t, "refuse")
  /\ fillWait' = [fillWait EXCEPT ![Music] = FALSE]
  /\ Done(t)
  /\ UNCHANGED <<depth, handle, ring, source, rampUp, looping, list, screen, fill>>

Unhook(t) ==
  /\ At(t, "unhook")
  /\ handle' = Nil
  /\ Done(t)
  /\ UNCHANGED <<depth, fillWait, ring, source, rampUp, looping, list, screen, fill>>

\* SDL's audio thread.
Callback ==
  /\ handle # Nil
  /\ ring[handle] > 0
  /\ ring' = [ring EXCEPT ![handle] = @ - 1]
  /\ UNCHANGED <<depth, handle, fillWait, source, rampUp, looping, list,
                 screen, fill, prog>>

--------------------------------------------------------------------------
(* MusicLoop: Load, Stop, Loop *)

\* mutant: what is left of the old piece is thrown away
DrainNot(t) ==
  /\ At(t, "drain")
  /\ Done(t)
  /\ UNCHANGED <<depth, device, source, rampUp, looping, list, screen, fill>>

\* while (FillBuffers(1)) {}
Drain(t) ==
  /\ \/ At(t, "drain") /\ source # NoMusic
     \/ At(t, "drained") /\ filled
  /\ left' = 1
  /\ Call(t, <<"fill", "drained">>)
  /\ UNCHANGED <<depth, device, source, rampUp, looping, list, screen, filled>>

DrainEnd(t) ==
  /\ \/ At(t, "drain") /\ source = NoMusic
     \/ At(t, "drained") /\ ~filled
  /\ Done(t)
  /\ UNCHANGED <<depth, device, source, rampUp, looping, list, screen, fill>>

NewSource(t) ==
  /\ At(t, "load")
  /\ source' \in 1..MaxPiece
  /\ rampUp' = TRUE
  /\ Done(t)
  /\ UNCHANGED <<depth, device, looping, list, screen, fill>>

DropSource(t) ==
  /\ At(t, "drop")
  /\ source' = NoMusic
  /\ Done(t)
  /\ UNCHANGED <<depth, device, rampUp, looping, list, screen, fill>>

\* One turn of Loop, which sleeps before it locks.
Turn ==
  /\ At("loop", "turn")
  /\ Call("loop", IF looping THEN <<"lock", "look", "unlock", "turn">> ELSE <<>>)
  /\ UNCHANGED <<depth, device, source, rampUp, looping, list, screen, fill>>

LookNothing ==
  /\ At("loop", "look")
  /\ source = NoMusic
  /\ Done("loop")
  /\ UNCHANGED <<depth, device, source, rampUp, looping, list, screen, fill>>

Look ==
  /\ At("loop", "look")
  /\ source # NoMusic
  /\ left' = IF rampUp THEN RampUp ELSE 1
  /\ Call("loop", <<"fill", IF rampUp THEN "ramped" ELSE "onward">>)
  /\ UNCHANGED <<depth, device, source, rampUp, looping, list, screen, filled>>

Ramped ==
  /\ At("loop", "ramped")
  /\ rampUp' = FALSE
  /\ Done("loop")
  /\ UNCHANGED <<depth, device, source, looping, list, screen, fill>>

Onward ==
  /\ At("loop", "onward")
  /\ Call("loop", IF filled THEN <<>> ELSE <<"playNext", "restock">>)
  /\ UNCHANGED <<depth, device, source, rampUp, looping, list, screen, fill>>

Restock ==
  /\ At("loop", "restock")
  /\ left' = 1
  /\ Call("loop", IF source = NoMusic THEN <<>> ELSE <<"fill">>)
  /\ UNCHANGED <<depth, device, source, rampUp, looping, list, screen, filled>>

--------------------------------------------------------------------------
(* MUSImporter *)

\* PlayMusic: the file is loaded, or is not there and the music stops.
PlayMusic(t) ==
  /\ At(t, "play")
  /\ \/ Call(t, Load)
     \/ "piece" \in Missing /\ Call(t, Stop)
  /\ UNCHANGED <<depth, device, source, rampUp, looping, list, screen, fill>>

\* Start, as far as PlayMusic.  The entry to go on with may not be found.
Start(t) ==
  /\ At(t, "start")
  /\ IF playing \/ ~opened
     THEN Done(t) /\ UNCHANGED more
     ELSE Call(t, <<"play", "started">>) /\ more' \in {TRUE, more}
  /\ UNCHANGED <<depth, device, source, rampUp, looping, name, opened, playing,
                 wanted, goal, screen, fill>>

Started(t) ==
  /\ At(t, "started")
  /\ playing' = TRUE
  /\ Done(t)
  /\ UNCHANGED <<depth, device, source, rampUp, looping, name, opened, more,
                 wanted, goal, screen, fill>>

\* What OpenPlaylist is called for.
Asked(t) == IF t = "main" THEN goal ELSE wanted

\* OpenPlaylist, and Start if it succeeds.
OpenPlaylist(t) ==
  /\ At(t, "open")
  /\ \/ /\ playing \/ name = Asked(t)
        /\ Call(t, <<"start">>)
        /\ UNCHANGED <<name, opened>>
     \/ /\ ~playing /\ name # Asked(t)
        /\ \/ name' = Asked(t) /\ opened' = TRUE /\ Call(t, <<"start">>)
           \/ "list" \in Missing /\ name' = Nil /\ opened' = FALSE /\ Done(t)
  /\ UNCHANGED <<depth, device, source, rampUp, looping, more, playing,
                 wanted, goal, screen, fill>>

\* PlayNext, which only the loop's thread calls.
PlayNext ==
  /\ At("loop", "playNext")
  /\ playing' = (playing /\ more)
  /\ Call("loop", IF ~playing THEN <<>>
                  ELSE IF more THEN <<"play", "advance">>
                  ELSE IF wanted # Nil THEN <<"open", "forget">>
                  ELSE <<>>)
  /\ UNCHANGED <<depth, device, source, rampUp, looping, name, opened, more,
                 wanted, goal, screen, fill>>

\* The entry after the one that has been loaded, or none if this is the end.
Advance ==
  /\ At("loop", "advance")
  /\ more' \in BOOLEAN
  /\ Done("loop")
  /\ UNCHANGED <<depth, device, source, rampUp, looping, name, opened, playing,
                 wanted, goal, screen, fill>>

Forget ==
  /\ At("loop", "forget")
  /\ wanted' = Nil
  /\ Done("loop")
  /\ UNCHANGED <<depth, device, source, rampUp, looping, name, opened, more,
                 playing, goal, screen, fill>>

\* End: the last piece of the playlist; a list that has none ends hard, and
\* is left out where main gives no hard orders.
End ==
  /\ At("main", "end")
  /\ IF ~playing \/ ~opened THEN Done("main")
     ELSE \/ Call("main", <<"play", "endList">>)
          \/ "hard" \in Orders /\ Call("main", HardEnd \o <<"endList">>)
  /\ UNCHANGED <<depth, device, source, rampUp, looping, list, screen, fill>>

EndList ==
  /\ At("main", "endList")
  /\ name' = Nil /\ more' = FALSE
  /\ Done("main")
  /\ UNCHANGED <<depth, device, source, rampUp, looping, opened, playing,
                 wanted, goal, screen, fill>>

\* mutant: a hard end leaves the list playing
EndedPlaying ==
  /\ At("main", "ended")
  /\ name' = Nil
  /\ Done("main")
  /\ UNCHANGED <<depth, device, source, rampUp, looping, opened, more, playing,
                 wanted, goal, screen, fill>>

\* What HardEnd does after it has stopped the music.
Ended ==
  /\ At("main", "ended")
  /\ playing' = FALSE /\ name' = Nil
  /\ Done("main")
  /\ UNCHANGED <<depth, device, source, rampUp, looping, opened, more,
                 wanted, goal, screen, fill>>

--------------------------------------------------------------------------
(* The main thread *)

Idle == prog["main"] = <<>>

\* SwitchPlayList.  The list that is playing is not started again.
SwitchPlayList(l, hard) ==
  /\ Idle
  /\ (IF hard THEN "hard" ELSE "soft") \in Orders
  /\ goal' = l
  /\ prog' = [prog EXCEPT !["main"] =
       IF ~playing THEN <<"open">>
       ELSE IF name = l THEN <<>>
       ELSE (IF hard THEN HardEnd ELSE <<"end">>) \o <<"switched">>]
  /\ UNCHANGED <<depth, device, source, rampUp, looping, name, opened, more,
                 playing, wanted, screen, fill>>

\* Still playing: the list is wanted later.
Switched ==
  /\ At("main", "switched")
  /\ wanted' = IF playing THEN goal ELSE wanted
  /\ Call("main", IF playing THEN <<>> ELSE <<"open">>)
  /\ UNCHANGED <<depth, device, source, rampUp, looping, name, opened, more,
                 playing, goal, screen, fill>>

\* GemRB.SoftEndPL, or an area without a song.
OrderEnd ==
  /\ Idle /\ "end" \in Orders
  /\ prog' = [prog EXCEPT !["main"] = <<"end">>]
  /\ UNCHANGED <<depth, device, source, rampUp, looping, list, screen, fill>>

\* PlayMovie stops the music; the new player replaces the last one only
\* when it is complete; and the music starts again after the last frame.
PlayMovie ==
  /\ Idle /\ "movie" \in Orders
  /\ movie < MaxMovies
  /\ prog' = [prog EXCEPT !["main"] =
       HardEnd \o <<"create", "replace", "frame", "start">>]
  /\ UNCHANGED <<depth, device, source, rampUp, looping, list, screen, fill>>

\* The new player's stream reclaims the hook in its constructor.
CreateMovie ==
  /\ At("main", "create")
  /\ movie' = movie + 1
  /\ frames' \in 0..MaxFrames
  /\ handle' = movie'
  /\ fillWait' = [fillWait EXCEPT ![movie'] = TRUE]
  /\ Done("main")
  /\ UNCHANGED <<depth, ring, source, rampUp, looping, list, fill>>

\* The player of movie m is destroyed, if it still is there, and its stream's
\* destructor stops it.
Destroy(m) ==
  IF m > 0 /\ fillWait[m]
  THEN handle' = Nil /\ fillWait' = [fillWait EXCEPT ![m] = FALSE]
  ELSE UNCHANGED <<handle, fillWait>>

\* There is no such movie; the music stays off.
MovieMissing ==
  /\ At("main", "create") /\ "movie" \in Missing
  /\ Destroy(movie)
  /\ prog' = [prog EXCEPT !["main"] = <<>>]
  /\ UNCHANGED <<depth, ring, source, rampUp, looping, list, screen, fill>>

ReplaceMovie ==
  /\ At("main", "replace")
  /\ Destroy(movie - 1)
  /\ Done("main")
  /\ UNCHANGED <<depth, ring, source, rampUp, looping, list, screen, fill>>

\* A frame's sound is fed.
Frame ==
  /\ At("main", "frame")
  /\ frames > 0
  /\ ring[movie] < Capacity
  /\ ring' = [ring EXCEPT ![movie] = @ + 1]
  /\ frames' = frames - 1
  /\ UNCHANGED <<depth, handle, fillWait, source, rampUp, looping, list,
                 movie, fill, prog>>

\* After the last frame, or the one at which the user stopped the movie.
MovieEnd ==
  /\ At("main", "frame")
  /\ frames = 0
  /\ Done("main")
  /\ UNCHANGED <<depth, device, source, rampUp, looping, list, screen, fill>>

\* MusicLoop's destructor.
Quit ==
  /\ Idle /\ "quit" \in Orders
  /\ prog' = [prog EXCEPT !["main"] = <<"refuse", "unhook", "quit", "join">>]
  /\ UNCHANGED <<depth, device, source, rampUp, looping, list, screen, fill>>

QuitLoop ==
  /\ At("main", "quit")
  /\ looping' = FALSE
  /\ Done("main")
  /\ UNCHANGED <<depth, device, source, rampUp, list, screen, fill>>

Join ==
  /\ At("main", "join")
  /\ prog["loop"] = <<>>
  /\ prog' = [prog EXCEPT !["main"] = <<"over">>]
  /\ UNCHANGED <<depth, device, source, rampUp, looping, list, screen, fill>>

--------------------------------------------------------------------------
Step(t) ==
  \/ Lock(t) \/ Unlock(t)
  \/ Fill(t) \/ Feed(t) \/ Reclaim(t) \/ Hook(t) \/ Refuse(t) \/ Unhook(t)
  \/ Drain(t) \/ DrainEnd(t) \/ NewSource(t) \/ DropSource(t)
  \/ PlayMusic(t) \/ Start(t) \/ Started(t) \/ OpenPlaylist(t)

LoopStep ==
  \/ Step("loop")
  \/ Turn \/ LookNothing \/ Look \/ Ramped \/ Onward \/ Restock
  \/ PlayNext \/ Advance \/ Forget

MainStep ==
  \/ Step("main")
  \/ End \/ EndList \/ Ended \/ Switched
  \/ CreateMovie \/ MovieMissing \/ ReplaceMovie \/ Frame \/ MovieEnd
  \/ QuitLoop \/ Join

MainOrder ==
  \/ \E l \in Lists, hard \in BOOLEAN : SwitchPlayList(l, hard)
  \/ OrderEnd \/ PlayMovie \/ Quit

Next == LoopStep \/ MainStep \/ MainOrder \/ Callback

Spec == Init /\ [][Next]_vars

\* The threads run, and so does SDL's.  The loop sleeps with the mutex
\* unlocked in every turn, so that main comes to have it: strong fairness.
Fairness == WF_vars(LoopStep) /\ SF_vars(MainStep) /\ WF_vars(Callback)

FairSpec == Spec /\ Fairness

--------------------------------------------------------------------------
(* Properties *)

TypeOK ==
  /\ depth \in [Threads -> 0..2]
  /\ handle \in Streams \cup {Nil}
  /\ fillWait \in [Streams -> BOOLEAN]
  /\ ring \in [Streams -> 0..Capacity]
  /\ source \in -1..MaxPiece
  /\ rampUp \in BOOLEAN /\ looping \in BOOLEAN /\ opened \in BOOLEAN
  /\ more \in BOOLEAN /\ playing \in BOOLEAN /\ filled \in BOOLEAN
  /\ name \in Lists \cup {Nil} /\ wanted \in Lists \cup {Nil}
  /\ goal \in Lists \cup {Nil}
  /\ movie \in 0..MaxMovies /\ frames \in 0..MaxFrames
  /\ left \in 0..(RampUp + 1)
  /\ prog \in [Threads -> Seq(Steps)]

Quiet == Idle /\ \A t \in Threads : depth[t] = 0

\* When nobody is in the middle of a call, the music that is loaded is hooked
\* to the speaker and may wait for room: whatever the order in which main
\* stopped it and the loop's thread loaded it, and whatever movie was on.
LoadedMeansHooked ==
  Quiet /\ source # NoMusic => handle = Music /\ fillWait[Music]

\* Nor does the playlist take itself to be playing when there is no music: if
\* it did, a new list would only be scheduled after it, and never be heard.
PlayingHasMusic == Quiet /\ playing => source # NoMusic

\* "Enqueue remaining music to avoid hard cuts" (MusicLoop.cpp:39): a piece
\* replaces another one only when all of that has been read, by whichever
\* thread.
NoHardCuts ==
  [][source' # source /\ source' # NoMusic => source' = source - 1 \/ source <= 0]_vars

\* "Without at least some waiting, the mutex may stay locked" (MusicLoop.cpp:
\* 88): main does come to have it.
MutexComesFree == At("main", "lock") ~> ~At("main", "lock")
=============================================================================
