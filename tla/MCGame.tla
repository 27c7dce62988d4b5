------------------------------- MODULE MCGame -------------------------------
(* What the game asks of its music, of its sounds and of its saves. They share *)
(* no state with each other, and a behaviour is one of one of them.            *)
EXTENDS MusicStream, SaveGames, SoundChannels, TLC

VARIABLE part

Hard == {"soft", "hard"}
All == {"soft", "hard", "end", "movie", "quit"}

\* One area is as good as another.
Alike == Permutations(Areas)

MCInit ==
  /\ Init /\ SaveInit /\ SoundInit
  /\ part \in {"music", "saves", "channels"}

MCNext ==
  \/ part = "music" /\ Next /\ UNCHANGED <<saveVars, soundVars, part>>
  \/ part = "saves" /\ SaveNext /\ ~Mishap /\ UNCHANGED <<vars, soundVars, part>>
  \/ part = "channels" /\ SoundNext /\ UNCHANGED <<vars, saveVars, part>>

MCSpec == MCInit /\ [][MCNext]_<<vars, saveVars, soundVars, part>>

-----------------------------------------------------------------------------
Ahead(t, p) == \E i \in DOMAIN prog[t] : prog[t][i] = p
Needed(value, condition) == IF condition THEN value ELSE Nil

\* What the rest of the behaviour of the music can depend on.  left and filled are
\* read only while FillBuffers and its caller are at work, and are set before;
\* goal by the switch that set it; rampUp while music is loaded, which sets it;
\* and the ring of a movie while it is hooked or being fed.
SeenMusic ==
  <<depth, handle, fillWait, source, looping, name, opened, more, playing, wanted,
    movie, prog,
    Needed(left, \E t \in Threads : Ahead(t, "fill")),
    Needed(filled, \E t \in Threads : At(t, "drained") \/ At(t, "onward")),
    Needed(goal, Ahead("main", "open") \/ Ahead("main", "switched")),
    Needed(rampUp, source # NoMusic),
    Needed(frames, Ahead("main", "frame") /\ ~Ahead("main", "create")),
    [s \in Streams |->
       Needed(ring[s], handle = s \/ s = Music
                         \/ (s = movie /\ Ahead("main", "frame")))]>>

\* The same of the saves, under SafeSpec.  Nobody reads again what is left in a
\* directory that is not listed, a blob that has been copied, or the cached file of
\* an area that is in memory, which will be swapped out before; and only the window
\* looks at the whole list.
SeenSaves ==
  <<[s \in Slots |-> IF Listable(disk[s]) \/ s = save.target THEN disk[s]
                     ELSE [disk[s] EXCEPT !.files = {}, !.sav = <<>>]],
    IF save.override THEN blob ELSE <<>>, blob = <<>>,
    [a \in Areas |-> IF a \in InMemory THEN Nothing ELSE cached[a]],
    IF window THEN listed ELSE Existing,
    window, phase, IF phase = "delete" THEN save ELSE [save EXCEPT !.old = None],
    running, located, newLocated, loaded, changes>>

Seen ==
  <<part, CASE part = "music" -> SeenMusic [] part = "saves" -> SeenSaves [] OTHER -> soundVars>>
=============================================================================
