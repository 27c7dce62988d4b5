------------------------- MODULE MusicStreamProofs -------------------------
(***************************************************************************)
(* The game's music, for any playlists, bounds and orders, as long as no   *)
(* file of a playlist is missing: what is loaded is heard, what plays is   *)
(* loaded, and no piece is cut.  The argument is about the programs of the *)
(* two threads: which ones they can have, and what holds at each of them.  *)
(***************************************************************************)
EXTENDS MusicStream, SequenceTheorems, TLAPS

--------------------------------------------------------------------------
(* The programs *)

\* The programs that begin with x and go on with one of S.
First(x, S) == {<<x>> \o p : p \in S}
None0 == {<< >>}

\* MusicLoop::Load, which is followed by one of K.
Unlocks(K)    == First("unlock", K)
Hooks(K)      == First("hook", Unlocks(K))
Reclaims(K)   == First("reclaim", Hooks(K))
Loads(K)      == First("load", Reclaims(K))
Draineds(K)   == First("drained", Loads(K))
DrainFills(K) == First("fill", Draineds(K))
DrainFeeds(K) == First("feed", DrainFills(K))
Drains(K)     == First("drain", Loads(K))
LoadLocks(K)  == First("lock", Drains(K))

\* The loop's thread: a turn, and what it does when it has found music.
Turns     == First("turn", None0)
Leaves    == First("unlock", Turns)
Looks     == First("look", Leaves)
Enters    == First("lock", Looks)
Rampeds   == First("ramped", Leaves)
Onwards   == First("onward", Leaves)
LoopFills == First("fill", Rampeds \cup Onwards \cup Leaves)
LoopFeeds == First("feed", LoopFills)
Restocks  == First("restock", Leaves)
PlayNexts == First("playNext", Restocks)
Advances  == First("advance", Restocks)
Forgets   == First("forget", Restocks)
LoopStarteds == First("started", Forgets)
LoopStarts   == First("start", Forgets)
LoopOpens    == First("open", Forgets)
LoopK     == Advances \cup LoopStarteds
LoopPlays == First("play", LoopK)

\* The main thread: a switch of lists, or the end of one.
Switcheds    == First("switched", None0)
EndLists     == First("endList", None0 \cup Switcheds)
MainStarteds == First("started", None0)
MainStarts   == First("start", None0)
MainOpens    == First("open", None0)
Ends         == First("end", None0 \cup Switcheds)
MainK        == MainStarteds \cup EndLists
MainPlays    == First("play", MainK)

\* A movie, and a hard end, which is followed by one of E.
Frames     == First("frame", MainStarts)
Replaces   == First("replace", Frames)
Creates    == First("create", Replaces)
Endeds(E)  == First("ended", E)
Stoppeds(E) == First("unlock", Endeds(E))
Drops(E)   == First("drop", Stoppeds(E))
StopLocks(E) == First("lock", Drops(E))
Unhooks(E) == First("unhook", StopLocks(E))
Refuses(E) == First("refuse", Unhooks(E))
After(m)   == IF m THEN Creates ELSE Switcheds \cup EndLists

\* The end of the program.
Overs       == First("over", None0)
Joins       == First("join", None0)
QuitLoops   == First("quit", Joins)
QuitUnhooks == First("unhook", QuitLoops)
Quits       == First("refuse", QuitUnhooks)

--------------------------------------------------------------------------
(* The inductive invariant *)

Heard == source # NoMusic => handle = Music /\ fillWait[Music]
Played == playing => source # NoMusic

Rest(t) == IF t = "main" THEN MainK ELSE LoopK

\* In Load, with the mutex.
Inside(t) ==
  \/ prog[t] \in Drains(Rest(t))
  \/ source # NoMusic /\ prog[t] \in DrainFills(Rest(t))
  \/ source # NoMusic /\ left > 0 /\ prog[t] \in DrainFeeds(Rest(t))
  \/ source # NoMusic /\ (~filled => source = 0) /\ prog[t] \in Draineds(Rest(t))
  \/ source <= 0 /\ prog[t] \in Loads(Rest(t))
  \/ source # NoMusic /\ prog[t] \in Reclaims(Rest(t))
  \/ source # NoMusic /\ (t = "main" => fillWait[Music]) /\ prog[t] \in Hooks(Rest(t))
  \/ source # NoMusic /\ (t = "main" => Heard) /\ prog[t] \in Unlocks(Rest(t))

\* Where the loop's thread is.  Past its look there is music, since only the
\* main thread can drop it, and not without the mutex.
LoopAt ==
  LET p == prog["loop"] IN
  \/ depth["loop"] = 0 /\ p \in None0 \cup Turns \cup Enters
  \/ depth["loop"] = 1 /\ p \in Looks \cup Leaves
  \/ /\ depth["loop"] = 1 /\ source # NoMusic
     /\ \/ p \in Rampeds \cup Onwards \cup LoopFills \cup Restocks \cup PlayNexts
        \/ p \in Advances \cup Forgets \cup LoopStarteds \cup LoopStarts
        \/ p \in LoopOpens \cup LoopPlays \cup LoadLocks(LoopK)
        \/ left > 0 /\ p \in LoopFeeds
  \/ depth["loop"] = 2 /\ source # NoMusic /\ Inside("loop")

\* Where the main thread is.  After it has dropped the music there is none
\* until it loads some, which it does after the movie.
MainAt ==
  LET p == prog["main"] IN
  \/ /\ depth["main"] = 0 /\ Heard /\ Played
     /\ \/ p \in None0 \cup Switcheds \cup EndLists \cup MainStarts \cup MainOpens
        \/ p \in Ends \cup MainPlays \cup LoadLocks(MainK)
  \/ depth["main"] = 0 /\ Heard /\ source # NoMusic /\ p \in MainStarteds
  \/ depth["main"] = 1 /\ Played /\ Inside("main")
  \/ \E m \in BOOLEAN : (m => movie < MaxMovies) /\
       LET E == After(m) IN
       \/ depth["main"] = 0 /\ Played /\ p \in Refuses(E) \cup Unhooks(E) \cup StopLocks(E)
       \/ depth["main"] = 1 /\ Played /\ p \in Drops(E)
       \/ depth["main"] = 1 /\ source = NoMusic /\ p \in Stoppeds(E)
       \/ depth["main"] = 0 /\ source = NoMusic /\ p \in Endeds(E)
  \/ /\ depth["main"] = 0 /\ source = NoMusic /\ ~playing
     /\ \/ movie < MaxMovies /\ p \in Creates
        \/ p \in Replaces \cup Frames
  \/ depth["main"] = 0 /\ p \in Quits \cup QuitUnhooks \cup QuitLoops \cup Joins \cup Overs

Exclusive == depth["main"] = 0 \/ depth["loop"] = 0

MusicInv == TypeOK /\ LoopAt /\ MainAt /\ Exclusive

--------------------------------------------------------------------------
(* What programs begin with *)

Programs == SUBSET Seq(Steps)
Starting(x, S, T) == \A p \in S : p # << >> /\ Head(p) = x /\ Tail(p) \in T

LEMMA FirstIs ==
  ASSUME NEW x \in Steps, NEW S \in Programs
  PROVE  /\ First(x, S) \in Programs
         /\ Starting(x, First(x, S), S)
         /\ \A p \in S : <<x>> \o p \in First(x, S)
<1>1. ASSUME NEW p \in S
      PROVE  /\ <<x>> \o p \in Seq(Steps) /\ <<x>> \o p # << >>
             /\ Head(<<x>> \o p) = x /\ Tail(<<x>> \o p) = p
  <2>1. p \in Seq(Steps) /\ <<x>> \in Seq(Steps)
    <3>1. p \in Seq(Steps)
      BY DEF Programs
    <3> QED
      BY <3>1
  <2>2. /\ <<x>> \o p \in Seq(Steps) /\ Len(<<x>> \o p) = Len(p) + 1 /\ Len(p) \in Nat
        /\ (<<x>> \o p)[1] = x
        /\ \A i \in 1..Len(p) : (<<x>> \o p)[i + 1] = p[i]
    BY <2>1
  <2>3. <<x>> \o p # << >>
    BY <2>2
  <2>4. Head(<<x>> \o p) = x
    BY <2>1, <2>2
  <2>5. Tail(<<x>> \o p) = p
    BY <2>1, <2>2, <2>3
  <2> QED
    BY <2>2, <2>3, <2>4, <2>5
<1> QED
  BY <1>1 DEF First, Starting, Programs

LEMMA LoadPrograms ==
  ASSUME NEW S \in Programs
  PROVE  /\ Unlocks(S) \in Programs /\ Starting("unlock", Unlocks(S), S)
         /\ Hooks(S) \in Programs /\ Starting("hook", Hooks(S), Unlocks(S))
         /\ Reclaims(S) \in Programs /\ Starting("reclaim", Reclaims(S), Hooks(S))
         /\ Loads(S) \in Programs /\ Starting("load", Loads(S), Reclaims(S))
         /\ Draineds(S) \in Programs /\ Starting("drained", Draineds(S), Loads(S))
         /\ DrainFills(S) \in Programs /\ Starting("fill", DrainFills(S), Draineds(S))
         /\ DrainFeeds(S) \in Programs /\ Starting("feed", DrainFeeds(S), DrainFills(S))
         /\ Drains(S) \in Programs /\ Starting("drain", Drains(S), Loads(S))
         /\ LoadLocks(S) \in Programs /\ Starting("lock", LoadLocks(S), Drains(S))
<1>1. Unlocks(S) \in Programs /\ Starting("unlock", Unlocks(S), S)
  BY FirstIs DEF Steps, Unlocks
<1>2. Hooks(S) \in Programs /\ Starting("hook", Hooks(S), Unlocks(S))
  BY <1>1, FirstIs DEF Steps, Hooks
<1>3. Reclaims(S) \in Programs /\ Starting("reclaim", Reclaims(S), Hooks(S))
  BY <1>2, FirstIs DEF Steps, Reclaims
<1>4. Loads(S) \in Programs /\ Starting("load", Loads(S), Reclaims(S))
  BY <1>3, FirstIs DEF Steps, Loads
<1>5. Draineds(S) \in Programs /\ Starting("drained", Draineds(S), Loads(S))
  BY <1>4, FirstIs DEF Steps, Draineds
<1>6. DrainFills(S) \in Programs /\ Starting("fill", DrainFills(S), Draineds(S))
  BY <1>5, FirstIs DEF Steps, DrainFills
<1>7. DrainFeeds(S) \in Programs /\ Starting("feed", DrainFeeds(S), DrainFills(S))
  BY <1>6, FirstIs DEF Steps, DrainFeeds
<1>8. Drains(S) \in Programs /\ Starting("drain", Drains(S), Loads(S))
  BY <1>4, FirstIs DEF Steps, Drains
<1>9. LoadLocks(S) \in Programs /\ Starting("lock", LoadLocks(S), Drains(S))
  BY <1>8, FirstIs DEF Steps, LoadLocks
<1> QED
  BY <1>1, <1>2, <1>3, <1>4, <1>5, <1>6, <1>7, <1>8, <1>9

\* What the loop's programs begin with, and how they go on.
LEMMA LoopPrograms ==
  /\ Turns \in Programs /\ Starting("turn", Turns, None0)
  /\ Leaves \in Programs /\ Starting("unlock", Leaves, Turns)
  /\ Looks \in Programs /\ Starting("look", Looks, Leaves)
  /\ Enters \in Programs /\ Starting("lock", Enters, Looks)
  /\ Rampeds \in Programs /\ Starting("ramped", Rampeds, Leaves)
  /\ Onwards \in Programs /\ Starting("onward", Onwards, Leaves)
  /\ LoopFills \in Programs /\ Starting("fill", LoopFills, Rampeds \cup Onwards \cup Leaves)
  /\ LoopFeeds \in Programs /\ Starting("feed", LoopFeeds, LoopFills)
  /\ Restocks \in Programs /\ Starting("restock", Restocks, Leaves)
  /\ PlayNexts \in Programs /\ Starting("playNext", PlayNexts, Restocks)
  /\ Advances \in Programs /\ Starting("advance", Advances, Restocks)
  /\ Forgets \in Programs /\ Starting("forget", Forgets, Restocks)
  /\ LoopStarteds \in Programs /\ Starting("started", LoopStarteds, Forgets)
  /\ LoopStarts \in Programs /\ Starting("start", LoopStarts, Forgets)
  /\ LoopOpens \in Programs /\ Starting("open", LoopOpens, Forgets)
  /\ LoopK \in Programs
  /\ LoopPlays \in Programs /\ Starting("play", LoopPlays, LoopK)
<1>0. None0 \in Programs
  BY DEF None0, Programs
<1>1. Turns \in Programs /\ Starting("turn", Turns, None0)
  BY <1>0, FirstIs DEF Steps, Turns
<1>2. Leaves \in Programs /\ Starting("unlock", Leaves, Turns)
  BY <1>1, FirstIs DEF Steps, Leaves
<1>3. Looks \in Programs /\ Starting("look", Looks, Leaves)
  BY <1>2, FirstIs DEF Steps, Looks
<1>4. Enters \in Programs /\ Starting("lock", Enters, Looks)
  BY <1>3, FirstIs DEF Steps, Enters
<1>5. Rampeds \in Programs /\ Starting("ramped", Rampeds, Leaves)
  BY <1>2, FirstIs DEF Steps, Rampeds
<1>6. Onwards \in Programs /\ Starting("onward", Onwards, Leaves)
  BY <1>2, FirstIs DEF Steps, Onwards
<1>7. LoopFills \in Programs /\ Starting("fill", LoopFills, Rampeds \cup Onwards \cup Leaves)
  <2>1. Rampeds \cup Onwards \cup Leaves \in Programs
    BY <1>5, <1>6, <1>2 DEF Programs
  <2> QED
    BY <2>1, FirstIs DEF Steps, LoopFills
<1>8. LoopFeeds \in Programs /\ Starting("feed", LoopFeeds, LoopFills)
  BY <1>7, FirstIs DEF Steps, LoopFeeds
<1>9. Restocks \in Programs /\ Starting("restock", Restocks, Leaves)
  BY <1>2, FirstIs DEF Steps, Restocks
<1>10. PlayNexts \in Programs /\ Starting("playNext", PlayNexts, Restocks)
  BY <1>9, FirstIs DEF Steps, PlayNexts
<1>11. Advances \in Programs /\ Starting("advance", Advances, Restocks)
  BY <1>9, FirstIs DEF Steps, Advances
<1>12. Forgets \in Programs /\ Starting("forget", Forgets, Restocks)
  BY <1>9, FirstIs DEF Steps, Forgets
<1>13. LoopStarteds \in Programs /\ Starting("started", LoopStarteds, Forgets)
  BY <1>12, FirstIs DEF Steps, LoopStarteds
<1>14. LoopStarts \in Programs /\ Starting("start", LoopStarts, Forgets)
  BY <1>12, FirstIs DEF Steps, LoopStarts
<1>15. LoopOpens \in Programs /\ Starting("open", LoopOpens, Forgets)
  BY <1>12, FirstIs DEF Steps, LoopOpens
<1>16. LoopK \in Programs
  BY <1>11, <1>13 DEF LoopK, Programs
<1>17. LoopPlays \in Programs /\ Starting("play", LoopPlays, LoopK)
  BY <1>16, FirstIs DEF Steps, LoopPlays
<1> QED
  BY <1>1, <1>2, <1>3, <1>4, <1>5, <1>6, <1>7, <1>8, <1>9, <1>10, <1>11, <1>12, <1>13, <1>14, <1>15, <1>16, <1>17

\* What the main thread's programs begin with, and how they go on.
LEMMA MainPrograms ==
  /\ Switcheds \in Programs /\ Starting("switched", Switcheds, None0)
  /\ EndLists \in Programs /\ Starting("endList", EndLists, None0 \cup Switcheds)
  /\ MainStarteds \in Programs /\ Starting("started", MainStarteds, None0)
  /\ MainStarts \in Programs /\ Starting("start", MainStarts, None0)
  /\ MainOpens \in Programs /\ Starting("open", MainOpens, None0)
  /\ Ends \in Programs /\ Starting("end", Ends, None0 \cup Switcheds)
  /\ MainK \in Programs
  /\ MainPlays \in Programs /\ Starting("play", MainPlays, MainK)
  /\ Frames \in Programs /\ Starting("frame", Frames, MainStarts)
  /\ Replaces \in Programs /\ Starting("replace", Replaces, Frames)
  /\ Creates \in Programs /\ Starting("create", Creates, Replaces)
  /\ Overs \in Programs /\ Starting("over", Overs, None0)
  /\ Joins \in Programs /\ Starting("join", Joins, None0)
  /\ QuitLoops \in Programs /\ Starting("quit", QuitLoops, Joins)
  /\ QuitUnhooks \in Programs /\ Starting("unhook", QuitUnhooks, QuitLoops)
  /\ Quits \in Programs /\ Starting("refuse", Quits, QuitUnhooks)
<1>0. None0 \in Programs
  BY DEF None0, Programs
<1>1. Switcheds \in Programs /\ Starting("switched", Switcheds, None0)
  BY <1>0, FirstIs DEF Steps, Switcheds
<1>2. EndLists \in Programs /\ Starting("endList", EndLists, None0 \cup Switcheds)
  <2>1. None0 \cup Switcheds \in Programs
    BY <1>0, <1>1 DEF Programs
  <2> QED
    BY <2>1, FirstIs DEF Steps, EndLists
<1>3. MainStarteds \in Programs /\ Starting("started", MainStarteds, None0)
  BY <1>0, FirstIs DEF Steps, MainStarteds
<1>4. MainStarts \in Programs /\ Starting("start", MainStarts, None0)
  BY <1>0, FirstIs DEF Steps, MainStarts
<1>5. MainOpens \in Programs /\ Starting("open", MainOpens, None0)
  BY <1>0, FirstIs DEF Steps, MainOpens
<1>6. Ends \in Programs /\ Starting("end", Ends, None0 \cup Switcheds)
  <2>1. None0 \cup Switcheds \in Programs
    BY <1>0, <1>1 DEF Programs
  <2> QED
    BY <2>1, FirstIs DEF Steps, Ends
<1>7. MainK \in Programs
  BY <1>3, <1>2 DEF MainK, Programs
<1>8. MainPlays \in Programs /\ Starting("play", MainPlays, MainK)
  BY <1>7, FirstIs DEF Steps, MainPlays
<1>9. Frames \in Programs /\ Starting("frame", Frames, MainStarts)
  BY <1>4, FirstIs DEF Steps, Frames
<1>10. Replaces \in Programs /\ Starting("replace", Replaces, Frames)
  BY <1>9, FirstIs DEF Steps, Replaces
<1>11. Creates \in Programs /\ Starting("create", Creates, Replaces)
  BY <1>10, FirstIs DEF Steps, Creates
<1>12. Overs \in Programs /\ Starting("over", Overs, None0)
  BY <1>0, FirstIs DEF Steps, Overs
<1>13. Joins \in Programs /\ Starting("join", Joins, None0)
  BY <1>0, FirstIs DEF Steps, Joins
<1>14. QuitLoops \in Programs /\ Starting("quit", QuitLoops, Joins)
  BY <1>13, FirstIs DEF Steps, QuitLoops
<1>15. QuitUnhooks \in Programs /\ Starting("unhook", QuitUnhooks, QuitLoops)
  BY <1>14, FirstIs DEF Steps, QuitUnhooks
<1>16. Quits \in Programs /\ Starting("refuse", Quits, QuitUnhooks)
  BY <1>15, FirstIs DEF Steps, Quits
<1> QED
  BY <1>1, <1>2, <1>3, <1>4, <1>5, <1>6, <1>7, <1>8, <1>9, <1>10, <1>11, <1>12, <1>13, <1>14, <1>15, <1>16

LEMMA StopPrograms ==
  ASSUME NEW E \in Programs
  PROVE  /\ Endeds(E) \in Programs /\ Starting("ended", Endeds(E), E)
         /\ Stoppeds(E) \in Programs /\ Starting("unlock", Stoppeds(E), Endeds(E))
         /\ Drops(E) \in Programs /\ Starting("drop", Drops(E), Stoppeds(E))
         /\ StopLocks(E) \in Programs /\ Starting("lock", StopLocks(E), Drops(E))
         /\ Unhooks(E) \in Programs /\ Starting("unhook", Unhooks(E), StopLocks(E))
         /\ Refuses(E) \in Programs /\ Starting("refuse", Refuses(E), Unhooks(E))
<1>1. Endeds(E) \in Programs /\ Starting("ended", Endeds(E), E)
  BY FirstIs DEF Steps, Endeds
<1>2. Stoppeds(E) \in Programs /\ Starting("unlock", Stoppeds(E), Endeds(E))
  BY <1>1, FirstIs DEF Steps, Stoppeds
<1>3. Drops(E) \in Programs /\ Starting("drop", Drops(E), Stoppeds(E))
  BY <1>2, FirstIs DEF Steps, Drops
<1>4. StopLocks(E) \in Programs /\ Starting("lock", StopLocks(E), Drops(E))
  BY <1>3, FirstIs DEF Steps, StopLocks
<1>5. Unhooks(E) \in Programs /\ Starting("unhook", Unhooks(E), StopLocks(E))
  BY <1>4, FirstIs DEF Steps, Unhooks
<1>6. Refuses(E) \in Programs /\ Starting("refuse", Refuses(E), Unhooks(E))
  BY <1>5, FirstIs DEF Steps, Refuses
<1> QED
  BY <1>1, <1>2, <1>3, <1>4, <1>5, <1>6

LEMMA AfterPrograms ==
  ASSUME NEW m \in BOOLEAN
  PROVE  After(m) \in Programs
BY MainPrograms DEF After, Programs

--------------------------------------------------------------------------
(* Where a thread is that is about to take a step *)

Ahead(t) == Head(prog[t])

LEMMA BothPrograms ==
  ASSUME NEW t \in Threads
  PROVE  Rest(t) \in Programs
BY LoopPrograms, MainPrograms DEF Rest

LEMMA InsideAhead ==
  ASSUME NEW t \in Threads, Inside(t)
  PROVE  /\ prog[t] # << >>
         /\ Ahead(t) \in {"drain", "fill", "feed", "drained", "load", "reclaim", "hook", "unlock"}
         /\ Ahead(t) = "drain" => prog[t] \in Drains(Rest(t))
         /\ Ahead(t) = "fill" => source # NoMusic /\ prog[t] \in DrainFills(Rest(t))
         /\ Ahead(t) = "feed" => source # NoMusic /\ left > 0 /\ prog[t] \in DrainFeeds(Rest(t))
         /\ Ahead(t) = "drained" =>
              source # NoMusic /\ (~filled => source = 0) /\ prog[t] \in Draineds(Rest(t))
         /\ Ahead(t) = "load" => source <= 0 /\ prog[t] \in Loads(Rest(t))
         /\ Ahead(t) = "reclaim" => source # NoMusic /\ prog[t] \in Reclaims(Rest(t))
         /\ Ahead(t) = "hook" => /\ source # NoMusic /\ (t = "main" => fillWait[Music])
                                 /\ prog[t] \in Hooks(Rest(t))
         /\ Ahead(t) = "unlock" => /\ source # NoMusic /\ (t = "main" => Heard)
                                   /\ prog[t] \in Unlocks(Rest(t))
<1> DEFINE S == Rest(t)
<1>1. S \in Programs
  BY BothPrograms
<1> HIDE DEF S
<1>2. /\ Starting("unlock", Unlocks(S), S) /\ Starting("hook", Hooks(S), Unlocks(S))
      /\ Starting("reclaim", Reclaims(S), Hooks(S)) /\ Starting("load", Loads(S), Reclaims(S))
      /\ Starting("drained", Draineds(S), Loads(S)) /\ Starting("fill", DrainFills(S), Draineds(S))
      /\ Starting("feed", DrainFeeds(S), DrainFills(S)) /\ Starting("drain", Drains(S), Loads(S))
  BY <1>1, LoadPrograms
<1> QED
  BY <1>2 DEF Inside, Starting, Ahead, S

LEMMA LoopAhead ==
  ASSUME LoopAt, prog["loop"] # << >>
  PROVE  LET p == prog["loop"]  d == depth["loop"]  x == Ahead("loop") IN
         \/ x = "turn" /\ d = 0 /\ p \in Turns
         \/ x = "lock" /\ d = 0 /\ p \in Enters
         \/ x = "look" /\ d = 1 /\ p \in Looks
         \/ x = "unlock" /\ d = 1 /\ p \in Leaves
         \/ /\ d = 1 /\ source # NoMusic
            /\ \/ x = "lock" /\ p \in LoadLocks(LoopK)
               \/ x = "fill" /\ p \in LoopFills
               \/ x = "feed" /\ left > 0 /\ p \in LoopFeeds
               \/ x = "ramped" /\ p \in Rampeds
               \/ x = "onward" /\ p \in Onwards
               \/ x = "restock" /\ p \in Restocks
               \/ x = "playNext" /\ p \in PlayNexts
               \/ x = "advance" /\ p \in Advances
               \/ x = "forget" /\ p \in Forgets
               \/ x = "started" /\ p \in LoopStarteds
               \/ x = "start" /\ p \in LoopStarts
               \/ x = "open" /\ p \in LoopOpens
               \/ x = "play" /\ p \in LoopPlays
         \/ /\ d = 2 /\ source # NoMusic /\ Inside("loop")
            /\ x \in {"drain", "fill", "feed", "drained", "load", "reclaim", "hook", "unlock"}
<1> DEFINE p == prog["loop"]
<1>1. CASE depth["loop"] = 0 /\ p \in None0 \cup Turns \cup Enters
  <2>1. p \in Turns \/ p \in Enters
    BY <1>1 DEF None0
  <2> QED
    BY <1>1, <2>1, LoopPrograms DEF Ahead, Starting
<1>2. CASE depth["loop"] = 1 /\ p \in Looks \cup Leaves
  BY <1>2, LoopPrograms DEF Ahead, Starting
<1>3. CASE /\ depth["loop"] = 1 /\ source # NoMusic
           /\ p \in Rampeds \cup Onwards \cup LoopFills \cup Restocks \cup PlayNexts
  BY <1>3, LoopPrograms DEF Ahead, Starting
<1>4. CASE /\ depth["loop"] = 1 /\ source # NoMusic
           /\ p \in Advances \cup Forgets \cup LoopStarteds \cup LoopStarts
  BY <1>4, LoopPrograms DEF Ahead, Starting
<1>5. CASE /\ depth["loop"] = 1 /\ source # NoMusic
           /\ p \in LoopOpens \cup LoopPlays \cup LoadLocks(LoopK)
  <2>1. Starting("lock", LoadLocks(LoopK), Drains(LoopK))
    BY LoopPrograms, LoadPrograms
  <2> QED
    BY <1>5, <2>1, LoopPrograms DEF Ahead, Starting
<1>6. CASE depth["loop"] = 1 /\ source # NoMusic /\ left > 0 /\ p \in LoopFeeds
  BY <1>6, LoopPrograms DEF Ahead, Starting
<1>7. CASE depth["loop"] = 2 /\ source # NoMusic /\ Inside("loop")
  <2>1. "loop" \in Threads /\ Rest("loop") = LoopK
    BY DEF Threads, Rest
  <2> QED
    BY <1>7, <2>1, InsideAhead
<1> QED
  BY <1>1, <1>2, <1>3, <1>4, <1>5, <1>6, <1>7 DEF LoopAt

LEMMA MainAhead ==
  ASSUME MainAt, prog["main"] # << >>
  PROVE  LET p == prog["main"]  d == depth["main"]  x == Ahead("main") IN
         \/ /\ d = 0 /\ Heard /\ Played
            /\ \/ x = "switched" /\ p \in Switcheds
               \/ x = "endList" /\ p \in EndLists
               \/ x = "start" /\ p \in MainStarts
               \/ x = "open" /\ p \in MainOpens
               \/ x = "end" /\ p \in Ends
               \/ x = "play" /\ p \in MainPlays
               \/ x = "lock" /\ p \in LoadLocks(MainK)
         \/ d = 0 /\ Heard /\ source # NoMusic /\ x = "started" /\ p \in MainStarteds
         \/ /\ d = 1 /\ Played /\ Inside("main")
            /\ x \in {"drain", "fill", "feed", "drained", "load", "reclaim", "hook", "unlock"}
         \/ \E m \in BOOLEAN : (m => movie < MaxMovies) /\
              LET E == After(m) IN
              \/ d = 0 /\ Played /\ x = "refuse" /\ p \in Refuses(E)
              \/ d = 0 /\ Played /\ x = "unhook" /\ p \in Unhooks(E)
              \/ d = 0 /\ Played /\ x = "lock" /\ p \in StopLocks(E)
              \/ d = 1 /\ Played /\ x = "drop" /\ p \in Drops(E)
              \/ d = 1 /\ source = NoMusic /\ x = "unlock" /\ p \in Stoppeds(E)
              \/ d = 0 /\ source = NoMusic /\ x = "ended" /\ p \in Endeds(E)
         \/ /\ d = 0 /\ source = NoMusic /\ ~playing
            /\ \/ movie < MaxMovies /\ x = "create" /\ p \in Creates
               \/ x = "replace" /\ p \in Replaces
               \/ x = "frame" /\ p \in Frames
         \/ /\ d = 0
            /\ \/ x = "refuse" /\ p \in Quits
               \/ x = "unhook" /\ p \in QuitUnhooks
               \/ x = "quit" /\ p \in QuitLoops
               \/ x = "join" /\ p \in Joins
               \/ x = "over" /\ p \in Overs
<1> DEFINE p == prog["main"]
<1>1. CASE /\ depth["main"] = 0 /\ Heard /\ Played
           /\ p \in None0 \cup Switcheds \cup EndLists \cup MainStarts \cup MainOpens
  <2>1. p \in Switcheds \/ p \in EndLists \/ p \in MainStarts \/ p \in MainOpens
    BY <1>1 DEF None0
  <2> QED
    BY <1>1, <2>1, MainPrograms DEF Ahead, Starting
<1>2. CASE /\ depth["main"] = 0 /\ Heard /\ Played
           /\ p \in Ends \cup MainPlays \cup LoadLocks(MainK)
  <2>1. Starting("lock", LoadLocks(MainK), Drains(MainK))
    BY MainPrograms, LoadPrograms
  <2> QED
    BY <1>2, <2>1, MainPrograms DEF Ahead, Starting
<1>3. CASE depth["main"] = 0 /\ Heard /\ source # NoMusic /\ p \in MainStarteds
  BY <1>3, MainPrograms DEF Ahead, Starting
<1>4. CASE depth["main"] = 1 /\ Played /\ Inside("main")
  <2>1. "main" \in Threads
    BY DEF Threads
  <2> QED
    BY <1>4, <2>1, InsideAhead
<1>5. ASSUME NEW m \in BOOLEAN, m => movie < MaxMovies,
             LET E == After(m) IN
             \/ depth["main"] = 0 /\ Played /\ p \in Refuses(E) \cup Unhooks(E) \cup StopLocks(E)
             \/ depth["main"] = 1 /\ Played /\ p \in Drops(E)
             \/ depth["main"] = 1 /\ source = NoMusic /\ p \in Stoppeds(E)
             \/ depth["main"] = 0 /\ source = NoMusic /\ p \in Endeds(E)
      PROVE  LET E == After(m)  d == depth["main"]  x == Ahead("main") IN
              \/ d = 0 /\ Played /\ x = "refuse" /\ p \in Refuses(E)
              \/ d = 0 /\ Played /\ x = "unhook" /\ p \in Unhooks(E)
              \/ d = 0 /\ Played /\ x = "lock" /\ p \in StopLocks(E)
              \/ d = 1 /\ Played /\ x = "drop" /\ p \in Drops(E)
              \/ d = 1 /\ source = NoMusic /\ x = "unlock" /\ p \in Stoppeds(E)
              \/ d = 0 /\ source = NoMusic /\ x = "ended" /\ p \in Endeds(E)
  <2> DEFINE E == After(m)
  <2>1. E \in Programs
    BY AfterPrograms
  <2> HIDE DEF E
  <2>2. /\ Starting("ended", Endeds(E), E) /\ Starting("unlock", Stoppeds(E), Endeds(E))
        /\ Starting("drop", Drops(E), Stoppeds(E)) /\ Starting("lock", StopLocks(E), Drops(E))
        /\ Starting("unhook", Unhooks(E), StopLocks(E)) /\ Starting("refuse", Refuses(E), Unhooks(E))
    BY <2>1, StopPrograms
  <2> QED
    BY <1>5, <2>2 DEF Ahead, Starting, E
<1>6. CASE /\ depth["main"] = 0 /\ source = NoMusic /\ ~playing
           /\ \/ movie < MaxMovies /\ p \in Creates
              \/ p \in Replaces \cup Frames
  BY <1>6, MainPrograms DEF Ahead, Starting
<1>7. CASE /\ depth["main"] = 0
           /\ p \in Quits \cup QuitUnhooks \cup QuitLoops \cup Joins \cup Overs
  BY <1>7, MainPrograms DEF Ahead, Starting
<1> HIDE DEF p
<1> QED
  BY <1>1, <1>2, <1>3, <1>4, <1>5, <1>6, <1>7 DEF MainAt, p

--------------------------------------------------------------------------
(* What a step leaves alone *)

LEMMA LoopStays ==
  ASSUME MusicInv, prog'["loop"] = prog["loop"], depth'["loop"] = depth["loop"],
         depth["loop"] = 0 \/ (source' = source /\ left' = left /\ filled' = filled)
  PROVE  LoopAt'
<1>1. CASE depth["loop"] = 0
  BY <1>1 DEF MusicInv, LoopAt
<1>2. CASE source' = source /\ left' = left /\ filled' = filled
  <2>1. Inside("loop") => Inside("loop")'
    BY <1>2 DEF Inside, Rest
  <2> QED
    BY <1>2, <2>1 DEF MusicInv, LoopAt
<1> QED
  BY <1>1, <1>2

LEMMA MainStays ==
  ASSUME MusicInv, prog'["main"] = prog["main"], depth'["main"] = depth["main"],
         movie' = movie, Heard => Heard', source = NoMusic <=> source' = NoMusic,
         playing' => playing \/ source # NoMusic,
         depth["main"] = 0 \/ (/\ source' = source /\ left' = left /\ filled' = filled
                               /\ handle' = handle /\ fillWait' = fillWait)
  PROVE  MainAt'
<1>1. Played => Played'
  BY DEF Played
<1>2. depth["main"] = 1 /\ Inside("main") => Inside("main")'
  BY DEF Inside, Rest, Heard
<1>3. source = NoMusic /\ ~playing => source' = NoMusic /\ ~playing'
  OBVIOUS
<1> QED
  BY <1>1, <1>2, <1>3 DEF MusicInv, MainAt

LEMMA CallIs ==
  ASSUME NEW t \in Threads, prog \in [Threads -> Seq(Steps)], NEW steps, Call(t, steps)
  PROVE  /\ prog'[t] = steps \o Tail(prog[t])
         /\ \A u \in Threads \ {t} : prog'[u] = prog[u]
BY DEF Call

LEMMA DoneIs ==
  ASSUME NEW t \in Threads, prog \in [Threads -> Seq(Steps)], prog[t] # << >>, Done(t)
  PROVE  /\ prog'[t] = Tail(prog[t])
         /\ \A u \in Threads \ {t} : prog'[u] = prog[u]
<1>1. Tail(prog[t]) \in Seq(Steps)
  <2>1. prog[t] \in Seq(Steps)
    OBVIOUS
  <2> QED
    BY <2>1
<1>2. << >> \o Tail(prog[t]) = Tail(prog[t])
  BY <1>1
<1> QED
  BY <1>2, CallIs DEF Done

LEMMA Front ==
  ASSUME NEW a \in Steps, NEW s \in Seq(Steps), NEW r \in Seq(Steps)
  PROVE  (<<a>> \o s) \o r = <<a>> \o (s \o r)
<1>1. <<a>> \in Seq(Steps)
  OBVIOUS
<1> QED
  BY <1>1, ConcatAssociative

LEMMA One ==
  ASSUME NEW a \in Steps, NEW S \in Programs, NEW r \in S
  PROVE  <<a>> \o r \in First(a, S)
BY FirstIs

LEMMA Longer ==
  ASSUME NEW a \in Steps, NEW q \in Seq(Steps), NEW r \in Seq(Steps),
         NEW T \in Programs, q \o r \in T
  PROVE  (<<a>> \o q) \o r \in First(a, T)
BY Front, One

LEMMA Two ==
  ASSUME NEW a \in Steps, NEW b \in Steps,
         NEW S \in Programs, NEW r \in S
  PROVE  <<a, b>> \o r \in First(a, First(b, S))
<1> DEFINE q == <<b>>
           T == First(b, S)
<1>1. q \o r \in T
  BY One
<1>2. T \in Programs
  BY FirstIs
<1>3. q \in Seq(Steps)
  OBVIOUS
<1>4. <<a, b>> = <<a>> \o q
  <2>1. <<a>> \in Seq(Steps) /\ Len(<<a>>) = 1 /\ <<a>>[1] = a /\ Len(q) = 1 /\ q[1] = b
    OBVIOUS
  <2> HIDE DEF q
  <2> DEFINE s == <<a>> \o q
  <2>2. s \in Seq(Steps) /\ Len(s) = 2 /\ s[1] = a /\ s[2] = b
    BY <1>3, <2>1
  <2> HIDE DEF s
  <2>3. s = <<a, b>>
    BY <2>2
  <2> QED
    BY <2>3 DEF s
<1>5. r \in Seq(Steps)
  BY DEF Programs
<1> HIDE DEF q, T
<1>6. (<<a>> \o q) \o r \in First(a, T)
  BY <1>1, <1>2, <1>3, <1>5, Longer
<1> QED
  BY <1>4, <1>6 DEF T

LEMMA Three ==
  ASSUME NEW a \in Steps, NEW b \in Steps, NEW c \in Steps,
         NEW S \in Programs, NEW r \in S
  PROVE  <<a, b, c>> \o r \in First(a, First(b, First(c, S)))
<1> DEFINE q == <<b, c>>
           T == First(b, First(c, S))
<1>1. q \o r \in T
  BY Two
<1>2. T \in Programs
  <2>1. First(c, S) \in Programs
    BY FirstIs
  <2>2. First(b, First(c, S)) \in Programs
    BY <2>1, FirstIs
  <2> QED
    BY <2>2
<1>3. q \in Seq(Steps)
  OBVIOUS
<1>4. <<a, b, c>> = <<a>> \o q
  OBVIOUS
<1>5. r \in Seq(Steps)
  BY DEF Programs
<1> HIDE DEF q, T
<1>6. (<<a>> \o q) \o r \in First(a, T)
  BY <1>1, <1>2, <1>3, <1>5, Longer
<1> QED
  BY <1>4, <1>6 DEF T

LEMMA Four ==
  ASSUME NEW a \in Steps, NEW b \in Steps, NEW c \in Steps,
         NEW d \in Steps,
         NEW S \in Programs, NEW r \in S
  PROVE  <<a, b, c, d>> \o r \in First(a, First(b, First(c, First(d, S))))
<1> DEFINE q == <<b, c, d>>
           T == First(b, First(c, First(d, S)))
<1>1. q \o r \in T
  BY Three
<1>2. T \in Programs
  <2>1. First(d, S) \in Programs
    BY FirstIs
  <2>2. First(c, First(d, S)) \in Programs
    BY <2>1, FirstIs
  <2>3. First(b, First(c, First(d, S))) \in Programs
    BY <2>2, FirstIs
  <2> QED
    BY <2>3
<1>3. q \in Seq(Steps)
  OBVIOUS
<1>4. <<a, b, c, d>> = <<a>> \o q
  OBVIOUS
<1>5. r \in Seq(Steps)
  BY DEF Programs
<1> HIDE DEF q, T
<1>6. (<<a>> \o q) \o r \in First(a, T)
  BY <1>1, <1>2, <1>3, <1>5, Longer
<1> QED
  BY <1>4, <1>6 DEF T

LEMMA Five ==
  ASSUME NEW a \in Steps, NEW b \in Steps, NEW c \in Steps,
         NEW d \in Steps, NEW e \in Steps,
         NEW S \in Programs, NEW r \in S
  PROVE  <<a, b, c, d, e>> \o r \in First(a, First(b, First(c, First(d, First(e, S)))))
<1> DEFINE q == <<b, c, d, e>>
           T == First(b, First(c, First(d, First(e, S))))
<1>1. q \o r \in T
  BY Four
<1>2. T \in Programs
  <2>1. First(e, S) \in Programs
    BY FirstIs
  <2>2. First(d, First(e, S)) \in Programs
    BY <2>1, FirstIs
  <2>3. First(c, First(d, First(e, S))) \in Programs
    BY <2>2, FirstIs
  <2>4. First(b, First(c, First(d, First(e, S)))) \in Programs
    BY <2>3, FirstIs
  <2> QED
    BY <2>4
<1>3. q \in Seq(Steps)
  OBVIOUS
<1>4. <<a, b, c, d, e>> = <<a>> \o q
  OBVIOUS
<1>5. r \in Seq(Steps)
  BY DEF Programs
<1> HIDE DEF q, T
<1>6. (<<a>> \o q) \o r \in First(a, T)
  BY <1>1, <1>2, <1>3, <1>5, Longer
<1> QED
  BY <1>4, <1>6 DEF T

LEMMA Six ==
  ASSUME NEW a \in Steps, NEW b \in Steps, NEW c \in Steps,
         NEW d \in Steps, NEW e \in Steps, NEW f \in Steps,
         NEW S \in Programs, NEW r \in S
  PROVE  <<a, b, c, d, e, f>> \o r \in First(a, First(b, First(c, First(d, First(e, First(f, S))))))
<1> DEFINE q == <<b, c, d, e, f>>
           T == First(b, First(c, First(d, First(e, First(f, S)))))
<1>1. q \o r \in T
  BY Five
<1>2. T \in Programs
  <2>1. First(f, S) \in Programs
    BY FirstIs
  <2>2. First(e, First(f, S)) \in Programs
    BY <2>1, FirstIs
  <2>3. First(d, First(e, First(f, S))) \in Programs
    BY <2>2, FirstIs
  <2>4. First(c, First(d, First(e, First(f, S)))) \in Programs
    BY <2>3, FirstIs
  <2>5. First(b, First(c, First(d, First(e, First(f, S))))) \in Programs
    BY <2>4, FirstIs
  <2> QED
    BY <2>5
<1>3. q \in Seq(Steps)
  OBVIOUS
<1>4. <<a, b, c, d, e, f>> = <<a>> \o q
  OBVIOUS
<1>5. r \in Seq(Steps)
  BY DEF Programs
<1> HIDE DEF q, T
<1>6. (<<a>> \o q) \o r \in First(a, T)
  BY <1>1, <1>2, <1>3, <1>5, Longer
<1> QED
  BY <1>4, <1>6 DEF T

LEMMA Routines ==
  ASSUME NEW S \in Programs, NEW r \in S
  PROVE  /\ Load \o r \in LoadLocks(S)
         /\ HardEnd \o r \in Refuses(S)
<1>0. /\ "lock" \in Steps /\ "drain" \in Steps /\ "load" \in Steps /\ "reclaim" \in Steps
      /\ "hook" \in Steps /\ "unlock" \in Steps /\ "refuse" \in Steps /\ "unhook" \in Steps
      /\ "drop" \in Steps /\ "ended" \in Steps
  BY DEF Steps
<1>1. Load \o r \in LoadLocks(S)
  <2>1. <<"lock", "drain", "load", "reclaim", "hook", "unlock">> \o r
          \in First("lock", First("drain", First("load", First("reclaim",
                First("hook", First("unlock", S))))))
    BY <1>0, Six, Zenon
  <2> QED
    BY <2>1, Zenon DEF Load, LoadLocks, Drains, Loads, Reclaims, Hooks, Unlocks
<1>2. HardEnd \o r \in Refuses(S)
  <2>1. <<"ended">> \o r \in Endeds(S) /\ Endeds(S) \in Programs
    BY <1>0, One, StopPrograms, Zenon DEF Endeds
  <2>2. <<"refuse", "unhook", "lock", "drop", "unlock">> \o (<<"ended">> \o r)
          \in First("refuse", First("unhook", First("lock", First("drop",
                First("unlock", Endeds(S))))))
    BY <1>0, <2>1, Five, Zenon
  <2>3. Stop \o (<<"ended">> \o r) \in Refuses(S)
    BY <2>2, Zenon DEF Stop, Refuses, Unhooks, StopLocks, Drops, Stoppeds
  <2>4. Stop \in Seq(Steps) /\ <<"ended">> \in Seq(Steps) /\ r \in Seq(Steps)
    <3>1. Stop \in Seq(Steps)
      BY <1>0 DEF Stop
    <3>2. <<"ended">> \in Seq(Steps)
      BY <1>0
    <3> QED
      BY <3>1, <3>2 DEF Programs
  <2>5. HardEnd \o r = Stop \o (<<"ended">> \o r)
    BY <2>4, ConcatAssociative DEF HardEnd
  <2> QED
    BY <2>3, <2>5
<1> QED
  BY <1>1, <1>2

\* A program of one step.
LEMMA Last ==
  ASSUME NEW a \in Steps
  PROVE  <<a>> \in First(a, None0) /\ <<a>> \in Seq(Steps)
<1>1. <<a>> = <<a>> \o << >> /\ <<a>> \in Seq(Steps)
  <2>1. <<a>> \in Seq(Steps)
    OBVIOUS
  <2> QED
    BY <2>1, ConcatEmptySeq
<1>2. << >> \in None0 /\ None0 \in Programs
  BY DEF None0, Programs
<1> QED
  BY <1>1, <1>2, One

LEMMA Wider ==
  ASSUME NEW x, NEW S, NEW T, S \subseteq T
  PROVE  First(x, S) \subseteq First(x, T)
BY DEF First

--------------------------------------------------------------------------
(* A step inside Load *)

LEMMA InsideUnlock ==
  ASSUME TypeOK, NEW t \in Threads, Inside(t), Unlock(t)
  PROVE  /\ prog'[t] \in Rest(t) /\ source # NoMusic /\ source' = source
         /\ t = "main" => Heard /\ Heard'
<1>1. Ahead(t) = "unlock" /\ prog[t] # << >>
  BY DEF Unlock, At, Ahead
<1>2. prog[t] \in Unlocks(Rest(t)) /\ source # NoMusic /\ (t = "main" => Heard)
  BY <1>1, InsideAhead
<1>3. Tail(prog[t]) \in Rest(t)
  BY <1>2, BothPrograms, LoadPrograms DEF Starting
<1>4. prog'[t] = Tail(prog[t])
  BY <1>1, DoneIs DEF TypeOK, Unlock
<1> QED
  BY <1>2, <1>3, <1>4 DEF Unlock, device, Heard

LEMMA InsideFill ==
  ASSUME TypeOK, NEW t \in Threads, Inside(t), Fill(t)
  PROVE  Inside(t)' /\ (source # NoMusic => source' # NoMusic)
<1> DEFINE S == Rest(t)
<1>1. Ahead(t) = "fill" /\ prog[t] # << >>
  BY DEF Fill, At, Ahead
<1>2. source # NoMusic /\ prog[t] \in DrainFills(S)
  BY <1>1, InsideAhead
<1>3. S \in Programs
  BY BothPrograms
<1>4. Tail(prog[t]) \in Draineds(S) /\ Draineds(S) \in Programs
  BY <1>2, <1>3, LoadPrograms DEF Starting
<1>5. CASE left = 0 \/ source = 0
  <2>1. prog'[t] = Tail(prog[t])
    BY <1>1, <1>5, DoneIs DEF TypeOK, Fill
  <2>2. source' = source /\ filled' = (left = 0) /\ (~filled' => source' = 0)
    BY <1>5 DEF Fill
  <2> QED
    BY <1>2, <1>4, <2>1, <2>2 DEF Inside, Rest
<1>6. CASE ~(left = 0 \/ source = 0)
  <2>1. prog'[t] = <<"feed", "fill">> \o Tail(prog[t])
    BY <1>6, CallIs DEF TypeOK, Fill
  <2>2. prog'[t] \in DrainFeeds(S)
    <3>1. "feed" \in Steps /\ "fill" \in Steps
      BY DEF Steps
    <3> QED
      BY <1>4, <2>1, <3>1, Two DEF DrainFeeds, DrainFills
  <2>3. source' = source - 1 /\ left' = left /\ left > 0 /\ source > 0
    BY <1>2, <1>6 DEF TypeOK, Fill, NoMusic
  <2>4. source' # NoMusic /\ left' > 0
    BY <2>3 DEF TypeOK, NoMusic
  <2> QED
    BY <2>2, <2>4 DEF Inside, Rest
<1> QED
  BY <1>5, <1>6

LEMMA InsideFeed ==
  ASSUME TypeOK, NEW t \in Threads, Inside(t), Feed(t)
  PROVE  Inside(t)' /\ source' = source /\ source # NoMusic
<1> DEFINE S == Rest(t)
<1>1. Ahead(t) = "feed" /\ prog[t] # << >>
  BY DEF Feed, At, Ahead
<1>2. source # NoMusic /\ left > 0 /\ prog[t] \in DrainFeeds(S)
  BY <1>1, InsideAhead
<1>3. S \in Programs
  BY BothPrograms
<1>4. Tail(prog[t]) \in DrainFills(S)
  BY <1>2, <1>3, LoadPrograms DEF Starting
<1>5. Tail(Tail(prog[t])) \in Draineds(S)
  BY <1>3, <1>4, LoadPrograms DEF Starting
<1>6. source' = source
  BY DEF Feed
<1>7. CASE Done(t)
  <2>1. prog'[t] = Tail(prog[t])
    BY <1>1, <1>7, DoneIs DEF TypeOK
  <2> QED
    BY <1>2, <1>4, <1>6, <2>1 DEF Inside, Rest
<1>8. CASE /\ fillWait[Music] => source = 0
           /\ filled' = ~fillWait[Music]
           /\ prog' = [prog EXCEPT ![t] = Tail(Tail(@))]
  <2>1. prog'[t] = Tail(Tail(prog[t]))
    BY <1>8 DEF TypeOK
  <2> QED
    BY <1>2, <1>5, <1>6, <1>8, <2>1 DEF Inside, Rest
<1> QED
  BY <1>7, <1>8 DEF Feed

LEMMA InsideDrain ==
  ASSUME TypeOK, NEW t \in Threads, Inside(t), Drain(t) \/ DrainEnd(t)
  PROVE  Inside(t)' /\ source' = source
<1> DEFINE S == Rest(t)
<1>1. prog[t] # << >> /\ Ahead(t) \in {"drain", "drained"}
  BY DEF Drain, DrainEnd, At, Ahead
<1>2. S \in Programs
  BY BothPrograms
<1>3. Tail(prog[t]) \in Loads(S) /\ Loads(S) \in Programs
  BY <1>1, <1>2, InsideAhead, LoadPrograms DEF Starting
<1>4. source' = source
  BY DEF Drain, DrainEnd
<1>5. CASE Drain(t)
  <2>1. source # NoMusic
    BY <1>5, InsideAhead DEF Drain, At, Ahead
  <2>2. prog'[t] = <<"fill", "drained">> \o Tail(prog[t])
    BY <1>5, CallIs DEF TypeOK, Drain
  <2>3. prog'[t] \in DrainFills(S)
    <3>1. "fill" \in Steps /\ "drained" \in Steps
      BY DEF Steps
    <3> QED
      BY <1>3, <2>2, <3>1, Two DEF DrainFills, Draineds
  <2> QED
    BY <1>4, <2>1, <2>3 DEF Inside, Rest
<1>6. CASE DrainEnd(t)
  <2>1. source <= 0
    BY <1>6, InsideAhead DEF DrainEnd, At, Ahead, TypeOK, NoMusic
  <2>2. prog'[t] = Tail(prog[t])
    BY <1>1, <1>6, DoneIs DEF TypeOK, DrainEnd
  <2> QED
    BY <1>3, <1>4, <2>1, <2>2 DEF Inside, Rest
<1> QED
  BY <1>5, <1>6

\* A piece is loaded only when nothing of the one before is left.
LEMMA InsideLoad ==
  ASSUME TypeOK, NEW t \in Threads, Inside(t), NewSource(t)
  PROVE  Inside(t)' /\ source <= 0 /\ source' # NoMusic
<1> DEFINE S == Rest(t)
<1>1. Ahead(t) = "load" /\ prog[t] # << >>
  BY DEF NewSource, At, Ahead
<1>2. source <= 0 /\ prog[t] \in Loads(S)
  BY <1>1, InsideAhead
<1>3. Tail(prog[t]) \in Reclaims(S)
  BY <1>2, BothPrograms, LoadPrograms DEF Starting
<1>4. prog'[t] = Tail(prog[t])
  BY <1>1, DoneIs DEF TypeOK, NewSource
<1>5. source' # NoMusic
  BY BoundsAssumption DEF NewSource, NoMusic
<1> QED
  BY <1>2, <1>3, <1>4, <1>5 DEF Inside, Rest

LEMMA InsideReclaim ==
  ASSUME TypeOK, NEW t \in Threads, Inside(t), Reclaim(t)
  PROVE  Inside(t)' /\ source' = source /\ source # NoMusic
<1> DEFINE S == Rest(t)
<1>1. Ahead(t) = "reclaim" /\ prog[t] # << >>
  BY DEF Reclaim, At, Ahead
<1>2. source # NoMusic /\ prog[t] \in Reclaims(S)
  BY <1>1, InsideAhead
<1>3. Tail(prog[t]) \in Hooks(S)
  BY <1>2, BothPrograms, LoadPrograms DEF Starting
<1>4. prog'[t] = Tail(prog[t])
  BY <1>1, DoneIs DEF TypeOK, Reclaim
<1>5. fillWait'[Music] /\ source' = source
  BY BoundsAssumption DEF Reclaim, TypeOK, Streams, Music
<1> QED
  BY <1>2, <1>3, <1>4, <1>5 DEF Inside, Rest

LEMMA InsideHook ==
  ASSUME TypeOK, NEW t \in Threads, Inside(t), Hook(t)
  PROVE  Inside(t)' /\ source' = source /\ source # NoMusic
<1> DEFINE S == Rest(t)
<1>1. Ahead(t) = "hook" /\ prog[t] # << >>
  BY DEF Hook, At, Ahead
<1>2. source # NoMusic /\ prog[t] \in Hooks(S) /\ (t = "main" => fillWait[Music])
  BY <1>1, InsideAhead
<1>3. Tail(prog[t]) \in Unlocks(S)
  BY <1>2, BothPrograms, LoadPrograms DEF Starting
<1>4. prog'[t] = Tail(prog[t])
  BY <1>1, DoneIs DEF TypeOK, Hook
<1>5. source' = source /\ (t = "main" => Heard')
  BY <1>2 DEF Hook, Heard
<1> QED
  BY <1>2, <1>3, <1>4, <1>5 DEF Inside, Rest

\* Whichever step it is, the thread stays inside, or has unlocked.
LEMMA InsideStays ==
  ASSUME TypeOK, NEW t \in Threads, Inside(t), Step(t), ~Unlock(t)
  PROVE  Inside(t)' /\ (source # NoMusic => source' # NoMusic)
<1>1. /\ prog[t] # << >>
      /\ Ahead(t) \in {"drain", "fill", "feed", "drained", "load", "reclaim", "hook", "unlock"}
  BY InsideAhead
<1>2. ~(\/ Lock(t) \/ Refuse(t) \/ Unhook(t) \/ DropSource(t)
        \/ PlayMusic(t) \/ Start(t) \/ Started(t) \/ OpenPlaylist(t))
  BY <1>1 DEF Ahead, At, Lock, Refuse, Unhook, DropSource, PlayMusic, Start, Started,
              OpenPlaylist
<1>3. CASE Fill(t)
  BY <1>3, InsideFill
<1>4. CASE Feed(t)
  BY <1>4, InsideFeed
<1>5. CASE Drain(t) \/ DrainEnd(t)
  BY <1>5, InsideDrain
<1>6. CASE NewSource(t)
  BY <1>6, InsideLoad
<1>7. CASE Reclaim(t)
  BY <1>7, InsideReclaim
<1>8. CASE Hook(t)
  BY <1>8, InsideHook
<1> QED
  BY <1>2, <1>3, <1>4, <1>5, <1>6, <1>7, <1>8 DEF Step

\* Only the steps of the mutex change how often it is held.
LEMMA DepthStays ==
  ASSUME NEW t \in Threads, Step(t), ~Lock(t), ~Unlock(t)
  PROVE  depth' = depth
BY DEF Step, Fill, Feed, Reclaim, Hook, Refuse, Unhook, Drain, DrainEnd, NewSource,
       DropSource, PlayMusic, Start, Started, OpenPlaylist

--------------------------------------------------------------------------
(* The loop's thread takes a step *)

LEMMA LoopLock ==
  ASSUME TypeOK, LoopAt, Lock("loop")
  PROVE  LoopAt' /\ depth["loop"] \in 0..1
<1> "loop" \in Threads
  BY DEF Threads
<1>1. Ahead("loop") = "lock" /\ prog["loop"] # << >>
  BY DEF Lock, At, Ahead
<1>2. prog'["loop"] = Tail(prog["loop"])
  BY <1>1, DoneIs DEF TypeOK, Lock
<1>3. depth'["loop"] = depth["loop"] + 1 /\ source' = source
  BY DEF Lock, TypeOK
<1>4. CASE depth["loop"] = 0 /\ prog["loop"] \in Enters
  <2>1. Tail(prog["loop"]) \in Looks
    BY <1>4, LoopPrograms DEF Starting
  <2> QED
    BY <1>2, <1>3, <1>4, <2>1 DEF LoopAt
<1>5. CASE depth["loop"] = 1 /\ source # NoMusic /\ prog["loop"] \in LoadLocks(LoopK)
  <2>1. Tail(prog["loop"]) \in Drains(Rest("loop"))
    BY <1>5, LoopPrograms, LoadPrograms DEF Starting, Rest
  <2>2. Inside("loop")'
    BY <1>2, <2>1 DEF Inside, Rest
  <2> QED
    BY <1>3, <1>5, <2>2 DEF LoopAt
<1> QED
  BY <1>1, <1>4, <1>5, LoopAhead

LEMMA LoopUnlock ==
  ASSUME TypeOK, LoopAt, Unlock("loop")
  PROVE  LoopAt' /\ depth["loop"] \in 1..2
<1> "loop" \in Threads
  BY DEF Threads
<1>1. Ahead("loop") = "unlock" /\ prog["loop"] # << >>
  BY DEF Unlock, At, Ahead
<1>2. prog'["loop"] = Tail(prog["loop"])
  BY <1>1, DoneIs DEF TypeOK, Unlock
<1>3. depth'["loop"] = depth["loop"] - 1 /\ source' = source
  BY DEF Unlock, TypeOK
<1>4. CASE depth["loop"] = 1 /\ prog["loop"] \in Leaves
  <2>1. Tail(prog["loop"]) \in Turns
    BY <1>4, LoopPrograms DEF Starting
  <2> QED
    BY <1>2, <1>3, <1>4, <2>1 DEF LoopAt
<1>5. CASE depth["loop"] = 2 /\ source # NoMusic /\ Inside("loop")
  <2>1. prog'["loop"] \in LoopK
    BY <1>5, InsideUnlock DEF Rest
  <2> QED
    BY <1>3, <1>5, <2>1 DEF LoopAt, LoopK
<1> QED
  BY <1>1, <1>4, <1>5, LoopAhead

\* The steps the two threads have in common, at a depth of one.
LEMMA LoopCommon ==
  ASSUME TypeOK, LoopAt, "piece" \notin Missing, depth["loop"] # 2,
         Step("loop"), ~Lock("loop"), ~Unlock("loop")
  PROVE  LoopAt' /\ (source # NoMusic => source' # NoMusic)
<1> "loop" \in Threads
  BY DEF Threads
<1> DEFINE p == prog["loop"]
<1>0. depth'["loop"] = depth["loop"]
  BY DepthStays
<1>1. /\ p # << >>
      /\ Ahead("loop") \in {"fill", "feed", "reclaim", "hook", "refuse", "unhook", "drain", "drained",
                            "load", "drop", "play", "start", "started", "open"}
  BY DEF Step, Ahead, At, Fill, Feed, Reclaim, Hook, Refuse, Unhook, Drain, DrainEnd,
         NewSource, DropSource, PlayMusic, Start, Started, OpenPlaylist
<1>2. /\ depth["loop"] = 1 /\ source # NoMusic
      /\ Ahead("loop") \in {"fill", "feed", "play", "start", "started", "open"}
      /\ Ahead("loop") = "fill" => p \in LoopFills
      /\ Ahead("loop") = "feed" => left > 0 /\ p \in LoopFeeds
      /\ Ahead("loop") = "play" => p \in LoopPlays
      /\ Ahead("loop") = "start" => p \in LoopStarts
      /\ Ahead("loop") = "started" => p \in LoopStarteds
      /\ Ahead("loop") = "open" => p \in LoopOpens
  BY <1>1, LoopAhead
<1>3. CASE Fill("loop")
  <2>1. p \in LoopFills
    BY <1>2, <1>3 DEF Fill, At, Ahead
  <2>2. Tail(p) \in Rampeds \cup Onwards \cup Leaves
    BY <2>1, LoopPrograms DEF Starting
  <2>3. CASE left = 0 \/ source = 0
    <3>1. prog'["loop"] = Tail(p) /\ source' = source
      BY <1>1, <1>3, <2>3, DoneIs DEF TypeOK, Fill
    <3> QED
      BY <1>0, <1>2, <2>2, <3>1 DEF LoopAt
  <2>4. CASE ~(left = 0 \/ source = 0)
    <3>1. prog'["loop"] = <<"feed", "fill">> \o Tail(p)
      BY <1>3, <2>4, CallIs DEF TypeOK, Fill
    <3>2. prog'["loop"] \in LoopFeeds
      <4>1. "feed" \in Steps /\ "fill" \in Steps
        BY DEF Steps
      <4>2. Rampeds \cup Onwards \cup Leaves \in Programs
        BY LoopPrograms DEF Programs
      <4> QED
        BY <2>2, <3>1, <4>1, <4>2, Two DEF LoopFeeds, LoopFills
    <3>3. source' = source - 1 /\ left' = left /\ left > 0 /\ source > 0
      BY <1>2, <1>3, <2>4 DEF TypeOK, Fill, NoMusic
    <3>4. source' # NoMusic /\ left' > 0
      BY <3>3 DEF TypeOK, NoMusic
    <3> QED
      BY <1>0, <1>2, <3>2, <3>4 DEF LoopAt
  <2> QED
    BY <2>3, <2>4
<1>4. CASE Feed("loop")
  <2>1. p \in LoopFeeds
    BY <1>2, <1>4 DEF Feed, At, Ahead
  <2>2. Tail(p) \in LoopFills
    BY <2>1, LoopPrograms DEF Starting
  <2>3. Tail(Tail(p)) \in Rampeds \cup Onwards \cup Leaves
    BY <2>2, LoopPrograms DEF Starting
  <2>4. source' = source
    BY <1>4 DEF Feed
  <2>5. prog'["loop"] = Tail(p) \/ prog'["loop"] = Tail(Tail(p))
    <3>1. CASE Done("loop")
      BY <1>1, <3>1, DoneIs DEF TypeOK
    <3>2. CASE prog' = [prog EXCEPT !["loop"] = Tail(Tail(@))]
      BY <3>2 DEF TypeOK
    <3> QED
      BY <1>4, <3>1, <3>2 DEF Feed
  <2> QED
    BY <1>0, <1>2, <2>2, <2>3, <2>4, <2>5 DEF LoopAt
<1>5. CASE PlayMusic("loop")
  <2>1. p \in LoopPlays
    BY <1>2, <1>5 DEF PlayMusic, At, Ahead
  <2>2. Tail(p) \in LoopK
    BY <2>1, LoopPrograms DEF Starting
  <2>3. prog'["loop"] = Load \o Tail(p) /\ source' = source
    BY <1>5, CallIs DEF TypeOK, PlayMusic
  <2>4. prog'["loop"] \in LoadLocks(LoopK)
    BY <2>2, <2>3, LoopPrograms, Routines
  <2> QED
    BY <1>0, <1>2, <2>3, <2>4 DEF LoopAt
<1>6. CASE Start("loop")
  <2>1. p \in LoopStarts
    BY <1>2, <1>6 DEF Start, At, Ahead
  <2>2. Tail(p) \in Forgets
    BY <2>1, LoopPrograms DEF Starting
  <2>3. source' = source
    BY <1>6 DEF Start
  <2>4. CASE Done("loop")
    <3>1. prog'["loop"] = Tail(p)
      BY <1>1, <2>4, DoneIs DEF TypeOK
    <3> QED
      BY <1>0, <1>2, <2>2, <2>3, <3>1 DEF LoopAt
  <2>5. CASE Call("loop", <<"play", "started">>)
    <3>1. prog'["loop"] = <<"play", "started">> \o Tail(p)
      BY <2>5, CallIs DEF TypeOK
    <3>2. "play" \in Steps /\ "started" \in Steps
      BY DEF Steps
    <3>3. prog'["loop"] \in First("play", LoopStarteds)
      BY <2>2, <3>1, <3>2, Two, LoopPrograms DEF LoopStarteds
    <3>4. prog'["loop"] \in LoopPlays
      BY <3>3, Wider DEF LoopPlays, LoopK
    <3> QED
      BY <1>0, <1>2, <2>3, <3>4 DEF LoopAt
  <2> QED
    BY <1>6, <2>4, <2>5 DEF Start
<1>7. CASE Started("loop")
  <2>1. p \in LoopStarteds
    BY <1>2, <1>7 DEF Started, At, Ahead
  <2>2. Tail(p) \in Forgets
    BY <2>1, LoopPrograms DEF Starting
  <2>3. prog'["loop"] = Tail(p) /\ source' = source
    BY <1>1, <1>7, DoneIs DEF TypeOK, Started
  <2> QED
    BY <1>0, <1>2, <2>2, <2>3 DEF LoopAt
<1>8. CASE OpenPlaylist("loop")
  <2>1. p \in LoopOpens
    BY <1>2, <1>8 DEF OpenPlaylist, At, Ahead
  <2>2. Tail(p) \in Forgets
    BY <2>1, LoopPrograms DEF Starting
  <2>3. source' = source
    BY <1>8 DEF OpenPlaylist
  <2>4. CASE Done("loop")
    <3>1. prog'["loop"] = Tail(p)
      BY <1>1, <2>4, DoneIs DEF TypeOK
    <3> QED
      BY <1>0, <1>2, <2>2, <2>3, <3>1 DEF LoopAt
  <2>5. CASE Call("loop", <<"start">>)
    <3>1. prog'["loop"] = <<"start">> \o Tail(p)
      BY <2>5, CallIs DEF TypeOK
    <3>2. "start" \in Steps
      BY DEF Steps
    <3>3. prog'["loop"] \in LoopStarts
      BY <2>2, <3>1, <3>2, One, LoopPrograms DEF LoopStarts
    <3> QED
      BY <1>0, <1>2, <2>3, <3>3 DEF LoopAt
  <2> QED
    BY <1>8, <2>4, <2>5 DEF OpenPlaylist
<1>9. ~(\/ Reclaim("loop") \/ Hook("loop") \/ Refuse("loop") \/ Unhook("loop")
        \/ Drain("loop") \/ DrainEnd("loop") \/ NewSource("loop") \/ DropSource("loop"))
  BY <1>2 DEF Ahead, At, Reclaim, Hook, Refuse, Unhook, Drain, DrainEnd, NewSource, DropSource
<1>10. LoopAt'
  BY <1>3, <1>4, <1>5, <1>6, <1>7, <1>8, <1>9 DEF Step
<1>11. source' # NoMusic
  <2>1. source' = source \/ Fill("loop")
    BY <1>9 DEF Step, Feed, PlayMusic, Start, Started, OpenPlaylist
  <2>2. Fill("loop") => source' # NoMusic
    BY <1>2 DEF Fill, TypeOK, NoMusic
  <2> QED
    BY <1>2, <2>1, <2>2
<1> QED
  BY <1>10, <1>11

\* The steps of Loop and of PlayNext.
LEMMA LoopOwn ==
  ASSUME TypeOK, LoopAt,
         \/ Turn \/ LookNothing \/ Look \/ Ramped \/ Onward \/ Restock
         \/ PlayNext \/ Advance \/ Forget
  PROVE  LoopAt'
<1> "loop" \in Threads
  BY DEF Threads
<1> DEFINE p == prog["loop"]
<1>0. depth'["loop"] = depth["loop"] /\ source' = source
  BY DEF Turn, LookNothing, Look, Ramped, Onward, Restock, PlayNext, Advance, Forget
<1>1. /\ p # << >>
      /\ Ahead("loop") \in {"turn", "look", "ramped", "onward", "restock",
                            "playNext", "advance", "forget"}
  BY DEF Ahead, At, Turn, LookNothing, Look, Ramped, Onward, Restock, PlayNext, Advance, Forget
<1>2. /\ Ahead("loop") = "turn" => depth["loop"] = 0 /\ p \in Turns
      /\ Ahead("loop") # "turn" => depth["loop"] = 1
      /\ Ahead("loop") \notin {"turn", "look"} => source # NoMusic
      /\ Ahead("loop") = "look" => p \in Looks
      /\ Ahead("loop") = "ramped" => p \in Rampeds
      /\ Ahead("loop") = "onward" => p \in Onwards
      /\ Ahead("loop") = "restock" => p \in Restocks
      /\ Ahead("loop") = "playNext" => p \in PlayNexts
      /\ Ahead("loop") = "advance" => p \in Advances
      /\ Ahead("loop") = "forget" => p \in Forgets
  BY <1>1, LoopAhead
<1>3. CASE Turn
  <2>1. p \in Turns /\ depth["loop"] = 0
    BY <1>2, <1>3 DEF Turn, At, Ahead
  <2>2. Tail(p) \in None0
    BY <2>1, LoopPrograms DEF Starting
  <2>3. CASE looping
    <3>1. prog'["loop"] = <<"lock", "look", "unlock", "turn">> \o Tail(p)
      <4>1. Call("loop", <<"lock", "look", "unlock", "turn">>)
        BY <1>3, <2>3 DEF Turn
      <4> QED
        BY <4>1, CallIs DEF TypeOK
    <3>2. /\ "lock" \in Steps /\ "look" \in Steps /\ "unlock" \in Steps /\ "turn" \in Steps
          /\ None0 \in Programs
      BY DEF Steps, None0, Programs
    <3>3. <<"lock", "look", "unlock", "turn">> \o Tail(p)
            \in First("lock", First("look", First("unlock", First("turn", None0))))
      BY <2>2, <3>2, Four, Zenon
    <3>4. prog'["loop"] \in Enters
      BY <3>1, <3>3 DEF Enters, Looks, Leaves, Turns
    <3> QED
      BY <1>0, <2>1, <3>4 DEF LoopAt
  <2>4. CASE ~looping
    <3>1. Done("loop")
      BY <1>3, <2>4 DEF Turn, Done
    <3>2. prog'["loop"] = Tail(p)
      BY <1>1, <3>1, DoneIs DEF TypeOK
    <3> QED
      BY <1>0, <2>1, <2>2, <3>2 DEF LoopAt
  <2> QED
    BY <2>3, <2>4
<1>4. CASE LookNothing
  <2>1. p \in Looks /\ depth["loop"] = 1
    BY <1>2, <1>4 DEF LookNothing, At, Ahead
  <2>2. Tail(p) \in Leaves
    BY <2>1, LoopPrograms DEF Starting
  <2>3. prog'["loop"] = Tail(p)
    BY <1>1, <1>4, DoneIs DEF TypeOK, LookNothing
  <2> QED
    BY <1>0, <2>1, <2>2, <2>3 DEF LoopAt
<1>5. CASE Look
  <2>1. p \in Looks /\ depth["loop"] = 1 /\ source # NoMusic
    BY <1>2, <1>5 DEF Look, At, Ahead
  <2>2. Tail(p) \in Leaves
    BY <2>1, LoopPrograms DEF Starting
  <2>3. "fill" \in Steps /\ "ramped" \in Steps /\ "onward" \in Steps
    BY DEF Steps
  <2>4. PICK x \in {"ramped", "onward"} : Call("loop", <<"fill", x>>)
    BY <1>5 DEF Look
  <2>5. prog'["loop"] = <<"fill", x>> \o Tail(p)
    BY <2>4, CallIs DEF TypeOK
  <2>6. prog'["loop"] \in First("fill", First(x, Leaves))
    BY <2>2, <2>3, <2>5, LoopPrograms, Two
  <2>7. First(x, Leaves) \subseteq Rampeds \cup Onwards \cup Leaves
    BY DEF Rampeds, Onwards
  <2>8. prog'["loop"] \in LoopFills
    BY <2>6, <2>7, Wider DEF LoopFills
  <2> QED
    BY <1>0, <2>1, <2>8 DEF LoopAt
<1>6. CASE Ramped
  <2>1. p \in Rampeds /\ depth["loop"] = 1
    BY <1>2, <1>6 DEF Ramped, At, Ahead
  <2>2. Tail(p) \in Leaves
    BY <2>1, LoopPrograms DEF Starting
  <2>3. prog'["loop"] = Tail(p)
    BY <1>1, <1>6, DoneIs DEF TypeOK, Ramped
  <2> QED
    BY <1>0, <2>1, <2>2, <2>3 DEF LoopAt
<1>7. CASE Onward
  <2>1. p \in Onwards /\ depth["loop"] = 1 /\ source # NoMusic
    BY <1>2, <1>7 DEF Onward, At, Ahead
  <2>2. Tail(p) \in Leaves
    BY <2>1, LoopPrograms DEF Starting
  <2>3. CASE filled
    <3>1. Done("loop")
      BY <1>7, <2>3 DEF Onward, Done
    <3>2. prog'["loop"] = Tail(p)
      BY <1>1, <3>1, DoneIs DEF TypeOK
    <3> QED
      BY <1>0, <2>1, <2>2, <3>2 DEF LoopAt
  <2>4. CASE ~filled
    <3>1. Call("loop", <<"playNext", "restock">>)
      BY <1>7, <2>4 DEF Onward
    <3>2. prog'["loop"] = <<"playNext", "restock">> \o Tail(p)
      BY <3>1, CallIs DEF TypeOK
    <3>3. "playNext" \in Steps /\ "restock" \in Steps
      BY DEF Steps
    <3>4. prog'["loop"] \in PlayNexts
      BY <2>2, <3>2, <3>3, LoopPrograms, Two DEF PlayNexts, Restocks
    <3> QED
      BY <1>0, <2>1, <3>4 DEF LoopAt
  <2> QED
    BY <2>3, <2>4
<1>8. CASE Restock
  <2>1. p \in Restocks /\ depth["loop"] = 1 /\ source # NoMusic
    BY <1>2, <1>8 DEF Restock, At, Ahead
  <2>2. Tail(p) \in Leaves
    BY <2>1, LoopPrograms DEF Starting
  <2>3. Call("loop", <<"fill">>)
    BY <1>8, <2>1 DEF Restock
  <2>4. prog'["loop"] = <<"fill">> \o Tail(p)
    BY <2>3, CallIs DEF TypeOK
  <2>5. prog'["loop"] \in First("fill", Leaves)
    <3>1. "fill" \in Steps
      BY DEF Steps
    <3> QED
      BY <2>2, <2>4, <3>1, LoopPrograms, One
  <2>6. prog'["loop"] \in LoopFills
    BY <2>5, Wider DEF LoopFills
  <2> QED
    BY <1>0, <2>1, <2>6 DEF LoopAt
<1>9. CASE PlayNext
  <2>1. p \in PlayNexts /\ depth["loop"] = 1 /\ source # NoMusic
    BY <1>2, <1>9 DEF PlayNext, At, Ahead
  <2>2. Tail(p) \in Restocks /\ Restocks \in Programs
    BY <2>1, LoopPrograms DEF Starting
  <2>3. \/ Done("loop") \/ Call("loop", <<"play", "advance">>)
        \/ Call("loop", <<"open", "forget">>)
    BY <1>9 DEF PlayNext, Done
  <2>4. "play" \in Steps /\ "advance" \in Steps /\ "open" \in Steps /\ "forget" \in Steps
    BY DEF Steps
  <2>5. CASE Done("loop")
    <3>1. prog'["loop"] = Tail(p)
      BY <1>1, <2>5, DoneIs DEF TypeOK
    <3> QED
      BY <1>0, <2>1, <2>2, <3>1 DEF LoopAt
  <2>6. CASE Call("loop", <<"play", "advance">>)
    <3>1. prog'["loop"] = <<"play", "advance">> \o Tail(p)
      BY <2>6, CallIs DEF TypeOK
    <3>2. prog'["loop"] \in First("play", Advances)
      BY <2>2, <2>4, <3>1, Two DEF Advances
    <3>3. prog'["loop"] \in LoopPlays
      BY <3>2, Wider DEF LoopPlays, LoopK
    <3> QED
      BY <1>0, <2>1, <3>3 DEF LoopAt
  <2>7. CASE Call("loop", <<"open", "forget">>)
    <3>1. prog'["loop"] = <<"open", "forget">> \o Tail(p)
      BY <2>7, CallIs DEF TypeOK
    <3>2. prog'["loop"] \in LoopOpens
      BY <2>2, <2>4, <3>1, Two DEF LoopOpens, Forgets
    <3> QED
      BY <1>0, <2>1, <3>2 DEF LoopAt
  <2> QED
    BY <2>3, <2>5, <2>6, <2>7
<1>10. CASE Advance
  <2>1. p \in Advances /\ depth["loop"] = 1 /\ source # NoMusic
    BY <1>2, <1>10 DEF Advance, At, Ahead
  <2>2. Tail(p) \in Restocks
    BY <2>1, LoopPrograms DEF Starting
  <2>3. prog'["loop"] = Tail(p)
    BY <1>1, <1>10, DoneIs DEF TypeOK, Advance
  <2> QED
    BY <1>0, <2>1, <2>2, <2>3 DEF LoopAt
<1>11. CASE Forget
  <2>1. p \in Forgets /\ depth["loop"] = 1 /\ source # NoMusic
    BY <1>2, <1>11 DEF Forget, At, Ahead
  <2>2. Tail(p) \in Restocks
    BY <2>1, LoopPrograms DEF Starting
  <2>3. prog'["loop"] = Tail(p)
    BY <1>1, <1>11, DoneIs DEF TypeOK, Forget
  <2> QED
    BY <1>0, <2>1, <2>2, <2>3 DEF LoopAt
<1> QED
  BY <1>3, <1>4, <1>5, <1>6, <1>7, <1>8, <1>9, <1>10, <1>11

\* What a step of one thread leaves of the other's.
LEMMA OtherStays ==
  ASSUME TypeOK, NEW t \in Threads, NEW u \in Threads \ {t}, Step(t)
  PROVE  prog'[u] = prog[u] /\ depth'[u] = depth[u]
<1>1. prog'[u] = prog[u]
  BY DEF TypeOK, Step, Call, Done, Lock, Unlock, Fill, Feed, Reclaim, Hook, Refuse, Unhook,
         Drain, DrainEnd, NewSource, DropSource, PlayMusic, Start, Started, OpenPlaylist
<1>2. depth'[u] = depth[u]
  <2>1. CASE Lock(t) \/ Unlock(t)
    BY <2>1 DEF TypeOK, Lock, Unlock
  <2> QED
    BY <2>1, DepthStays
<1> QED
  BY <1>1, <1>2

\* The loop's thread loads music, and does not stop it.
LEMMA LoopStepKeeps ==
  ASSUME MusicInv, "piece" \notin Missing, LoopStep
  PROVE  LoopAt' /\ MainAt' /\ Exclusive'
<1> "loop" \in Threads /\ "main" \in Threads /\ TypeOK /\ LoopAt
  BY DEF Threads, MusicInv
<1>1. LoopAt'
  <2>1. CASE Step("loop") /\ (Lock("loop") \/ Unlock("loop"))
    BY <2>1, LoopLock, LoopUnlock
  <2>2. CASE Step("loop") /\ ~Lock("loop") /\ ~Unlock("loop") /\ depth["loop"] # 2
    BY <2>2, LoopCommon
  <2>3. CASE Step("loop") /\ ~Lock("loop") /\ ~Unlock("loop") /\ depth["loop"] = 2
    <3>1. source # NoMusic /\ Inside("loop")
      BY <2>3 DEF LoopAt
    <3> QED
      BY <2>3, <3>1, InsideStays, DepthStays DEF LoopAt
  <2> QED
    BY <2>1, <2>2, <2>3, LoopOwn DEF LoopStep
<1>2. prog'["main"] = prog["main"] /\ depth'["main"] = depth["main"] /\ movie' = movie
  <2>1. CASE Step("loop")
    <3>1. movie' = movie
      BY <2>1 DEF Step, Lock, Unlock, Fill, Feed, Reclaim, Hook, Refuse, Unhook, screen,
             Drain, DrainEnd, NewSource, DropSource, PlayMusic, Start, Started, OpenPlaylist
    <3> QED
      BY <2>1, <3>1, OtherStays DEF Threads
  <2>2. CASE \/ Turn \/ LookNothing \/ Look \/ Ramped \/ Onward \/ Restock
             \/ PlayNext \/ Advance \/ Forget
    BY <2>2 DEF TypeOK, Turn, LookNothing, Look, Ramped, Onward, Restock, PlayNext, Advance,
                Forget, Call, Done, screen
  <2> QED
    BY <2>1, <2>2 DEF LoopStep
<1>3. CASE depth["loop"] = 0
  <2>1. Turn \/ Lock("loop")
    <3>1. prog["loop"] # << >>
      BY DEF LoopStep, Step, At, Lock, Unlock, Fill, Feed, Reclaim, Hook, Refuse, Unhook,
             Drain, DrainEnd, NewSource, DropSource, PlayMusic, Start, Started, OpenPlaylist,
             Turn, LookNothing, Look, Ramped, Onward, Restock, PlayNext, Advance, Forget
    <3>2. Ahead("loop") = "turn" \/ Ahead("loop") = "lock"
      BY <1>3, <3>1, LoopAhead
    <3> QED
      BY <3>2 DEF LoopStep, Step, At, Ahead, Lock, Unlock, Fill, Feed, Reclaim, Hook, Refuse,
             Unhook, Drain, DrainEnd, NewSource, DropSource, PlayMusic, Start, Started,
             OpenPlaylist, LookNothing, Look, Ramped, Onward, Restock, PlayNext, Advance, Forget
  <2>2. /\ source' = source /\ playing' = playing /\ handle' = handle /\ fillWait' = fillWait
        /\ left' = left /\ filled' = filled
    BY <2>1 DEF Turn, Lock, device, list, fill
  <2>3. MainAt'
    BY <1>2, <2>2, MainStays DEF Heard
  <2>4. Exclusive'
    <3>1. CASE Turn
      BY <3>1 DEF Turn, MusicInv, Exclusive
    <3>2. CASE Lock("loop")
      BY <1>2, <3>2 DEF Lock, Threads, Exclusive
    <3> QED
      BY <2>1, <3>1, <3>2
  <2> QED
    BY <1>1, <2>3, <2>4
<1>4. CASE depth["loop"] # 0
  <2>1. depth["main"] = 0
    BY <1>4 DEF MusicInv, Exclusive
  <2>2. /\ Heard => Heard'
        /\ source = NoMusic <=> source' = NoMusic
        /\ playing' => playing \/ source # NoMusic
    <3>1. CASE \/ Turn \/ LookNothing \/ Look \/ Ramped \/ Onward \/ Restock
               \/ PlayNext \/ Advance \/ Forget
      <4>1. source' = source /\ handle' = handle /\ fillWait' = fillWait
        BY <3>1 DEF Turn, LookNothing, Look, Ramped, Onward, Restock, PlayNext, Advance, Forget,
                    device
      <4>2. playing' => playing
        <5>1. PlayNext => (playing' => playing)
          BY Zenon DEF PlayNext
        <5>2. ~PlayNext => playing' = playing
          BY <3>1 DEF Turn, LookNothing, Look, Ramped, Onward, Restock, Advance, Forget, list
        <5> QED
          BY <5>1, <5>2
      <4> QED
        BY <4>1, <4>2 DEF Heard
    <3>2. CASE Lock("loop") \/ Unlock("loop")
      BY <3>2 DEF Lock, Unlock, device, list, Heard
    <3>3. CASE Step("loop") /\ ~Lock("loop") /\ ~Unlock("loop")
      <4>1. /\ prog["loop"] # << >>
            /\ Ahead("loop") \in {"fill", "feed", "reclaim", "hook", "refuse", "unhook", "drain",
                                  "drained", "load", "drop", "play", "start", "started", "open"}
        BY <3>3 DEF Step, Ahead, At, Fill, Feed, Reclaim, Hook, Refuse, Unhook, Drain, DrainEnd,
               NewSource, DropSource, PlayMusic, Start, Started, OpenPlaylist
      <4>2. source # NoMusic /\ Ahead("loop") \notin {"refuse", "unhook", "drop"}
        BY <4>1, LoopAhead
      <4>3. source' # NoMusic
        <5>1. CASE depth["loop"] # 2
          BY <3>3, <4>2, <5>1, LoopCommon
        <5>2. CASE depth["loop"] = 2
          BY <3>3, <4>2, <5>2, InsideStays DEF LoopAt
        <5> QED
          BY <5>1, <5>2
      <4>4. Heard => Heard'
        <5>1. ~Refuse("loop") /\ ~Unhook("loop")
          BY <4>2 DEF Refuse, Unhook, At, Ahead
        <5>2. handle' = handle \/ handle' = Music
          BY <3>3, <5>1 DEF Step, Fill, Feed, Reclaim, Hook, Drain, DrainEnd, NewSource,
                 DropSource, PlayMusic, Start, Started, OpenPlaylist, device
        <5>3. fillWait' = fillWait \/ fillWait' = [fillWait EXCEPT ![Music] = TRUE]
          BY <3>3, <5>1 DEF Step, Fill, Feed, Reclaim, Hook, Drain, DrainEnd, NewSource,
                 DropSource, PlayMusic, Start, Started, OpenPlaylist, device
        <5>4. Music \in Streams
          BY DEF Music, Streams
        <5> QED
          BY <4>2, <5>2, <5>3, <5>4 DEF Heard, TypeOK
      <4> QED
        BY <4>2, <4>3, <4>4
    <3> QED
      BY <3>1, <3>2, <3>3 DEF LoopStep
  <2>3. MainAt'
    BY <1>2, <2>1, <2>2, MainStays
  <2>4. Exclusive'
    BY <1>2, <2>1 DEF Exclusive
  <2> QED
    BY <1>1, <2>3, <2>4
<1> QED
  BY <1>3, <1>4

--------------------------------------------------------------------------
(* The main thread takes a step *)

LEMMA MainLock ==
  ASSUME MusicInv, Lock("main")
  PROVE  MainAt' /\ depth["main"] = 0
<1> "main" \in Threads /\ TypeOK /\ MainAt
  BY DEF Threads, MusicInv
<1>1. Ahead("main") = "lock" /\ prog["main"] # << >>
  BY DEF Lock, At, Ahead
<1>2. prog'["main"] = Tail(prog["main"])
  BY <1>1, DoneIs DEF TypeOK, Lock
<1>3. /\ depth'["main"] = depth["main"] + 1 /\ source' = source /\ playing' = playing
      /\ movie' = movie
  BY DEF Lock, TypeOK, list, screen
<1>4. CASE depth["main"] = 0 /\ Heard /\ Played /\ prog["main"] \in LoadLocks(MainK)
  <2>1. Tail(prog["main"]) \in Drains(Rest("main"))
    BY <1>4, MainPrograms, LoadPrograms DEF Starting, Rest
  <2>2. Inside("main")' /\ Played'
    BY <1>2, <1>3, <1>4, <2>1 DEF Inside, Rest, Played
  <2> QED
    BY <1>3, <1>4, <2>2 DEF MainAt
<1>5. ASSUME NEW m \in BOOLEAN, m => movie < MaxMovies,
             depth["main"] = 0, Played, prog["main"] \in StopLocks(After(m))
      PROVE  MainAt'
  <2>1. Tail(prog["main"]) \in Drops(After(m))
    BY <1>5, AfterPrograms, StopPrograms DEF Starting
  <2> QED
    BY <1>2, <1>3, <1>5, <2>1 DEF MainAt, Played
<1> QED
  BY <1>1, <1>4, <1>5, MainAhead

LEMMA MainUnlock ==
  ASSUME MusicInv, Unlock("main")
  PROVE  MainAt' /\ depth["main"] = 1
<1> "main" \in Threads /\ TypeOK /\ MainAt
  BY DEF Threads, MusicInv
<1>1. Ahead("main") = "unlock" /\ prog["main"] # << >>
  BY DEF Unlock, At, Ahead
<1>2. prog'["main"] = Tail(prog["main"])
  BY <1>1, DoneIs DEF TypeOK, Unlock
<1>3. /\ depth'["main"] = depth["main"] - 1 /\ source' = source /\ playing' = playing
      /\ movie' = movie
  BY DEF Unlock, TypeOK, list, screen
<1>4. CASE depth["main"] = 1 /\ Played /\ Inside("main")
  <2>1. prog'["main"] \in MainK /\ source' # NoMusic /\ Heard'
    BY <1>4, InsideUnlock DEF Rest
  <2>2. Played'
    BY <2>1 DEF Played
  <2> QED
    BY <1>3, <1>4, <2>1, <2>2 DEF MainAt, MainK
<1>5. ASSUME NEW m \in BOOLEAN, m => movie < MaxMovies,
             depth["main"] = 1, source = NoMusic, prog["main"] \in Stoppeds(After(m))
      PROVE  MainAt'
  <2>1. Tail(prog["main"]) \in Endeds(After(m))
    BY <1>5, AfterPrograms, StopPrograms DEF Starting
  <2> QED
    BY <1>2, <1>3, <1>5, <2>1 DEF MainAt
<1> QED
  BY <1>1, <1>4, <1>5, MainAhead

LEMMA MainStopping ==
  ASSUME MusicInv, Refuse("main") \/ Unhook("main") \/ DropSource("main")
  PROVE  MainAt' /\ (depth["main"] = 0 \/ depth["loop"] = 0)
<1> "main" \in Threads /\ TypeOK /\ MainAt
  BY DEF Threads, MusicInv
<1> DEFINE p == prog["main"]
<1>1. /\ p # << >>
      /\ Refuse("main") => Ahead("main") = "refuse"
      /\ Unhook("main") => Ahead("main") = "unhook"
      /\ DropSource("main") => Ahead("main") = "drop"
  BY DEF Refuse, Unhook, DropSource, At, Ahead
<1>2. p' = Tail(p)
  BY <1>1, DoneIs DEF TypeOK, Refuse, Unhook, DropSource
<1>3. depth' = depth /\ playing' = playing /\ movie' = movie
  BY DEF Refuse, Unhook, DropSource, list, screen
<1>4. CASE depth["main"] = 0 /\ (p \in Quits \/ p \in QuitUnhooks)
  <2>1. Tail(p) \in QuitUnhooks \/ Tail(p) \in QuitLoops
    BY <1>4, MainPrograms DEF Starting
  <2> QED
    BY <1>2, <1>3, <1>4, <2>1 DEF MainAt
<1>5. ASSUME NEW m \in BOOLEAN, m => movie < MaxMovies, Played,
             \/ depth["main"] = 0 /\ p \in Refuses(After(m)) /\ Refuse("main")
             \/ depth["main"] = 0 /\ p \in Unhooks(After(m)) /\ Unhook("main")
             \/ depth["main"] = 1 /\ p \in Drops(After(m)) /\ DropSource("main")
      PROVE  MainAt'
  <2> DEFINE E == After(m)
  <2>1. E \in Programs
    BY AfterPrograms
  <2>2. CASE depth["main"] = 0 /\ p \in Refuses(E) /\ Refuse("main")
    <3>1. Tail(p) \in Unhooks(E)
      BY <2>1, <2>2, StopPrograms DEF Starting
    <3>2. Played'
      BY <1>3, <1>5, <2>2 DEF Played, Refuse
    <3> QED
      BY <1>2, <1>3, <1>5, <2>2, <3>1, <3>2 DEF MainAt
  <2>3. CASE depth["main"] = 0 /\ p \in Unhooks(E) /\ Unhook("main")
    <3>1. Tail(p) \in StopLocks(E)
      BY <2>1, <2>3, StopPrograms DEF Starting
    <3>2. Played'
      BY <1>3, <1>5, <2>3 DEF Played, Unhook
    <3> QED
      BY <1>2, <1>3, <1>5, <2>3, <3>1, <3>2 DEF MainAt
  <2>4. CASE depth["main"] = 1 /\ p \in Drops(E) /\ DropSource("main")
    <3>1. Tail(p) \in Stoppeds(E)
      BY <2>1, <2>4, StopPrograms DEF Starting
    <3>2. source' = NoMusic
      BY <2>4 DEF DropSource
    <3> QED
      BY <1>2, <1>3, <1>5, <2>4, <3>1, <3>2 DEF MainAt
  <2> QED
    BY <1>5, <2>2, <2>3, <2>4
<1>6. MainAt'
  BY <1>1, <1>4, <1>5, MainAhead DEF Refuse, Unhook, DropSource, At, Ahead
<1> QED
  BY <1>6 DEF MusicInv, Exclusive

LEMMA MainLoading ==
  ASSUME MusicInv, Step("main"), ~Lock("main"), ~Unlock("main"), depth["main"] = 1,
         ~DropSource("main")
  PROVE  MainAt'
<1> "main" \in Threads /\ TypeOK /\ MainAt
  BY DEF Threads, MusicInv
<1>1. /\ prog["main"] # << >>
      /\ Ahead("main") \in {"fill", "feed", "reclaim", "hook", "refuse", "unhook", "drain", "drained",
                            "load", "play", "start", "started", "open"}
  BY DEF Step, Ahead, At, Fill, Feed, Reclaim, Hook, Refuse, Unhook, Drain, DrainEnd,
         NewSource, PlayMusic, Start, Started, OpenPlaylist
<1>2. Played /\ Inside("main")
  BY <1>1, MainAhead
<1>3. Inside("main")' /\ (source # NoMusic => source' # NoMusic)
  BY <1>2, InsideStays
<1>4. depth' = depth
  BY DepthStays
<1>5. Ahead("main") # "started"
  BY <1>1, <1>2, InsideAhead
<1>6. playing' = playing
  BY <1>5 DEF Step, Fill, Feed, Reclaim, Hook, Refuse, Unhook, Drain, DrainEnd, list, At, Ahead,
         NewSource, PlayMusic, Start, Started, OpenPlaylist
<1>7. Played'
  BY <1>2, <1>3, <1>6 DEF Played
<1> QED
  BY <1>2, <1>3, <1>4, <1>7 DEF MainAt

LEMMA MainPlaying ==
  ASSUME MusicInv, "piece" \notin Missing,
         PlayMusic("main") \/ Start("main") \/ Started("main") \/ OpenPlaylist("main")
  PROVE  MainAt'
<1> "main" \in Threads /\ TypeOK /\ MainAt
  BY DEF Threads, MusicInv
<1> DEFINE p == prog["main"]
<1>1. /\ p # << >>
      /\ PlayMusic("main") => Ahead("main") = "play"
      /\ Start("main") => Ahead("main") = "start"
      /\ Started("main") => Ahead("main") = "started"
      /\ OpenPlaylist("main") => Ahead("main") = "open"
  BY DEF PlayMusic, Start, Started, OpenPlaylist, At, Ahead
<1>2. /\ depth["main"] = 0 /\ Heard
      /\ Started("main") => source # NoMusic /\ p \in MainStarteds
      /\ ~Started("main") => Played
      /\ PlayMusic("main") => p \in MainPlays
      /\ Start("main") => p \in MainStarts
      /\ OpenPlaylist("main") => p \in MainOpens
  BY <1>1, MainAhead
<1>3. depth' = depth /\ source' = source /\ handle' = handle /\ fillWait' = fillWait
  BY DEF PlayMusic, Start, Started, OpenPlaylist, device
<1>4. Heard'
  BY <1>2, <1>3 DEF Heard
<1>5. None0 \in Programs
  BY DEF None0, Programs
<1>6. CASE PlayMusic("main")
  <2>1. Tail(p) \in MainK
    BY <1>2, <1>6, MainPrograms DEF Starting
  <2>2. prog'["main"] = Load \o Tail(p) /\ playing' = playing
    BY <1>6, CallIs DEF TypeOK, PlayMusic, list
  <2>3. prog'["main"] \in LoadLocks(MainK)
    BY <2>1, <2>2, MainPrograms, Routines
  <2>4. Played'
    BY <1>1, <1>2, <1>3, <1>6, <2>2 DEF Played
  <2> QED
    BY <1>2, <1>3, <1>4, <2>3, <2>4 DEF MainAt
<1>7. CASE Start("main")
  <2>1. Tail(p) \in None0 /\ playing' = playing
    BY <1>2, <1>7, MainPrograms DEF Starting, Start
  <2>2. Played'
    BY <1>1, <1>2, <1>3, <1>7, <2>1 DEF Played
  <2>3. CASE Done("main")
    <3>1. prog'["main"] = Tail(p)
      BY <1>1, <2>3, DoneIs DEF TypeOK
    <3> QED
      BY <1>2, <1>3, <1>4, <2>1, <2>2, <3>1 DEF MainAt
  <2>4. CASE Call("main", <<"play", "started">>)
    <3>1. prog'["main"] = <<"play", "started">> \o Tail(p)
      BY <2>4, CallIs DEF TypeOK
    <3>2. "play" \in Steps /\ "started" \in Steps
      BY DEF Steps
    <3>3. prog'["main"] \in First("play", MainStarteds)
      BY <1>5, <2>1, <3>1, <3>2, Two DEF MainStarteds
    <3>4. prog'["main"] \in MainPlays
      BY <3>3, Wider DEF MainPlays, MainK
    <3> QED
      BY <1>2, <1>3, <1>4, <2>2, <3>4 DEF MainAt
  <2> QED
    BY <1>7, <2>3, <2>4 DEF Start
<1>8. CASE Started("main")
  <2>1. Tail(p) \in None0 /\ source' # NoMusic
    BY <1>2, <1>3, <1>8, MainPrograms DEF Starting
  <2>2. prog'["main"] = Tail(p)
    BY <1>1, <1>8, DoneIs DEF TypeOK, Started
  <2>3. Played'
    BY <2>1 DEF Played
  <2> QED
    BY <1>2, <1>3, <1>4, <2>1, <2>2, <2>3 DEF MainAt
<1>9. CASE OpenPlaylist("main")
  <2>1. Tail(p) \in None0 /\ playing' = playing
    BY <1>2, <1>9, MainPrograms DEF Starting, OpenPlaylist
  <2>2. Played'
    BY <1>1, <1>2, <1>3, <1>9, <2>1 DEF Played
  <2>3. CASE Done("main")
    <3>1. prog'["main"] = Tail(p)
      BY <1>1, <2>3, DoneIs DEF TypeOK
    <3> QED
      BY <1>2, <1>3, <1>4, <2>1, <2>2, <3>1 DEF MainAt
  <2>4. CASE Call("main", <<"start">>)
    <3>1. prog'["main"] = <<"start">> \o Tail(p)
      BY <2>4, CallIs DEF TypeOK
    <3>2. "start" \in Steps
      BY DEF Steps
    <3>3. prog'["main"] \in MainStarts
      BY <1>5, <2>1, <3>1, <3>2, One DEF MainStarts
    <3> QED
      BY <1>2, <1>3, <1>4, <2>2, <3>3 DEF MainAt
  <2> QED
    BY <1>9, <2>3, <2>4 DEF OpenPlaylist
<1> QED
  BY <1>6, <1>7, <1>8, <1>9

\* A hard end, and what follows it.
LEMMA HardEndIs ==
  ASSUME NEW m \in BOOLEAN, NEW q \in Seq(Steps), NEW r \in Seq(Steps), q \o r \in After(m)
  PROVE  (HardEnd \o q) \o r \in Refuses(After(m)) /\ HardEnd \in Seq(Steps)
<1>1. HardEnd \in Seq(Steps)
  <2>1. Stop \in Seq(Steps)
    <3>1. /\ "refuse" \in Steps /\ "unhook" \in Steps /\ "lock" \in Steps /\ "drop" \in Steps
          /\ "unlock" \in Steps
      BY DEF Steps
    <3> QED
      BY <3>1 DEF Stop
  <2>2. <<"ended">> \in Seq(Steps)
    <3>1. "ended" \in Steps
      BY DEF Steps
    <3> QED
      BY <3>1
  <2> QED
    BY <2>1, <2>2 DEF HardEnd
<1>2. (HardEnd \o q) \o r = HardEnd \o (q \o r)
  BY <1>1, ConcatAssociative
<1>3. HardEnd \o (q \o r) \in Refuses(After(m))
  BY AfterPrograms, Routines
<1> QED
  BY <1>1, <1>2, <1>3

LEMMA MainEnding ==
  ASSUME MusicInv, End \/ EndList \/ Ended \/ Switched
  PROVE  MainAt'
<1> "main" \in Threads /\ TypeOK /\ MainAt
  BY DEF Threads, MusicInv
<1> DEFINE p == prog["main"]
<1>1. /\ p # << >>
      /\ End => Ahead("main") = "end"
      /\ EndList => Ahead("main") = "endList"
      /\ Ended => Ahead("main") = "ended"
      /\ Switched => Ahead("main") = "switched"
  BY DEF End, EndList, Ended, Switched, At, Ahead
<1>2. /\ depth' = depth /\ source' = source /\ handle' = handle /\ fillWait' = fillWait
      /\ movie' = movie
  BY DEF End, EndList, Ended, Switched, device, screen
<1>3. ~Ended => playing' = playing
  BY DEF End, EndList, Switched, list
<1>4. /\ depth["main"] = 0
      /\ ~Ended => Heard /\ Played
      /\ End => p \in Ends
      /\ EndList => p \in EndLists
      /\ Switched => p \in Switcheds
      /\ Ended => source = NoMusic /\ \E m \in BOOLEAN : (m => movie < MaxMovies) /\ p \in Endeds(After(m))
  BY <1>1, MainAhead
<1>5. ~Ended => Heard' /\ Played'
  BY <1>2, <1>3, <1>4 DEF Heard, Played
<1>6. CASE End
  <2>1. Tail(p) \in None0 \cup Switcheds /\ None0 \cup Switcheds \in Programs
    <3>1. None0 \in Programs
      BY DEF None0, Programs
    <3> QED
      BY <1>4, <1>6, <3>1, MainPrograms DEF Starting, Programs
  <2>2. ~Ended
    BY <1>1, <1>6
  <2>3. "play" \in Steps /\ "endList" \in Steps
    BY DEF Steps
  <2>4. CASE Done("main")
    <3>1. p' = Tail(p)
      BY <1>1, <2>4, DoneIs DEF TypeOK
    <3> QED
      BY <1>2, <1>4, <1>5, <2>1, <2>2, <3>1 DEF MainAt
  <2>5. CASE Call("main", <<"play", "endList">>)
    <3>1. p' = <<"play", "endList">> \o Tail(p)
      BY <2>5, CallIs DEF TypeOK
    <3>2. p' \in First("play", EndLists)
      BY <2>1, <2>3, <3>1, Two DEF EndLists
    <3>3. p' \in MainPlays
      BY <3>2, Wider DEF MainPlays, MainK
    <3> QED
      BY <1>2, <1>4, <1>5, <2>2, <3>3 DEF MainAt
  <2>6. CASE Call("main", HardEnd \o <<"endList">>)
    <3>1. p' = (HardEnd \o <<"endList">>) \o Tail(p)
      BY <2>6, CallIs DEF TypeOK
    <3>2. <<"endList">> \o Tail(p) \in EndLists
      BY <2>1, <2>3, One DEF EndLists
    <3>3. <<"endList">> \o Tail(p) \in After(FALSE)
      BY <3>2 DEF After
    <3>4. <<"endList">> \in Seq(Steps) /\ Tail(p) \in Seq(Steps)
      <4>1. <<"endList">> \in Seq(Steps)
        BY <2>3
      <4> QED
        BY <2>1, <4>1 DEF Programs
    <3>5. p' \in Refuses(After(FALSE))
      BY <3>1, <3>3, <3>4, HardEndIs
    <3> QED
      BY <1>2, <1>4, <1>5, <2>2, <3>5 DEF MainAt
  <2> QED
    BY <1>6, <2>4, <2>5, <2>6 DEF End
<1>7. CASE EndList
  <2>1. Tail(p) \in None0 \cup Switcheds
    BY <1>4, <1>7, MainPrograms DEF Starting
  <2>2. p' = Tail(p)
    BY <1>1, <1>7, DoneIs DEF TypeOK, EndList
  <2>3. ~Ended
    BY <1>1, <1>7
  <2> QED
    BY <1>2, <1>4, <1>5, <2>1, <2>2, <2>3 DEF MainAt
<1>8. CASE Ended
  <2>1. PICK m \in BOOLEAN : (m => movie < MaxMovies) /\ p \in Endeds(After(m))
    BY <1>4, <1>8
  <2>2. Tail(p) \in After(m)
    BY <2>1, AfterPrograms, StopPrograms DEF Starting
  <2>3. p' = Tail(p) /\ playing' = FALSE
    BY <1>1, <1>8, DoneIs DEF TypeOK, Ended
  <2>4. source' = NoMusic /\ Heard' /\ Played'
    BY <1>2, <1>4, <1>8, <2>3 DEF Heard, Played
  <2> QED
    BY <1>2, <1>4, <1>8, <2>1, <2>2, <2>3, <2>4 DEF MainAt, After
<1>9. CASE Switched
  <2>1. Tail(p) \in None0 /\ None0 \in Programs
    BY <1>4, <1>9, MainPrograms DEF Starting, None0, Programs
  <2>2. ~Ended
    BY <1>1, <1>9
  <2>3. CASE playing
    <3>1. Done("main")
      BY <1>9, <2>3 DEF Switched, Done
    <3>2. p' = Tail(p)
      BY <1>1, <3>1, DoneIs DEF TypeOK
    <3> QED
      BY <1>2, <1>4, <1>5, <2>1, <2>2, <3>2 DEF MainAt
  <2>4. CASE ~playing
    <3>1. Call("main", <<"open">>)
      BY <1>9, <2>4 DEF Switched
    <3>2. p' = <<"open">> \o Tail(p)
      BY <3>1, CallIs DEF TypeOK
    <3>3. p' \in MainOpens
      <4>1. "open" \in Steps
        BY DEF Steps
      <4> QED
        BY <2>1, <3>2, <4>1, One DEF MainOpens
    <3> QED
      BY <1>2, <1>4, <1>5, <2>2, <3>3 DEF MainAt
  <2> QED
    BY <2>3, <2>4
<1> QED
  BY <1>6, <1>7, <1>8, <1>9

\* A movie, and the end of the program.
LEMMA MainShowing ==
  ASSUME MusicInv,
         \/ CreateMovie \/ MovieMissing \/ ReplaceMovie \/ Frame \/ MovieEnd
         \/ QuitLoop \/ Join
  PROVE  MainAt'
<1> "main" \in Threads /\ TypeOK /\ MainAt
  BY DEF Threads, MusicInv
<1> DEFINE p == prog["main"]
<1>1. /\ p # << >>
      /\ CreateMovie \/ MovieMissing => Ahead("main") = "create"
      /\ ReplaceMovie => Ahead("main") = "replace"
      /\ Frame \/ MovieEnd => Ahead("main") = "frame"
      /\ QuitLoop => Ahead("main") = "quit"
      /\ Join => Ahead("main") = "join"
  BY DEF CreateMovie, MovieMissing, ReplaceMovie, Frame, MovieEnd, QuitLoop, Join, At, Ahead
<1>2. depth' = depth /\ source' = source /\ playing' = playing
  BY DEF CreateMovie, MovieMissing, ReplaceMovie, Frame, MovieEnd, QuitLoop, Join, list
<1>3. /\ depth["main"] = 0
      /\ Ahead("main") \in {"create", "replace", "frame"} => source = NoMusic /\ ~playing
      /\ Ahead("main") = "create" => p \in Creates
      /\ Ahead("main") = "replace" => p \in Replaces
      /\ Ahead("main") = "frame" => p \in Frames
      /\ Ahead("main") = "quit" => p \in QuitLoops
      /\ Ahead("main") = "join" => p \in Joins
  BY <1>1, MainAhead
<1>4. CASE CreateMovie
  <2>1. Tail(p) \in Replaces
    BY <1>1, <1>3, <1>4, MainPrograms DEF Starting
  <2>2. p' = Tail(p)
    BY <1>1, <1>4, DoneIs DEF TypeOK, CreateMovie
  <2> QED
    BY <1>1, <1>2, <1>3, <1>4, <2>1, <2>2 DEF MainAt
<1>5. CASE MovieMissing
  <2>1. p' \in None0
    BY <1>5 DEF TypeOK, MovieMissing, None0
  <2>2. Heard' /\ Played'
    BY <1>1, <1>2, <1>3, <1>5 DEF Heard, Played
  <2> QED
    BY <1>2, <1>3, <2>1, <2>2 DEF MainAt
<1>6. CASE ReplaceMovie
  <2>1. Tail(p) \in Frames
    BY <1>1, <1>3, <1>6, MainPrograms DEF Starting
  <2>2. p' = Tail(p)
    BY <1>1, <1>6, DoneIs DEF TypeOK, ReplaceMovie
  <2> QED
    BY <1>1, <1>2, <1>3, <1>6, <2>1, <2>2 DEF MainAt
<1>7. CASE Frame
  <2>1. p' = p
    BY <1>7 DEF Frame
  <2> QED
    BY <1>1, <1>2, <1>3, <1>7, <2>1 DEF MainAt
<1>8. CASE MovieEnd
  <2>1. Tail(p) \in MainStarts
    BY <1>1, <1>3, <1>8, MainPrograms DEF Starting
  <2>2. p' = Tail(p)
    BY <1>1, <1>8, DoneIs DEF TypeOK, MovieEnd
  <2>3. Heard' /\ Played'
    BY <1>1, <1>2, <1>3, <1>8 DEF Heard, Played
  <2> QED
    BY <1>2, <1>3, <2>1, <2>2, <2>3 DEF MainAt
<1>9. CASE QuitLoop
  <2>1. Tail(p) \in Joins
    BY <1>1, <1>3, <1>9, MainPrograms DEF Starting
  <2>2. p' = Tail(p)
    BY <1>1, <1>9, DoneIs DEF TypeOK, QuitLoop
  <2> QED
    BY <1>2, <1>3, <2>1, <2>2 DEF MainAt
<1>10. CASE Join
  <2>1. p' = <<"over">>
    BY <1>10 DEF TypeOK, Join
  <2>2. p' \in Overs
    <3>1. "over" \in Steps
      BY DEF Steps
    <3> QED
      BY <2>1, <3>1, Last DEF Overs
  <2> QED
    BY <1>2, <1>3, <2>2 DEF MainAt
<1> QED
  BY <1>4, <1>5, <1>6, <1>7, <1>8, <1>9, <1>10

\* Between two orders all is well.
LEMMA IdleIs ==
  ASSUME MusicInv, Idle
  PROVE  depth["main"] = 0 /\ Heard /\ Played
<1>1. prog["main"] = << >>
  BY DEF Idle
<1>2. ~Inside("main")
  BY <1>1, InsideAhead DEF Threads
<1>3. ASSUME NEW m \in BOOLEAN
      PROVE  /\ << >> \notin Refuses(After(m)) /\ << >> \notin Unhooks(After(m))
             /\ << >> \notin StopLocks(After(m)) /\ << >> \notin Drops(After(m))
             /\ << >> \notin Stoppeds(After(m)) /\ << >> \notin Endeds(After(m))
  BY AfterPrograms, StopPrograms DEF Starting
<1>4. /\ << >> \notin MainStarteds /\ << >> \notin Creates /\ << >> \notin Replaces
      /\ << >> \notin Frames /\ << >> \notin Quits /\ << >> \notin QuitUnhooks
      /\ << >> \notin QuitLoops /\ << >> \notin Joins /\ << >> \notin Overs
  BY MainPrograms DEF Starting
<1> QED
  BY <1>1, <1>2, <1>3, <1>4 DEF MusicInv, MainAt

LEMMA MainOrdered ==
  ASSUME MusicInv, MainOrder
  PROVE  MainAt' /\ prog'["main"] \in Seq(Steps) /\ depth' = depth
<1> "main" \in Threads /\ TypeOK
  BY DEF Threads, MusicInv
<1> DEFINE p == prog["main"]
<1>1. Idle
  BY DEF MainOrder, SwitchPlayList, OrderEnd, PlayMovie, Quit
<1>2. depth["main"] = 0 /\ Heard /\ Played
  BY <1>1, IdleIs
<1>3. /\ depth' = depth /\ source' = source /\ handle' = handle /\ fillWait' = fillWait
      /\ playing' = playing /\ movie' = movie
  BY DEF MainOrder, SwitchPlayList, OrderEnd, PlayMovie, Quit, device, list, screen
<1>4. Heard' /\ Played'
  BY <1>2, <1>3 DEF Heard, Played
<1>5. /\ "open" \in Steps /\ "end" \in Steps /\ "switched" \in Steps /\ "create" \in Steps
      /\ "replace" \in Steps /\ "frame" \in Steps /\ "start" \in Steps /\ "refuse" \in Steps
      /\ "unhook" \in Steps /\ "quit" \in Steps /\ "join" \in Steps
  BY DEF Steps
<1>6. None0 \in Programs /\ << >> \in None0 /\ << >> \in Seq(Steps)
  BY DEF None0, Programs
<1>7. ASSUME NEW l \in Lists, NEW hard \in BOOLEAN, SwitchPlayList(l, hard)
      PROVE  MainAt' /\ p' \in Seq(Steps)
  <2>1. \/ p' = <<"open">> \/ p' = << >>
        \/ p' = HardEnd \o <<"switched">> \/ p' = <<"end">> \o <<"switched">>
    BY <1>7 DEF SwitchPlayList, TypeOK
  <2>2. <<"switched">> \in Switcheds /\ <<"switched">> \in Seq(Steps) /\ <<"open">> \in MainOpens
    BY <1>5, Last DEF Switcheds, MainOpens
  <2>3. CASE p' = <<"open">> \/ p' = << >>
    <3>1. p' \in None0 \/ p' \in MainOpens
      BY <1>6, <2>2, <2>3
    <3>2. p' \in Seq(Steps)
      BY <1>6, <3>1, MainPrograms DEF Programs
    <3> QED
      BY <1>2, <1>3, <1>4, <3>1, <3>2 DEF MainAt
  <2>4. CASE p' = <<"end">> \o <<"switched">>
    <3>1. <<"end">> \o <<"switched">> \in First("end", Switcheds)
      BY <1>5, <2>2, One, MainPrograms
    <3>2. p' \in Ends
      BY <2>4, <3>1, Wider DEF Ends
    <3>3. p' \in Seq(Steps)
      BY <3>2, MainPrograms DEF Programs
    <3> QED
      BY <1>2, <1>3, <1>4, <3>2, <3>3 DEF MainAt
  <2>5. CASE p' = HardEnd \o <<"switched">>
    <3>1. <<"switched">> \in After(FALSE)
      BY <2>2 DEF After
    <3>2. p' \in Refuses(After(FALSE)) /\ Refuses(After(FALSE)) \in Programs
      BY <2>5, <3>1, Routines, AfterPrograms, StopPrograms
    <3>3. p' \in Seq(Steps)
      BY <3>2 DEF Programs
    <3> QED
      BY <1>2, <1>3, <1>4, <3>2, <3>3 DEF MainAt
  <2> QED
    BY <2>1, <2>3, <2>4, <2>5
<1>8. CASE OrderEnd
  <2>1. p' = <<"end">>
    BY <1>8 DEF OrderEnd, TypeOK
  <2>2. <<"end">> \in First("end", None0) /\ <<"end">> \in Seq(Steps)
    BY <1>5, Last
  <2>3. p' \in Ends
    BY <2>1, <2>2, Wider DEF Ends
  <2> QED
    BY <1>2, <1>3, <1>4, <2>1, <2>2, <2>3 DEF MainAt
<1>9. CASE PlayMovie
  <2>1. p' = HardEnd \o <<"create", "replace", "frame", "start">> /\ movie < MaxMovies
    BY <1>9 DEF PlayMovie, TypeOK
  <2>2. <<"create", "replace", "frame", "start">> \in Creates
    <3>1. <<"create", "replace", "frame", "start">> \o << >>
            \in First("create", First("replace", First("frame", First("start", None0))))
      BY <1>5, <1>6, Four, Zenon
    <3>2. <<"create", "replace", "frame", "start">> \in Seq(Steps)
      BY <1>5
    <3>3. <<"create", "replace", "frame", "start">> \o << >>
            = <<"create", "replace", "frame", "start">>
      BY <3>2, ConcatEmptySeq
    <3> QED
      BY <3>1, <3>3 DEF Creates, Replaces, Frames, MainStarts
  <2>3. p' \in Refuses(After(TRUE)) /\ Refuses(After(TRUE)) \in Programs
    BY <2>1, <2>2, Routines, AfterPrograms, StopPrograms DEF After
  <2>4. p' \in Seq(Steps)
    BY <2>3 DEF Programs
  <2> QED
    BY <1>2, <1>3, <1>4, <2>1, <2>3, <2>4 DEF MainAt
<1>10. CASE Quit
  <2>1. p' = <<"refuse", "unhook", "quit", "join">>
    BY <1>10 DEF Quit, TypeOK
  <2>2. <<"refuse", "unhook", "quit", "join">> \o << >>
          \in First("refuse", First("unhook", First("quit", First("join", None0))))
    BY <1>5, <1>6, Four, Zenon
  <2>3. <<"refuse", "unhook", "quit", "join">> \in Seq(Steps)
    BY <1>5
  <2>4. <<"refuse", "unhook", "quit", "join">> \o << >> = <<"refuse", "unhook", "quit", "join">>
    BY <2>3, ConcatEmptySeq
  <2>5. p' \in Quits
    BY <2>1, <2>2, <2>4 DEF Quits, QuitUnhooks, QuitLoops, Joins
  <2> QED
    BY <1>2, <1>3, <2>1, <2>3, <2>5 DEF MainAt
<1> QED
  BY <1>3, <1>7, <1>8, <1>9, <1>10 DEF MainOrder

\* The main thread keeps out of what the loop's thread needs the mutex for.
LEMMA MainStepKeeps ==
  ASSUME MusicInv, "piece" \notin Missing, MainStep \/ MainOrder
  PROVE  LoopAt' /\ MainAt' /\ Exclusive'
<1> "main" \in Threads /\ "loop" \in Threads /\ TypeOK /\ MainAt
  BY DEF Threads, MusicInv
<1> DEFINE Own == \/ End \/ EndList \/ Ended \/ Switched
                  \/ CreateMovie \/ MovieMissing \/ ReplaceMovie \/ Frame \/ MovieEnd
                  \/ QuitLoop \/ Join \/ MainOrder
           Reads == \/ Fill("main") \/ Feed("main") \/ Drain("main") \/ NewSource("main")
                    \/ DropSource("main")
<1>1. prog'["loop"] = prog["loop"] /\ depth'["loop"] = depth["loop"]
  <2>1. CASE Step("main")
    BY <2>1, OtherStays DEF Threads
  <2>2. CASE Own
    BY <2>2 DEF TypeOK, End, EndList, Ended, Switched, CreateMovie, MovieMissing, ReplaceMovie,
           Frame, MovieEnd, QuitLoop, Join, MainOrder, SwitchPlayList, OrderEnd, PlayMovie, Quit,
           Call, Done
  <2> QED
    BY <2>1, <2>2 DEF MainStep
<1>2. CASE Own
  <2>1. depth' = depth /\ source' = source /\ left' = left /\ filled' = filled
    BY <1>2 DEF End, EndList, Ended, Switched, CreateMovie, MovieMissing, ReplaceMovie,
           Frame, MovieEnd, QuitLoop, Join, MainOrder, SwitchPlayList, OrderEnd, PlayMovie, Quit,
           fill
  <2>2. LoopAt'
    BY <1>1, <2>1, LoopStays
  <2>3. MainAt'
    BY <1>2, MainEnding, MainShowing, MainOrdered
  <2> QED
    BY <2>1, <2>2, <2>3 DEF MusicInv, Exclusive
<1>3. CASE Lock("main") \/ Unlock("main")
  <2>1. source' = source /\ left' = left /\ filled' = filled
    BY <1>3 DEF Lock, Unlock, fill
  <2>2. LoopAt'
    BY <1>1, <2>1, LoopStays
  <2>3. MainAt'
    BY <1>3, MainLock, MainUnlock
  <2>4. Exclusive'
    <3>1. CASE Lock("main")
      BY <1>1, <3>1 DEF Lock, Exclusive, Threads
    <3>2. CASE Unlock("main")
      <4>1. depth["main"] = 1 /\ depth'["main"] = depth["main"] - 1
        BY <3>2, MainUnlock DEF TypeOK, Unlock
      <4> QED
        BY <4>1 DEF Exclusive
    <3> QED
      BY <1>3, <3>1, <3>2
  <2> QED
    BY <2>2, <2>3, <2>4
<1>4. CASE Step("main") /\ ~Lock("main") /\ ~Unlock("main")
  <2>1. depth' = depth
    BY <1>4, DepthStays
  <2>2. /\ prog["main"] # << >>
        /\ Ahead("main") \in {"fill", "feed", "reclaim", "hook", "refuse", "unhook", "drain", "drained",
                              "load", "drop", "play", "start", "started", "open"}
    BY <1>4 DEF Step, Ahead, At, Fill, Feed, Reclaim, Hook, Refuse, Unhook, Drain, DrainEnd,
           NewSource, DropSource, PlayMusic, Start, Started, OpenPlaylist
  <2>3. CASE depth["main"] = 1
    <3>1. depth["loop"] = 0
      BY <2>3 DEF MusicInv, Exclusive
    <3>2. LoopAt'
      BY <1>1, <3>1, LoopStays
    <3>3. MainAt'
      BY <1>4, <2>3, MainLoading, MainStopping
    <3> QED
      BY <2>1, <3>1, <3>2, <3>3 DEF Exclusive
  <2>4. CASE depth["main"] # 1
    <3>1. depth["main"] = 0 /\ Ahead("main") \in {"refuse", "unhook", "play", "start", "started", "open"}
      BY <2>2, <2>4, MainAhead
    <3>2. \/ Refuse("main") \/ Unhook("main") \/ PlayMusic("main") \/ Start("main")
          \/ Started("main") \/ OpenPlaylist("main")
      BY <1>4, <3>1 DEF Step, Ahead, At, Fill, Feed, Reclaim, Hook, Drain, DrainEnd,
             NewSource, DropSource
    <3>3. source' = source /\ left' = left /\ filled' = filled
      BY <3>2 DEF Refuse, Unhook, PlayMusic, Start, Started, OpenPlaylist, fill
    <3>4. LoopAt'
      BY <1>1, <3>3, LoopStays
    <3>5. MainAt'
      BY <3>2, MainStopping, MainPlaying
    <3> QED
      BY <2>1, <3>1, <3>4, <3>5 DEF Exclusive
  <2> QED
    BY <2>3, <2>4
<1> QED
  BY <1>2, <1>3, <1>4 DEF MainStep

--------------------------------------------------------------------------
(* The types *)

LEMMA CallTypes ==
  ASSUME NEW t \in Threads, prog \in [Threads -> Seq(Steps)], prog[t] # << >>,
         NEW steps \in Seq(Steps), Call(t, steps)
  PROVE  prog' \in [Threads -> Seq(Steps)]
<1>1. prog[t] \in Seq(Steps)
  OBVIOUS
<1>2. Tail(prog[t]) \in Seq(Steps)
  BY <1>1
<1>3. steps \o Tail(prog[t]) \in Seq(Steps)
  BY <1>2
<1> QED
  BY <1>3 DEF Call

LEMMA DoneTypes ==
  ASSUME NEW t \in Threads, prog \in [Threads -> Seq(Steps)], prog[t] # << >>, Done(t)
  PROVE  prog' \in [Threads -> Seq(Steps)]
<1>1. << >> \in Seq(Steps)
  OBVIOUS
<1> QED
  BY <1>1, CallTypes DEF Done

LEMMA RoutineTypes ==
  /\ Load \in Seq(Steps) /\ Stop \in Seq(Steps)
  /\ HardEnd \o <<"endList">> \in Seq(Steps)
  /\ <<"feed", "fill">> \in Seq(Steps) /\ <<"fill", "drained">> \in Seq(Steps)
  /\ <<"lock", "look", "unlock", "turn">> \in Seq(Steps)
  /\ <<"fill", "ramped">> \in Seq(Steps) /\ <<"fill", "onward">> \in Seq(Steps)
  /\ <<"playNext", "restock">> \in Seq(Steps) /\ <<"fill">> \in Seq(Steps)
  /\ <<"play", "started">> \in Seq(Steps) /\ <<"start">> \in Seq(Steps)
  /\ <<"play", "advance">> \in Seq(Steps) /\ <<"open", "forget">> \in Seq(Steps)
  /\ <<"play", "endList">> \in Seq(Steps) /\ <<"open">> \in Seq(Steps)
  /\ <<"over">> \in Seq(Steps)
<1>1. \A x \in Steps : <<x>> \in Seq(Steps)
  OBVIOUS
<1>2. \A x \in Steps, y \in Steps : <<x, y>> \in Seq(Steps)
  OBVIOUS
<1>3. /\ "lock" \in Steps /\ "drain" \in Steps /\ "load" \in Steps /\ "reclaim" \in Steps
      /\ "hook" \in Steps /\ "unlock" \in Steps /\ "refuse" \in Steps /\ "unhook" \in Steps
      /\ "drop" \in Steps /\ "ended" \in Steps /\ "endList" \in Steps /\ "feed" \in Steps
      /\ "fill" \in Steps /\ "drained" \in Steps /\ "look" \in Steps /\ "turn" \in Steps
      /\ "ramped" \in Steps /\ "onward" \in Steps /\ "playNext" \in Steps
      /\ "restock" \in Steps /\ "play" \in Steps /\ "started" \in Steps /\ "start" \in Steps
      /\ "advance" \in Steps /\ "open" \in Steps /\ "forget" \in Steps /\ "over" \in Steps
  BY DEF Steps
<1>4. Load \in Seq(Steps)
  BY <1>3 DEF Load
<1>5. Stop \in Seq(Steps)
  BY <1>3 DEF Stop
<1>6. HardEnd \o <<"endList">> \in Seq(Steps)
  <2>1. <<"ended">> \in Seq(Steps) /\ <<"endList">> \in Seq(Steps)
    BY <1>1, <1>3
  <2> QED
    BY <1>5, <2>1 DEF HardEnd
<1>7. <<"lock", "look", "unlock", "turn">> \in Seq(Steps)
  BY <1>3
<1> QED
  BY <1>1, <1>2, <1>3, <1>4, <1>5, <1>6, <1>7, Zenon

\* There is something to read when it is read, and to count when it is counted.
LEMMA ReadingIs ==
  ASSUME MusicInv, NEW t \in Threads
  PROVE  /\ At(t, "fill") => source # NoMusic
         /\ At(t, "feed") => left > 0
<1>1. CASE t = "loop"
  BY <1>1, LoopAhead, InsideAhead DEF At, Ahead, MusicInv
<1>2. CASE t = "main"
  BY <1>2, MainAhead, InsideAhead DEF At, Ahead, MusicInv
<1> QED
  BY <1>1, <1>2 DEF Threads

LEMMA MutexTypes ==
  ASSUME MusicInv, NEW t \in Threads, Lock(t) \/ Unlock(t)
  PROVE  TypeOK'
<1>1. TypeOK /\ LoopAt /\ prog[t] # << >>
  BY DEF MusicInv, Lock, Unlock, At
<1>2. prog' \in [Threads -> Seq(Steps)]
  BY <1>1, DoneTypes DEF TypeOK, Lock, Unlock
<1>3. depth' \in [Threads -> 0..2]
  <2>1. Lock(t) => depth[t] \in 0..1
    BY <1>1, LoopLock, MainLock DEF Threads
  <2>2. Unlock(t) => depth[t] \in 1..2
    BY <1>1, LoopUnlock, MainUnlock DEF Threads
  <2>3. depth' = [depth EXCEPT ![t] = depth[t] + 1] \/ depth' = [depth EXCEPT ![t] = depth[t] - 1]
    BY DEF Lock, Unlock
  <2>4. CASE Lock(t)
    BY <1>1, <2>1, <2>4 DEF TypeOK, Lock
  <2>5. CASE Unlock(t)
    BY <1>1, <2>2, <2>5 DEF TypeOK, Unlock
  <2> QED
    BY <2>4, <2>5
<1>4. UNCHANGED <<device, source, rampUp, looping, list, screen, fill>>
  BY DEF Lock, Unlock
<1> QED
  BY <1>1, <1>2, <1>3, <1>4 DEF TypeOK, device, list, screen, fill

\* What the stream's steps do to the stream.
LEMMA StreamTypes ==
  ASSUME MusicInv, NEW t \in Threads,
         Fill(t) \/ Feed(t) \/ Reclaim(t) \/ Hook(t) \/ Refuse(t) \/ Unhook(t)
  PROVE  TypeOK'
<1>1. TypeOK /\ prog[t] # << >>
  BY DEF MusicInv, Fill, Feed, Reclaim, Hook, Refuse, Unhook, At
<1>2. prog' \in [Threads -> Seq(Steps)]
  <2>1. CASE Done(t)
    BY <1>1, <2>1, DoneTypes DEF TypeOK
  <2>2. CASE Call(t, <<"feed", "fill">>)
    BY <1>1, <2>2, CallTypes, RoutineTypes DEF TypeOK
  <2>3. CASE Feed(t) /\ prog' = [prog EXCEPT ![t] = Tail(Tail(@))]
    <3>1. /\ t = "loop" => Tail(Tail(prog[t])) \in Seq(Steps)
          /\ t = "main" => Tail(Tail(prog[t])) \in Seq(Steps)
      <4>1. CASE t = "loop" /\ depth["loop"] # 2
        <5>1. prog[t] \in LoopFeeds
          BY <1>1, <2>3, <4>1, LoopAhead DEF MusicInv, Feed, At, Ahead
        <5>2. Tail(Tail(prog[t])) \in Rampeds \cup Onwards \cup Leaves
          BY <5>1, LoopPrograms DEF Starting
        <5> QED
          BY <4>1, <5>2, LoopPrograms DEF Programs
      <4>2. CASE t = "main" \/ depth["loop"] = 2
        <5>1. Inside(t)
          BY <1>1, <2>3, <4>2, LoopAhead, MainAhead DEF MusicInv, Feed, At, Ahead, Threads
        <5>2. prog[t] \in DrainFeeds(Rest(t))
          BY <2>3, <5>1, InsideAhead DEF Feed, At, Ahead
        <5>3. Tail(Tail(prog[t])) \in Draineds(Rest(t)) /\ Draineds(Rest(t)) \in Programs
          BY <5>2, BothPrograms, LoadPrograms DEF Starting
        <5> QED
          BY <5>3 DEF Programs
      <4> QED
        BY <4>1, <4>2 DEF Threads
    <3> QED
      BY <1>1, <2>3, <3>1 DEF TypeOK, Threads
  <2> QED
    BY <2>1, <2>2, <2>3 DEF Fill, Feed, Reclaim, Hook, Refuse, Unhook
<1>3. Music \in Streams
  BY DEF Music, Streams
<1>4. CASE Fill(t)
  <2>1. source' \in -1..MaxPiece /\ filled' \in BOOLEAN
    <3>1. source # NoMusic
      BY <1>4, ReadingIs DEF Fill
    <3>2. CASE left = 0 \/ source = 0
      BY <1>1, <1>4, <3>2 DEF Fill, TypeOK
    <3>3. CASE ~(left = 0 \/ source = 0)
      <4>1. source' = source - 1 /\ filled' = filled /\ source \in -1..MaxPiece /\ source # -1
        BY <1>1, <1>4, <3>1, <3>3 DEF Fill, TypeOK, NoMusic
      <4> QED
        BY <1>1, <4>1, BoundsAssumption DEF TypeOK
    <3> QED
      BY <3>2, <3>3
  <2>2. UNCHANGED <<depth, device, rampUp, looping, list, screen, left>>
    BY <1>4 DEF Fill
  <2> QED
    BY <1>1, <1>2, <2>1, <2>2 DEF TypeOK, device, list, screen
<1>5. CASE Feed(t)
  <2>1. ring' \in [Streams -> 0..Capacity]
    <3>1. ring[Music] \in 0..Capacity
      BY <1>1, <1>3 DEF TypeOK
    <3>2. PICK n \in 0..Capacity : ring' = [ring EXCEPT ![Music] = n]
      <4>1. ring' = [ring EXCEPT ![Music] =
                      IF ring[Music] < Capacity THEN ring[Music] + 1 ELSE ring[Music]]
        BY <1>5 DEF Feed
      <4>2. (IF ring[Music] < Capacity THEN ring[Music] + 1 ELSE ring[Music]) \in 0..Capacity
        BY <3>1, BoundsAssumption
      <4> QED
        BY <4>1, <4>2
    <3> QED
      BY <1>1, <3>2 DEF TypeOK
  <2>2. left' \in 0..(RampUp + 1) /\ filled' \in BOOLEAN
    <3>1. left > 0 /\ left \in 0..(RampUp + 1) /\ fillWait[Music] \in BOOLEAN
      BY <1>1, <1>3, <1>5, ReadingIs DEF Feed, TypeOK
    <3>2. left' = left \/ left' = left - 1
      BY <1>5 DEF Feed
    <3>3. filled' = filled \/ filled' = ~fillWait[Music]
      BY <1>5 DEF Feed
    <3>4. left' \in 0..(RampUp + 1)
      BY <3>1, <3>2, BoundsAssumption
    <3> QED
      BY <1>1, <3>1, <3>3, <3>4 DEF TypeOK
  <2>3. UNCHANGED <<depth, handle, fillWait, source, rampUp, looping, list, screen>>
    BY <1>5 DEF Feed
  <2> QED
    BY <1>1, <1>2, <2>1, <2>2, <2>3 DEF TypeOK, list, screen
<1>6. CASE Reclaim(t) \/ Refuse(t) \/ Unhook(t)
  <2>1. /\ fillWait' \in [Streams -> BOOLEAN] /\ handle' \in Streams \cup {Nil}
        /\ UNCHANGED <<depth, ring, source, rampUp, looping, list, screen, fill>>
    BY <1>1, <1>3, <1>6 DEF Reclaim, Refuse, Unhook, TypeOK
  <2> QED
    BY <1>1, <1>2, <2>1 DEF TypeOK, list, screen, fill
<1>7. CASE Hook(t)
  <2>1. /\ ring' \in [Streams -> 0..Capacity] /\ handle' \in Streams \cup {Nil}
        /\ UNCHANGED <<depth, fillWait, source, rampUp, looping, list, screen, fill>>
    BY <1>1, <1>3, <1>7, BoundsAssumption DEF Hook, TypeOK
  <2> QED
    BY <1>1, <1>2, <2>1 DEF TypeOK, list, screen, fill
<1> QED
  BY <1>4, <1>5, <1>6, <1>7

\* What the steps of the loop and of the playlist do that both threads take.
LEMMA LoadTypes ==
  ASSUME MusicInv, NEW t \in Threads,
         \/ Drain(t) \/ DrainEnd(t) \/ NewSource(t) \/ DropSource(t)
         \/ PlayMusic(t) \/ Start(t) \/ Started(t) \/ OpenPlaylist(t)
  PROVE  TypeOK'
<1>1. TypeOK /\ prog[t] # << >>
  BY DEF MusicInv, Drain, DrainEnd, NewSource, DropSource, PlayMusic, Start, Started,
         OpenPlaylist, At
<1>2. prog' \in [Threads -> Seq(Steps)]
  <2>1. PICK steps \in {<< >>, <<"fill", "drained">>, Load, Stop, <<"play", "started">>,
                        <<"start">>} : Call(t, steps)
    BY DEF Drain, DrainEnd, NewSource, DropSource, PlayMusic, Start, Started, OpenPlaylist, Done
  <2>2. steps \in Seq(Steps)
    <3>1. << >> \in Seq(Steps)
      OBVIOUS
    <3> QED
      BY <3>1, RoutineTypes
  <2> QED
    BY <1>1, <2>1, <2>2, CallTypes DEF TypeOK
<1>3. UNCHANGED <<depth, device, screen, looping, filled>>
  BY DEF Drain, DrainEnd, NewSource, DropSource, PlayMusic, Start, Started, OpenPlaylist, fill
<1>4. source' \in -1..MaxPiece /\ rampUp' \in BOOLEAN
  <2>1. \/ source' = source /\ rampUp' = rampUp
        \/ source' \in 1..MaxPiece /\ rampUp' = TRUE
        \/ source' = NoMusic /\ rampUp' = rampUp
    BY DEF Drain, DrainEnd, NewSource, DropSource, PlayMusic, Start, Started, OpenPlaylist
  <2>2. -1 \in -1..MaxPiece /\ 1..MaxPiece \subseteq -1..MaxPiece
    BY BoundsAssumption
  <2> QED
    BY <1>1, <2>1, <2>2 DEF TypeOK, NoMusic
<1>5. left' \in 0..(RampUp + 1)
  <2>1. left' = left \/ left' = 1
    BY DEF Drain, DrainEnd, NewSource, DropSource, PlayMusic, Start, Started, OpenPlaylist, fill
  <2> QED
    BY <1>1, <2>1, BoundsAssumption DEF TypeOK
<1>6. /\ name' \in Lists \cup {Nil} /\ opened' \in BOOLEAN /\ more' \in BOOLEAN
      /\ playing' \in BOOLEAN /\ wanted' = wanted /\ goal' = goal
  <2>1. CASE Drain(t) \/ DrainEnd(t) \/ NewSource(t) \/ DropSource(t) \/ PlayMusic(t)
    BY <1>1, <2>1 DEF TypeOK, Drain, DrainEnd, NewSource, DropSource, PlayMusic, list
  <2>2. CASE Start(t)
    BY <1>1, <2>2 DEF TypeOK, Start
  <2>3. CASE Started(t)
    BY <1>1, <2>3 DEF TypeOK, Started
  <2>4. CASE OpenPlaylist(t)
    BY <1>1, <2>4 DEF TypeOK, OpenPlaylist, Asked
  <2> QED
    BY <2>1, <2>2, <2>3, <2>4
<1> QED
  BY <1>1, <1>2, <1>3, <1>4, <1>5, <1>6 DEF TypeOK, device, screen

LEMMA LoopTypes ==
  ASSUME TypeOK,
         \/ Turn \/ LookNothing \/ Look \/ Ramped \/ Onward \/ Restock
         \/ PlayNext \/ Advance \/ Forget
  PROVE  TypeOK'
<1>1. "loop" \in Threads /\ prog["loop"] # << >>
  BY DEF Threads, At, Turn, LookNothing, Look, Ramped, Onward, Restock, PlayNext, Advance, Forget
<1>2. prog' \in [Threads -> Seq(Steps)]
  <2>1. PICK steps \in {<< >>, <<"lock", "look", "unlock", "turn">>, <<"fill", "ramped">>,
                        <<"fill", "onward">>, <<"playNext", "restock">>, <<"fill">>,
                        <<"play", "advance">>, <<"open", "forget">>} : Call("loop", steps)
    BY DEF Turn, LookNothing, Look, Ramped, Onward, Restock, PlayNext, Advance, Forget, Done
  <2>2. steps \in Seq(Steps)
    <3>1. << >> \in Seq(Steps)
      OBVIOUS
    <3> QED
      BY <3>1, RoutineTypes
  <2> QED
    BY <1>1, <2>1, <2>2, CallTypes DEF TypeOK
<1>3. UNCHANGED <<depth, device, screen, source, looping, filled, name, opened, goal>>
  BY DEF Turn, LookNothing, Look, Ramped, Onward, Restock, PlayNext, Advance, Forget, list, fill
<1>4. rampUp' \in BOOLEAN /\ left' \in 0..(RampUp + 1)
  <2>1. rampUp' = rampUp \/ rampUp' = FALSE
    BY DEF Turn, LookNothing, Look, Ramped, Onward, Restock, PlayNext, Advance, Forget
  <2>2. left' = left \/ left' = 1 \/ left' = RampUp
    BY DEF Turn, LookNothing, Look, Ramped, Onward, Restock, PlayNext, Advance, Forget, fill
  <2>3. left' \in 0..(RampUp + 1)
    BY <2>2, BoundsAssumption DEF TypeOK
  <2> QED
    BY <2>1, <2>3 DEF TypeOK
<1>5. more' \in BOOLEAN /\ wanted' \in Lists \cup {Nil}
  BY DEF TypeOK, Turn, LookNothing, Look, Ramped, Onward, Restock, PlayNext, Advance, Forget, list
<1>6. playing' \in BOOLEAN
  <2>1. playing' = playing \/ playing' = (playing /\ more)
    BY DEF Turn, LookNothing, Look, Ramped, Onward, Restock, PlayNext, Advance, Forget, list
  <2>2. (playing /\ more) \in BOOLEAN
    OBVIOUS
  <2> QED
    BY <2>1, <2>2 DEF TypeOK
<1> QED
  BY <1>2, <1>3, <1>4, <1>5, <1>6 DEF TypeOK, device, screen

LEMMA EndTypes ==
  ASSUME TypeOK, End \/ EndList \/ Ended \/ Switched
  PROVE  TypeOK'
<1>1. "main" \in Threads /\ prog["main"] # << >>
  BY DEF Threads, At, End, EndList, Ended, Switched
<1>2. prog' \in [Threads -> Seq(Steps)]
  <2>1. PICK steps \in {<< >>, <<"play", "endList">>, HardEnd \o <<"endList">>, <<"open">>} :
          Call("main", steps)
    BY DEF End, EndList, Ended, Switched, Done
  <2>2. steps \in Seq(Steps)
    <3>1. << >> \in Seq(Steps)
      OBVIOUS
    <3> QED
      BY <3>1, RoutineTypes
  <2> QED
    BY <1>1, <2>1, <2>2, CallTypes DEF TypeOK
<1>3. UNCHANGED <<depth, device, screen, source, rampUp, looping, fill, opened, goal>>
  BY DEF End, EndList, Ended, Switched, list
<1>4. /\ more' \in BOOLEAN /\ wanted' \in Lists \cup {Nil} /\ playing' \in BOOLEAN
      /\ name' \in Lists \cup {Nil}
  BY DEF TypeOK, End, EndList, Ended, Switched, list
<1> QED
  BY <1>2, <1>3, <1>4 DEF TypeOK, device, screen, fill

LEMMA ShowTypes ==
  ASSUME MusicInv,
         \/ CreateMovie \/ MovieMissing \/ ReplaceMovie \/ Frame \/ MovieEnd
         \/ QuitLoop \/ Join
  PROVE  TypeOK'
<1>1. "main" \in Threads /\ TypeOK
  BY DEF Threads, MusicInv
<1>2. prog["main"] # << >>
  BY DEF At, CreateMovie, MovieMissing, ReplaceMovie, Frame, MovieEnd, QuitLoop, Join
<1>3. prog' \in [Threads -> Seq(Steps)]
  <2>1. CASE Done("main")
    BY <1>1, <1>2, <2>1, DoneTypes DEF TypeOK
  <2>2. CASE prog' = [prog EXCEPT !["main"] = << >>] \/ prog' = [prog EXCEPT !["main"] = <<"over">>]
    <3>1. << >> \in Seq(Steps) /\ <<"over">> \in Seq(Steps)
      BY RoutineTypes
    <3> QED
      BY <1>1, <2>2, <3>1 DEF TypeOK
  <2>3. CASE prog' = prog
    BY <1>1, <2>3 DEF TypeOK
  <2> QED
    BY <2>1, <2>2, <2>3
       DEF CreateMovie, MovieMissing, ReplaceMovie, Frame, MovieEnd, QuitLoop, Join
<1>4. movie \in Streams /\ (movie - 1 > 0 => movie - 1 \in Streams)
  BY <1>1, BoundsAssumption DEF TypeOK, Streams
<1>5. CASE CreateMovie
  <2>1. movie < MaxMovies
    BY <1>5, MainAhead DEF MusicInv, CreateMovie, At, Ahead
  <2>2. movie' \in 1..MaxMovies
    BY <1>1, <1>5, <2>1, BoundsAssumption DEF TypeOK, CreateMovie
  <2>3. /\ movie' \in 0..MaxMovies /\ frames' \in 0..MaxFrames
        /\ handle' \in Streams \cup {Nil} /\ fillWait' \in [Streams -> BOOLEAN]
        /\ UNCHANGED <<depth, ring, source, rampUp, looping, list, fill>>
    BY <1>1, <1>5, <2>2, BoundsAssumption DEF TypeOK, CreateMovie, Streams
  <2> QED
    BY <1>1, <1>3, <2>3 DEF TypeOK, list, fill
<1>6. CASE MovieMissing \/ ReplaceMovie
  <2>1. handle' \in Streams \cup {Nil} /\ fillWait' \in [Streams -> BOOLEAN]
    BY <1>1, <1>4, <1>6 DEF TypeOK, MovieMissing, ReplaceMovie, Destroy
  <2>2. UNCHANGED <<depth, ring, source, rampUp, looping, list, screen, fill>>
    BY <1>6 DEF MovieMissing, ReplaceMovie
  <2> QED
    BY <1>1, <1>3, <2>1, <2>2 DEF TypeOK, list, fill, screen
<1>7. CASE Frame
  <2>1. ring' \in [Streams -> 0..Capacity]
    <3>1. ring[movie] + 1 \in 0..Capacity
      BY <1>1, <1>4, <1>7, BoundsAssumption DEF TypeOK, Frame
    <3> QED
      BY <1>1, <1>7, <3>1 DEF TypeOK, Frame
  <2>2. frames' \in 0..MaxFrames
    BY <1>1, <1>7, BoundsAssumption DEF TypeOK, Frame
  <2>3. UNCHANGED <<depth, handle, fillWait, source, rampUp, looping, list, movie, fill, prog>>
    BY <1>7 DEF Frame
  <2> QED
    BY <1>1, <2>1, <2>2, <2>3 DEF TypeOK, list, fill
<1>8. CASE MovieEnd \/ QuitLoop \/ Join
  <2>1. looping' \in BOOLEAN /\ UNCHANGED <<depth, device, source, rampUp, list, screen, fill>>
    BY <1>1, <1>8 DEF TypeOK, MovieEnd, QuitLoop, Join
  <2> QED
    BY <1>1, <1>3, <2>1 DEF TypeOK, device, list, screen, fill
<1> QED
  BY <1>5, <1>6, <1>7, <1>8

LEMMA OrderTypes ==
  ASSUME MusicInv, MainOrder
  PROVE  TypeOK'
<1>1. "main" \in Threads /\ TypeOK
  BY DEF Threads, MusicInv
<1>2. prog' \in [Threads -> Seq(Steps)]
  <2>1. prog'["main"] \in Seq(Steps)
    BY MainOrdered
  <2>2. PICK p : prog' = [prog EXCEPT !["main"] = p]
    BY DEF MainOrder, SwitchPlayList, OrderEnd, PlayMovie, Quit
  <2> QED
    BY <1>1, <2>1, <2>2 DEF TypeOK
<1>3. goal' \in Lists \cup {Nil}
  BY <1>1 DEF MainOrder, SwitchPlayList, OrderEnd, PlayMovie, Quit, TypeOK, list
<1>4. UNCHANGED <<depth, device, source, rampUp, looping, name, opened, more, playing, wanted,
                  screen, fill>>
  BY DEF MainOrder, SwitchPlayList, OrderEnd, PlayMovie, Quit, list
<1> QED
  BY <1>1, <1>2, <1>3, <1>4 DEF TypeOK, device, screen, fill

LEMMA CallbackKeeps ==
  ASSUME MusicInv, Callback
  PROVE  MusicInv'
<1>1. UNCHANGED <<depth, handle, fillWait, source, rampUp, looping, list, screen, fill, prog>>
  BY DEF Callback
<1>2. TypeOK'
  <2>1. ring' \in [Streams -> 0..Capacity]
    <3>1. handle \in Streams /\ ring[handle] \in 0..Capacity
      BY DEF MusicInv, TypeOK, Callback
    <3>2. ring[handle] - 1 \in 0..Capacity
      BY <3>1, BoundsAssumption DEF Callback
    <3> QED
      BY <3>1, <3>2 DEF MusicInv, TypeOK, Callback
  <2> QED
    BY <1>1, <2>1 DEF MusicInv, TypeOK, list, screen, fill
<1>3. LoopAt'
  BY <1>1, LoopStays DEF fill
<1>4. MainAt'
  BY <1>1, MainStays DEF fill, Heard, screen, list
<1> QED
  BY <1>1, <1>2, <1>3, <1>4 DEF MusicInv, Exclusive

--------------------------------------------------------------------------
(* The invariant, and what it shows *)

LEMMA InitMusic == Init => MusicInv
<1> SUFFICES ASSUME Init PROVE MusicInv
  OBVIOUS
<1>1. prog["main"] = << >> /\ prog["loop"] = <<"turn">>
  BY DEF Init, Threads
<1>2. <<"turn">> \in Turns /\ <<"turn">> \in Seq(Steps) /\ << >> \in None0
  <2>1. "turn" \in Steps
    BY DEF Steps
  <2> QED
    BY <2>1, Last DEF Turns, None0
<1>3. TypeOK
  <2>1. prog \in [Threads -> Seq(Steps)]
    <3>1. << >> \in Seq(Steps)
      OBVIOUS
    <3> QED
      BY <1>2, <3>1 DEF Init
  <2>2. source \in -1..MaxPiece /\ left \in 0..(RampUp + 1)
    BY BoundsAssumption DEF Init, NoMusic
  <2>3. /\ depth \in [Threads -> 0..2] /\ handle \in Streams \cup {Nil}
        /\ fillWait \in [Streams -> BOOLEAN] /\ ring \in [Streams -> 0..Capacity]
        /\ movie \in 0..MaxMovies /\ frames \in 0..MaxFrames
    BY BoundsAssumption DEF Init, Streams, Music
  <2> QED
    BY <2>1, <2>2, <2>3 DEF Init, TypeOK
<1>4. LoopAt /\ Exclusive
  BY <1>1, <1>2 DEF Init, LoopAt, Exclusive, Threads
<1>5. MainAt
  BY <1>1, <1>2 DEF Init, MainAt, Heard, Played, Threads
<1> QED
  BY <1>3, <1>4, <1>5 DEF MusicInv

LEMMA NextMusic ==
  ASSUME MusicInv, [Next]_vars, "piece" \notin Missing
  PROVE  MusicInv'
<1> TypeOK /\ "main" \in Threads /\ "loop" \in Threads
  BY DEF MusicInv, Threads
<1>1. CASE LoopStep
  <2>1. TypeOK'
    BY <1>1, MutexTypes, StreamTypes, LoadTypes, LoopTypes DEF LoopStep, Step
  <2> QED
    BY <1>1, <2>1, LoopStepKeeps DEF MusicInv
<1>2. CASE MainStep \/ MainOrder
  <2>1. TypeOK'
    BY <1>2, MutexTypes, StreamTypes, LoadTypes, EndTypes, ShowTypes, OrderTypes DEF MainStep, Step
  <2> QED
    BY <1>2, <2>1, MainStepKeeps DEF MusicInv
<1>3. CASE Callback
  BY <1>3, CallbackKeeps
<1>4. CASE UNCHANGED vars
  <2>1. TypeOK'
    BY <1>4 DEF TypeOK, vars, device, list, screen, fill
  <2>2. LoopAt'
    BY <1>4, LoopStays DEF vars, fill
  <2>3. MainAt'
    BY <1>4, MainStays DEF vars, fill, device, list, screen, Heard
  <2> QED
    BY <1>4, <2>1, <2>2, <2>3 DEF MusicInv, Exclusive, vars
<1> QED
  BY <1>1, <1>2, <1>3, <1>4 DEF Next

LEMMA MusicInvHolds ==
  ASSUME "piece" \notin Missing
  PROVE  Spec => []MusicInv
<1>1. MusicInv /\ [Next]_vars => MusicInv'
  BY NextMusic
<1> QED
  BY <1>1, InitMusic, PTL DEF Spec

\* The variables of the music keep their types: above all the mutex is held at
\* most twice, by MusicLoop::Loop and the Load it calls, and what is counted
\* down never gets below nothing.
THEOREM TypeCorrect ==
  ASSUME "piece" \notin Missing
  PROVE  Spec => []TypeOK
BY MusicInvHolds, PTL DEF MusicInv

\* The mutex keeps the threads apart, however often one of them holds it.
THEOREM MutexExcludes ==
  ASSUME "piece" \notin Missing
  PROVE  Spec => []Exclusive
BY MusicInvHolds, PTL DEF MusicInv

\* What is loaded is hooked to the speaker and may wait for room, whenever
\* nobody is in the middle of a call (MusicLoop.cpp, SDLAudio.cpp).
THEOREM LoadedAlwaysHooked ==
  ASSUME "piece" \notin Missing
  PROVE  Spec => []LoadedMeansHooked
<1>1. MusicInv => LoadedMeansHooked
  BY IdleIs DEF LoadedMeansHooked, Quiet, Heard
<1> QED
  BY <1>1, MusicInvHolds, PTL

\* A playlist that takes itself to be playing has music (MUSImporter.cpp).
THEOREM PlayingAlwaysHasMusic ==
  ASSUME "piece" \notin Missing
  PROVE  Spec => []PlayingHasMusic
<1>1. MusicInv => PlayingHasMusic
  BY IdleIs DEF PlayingHasMusic, Quiet, Played
<1> QED
  BY <1>1, MusicInvHolds, PTL

\* Load, by whichever thread, replaces a piece only when all of it has been
\* read (MusicLoop.cpp:39).
THEOREM NothingCut ==
  ASSUME "piece" \notin Missing
  PROVE  Spec => NoHardCuts
<1> DEFINE Uncut == source' # source /\ source' # NoMusic => source' = source - 1 \/ source <= 0
<1>1. ASSUME MusicInv, Next PROVE Uncut
  <2> TypeOK
    BY <1>1 DEF MusicInv
  <2>1. ASSUME NEW t \in Threads, Fill(t) PROVE Uncut
    BY <2>1 DEF Fill
  <2>2. ASSUME NEW t \in Threads, NewSource(t) PROVE Uncut
    <3>1. Inside(t)
      BY <1>1, <2>2, LoopAhead, MainAhead DEF MusicInv, NewSource, At, Ahead, Threads
    <3> QED
      BY <2>2, <3>1, InsideLoad
  <2>3. ASSUME NEW t \in Threads, DropSource(t) PROVE Uncut
    BY <2>3 DEF DropSource
  <2>4. ASSUME NEW t \in Threads, Step(t) PROVE Uncut
    <3>1. CASE \/ Lock(t) \/ Unlock(t) \/ Feed(t) \/ Reclaim(t) \/ Hook(t) \/ Refuse(t)
               \/ Unhook(t) \/ Drain(t) \/ DrainEnd(t)
               \/ PlayMusic(t) \/ Start(t) \/ Started(t) \/ OpenPlaylist(t)
      BY <3>1 DEF Lock, Unlock, Feed, Reclaim, Hook, Refuse, Unhook, Drain, DrainEnd, PlayMusic,
                  Start, Started, OpenPlaylist
    <3> QED
      BY <2>1, <2>2, <2>3, <2>4, <3>1 DEF Step
  <2>5. CASE \/ Turn \/ LookNothing \/ Look \/ Ramped \/ Onward \/ Restock
             \/ PlayNext \/ Advance \/ Forget
    BY <2>5 DEF Turn, LookNothing, Look, Ramped, Onward, Restock, PlayNext, Advance, Forget
  <2>6. CASE \/ End \/ EndList \/ Ended \/ Switched
             \/ CreateMovie \/ MovieMissing \/ ReplaceMovie \/ Frame \/ MovieEnd
             \/ QuitLoop \/ Join \/ MainOrder
    BY <2>6 DEF End, EndList, Ended, Switched, CreateMovie, MovieMissing, ReplaceMovie,
           Frame, MovieEnd, QuitLoop, Join, MainOrder, SwitchPlayList, OrderEnd, PlayMovie, Quit
  <2>7. CASE Callback
    BY <2>7 DEF Callback
  <2> QED
    BY <1>1, <2>4, <2>5, <2>6, <2>7 DEF Next, LoopStep, MainStep, Threads
<1>2. MusicInv /\ [Next]_vars => [Uncut]_vars
  BY <1>1
<1> QED
  BY <1>2, MusicInvHolds, PTL DEF Spec, NoHardCuts
=============================================================================
