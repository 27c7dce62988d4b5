----------------------------- MODULE WorldSaves -----------------------------
(***************************************************************************)
(* What saving promises: the world that is played, and the saved worlds.   *)
(* A saved world is the one that was being played when it was kept, and it *)
(* stays as it is until it is lost, by deleting or replacing it.           *)
(***************************************************************************)
EXTENDS Naturals

CONSTANTS Areas, Slots, None, MaxVersion

VARIABLES world, saves

New == [a \in Areas |-> 0]

Init == world = None /\ saves = [s \in Slots |-> None]

Start == world = None /\ world' = New /\ UNCHANGED saves

Change(a) ==
  /\ world # None
  /\ \E v \in 1..MaxVersion : world' = [world EXCEPT ![a] = v]
  /\ UNCHANGED saves

Keep(s) ==
  /\ world # None /\ saves[s] = None /\ saves'[s] # None
  /\ saves' = [saves EXCEPT ![s] = world]
  /\ UNCHANGED world

Load(s) == saves[s] # None /\ world' = saves[s] /\ UNCHANGED saves

\* The program may end while it deletes a save.
Lose(s) ==
  /\ saves[s] # None /\ saves'[s] = None
  /\ saves' = [saves EXCEPT ![s] = None]
  /\ world' \in {world, None}

End == world' = None /\ UNCHANGED saves

Next ==
  \/ Start \/ End
  \/ \E a \in Areas : Change(a)
  \/ \E s \in Slots : Keep(s) \/ Load(s) \/ Lose(s)

Spec == Init /\ [][Next]_<<world, saves>>
=============================================================================
