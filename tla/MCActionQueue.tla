--------------------------- MODULE MCActionQueue ---------------------------
(* Scripts, orders and cutscenes for the runs of ActionQueue. *)
EXTENDS ActionQueue, TLC

CONSTANTS a1, a2, area

Act(n, k) == [kind |-> k, on |-> None, at |-> None, override |-> FALSE, id |-> n]
About(a, t) == [a EXCEPT !.at = t]
For(a, t) == [a EXCEPT !.on = t]

\* One block of one response.
Only(response) == {response}

\* a1 tells a2 what to do and clears its plan; a2 answers in kind, holds off
\* interruption for a while, flees, and has a second script that its first
\* one interrupts.
DuelScripts ==
  (a1 :> << << Only(<<For(Act(1, "wait"), a2), Act(2, "click"), Act(10, "point")>>),
               Only(<<About(Act(3, "clear"), a2)>>) >> >>)
  @@ (a2 :> << << Only(<<Act(4, "hold"), For(Act(5, "face"), a1), Act(11, "free")>>) >>,
               << Only(<<Act(6, "flee")>>),
                  {<<Act(7, "wait"), Act(8, "point")>>, <<Act(9, "point")>>} >> >>)

\* iwd2: responses that continue, instants, and dialogs.
TalkScripts ==
  (a1 :> << << Only(<<Act(1, "point"), Act(2, "hold"), Act(3, "continue")>>),
               Only(<<Act(4, "talk"), Act(5, "free")>>) >>,
            << Only(<<For(Act(6, "hold"), a2), Act(7, "continue")>>) >> >>)
  @@ (a2 :> << << Only(<<Act(8, "spell"), For(Act(9, "face"), a1)>>),
                  Only(<<For(Act(10, "spell"), a1)>>) >> >>)

\* An area, which is the game as well, and an actor: cutscenes on both.
PlaceScripts ==
  (area :> << << Only(<<Act(1, "clearAll")>>),
                 Only(<<For(Act(2, "escape"), a1), Act(3, "wait")>>) >> >>)
  @@ (a1 :> << << Only(<<Act(4, "hold"), Act(5, "clear"), Act(6, "free")>>),
                  Only(<<Act(7, "clearAll"), Act(8, "flee")>>) >> >>)
PlaceScenes == {<<Act(0, "point"), Act(0, "wait")>>}
TalkScenes == {<<Act(0, "wait")>>}

\* The hypotheses of the theorems of ActionQueueProofs, of these scripts: the
\* script of iwd2 is the one in which nobody clears the plan of another.
ASSUME ScriptsOwnTheirObjects == OwnObjects
ASSUME TalkersAreHarmless == Rules = "iwd2" => NobodyClearsOthers

Walk == {Act(0, "wait")}
Nothing == {}
=============================================================================
