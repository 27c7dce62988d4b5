---------------------------- MODULE ActionQueue ----------------------------
(***************************************************************************)
(* The script engine's frame: every scriptable in its turn runs its        *)
(* scripts (Scriptable::TickScripting, ExecuteScript, GameScript::Update,  *)
(* Response::Execute), which add actions to its plan or cut it, and then   *)
(* carries its plan out (ProcessActions, GameScript::ExecuteAction), which *)
(* may change the plans of the others.  Between two turns the player and   *)
(* the cutscenes of StartCutScene change plans too.                        *)
(*                                                                         *)
(* One step of the model is one turn of a loop of the code: a block looked *)
(* at, an action added, an action executed.                                *)
(***************************************************************************)
EXTENDS ScriptablePlan, FiniteSets

CONSTANTS
  Scripts,   \* [Scriptables -> levels of blocks of responses of actions]
  Orders,    \* the actions a player may order an actor to take
  Scenes,    \* the responses a cutscene may play on somebody
  MaxQueue   \* bound: no response is started that would exceed this length

\* A script level is a sequence of blocks, a block the set of the responses
\* the random choice of ResponseSet::Execute can fall on.
Responses == Seq(Action)
ASSUME ScriptsAssumption == Scripts \in [Scriptables -> Seq(Seq(SUBSET Responses))]
ASSUME OrdersAssumption  == Orders \subseteq Action
ASSUME ScenesAssumption  == Scenes \subseteq Responses
ASSUME MaxQueueAssumption == MaxQueue \in Nat

VARIABLES
  scr,         \* the plan of every scriptable
  phase,       \* where the frame is, see Phases
  who,         \* whose turn it is
  level,       \* ExecuteScript's scriptLevel, from 1
  block,       \* GameScript::Update's index, from 1
  continuing,  \* ExecuteScript's continuing
  todo,        \* the actions Response::Execute has still to hand out
  last         \* lastResponseBlock of every script, 0 for none

vars == <<scr, phase, who, level, block, continuing, todo, last>>
turn == <<who, level, block, continuing, todo, last>>

\* frame: between two turns       scripts: looking for a block
\* respond: handing out its response        stage: the same for a cutscene
\* ready: scripts done            actions: in the loop of ProcessActions
\* aborted: error() has ended the program
Phases == {"frame", "scripts", "respond", "stage", "ready", "actions",
           "aborted"}

Init ==
  /\ scr = [s \in Scriptables |-> NewScriptable(s)]
  /\ phase = "frame"
  /\ who \in Scriptables
  /\ level = 1 /\ block = 1 /\ continuing = FALSE /\ todo = <<>>
  /\ last = [s \in Scriptables |-> [l \in 1..Len(Scripts[s]) |-> 0]]

--------------------------------------------------------------------------
(* Effects on the world: w is the plan of every scriptable. *)

HasRoom(w, s) == Len(w[s].queue) < MaxQueue

\* The ActionOverride branch of ExecuteAction: the sender is done with it,
\* and the target has it unless it is not there, asleep or dead.
HandedOver(w, s, a, how) ==
  LET freed == [w EXCEPT ![s] = Release(@)]
  IN  IF how = "fails" \/ ~HasRoom(freed, a.on) THEN freed
      ELSE [freed EXCEPT ![a.on] = Overridden(a.on, @, a)]

\* AddAction.  An instant that cannot run (asleep, no target) is released.
Added(w, s, a, how) ==
  IF ~RunsAtOnce(w[s], a) THEN [w EXCEPT ![s] = Queued(@, a)]
  ELSE IF a.on # None THEN HandedOver(w, s, a, how)
  ELSE [w EXCEPT ![s] = IF how = "fails" THEN Release(@)
                        ELSE SetInterrupt(@, a)]

\* ClearAllActions: all other actors, and the game unless it is the sender.
AllCleared(w, s) ==
  [t \in Scriptables |->
     IF t \in Actors \ {s} THEN ClearActions(t, w[t], 3)
     ELSE IF t = Global /\ s # Global THEN Stop(t, w[t])
     ELSE w[t]]

\* mutant: the spells are cut with the rest
PartyHeldAltogether(w) ==
  IF Rules # "iwd2" THEN w
  ELSE [t \in Scriptables |-> IF t \in Actors THEN Stop(t, w[t]) ELSE w[t]]

\* BeginDialog: only iwd2 cuts plans here, those of the party but for spells.
PartyHeld(w) ==
  IF Rules # "iwd2" THEN w
  ELSE [t \in Scriptables |-> IF t \in Actors THEN ClearActions(t, w[t], 2)
                              ELSE w[t]]

\* Whose plan the action ClearActions is about.
ClearedBy(s, a) == IF a.at = None THEN s ELSE a.at

ReleasedBy(w, s) == [w EXCEPT ![s] = Release(@)]

\* mutant: the action ClearActions does not spare what may not be interrupted
ExecutedClearsAll(w, s, a, how) ==
  IF a.on # None THEN HandedOver(w, s, a, how)
  ELSE IF how # "fails" /\ a.kind = "clear"
  THEN ReleasedBy([w EXCEPT ![ClearedBy(s, a)] = Stop(ClearedBy(s, a), @)], s)
  ELSE [w EXCEPT ![s] = Performed(s, @, a, how)]

\* ExecuteAction.
Executed(w, s, a, how) ==
  IF a.on # None THEN HandedOver(w, s, a, how)
  ELSE IF how # "fails" /\ a.kind = "clear"
  THEN ReleasedBy([w EXCEPT ![ClearedBy(s, a)] =
                     ClearActions(ClearedBy(s, a), @, 3)], s)
  ELSE IF how # "fails" /\ a.kind = "clearAll"
  THEN ReleasedBy(AllCleared(w, s), s)
  ELSE IF how # "fails" /\ a.kind = "talk"
  THEN ReleasedBy(PartyHeld(w), s)
  ELSE [w EXCEPT ![s] = Performed(s, @, a, how)]

--------------------------------------------------------------------------
(* A turn: TickScripting and ExecuteScript *)

\* The turn of s without its scripts: it is not their tick, a cutscene or a
\* dialog is on, or the engine holds them back.
BeginWithoutScripts(s) ==
  /\ phase = "frame"
  /\ phase' = "ready"
  /\ who' = s
  /\ UNCHANGED <<scr, level, block, continuing, todo, last>>

\* mutant: the action of an ActionOverride is like any other
GatedWithoutOverride(r) == (r.noint /\ Busy(r)) \/ ~r.interruptible

\* The checks of ExecuteScript that leave the plan alone.
Gated(r) ==
  \/ r.noint /\ Busy(r)
  \/ ~r.interruptible
  \/ r.current # None /\ r.current.override

BeginScripts(s) ==
  /\ phase = "frame"
  /\ ~Gated(scr[s])
  /\ phase' = "scripts"
  /\ who' = s /\ level' = 1 /\ block' = 1 /\ continuing' = FALSE
  /\ UNCHANGED <<scr, todo, last>>

\* ExecuteScript's sanity check, which is fatal.
SanityCheckFails(s) ==
  /\ phase = "frame"
  /\ ~scr[s].interruptible /\ ~Busy(scr[s])
  /\ phase' = "aborted"
  /\ who' = s
  /\ UNCHANGED <<scr, level, block, continuing, todo, last>>

Levels == Scripts[who]
Script == Levels[level]

\* No block of this level is left: the next script goes on.
NextLevel ==
  /\ phase = "scripts"
  /\ level \in DOMAIN Levels /\ block \notin DOMAIN Script
  /\ level' = level + 1 /\ block' = 1
  /\ UNCHANGED <<scr, phase, who, continuing, todo, last>>

ScriptsDone ==
  /\ phase = "scripts"
  /\ level \notin DOMAIN Levels
  /\ phase' = "ready"
  /\ UNCHANGED <<scr, turn>>

AtBlock ==
  /\ phase = "scripts"
  /\ level \in DOMAIN Levels /\ block \in DOMAIN Script

\* The block's condition does not hold.
BlockSkipped ==
  /\ AtBlock
  /\ block' = block + 1
  /\ UNCHANGED <<scr, phase, who, level, continuing, todo, last>>

\* It holds, but the plan may not be cut, or is taken for this block's own.
BlockDeclined ==
  /\ AtBlock
  /\ ~continuing /\ Busy(scr[who])
  /\ scr[who].noint \/ last[who][level] = block
  /\ phase' = "ready"
  /\ UNCHANGED <<scr, turn>>

\* mutant: the old plan is not stopped
ChosenKeepsPlan(r) == r

\* What a block that is not continued to leaves of the plan of who.
Chosen(r) == IF Busy(r) THEN Stop(who, r) ELSE r

\* It holds and its response is to be handed out.
BlockChosen ==
  /\ AtBlock
  /\ continuing \/ ~Busy(scr[who])
       \/ (~scr[who].noint /\ last[who][level] # block)
  /\ scr' = IF continuing THEN scr ELSE [scr EXCEPT ![who] = Chosen(@)]
  /\ last' = IF continuing THEN last
             ELSE [last EXCEPT ![who][level] = block]
  /\ \E response \in Script[block] :
       /\ Len(scr'[who].queue) + Len(response) <= MaxQueue
       /\ todo' = response
  /\ phase' = "respond" /\ continuing' = FALSE
  /\ UNCHANGED <<who, level, block>>

--------------------------------------------------------------------------
(* Response::Execute *)

Final(actions) == actions[Len(actions)]

\* iwd2 runs the instants of a response that ends in Continue right away.
Immediate(actions) ==
  Rules = "iwd2" /\ Final(actions).kind = "continue" /\ Instant(Head(actions))

\* The plans after the next action of the response is handed out.
HandedOut(how) ==
  IF Head(todo).kind = "continue" THEN scr
  ELSE IF Immediate(todo) THEN Executed(scr, who, Head(todo), how)
  ELSE Added(scr, who, Head(todo), how)

\* The last one of a script's response: Continue as the last action lets the
\* script look at its next blocks, anything else ends all scripts.
Respond ==
  /\ phase = "respond"
  /\ todo # <<>>
  /\ \E how \in Outcomes : scr' = HandedOut(how)
  /\ todo' = Tail(todo)
  /\ continuing' = (Head(todo).kind = "continue")
  /\ UNCHANGED <<phase, who, level, block, last>>

RespondEnd ==
  /\ phase = "respond"
  /\ todo = <<>>
  /\ IF continuing THEN phase' = "scripts" /\ block' = block + 1
     ELSE phase' = "ready" /\ UNCHANGED block
  /\ UNCHANGED <<scr, who, level, continuing, todo, last>>

--------------------------------------------------------------------------
(* ProcessActions *)

\* mutant: the wait is counted down past its end
WaitedOn(r) == [r EXCEPT !.wait = @ - 1]

Waited(r) == IF r.wait > 0 THEN WaitedOn(r) ELSE r

\* The wait of SetWait is counted down first.
StartActions ==
  /\ phase = "ready"
  /\ phase' = IF scr[who].wait > 1 THEN "frame" ELSE "actions"
  /\ scr' = [scr EXCEPT ![who] = Waited(@)]
  /\ UNCHANGED turn

\* Nothing left to do: everything is reset, and an actor's lock is lifted.
PlanEmpty ==
  /\ phase = "actions"
  /\ ~Busy(scr[who])
  /\ scr' = [scr EXCEPT ![who] =
               ClearActions(who, [@ EXCEPT !.interruptible = TRUE], 4)]
  /\ phase' = "frame"
  /\ UNCHANGED turn

\* The running action, or the next one of the queue, about to be executed.
Started(r) ==
  IF r.current # None
  THEN [r EXCEPT !.interruptible = TRUE,
                 !.ticks = IF @ < MaxTicks THEN @ + 1 ELSE @]
  ELSE [r EXCEPT !.interruptible = TRUE,
                 !.current = Head(r.queue), !.queue = Tail(r.queue)]

\* The loop ends with a wait, an action that still runs, a movement or a
\* fade to black; otherwise it takes the next action.
ProcessAction ==
  /\ phase = "actions"
  /\ Busy(scr[who])
  /\ LET w == [scr EXCEPT ![who] = Started(@)]
     IN  \E how \in Outcomes : scr' = Executed(w, who, w[who].current, how)
  /\ phase' \in IF scr'[who].wait > 0 \/ scr'[who].current # None
                THEN {"frame"} ELSE {"frame", "actions"}
  /\ UNCHANGED turn

--------------------------------------------------------------------------
(* From outside: the player, StartCutScene *)

\* GameControl stops an actor before it gives it an order, which a spell it
\* may not cast does not become.
Order(s, a) ==
  /\ phase = "frame"
  /\ s \in Actors
  /\ \/ scr' = [scr EXCEPT ![s] = Given(Stop(s, @), a)]
     \/ scr' = [scr EXCEPT ![s] = Stop(s, @)]
  /\ UNCHANGED <<phase, turn>>

SceneAction(kind) == [LastStep EXCEPT !.kind = kind]

\* EvaluateAllBlocks: the response goes to the target of its first action,
\* between SetInterrupt(FALSE) and SetInterrupt(TRUE) unless it is an actor.
SceneBegin(s, response) ==
  /\ phase = "frame"
  /\ Len(scr[s].queue) + Len(response) + 2 <= MaxQueue
  /\ todo' = IF s \in Actors THEN response
             ELSE <<SceneAction("hold")>> \o response \o <<SceneAction("free")>>
  /\ phase' = "stage"
  /\ who' = s
  /\ UNCHANGED <<scr, level, block, continuing, last>>

SceneAdd ==
  /\ phase = "stage"
  /\ todo # <<>>
  /\ \E how \in Outcomes : scr' = HandedOut(how)
  /\ todo' = Tail(todo)
  /\ UNCHANGED <<phase, who, level, block, continuing, last>>

SceneEnd ==
  /\ phase = "stage"
  /\ todo = <<>>
  /\ scr' = [scr EXCEPT ![who] = Release(@)]
  /\ phase' = "frame"
  /\ UNCHANGED turn

--------------------------------------------------------------------------
Begin(s) == BeginWithoutScripts(s) \/ BeginScripts(s) \/ SanityCheckFails(s)

\* The rest of a turn that has begun, or of a cutscene that is being handed
\* out.
Proceed ==
  \/ NextLevel \/ ScriptsDone \/ BlockSkipped \/ BlockDeclined \/ BlockChosen
  \/ Respond \/ RespondEnd
  \/ StartActions \/ PlanEmpty \/ ProcessAction
  \/ SceneAdd \/ SceneEnd

Outside ==
  \/ \E s \in Actors, a \in Orders : Order(s, a)
  \/ \E s \in Scriptables, response \in Scenes : SceneBegin(s, response)

Next == (\E s \in Scriptables : Begin(s)) \/ Proceed \/ Outside

Spec == Init /\ [][Next]_vars

\* The game calls the update of every scriptable once a frame, over and over,
\* and finishes every turn it begins.
Fairness ==
  /\ WF_vars(Proceed)
  /\ \A s \in Scriptables : SF_vars(Begin(s))

FairSpec == Spec /\ Fairness

--------------------------------------------------------------------------
(* Properties *)

TypeOK ==
  /\ scr \in [Scriptables -> Scriptable]
  /\ phase \in Phases
  /\ who \in Scriptables
  /\ level \in Nat \ {0} /\ block \in Nat \ {0}
  /\ continuing \in BOOLEAN
  /\ todo \in Responses
  /\ last \in [Scriptables -> Seq(Nat)]

\* The assert of ProcessActions (Scriptable.cpp:495): whoever runs no action
\* has neither a countdown nor a frame count left over from the last one, so
\* that the next action starts from its beginning.
FreshWhenIdle ==
  \A s \in Scriptables :
    scr[s].current = None => scr[s].state = 0 /\ scr[s].ticks = 0

\* A response is handed out only to who has stopped what it was doing:
\* nothing that was running when the block was chosen runs on, and no instant
\* of iwd2 releases an action it does not belong to.
RespondsFreely == phase = "respond" => scr[who].current = None

Plan(r) == (IF r.current = None THEN <<>> ELSE <<r.current>>) \o r.queue

Precedes(s, a, b) ==
  \E l \in DOMAIN Scripts[s] : \E n \in DOMAIN Scripts[s][l] :
    \E response \in Scripts[s][l][n] : \E i, j \in DOMAIN response :
      i < j /\ response[i] = a /\ response[j] = b

\* Whatever stops, clears, overrides, clicks and cutscenes have done to a
\* plan, the actions of one response that are in it are still in the order of
\* the script, and none is in it twice: a block that is running is not started
\* again on top of itself (GameScript.cpp:19).
PlanInOrder ==
  \A s \in Scriptables : LET p == Plan(scr[s]) IN
    \A i, j \in DOMAIN p :
      i < j /\ p[i].id # 0 /\ p[j].id # 0
        => p[i] # p[j] /\ ~Precedes(s, p[j], p[i])

\* Every action of the scripts of a scriptable is an object of its own, which
\* orders and cutscenes do not share.
OwnObjects ==
  /\ \A s \in Scriptables : \A l, m \in DOMAIN Scripts[s] :
       \A n \in DOMAIN Scripts[s][l], o \in DOMAIN Scripts[s][m] :
         \A p \in Scripts[s][l][n], q \in Scripts[s][m][o] :
           \A i \in DOMAIN p, j \in DOMAIN q :
             p[i].id # 0 /\ p[i] = q[j] => l = m /\ n = o /\ p = q /\ i = j
  /\ \A a \in Orders : a.id = 0
  /\ \A p \in Scenes : \A i \in DOMAIN p : p[i].id = 0

Protected(r) ==
  \/ r.noint /\ Busy(r)
  \/ ~r.interruptible
  \/ r.current # None /\ r.current.override

\* "don't abort" (Scriptable.cpp:260-272): however the turn went so far, with
\* responses continued and instants run, looking for a block never touches
\* the plan of who is locked, casting, or doing what somebody told it to.
ScriptsSpareProtected ==
  [][phase = "scripts" /\ Protected(scr[who]) => scr' = scr]_vars

\* The action about to be executed is of this kind, for the sender itself.
Executes(kinds) ==
  /\ phase = "actions" /\ Busy(scr[who])
  /\ LET a == Started(scr[who]).current IN a.on = None /\ a.kind \in kinds

\* "leaving the current action intact if it is non-interruptible"
\* (Actions.cpp:3621): the action functions ClearActions and ClearAllActions
\* never take from somebody else an action that may not be interrupted, nor
\* its countdown.
ClearSparesUninterruptible ==
  [][Executes({"clear", "clearAll"}) =>
       \A t \in Actors \ {who} : ~scr[t].interruptible =>
         /\ scr'[t].current = scr[t].current
         /\ scr'[t].state = scr[t].state]_vars

\* "it specifically preserves spell actions" (GSUtils.cpp:1302): a dialog
\* that begins in iwd2 takes the running spell of no other party member.
DialogSparesSpells ==
  [][Executes({"talk"}) =>
       \A t \in Actors \ {who} :
         scr[t].current # None /\ scr[t].current.kind = "spell" =>
           scr'[t].current = scr[t].current]_vars

\* "expect it to clear only the previous actions, not the whole queue"
\* (Scriptable.cpp:421): in pst a scriptable that clears its own actions goes
\* on with those that follow, locked by a cutscene or not.
PstClearKeepsTheRest ==
  [][(/\ Rules = "pst" /\ Executes({"clear"})
      /\ ClearedBy(who, Started(scr[who]).current) = who) =>
        scr'[who].queue = Started(scr[who]).queue]_vars

\* The sanity check of ExecuteScript (Scriptable.cpp:264) never ends the
\* program: who may not be interrupted has something not to be interrupted.
NeverAborted == phase # "aborted"

\* An action that cuts nobody else's plan but by handing it an action.
Harmless(a) == a.kind # "clearAll" /\ (a.kind = "clear" => a.at = None)

\* Nobody clears the actions of somebody else.
NobodyClearsOthers ==
  /\ \A s \in Scriptables : \A l \in DOMAIN Scripts[s] : \A n \in DOMAIN Scripts[s][l] :
       \A p \in Scripts[s][l][n] : \A i \in DOMAIN p : Harmless(p[i])
  /\ \A a \in Orders : Harmless(a)
  /\ \A p \in Scenes : \A i \in DOMAIN p : Harmless(p[i])

\* An action that counts down its time comes to its end, however its owner
\* is overridden and interrupted meanwhile, unless the program has been ended
\* by its sanity check.
ActionsEnd ==
  \A s \in Scriptables :
    LET Counting == scr[s].current # None /\ scr[s].current.kind \in {"wait", "flee", "face"}
    IN  Counting ~> (~Counting \/ phase = "aborted")

\* The lock of SetInterrupt, which keeps an actor's own scripts out, does not
\* hold a plan for ever: the plan runs out, or the lock is lifted, even if the
\* action that was to lift it has been cut from the plan or has failed.
LocksLifted ==
  \A s \in Actors : scr[s].noint ~> (~scr[s].noint \/ ~Busy(scr[s]) \/ phase = "aborted")
=============================================================================
