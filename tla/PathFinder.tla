----------------------------- MODULE PathFinder -----------------------------
(***************************************************************************)
(* PathSearch with the queue that FindPath uses, BucketPriorityQueue: the  *)
(* search decides what is pushed, the queue what is popped.                *)
(***************************************************************************)
EXTENDS PathSearch, BucketQueue

VARIABLE queue

fvars == <<vars, queue>>

FInit == Init /\ queue = EmptyQueue

Popping == phase = "search" /\ queue.count > 0
Next1 == PopPoint(queue)

\* IsEmpty is of the queue's own count.
FExhausted == queue.count <= 0 /\ Exhausted /\ UNCHANGED queue

FBegin == Begin /\ queue' = Pushed(Cleared(queue), Entry(source, 0))

FPop ==
  /\ Popping
  /\ Drop(Next1) \/ Reach(Next1) \/ Expand(Next1)
  /\ queue' = Popped(queue)

FPush ==
  /\ Straight \/ Around
  /\ queue' = IF pushes' = pushes THEN queue
              ELSE Pushed(queue, CHOOSE e \in open' : e.nr = pushes)

FStep ==
  \/ FBegin \/ FPop \/ FPush \/ FExhausted
  \/ (Adjust \/ Refuse \/ Skip \/ Expanded \/ Trace \/ Traced \/ AskAgain)
     /\ UNCHANGED queue

FSpec == FInit /\ [][FStep]_fvars
FairSpec == FSpec /\ WF_fvars(FStep)

\* The buckets hold what has been pushed and not popped, each once, although
\* they are stretches of one array without ends.
QueueHolds ==
  phase \in {"search", "expand", "found"} =>
    /\ Content(queue) = open
    /\ queue.count = Cardinality(open)

\* "choosing the cheapest Point from the pathfinder's set of 'open' nodes"
\* (BucketPriorityQueue.h:16): what a step takes from the queue is no dearer than what it leaves.
PopsCheapest ==
  [][\A e \in open \ open' : phase = "search" => \A f \in open' : e.cost <= f.cost]_fvars

\* Every call comes to its end, although a cell may be expanded again and its
\* distance may grow.
SearchEnds == (phase = "asked") ~> Ended
=============================================================================
