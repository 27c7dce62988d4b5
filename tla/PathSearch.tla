----------------------------- MODULE PathSearch -----------------------------
(***************************************************************************)
(* Map::FindPath of core/PathFinder.cpp: a path from one cell of the       *)
(* search map to another.  The search is Theta*: a cell's parent need not  *)
(* be next to it, if one can walk there in a straight line.  Here the next *)
(* cell to look at is any open one, so that what is proved of the search   *)
(* does not depend on the queue; PathFinder takes the one that             *)
(* BucketPriorityQueue returns.                                            *)
(***************************************************************************)
EXTENDS Integers, Sequences, FiniteSets

CONSTANTS
  Cells,              \* of the search map
  Degrees,            \* DEGREES_OF_FREEDOM
  Child(_, _),        \* the cell next to one, in a direction
  Line(_, _),         \* the cells of the straight line between two, but for the first
  Distance(_, _),     \* in cells, rounded down
  Cost(_, _, _, _),   \* for the queue: from distance, cell, source and goal
  Lands,              \* maps: the kind of every cell
  Asked(_, _),        \* bound: what may be asked for after a source and a goal
  Reaches,            \* minDistance, in cells
  Zeros,              \* which cell, if any, is the point (0, 0)
  MaxCalls,           \* bound: how often a path is asked for
  None

\* What the search map (floor, rock, side: a wall, actor) and the
\* traversability cache (nobody, bumpable, rooted) say of a cell.
Kinds == {"floor", "rock", "side", "bumpable", "rooted", "unmarked"}

ASSUME SearchAssumption ==
  /\ Degrees \in Nat /\ None \notin Cells \cup Nat /\ MaxCalls \in Nat
  /\ Lands \subseteq [Cells -> Kinds] /\ Reaches \subseteq Nat
  /\ Zeros \subseteq Cells \cup {None}

ASSUME GridAssumption ==
  \A c, d \in Cells :
    /\ Distance(c, d) \in Nat /\ Line(c, d) \subseteq Cells
    /\ Asked(c, d) \subseteq Cells \X Cells

VARIABLES
  land,
  source, aim, reach, blocking, zero,   \* the arguments: s, d, minDistance, flags
  goal,       \* smptDest
  phase,      \* asked, placed, search, expand, found, done, failed, refused
  closed,     \* isClosed
  parent,     \* parents
  dist,       \* distFromStart; None is the largest value
  open,       \* entries of the queue, told apart by when they were pushed
  pushes,
  current,    \* smptCurrent
  i,          \* the direction it looks in
  path,       \* resultPath
  calls

request == <<land, source, aim, reach, blocking, zero>>
tree == <<closed, parent, dist>>
vars == <<request, goal, phase, tree, open, pushes, current, i, path, calls>>

Init ==
  /\ land \in Lands /\ source \in Cells /\ aim \in Cells
  /\ reach \in Reaches /\ blocking \in BOOLEAN /\ zero \in Zeros
  /\ goal = aim /\ phase = "asked" /\ closed = {}
  /\ parent = [c \in Cells |-> None] /\ dist = [c \in Cells |-> None]
  /\ open = {} /\ pushes = 0 /\ current = source /\ i = 1 /\ path = <<>>
  /\ calls = 1

--------------------------------------------------------------------------
(* The map *)

Passable(c) == land[c] \in {"floor", "unmarked"}
HasActor(c) == land[c] \in {"bumpable", "rooted"}

\* childIsUnbumpable, of an actor that is not the caller.
Unbumpable(c) == land[c] \in {"rooted", "unmarked"} \/ (blocking /\ land[c] = "bumpable")

\* Neither childBlocked nor childIsUnbumpable.
Free(c) == (Passable(c) \/ HasActor(c)) /\ ~Unbumpable(c)

\* IsWalkableTo: rock ends it; what the cells have in common is collected, and
\* an actor or a wall among them takes the mark of passable ground away, but
\* an actor's own mark will do if actors may be bumped.
Walkable(p, c) ==
  /\ \A d \in Line(p, c) : land[d] # "rock"
  /\ \/ \A d \in Line(p, c) : Passable(d)
     \/ ~blocking /\ \E d \in Line(p, c) : HasActor(d)

\* IsVisibleLOS: only walls stop it.
Visible(p, c) == \A d \in Line(p, c) : land[d] # "side"

--------------------------------------------------------------------------
(* The call *)

\* A target that is not free ground is moved to some that is, if there is any.
Adjust ==
  /\ phase = "asked"
  /\ LET ground == {c \in Cells : Passable(c)}
     IN  IF Passable(aim) \/ ground = {} THEN goal' = aim ELSE goal' \in ground
  /\ phase' = "placed"
  /\ UNCHANGED <<request, tree, open, pushes, current, i, path, calls>>

\* No path: one is there, or does not fit there.
Refuse ==
  /\ phase = "placed"
  /\ goal = source \/ (reach = 0 /\ ~Passable(goal) /\ ~HasActor(goal))
  /\ phase' = "refused"
  /\ UNCHANGED <<request, goal, tree, open, pushes, current, i, path, calls>>

Entry(c, cost) == [cell |-> c, cost |-> cost, nr |-> pushes]

\* The storage of the call before is wiped.  Source and goal may be two points
\* of one cell.
Begin ==
  /\ phase = "placed"
  /\ reach > 0 \/ Passable(goal) \/ HasActor(goal)
  /\ closed' = {}
  /\ parent' = [c \in Cells |-> IF c = source THEN source ELSE None]
  /\ dist' = [c \in Cells |-> IF c = source THEN 0 ELSE None]
  /\ open' = {Entry(source, 0)} /\ pushes' = pushes + 1
  /\ path' = <<>>
  /\ phase' = "search"
  /\ UNCHANGED <<request, goal, current, i, calls>>

\* An open cell whose parent has the point (0, 0), which stands for no parent.
Drop(e) ==
  /\ phase = "search" /\ e \in open
  /\ parent[e.cell] = zero
  /\ open' = open \ {e}
  /\ UNCHANGED <<request, goal, phase, tree, pushes, current, i, path, calls>>

\* Close enough, and the target in sight.
Near(c) ==
  /\ reach > 0 /\ parent[c] # c
  /\ Distance(c, goal) < reach /\ Visible(c, aim)

Reach(e) ==
  /\ phase = "search" /\ e \in open
  /\ parent[e.cell] # zero
  /\ e.cell = goal \/ Near(e.cell)
  /\ open' = open \ {e}
  /\ goal' = e.cell /\ current' = e.cell
  /\ phase' = "found"
  /\ UNCHANGED <<request, tree, pushes, i, path, calls>>

\* A cell may be looked at again: the queue may have it more than once.
Expand(e) ==
  /\ phase = "search" /\ e \in open
  /\ parent[e.cell] # zero
  /\ e.cell # goal /\ ~Near(e.cell)
  /\ open' = open \ {e}
  /\ closed' = closed \cup {e.cell}
  /\ current' = e.cell /\ i' = 1
  /\ phase' = "expand"
  /\ UNCHANGED <<request, goal, parent, dist, pushes, path, calls>>

Exhausted ==
  /\ phase = "search" /\ open = {}
  /\ phase' = "failed"
  /\ UNCHANGED <<request, goal, tree, open, pushes, current, i, path, calls>>

--------------------------------------------------------------------------
(* One neighbour of the current cell *)

Closer(new, old) == old # None => new < old

\* The way through v, and the neighbours in which it may lead.
Through(v, c) == dist[v] + Distance(v, c)
Visited(c) == {j \in 1..Degrees : Child(c, j) \in closed}

\* What a neighbour is and what its parent would be.
Looks == phase = "expand" /\ i <= Degrees
Open(c) == c \in Cells /\ c \notin closed /\ Free(c)

Given(c, p, d) ==
  /\ parent' = [parent EXCEPT ![c] = p]
  /\ dist' = [dist EXCEPT ![c] = d]

\* open' and pushes' for a cell whose distance is now d.
Queued(c, d) ==
  /\ open' = open \cup {Entry(c, Cost(d, c, source, goal))}
  /\ pushes' = pushes + 1
NotQueued == UNCHANGED <<open, pushes>>

Looked ==
  /\ i' = i + 1
  /\ UNCHANGED <<request, goal, phase, closed, current, path, calls>>

\* mutant: the next direction is not taken
SkipStays ==
  /\ Looks
  /\ LET c == Child(current, i)
     IN  Open(c) => ~Closer(Through(parent[current], c), dist[c])
  /\ i' = i
  /\ UNCHANGED <<request, goal, phase, closed, current, path, calls, parent, dist>> /\ NotQueued

\* Outside, closed, blocked, or known by a shorter way.
Skip ==
  /\ Looks
  /\ LET c == Child(current, i)
     IN  Open(c) => ~Closer(Through(parent[current], c), dist[c])
  /\ Looked
  /\ UNCHANGED <<parent, dist>> /\ NotQueued

\* mutant: whether one can walk there is not asked
StraightBlind ==
  LET c == Child(current, i)
      p == parent[current]
  IN  /\ Looks /\ Open(c)
      /\ Closer(Through(p, c), dist[c])
      /\ Given(c, p, Through(p, c))
      /\ Queued(c, Through(p, c))
      /\ Looked

\* "Lazy Theta star": from the current cell's parent.
Straight ==
  LET c == Child(current, i)
      p == parent[current]
  IN  /\ Looks /\ Open(c)
      /\ Closer(Through(p, c), dist[c])
      /\ Walkable(p, c)
      /\ Given(c, p, Through(p, c))
      /\ Queued(c, Through(p, c))
      /\ Looked

\* mutant: it is forgotten in the queue
AroundUnqueued ==
  LET c == Child(current, i)
      old == dist[c]
  IN  /\ Looks /\ Open(c)
      /\ Closer(Through(parent[current], c), old)
      /\ ~Walkable(parent[current], c)
      /\ \E j \in Visited(c) :
           LET v == Child(c, j)
           IN  /\ \A k \in Visited(c) : Through(v, c) <= Through(Child(c, k), c)
               /\ \A k \in Visited(c) :
                    k < j => Through(v, c) < Through(Child(c, k), c)
               /\ Given(c, v, Through(v, c))
               /\ NotQueued
      /\ Looked

\* "Fall back to A-star path": from the first of the nearest neighbours that
\* have been visited.  It may be further than what was known, which is lost,
\* and the cell stays in the queue as it is.
Around ==
  LET c == Child(current, i)
      old == dist[c]
  IN  /\ Looks /\ Open(c)
      /\ Closer(Through(parent[current], c), old)
      /\ ~Walkable(parent[current], c)
      /\ \E j \in Visited(c) :
           LET v == Child(c, j)
           IN  /\ \A k \in Visited(c) : Through(v, c) <= Through(Child(c, k), c)
               /\ \A k \in Visited(c) :
                    k < j => Through(v, c) < Through(Child(c, k), c)
               /\ Given(c, v, Through(v, c))
               /\ IF Closer(Through(v, c), old) THEN Queued(c, Through(v, c)) ELSE NotQueued
      /\ Looked

\* Every direction has been looked in.
Expanded ==
  /\ phase = "expand" /\ i > Degrees
  /\ phase' = "search"
  /\ UNCHANGED <<request, goal, tree, open, pushes, current, i, path, calls>>

--------------------------------------------------------------------------
(* The result *)

\* From the end, parent by parent, until one that is its own.
Trace ==
  /\ phase = "found"
  /\ path = <<>> \/ current # parent[current]
  /\ path' = <<current>> \o path
  /\ current' = parent[current]
  /\ UNCHANGED <<request, goal, phase, tree, open, pushes, i, calls>>

Traced ==
  /\ phase = "found"
  /\ path # <<>> /\ current = parent[current]
  /\ phase' = "done"
  /\ UNCHANGED <<request, goal, tree, open, pushes, current, i, path, calls>>

Ended == phase \in {"done", "failed", "refused"}

\* The next path is asked for, from another point or to another one.
AskAgain ==
  /\ Ended /\ calls < MaxCalls
  /\ calls' = calls + 1
  /\ \E r \in Asked(source, aim) : source' = r[1] /\ aim' = r[2]
  /\ goal' = aim'
  /\ phase' = "asked"
  /\ UNCHANGED <<land, reach, blocking, zero, tree, open, pushes, current, i, path>>

Step ==
  \/ Adjust \/ Refuse \/ Begin
  \/ \E e \in open : Drop(e) \/ Reach(e) \/ Expand(e)
  \/ Exhausted
  \/ Skip \/ Straight \/ Around \/ Expanded
  \/ Trace \/ Traced

Next == Step \/ AskAgain

Spec == Init /\ [][Next]_vars

--------------------------------------------------------------------------
(* Properties *)

TypeOK ==
  /\ land \in Lands /\ source \in Cells /\ aim \in Cells /\ goal \in Cells
  /\ reach \in Nat /\ blocking \in BOOLEAN /\ zero \in Cells \cup {None}
  /\ phase \in {"asked", "placed", "search", "expand", "found", "done", "failed", "refused"}
  /\ closed \subseteq Cells
  /\ parent \in [Cells -> Cells \cup {None}] /\ dist \in [Cells -> Nat \cup {None}]
  /\ \A e \in open : e.cell \in Cells
  /\ pushes \in Nat /\ current \in Cells /\ i \in 1..(Degrees + 1)
  /\ path \in Seq(Cells) /\ calls \in Nat

Adjacent(c, d) == \E j \in 1..Degrees : Child(d, j) = c

\* A step of a path that FindPath may return: to a free cell, from next to it
\* or in a walkable line.
Legal(p, c) == Free(c) /\ (Adjacent(p, c) \/ Walkable(p, c))

\* "Theta* relaxes the constraint that two subsequent nodes in a path should be
\* adjacent" (PathFinder.cpp:12) but not more: what FindPath returns begins with
\* a step from the source, ends at the goal, and every step of it is legal on
\* the map as it is, whatever the search has tried in between.
PathIsLegal ==
  phase = "done" =>
    /\ path # <<>> /\ path[Len(path)] = goal
    /\ path[1] # source => Legal(source, path[1])
    /\ \A k \in 1..(Len(path) - 1) : Legal(path[k], path[k + 1])

\* A set of cells that holds the source and not the goal, which no free step leads out of.
Cut(s) ==
  /\ source \in s /\ goal \notin s
  /\ \A c \in s, j \in 1..Degrees :
       Child(c, j) \in Cells /\ Free(Child(c, j)) => Child(c, j) \in s

\* When the queue has run out, no way from the source to the goal exists: the
\* search gives up nothing by its shortcuts, by closing cells for good, and by
\* forgetting a shorter distance.  It takes a source that is not the point (0, 0)
\* and no cell whose parent is: those are not expanded.
NoPathMeansNoWay ==
  phase = "failed" /\ zero = None => \E s \in SUBSET Cells : Cut(s)
=============================================================================
