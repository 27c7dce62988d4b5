--------------------------- MODULE MovementProofs ---------------------------
(***************************************************************************)
(* Proofs about the path finder, for every map and every distance, and     *)
(* about the traversability cache, for every crowd.  What is proved of     *)
(* PathSearch holds for every order in which the queue gives the open      *)
(* cells back, and so for the one of BucketQueue.                          *)
(***************************************************************************)
EXTENDS PathFinder, Traversability, FiniteSetTheorems, TLAPS

\* The tree of parents is that of this call.
Begun == phase \in {"search", "expand", "found", "done", "failed"}

\* A cell has a parent when it has a distance, and the source is its own.
OneRoot ==
  Begun =>
    /\ parent[source] = source
    /\ \A c \in Cells : dist[c] = None <=> parent[c] = None

\* Any other parent is closed, is another cell, and the step from it is legal.
Chained ==
  Begun =>
    \A c \in Cells \ {source}, p \in Cells :
      parent[c] = p => p \in closed /\ p # c /\ Legal(p, c)

\* What is closed, open or current has been given a parent.
Known ==
  Begun =>
    /\ \A c \in closed : parent[c] # None
    /\ \A e \in open : parent[e.cell] # None
    /\ closed # {} => source \in closed
    /\ phase = "expand" => current \in closed

\* The neighbours of a cell that have been looked at: those of the current one
\* up to i.
LookedAt(c, j) == phase = "expand" /\ c = current => j < i

\* Nothing is lost on the way: a cell with a parent is open or closed, and a
\* free neighbour of a closed one has a parent.
Whole ==
  phase \in {"search", "expand", "failed"} /\ zero = None =>
    /\ goal \notin closed
    /\ \A c \in Cells : parent[c] # None => c \in closed \/ \E e \in open : e.cell = c
    /\ \A c \in closed, j \in 1..Degrees, d \in Cells :
         LookedAt(c, j) /\ Child(c, j) = d /\ Free(d) => parent[d] # None
    /\ phase = "failed" => open = {}

\* The path so far leads from a child of the current cell to the goal.
Tracing ==
  phase \in {"found", "done"} =>
    /\ parent[current] # None
    /\ path = <<>> => current = goal /\ phase = "found"
    /\ path # <<>> =>
         /\ path[Len(path)] = goal
         /\ parent[path[1]] = current
         /\ \A k \in 1..(Len(path) - 1), p, c \in Cells :
              path[k] = p /\ path[k + 1] = c => Legal(p, c)
    /\ phase = "done" => current = parent[current]

\* There is none before the goal is reached.
Untraced == phase \in {"search", "expand"} => path = <<>>

IInv == TypeOK /\ OneRoot /\ Chained /\ Known /\ Whole /\ Tracing /\ Untraced

--------------------------------------------------------------------------
(* The map does not change in a call *)

LEMMA FreeStays ==
  ASSUME NEW c, UNCHANGED <<land, blocking>>
  PROVE  Free(c)' <=> Free(c)
  BY DEF Free, Passable, HasActor, Unbumpable

LEMMA LegalStays ==
  ASSUME NEW p, NEW c, UNCHANGED <<land, blocking>>
  PROVE  Legal(p, c)' <=> Legal(p, c)
<1>1. Free(c)' <=> Free(c)
  BY FreeStays
<1>2. Walkable(p, c)' <=> Walkable(p, c)
  BY DEF Walkable, Passable, HasActor
<1> QED
  BY <1>1, <1>2 DEF Legal, Adjacent

--------------------------------------------------------------------------
(* Types *)

\* What the current cell's parent is, when its neighbours are looked at.
LEMMA CurrentParent ==
  ASSUME TypeOK, OneRoot, Chained, Known, phase = "expand"
  PROVE  /\ parent[current] \in closed /\ parent[current] \in Cells
         /\ dist[parent[current]] \in Nat
<1>1. /\ Begun /\ current \in closed /\ source \in closed /\ current \in Cells
      /\ closed \subseteq Cells /\ source \in Cells
  BY DEF Begun, Known, TypeOK
<1>2. parent[current] # None /\ parent[current] \in Cells
  BY <1>1 DEF Known, TypeOK
<1>3. parent[current] \in closed
  <2>1. CASE current = source
    BY <2>1, <1>1 DEF OneRoot
  <2>2. CASE current # source
    BY <2>2, <1>1, <1>2 DEF Chained
  <2> QED
    BY <2>1, <2>2
<1>4. dist[parent[current]] # None
  BY <1>1, <1>2, <1>3 DEF Known, OneRoot
<1> QED
  BY <1>2, <1>3, <1>4 DEF TypeOK

\* The same of a neighbour that has been visited.
LEMMA VisitedKnown ==
  ASSUME TypeOK, OneRoot, Known, phase = "expand", NEW v \in closed
  PROVE  v \in Cells /\ dist[v] \in Nat
<1>1. Begun /\ v \in Cells
  BY DEF Begun, TypeOK
<1> QED
  BY <1>1 DEF Known, OneRoot, TypeOK

LEMMA TypeInit == Init => TypeOK
  BY SearchAssumption DEF Init, TypeOK

LEMMA TypeGiven ==
  ASSUME TypeOK, NEW c \in Cells, NEW p \in Cells, NEW d \in Nat, Given(c, p, d)
  PROVE  /\ parent' \in [Cells -> Cells \cup {None}]
         /\ dist' \in [Cells -> Nat \cup {None}]
  BY DEF TypeOK, Given

LEMMA TypeQueued ==
  ASSUME TypeOK, NEW c \in Cells, NEW d, Queued(c, d) \/ NotQueued
  PROVE  (\A e \in open' : e.cell \in Cells) /\ pushes' \in Nat
  BY DEF TypeOK, Queued, NotQueued, Entry

LEMMA TypeLooked ==
  ASSUME TypeOK, Looks, Looked
  PROVE  /\ i' \in 1..(Degrees + 1)
         /\ phase' = phase /\ closed' = closed /\ path' = path
         /\ current' = current /\ goal' = goal /\ calls' = calls
         /\ UNCHANGED <<land, source, aim, reach, blocking, zero>>
  BY SearchAssumption DEF TypeOK, Looks, Looked, request

LEMMA TypeStep ==
  ASSUME IInv, [Next]_vars
  PROVE  TypeOK'
<1>0. TypeOK /\ OneRoot /\ Chained /\ Known /\ Tracing
  BY DEF IInv
<1>1. CASE Adjust
  BY <1>0, <1>1 DEF Adjust, TypeOK, request, tree
<1>2. CASE Refuse
  BY <1>0, <1>2 DEF Refuse, TypeOK, request, tree
<1>3. CASE Begin
  BY <1>0, <1>3 DEF Begin, TypeOK, request, Entry
<1>4. ASSUME NEW e \in open, Drop(e) \/ Reach(e) \/ Expand(e)
      PROVE  TypeOK'
  <2>1. e.cell \in Cells
    BY <1>0, <1>4 DEF TypeOK
  <2>2. CASE Drop(e)
    BY <1>0, <2>1, <2>2 DEF Drop, TypeOK, request, tree
  <2>3. CASE Reach(e)
    BY <1>0, <2>1, <2>3 DEF Reach, TypeOK, request, tree
  <2>4. CASE Expand(e)
    BY <1>0, <2>1, <2>4, SearchAssumption DEF Expand, TypeOK, request
  <2> QED
    BY <1>4, <2>2, <2>3, <2>4
<1>5. CASE Exhausted
  BY <1>0, <1>5 DEF Exhausted, TypeOK, request, tree
<1>6. CASE Skip
  <2>1. Looks /\ Looked /\ UNCHANGED <<parent, dist, open, pushes>>
    BY <1>6 DEF Skip, NotQueued
  <2> QED
    BY <1>0, <2>1, TypeLooked DEF TypeOK
<1>7. CASE Straight
  <2> DEFINE c == Child(current, i)
             p == parent[current]
  <2>1. /\ phase = "expand" /\ c \in Cells /\ Given(c, p, Through(p, c))
        /\ Queued(c, Through(p, c)) /\ Looks /\ Looked
    BY <1>7 DEF Straight, Looks, Open
  <2>2. p \in Cells /\ Through(p, c) \in Nat
    BY <1>0, <2>1, CurrentParent, GridAssumption DEF Through
  <2> HIDE DEF c, p
  <2>3. /\ parent' \in [Cells -> Cells \cup {None}]
        /\ dist' \in [Cells -> Nat \cup {None}]
        /\ \A e \in open' : e.cell \in Cells
        /\ pushes' \in Nat
    BY <1>0, <2>1, <2>2, TypeGiven, TypeQueued
  <2> QED
    BY <1>0, <2>1, <2>3, TypeLooked DEF TypeOK
<1>8. CASE Around
  <2> DEFINE c == Child(current, i)
  <2>1. PICK v \in closed :
          /\ phase = "expand" /\ c \in Cells /\ Given(c, v, Through(v, c))
          /\ Queued(c, Through(v, c)) \/ NotQueued
          /\ Looks /\ Looked
    BY <1>8 DEF Around, Looks, Open, Visited
  <2>2. v \in Cells /\ Through(v, c) \in Nat
    BY <1>0, <2>1, VisitedKnown, GridAssumption DEF Through
  <2> HIDE DEF c
  <2>3. /\ parent' \in [Cells -> Cells \cup {None}]
        /\ dist' \in [Cells -> Nat \cup {None}]
        /\ \A e \in open' : e.cell \in Cells
        /\ pushes' \in Nat
    BY <1>0, <2>1, <2>2, TypeGiven, TypeQueued
  <2> QED
    BY <1>0, <2>1, <2>3, TypeLooked DEF TypeOK
<1>9. CASE Expanded
  BY <1>0, <1>9 DEF Expanded, TypeOK, request, tree
<1>10. CASE Trace
  <2>1. parent[current] \in Cells
    BY <1>0, <1>10 DEF Trace, Tracing, TypeOK
  <2>2. <<current>> \in Seq(Cells) /\ path \in Seq(Cells)
    BY <1>0 DEF TypeOK
  <2>3. path' \in Seq(Cells)
    BY <1>10, <2>2 DEF Trace
  <2> QED
    BY <1>0, <1>10, <2>1, <2>3 DEF Trace, TypeOK, request, tree
<1>11. CASE Traced
  BY <1>0, <1>11 DEF Traced, TypeOK, request, tree
<1>12. CASE AskAgain
  <2>1. PICK r \in Asked(source, aim) : source' = r[1] /\ aim' = r[2]
    BY <1>12 DEF AskAgain
  <2>2. r \in Cells \X Cells
    BY <1>0, GridAssumption DEF TypeOK
  <2>3. source' \in Cells /\ aim' \in Cells
    BY <2>1, <2>2
  <2> QED
    BY <1>0, <1>12, <2>3 DEF AskAgain, TypeOK, tree
<1>13. CASE UNCHANGED vars
  BY <1>0, <1>13 DEF vars, TypeOK, request, tree
<1> QED
  BY <1>1, <1>2, <1>3, <1>4, <1>5, <1>6, <1>7, <1>8, <1>9, <1>10, <1>11, <1>12, <1>13
  DEF Next, Step
--------------------------------------------------------------------------
(* The tree of parents *)

LEMMA TreeInit ==
  Init => OneRoot /\ Chained /\ Known /\ Whole /\ Tracing /\ Untraced
  BY DEF Init, OneRoot, Chained, Known, Whole, Tracing, Untraced, Begun

\* A step that neither changes the tree nor begins another.
LEMMA TreeStays ==
  ASSUME TypeOK, OneRoot, Chained,
         UNCHANGED <<land, source, blocking, closed, parent, dist>>, Begun' => Begun
  PROVE  OneRoot' /\ Chained'
<1>1. OneRoot'
  BY DEF OneRoot
<1>2. Chained'
  <2> SUFFICES ASSUME Begun', NEW c \in Cells \ {source}, NEW p \in Cells, parent'[c] = p
               PROVE  p \in closed' /\ p # c /\ Legal(p, c)'
    BY DEF Chained
  <2>1. p \in closed /\ p # c /\ Legal(p, c)
    BY DEF Chained
  <2> QED
    BY <2>1, LegalStays
<1> QED
  BY <1>1, <1>2

\* A cell is given a parent that is closed, by a legal step.
LEMMA TreeGrows ==
  ASSUME TypeOK, OneRoot, Chained, Known, Begun,
         NEW c \in Cells, c \notin closed, NEW p \in closed, Legal(p, c),
         NEW d \in Nat, Given(c, p, d), source \in closed,
         UNCHANGED <<land, source, blocking, closed>>
  PROVE  OneRoot' /\ Chained' /\ c # source
<1>1. c # source /\ p \in Cells /\ p # c /\ p # None /\ d # None
  BY SearchAssumption DEF TypeOK
<1>2. OneRoot'
  BY <1>1 DEF OneRoot, Given, TypeOK
<1>3. Chained'
  <2> SUFFICES ASSUME NEW b \in Cells \ {source}, NEW q \in Cells, parent'[b] = q
               PROVE  q \in closed' /\ q # b /\ Legal(q, b)'
    BY DEF Chained
  <2>1. CASE b = c
    <3>1. q = p
      BY <2>1, <1>1 DEF Given, TypeOK
    <3> QED
      BY <2>1, <3>1, <1>1, LegalStays
  <2>2. CASE b # c
    <3>1. parent[b] = q
      BY <2>2 DEF Given, TypeOK
    <3>2. q \in closed /\ q # b /\ Legal(q, b)
      BY <3>1 DEF Chained
    <3> QED
      BY <3>2, LegalStays
  <2> QED
    BY <2>1, <2>2
<1> QED
  BY <1>1, <1>2, <1>3

\* What Straight does: the parent is the current cell's, and the line is walkable.
LEMMA StraightGives ==
  ASSUME IInv, Straight
  PROVE  LET c == Child(current, i)
             p == parent[current]
         IN  /\ c \in Cells /\ c \notin closed /\ p \in closed /\ Legal(p, c)
             /\ Through(p, c) \in Nat /\ Given(c, p, Through(p, c))
             /\ Queued(c, Through(p, c))
             /\ Looks /\ Looked
<1> DEFINE c == Child(current, i)
           p == parent[current]
<1>1. /\ Looks /\ Looked /\ Open(c) /\ Walkable(p, c)
      /\ Given(c, p, Through(p, c)) /\ Queued(c, Through(p, c))
  BY DEF Straight
<1>2. c \in Cells /\ c \notin closed /\ Legal(p, c)
  BY <1>1 DEF Open, Legal
<1>3. p \in closed /\ p \in Cells /\ dist[p] \in Nat
  BY <1>1, CurrentParent DEF Looks, IInv
<1>4. Through(p, c) \in Nat
  BY <1>2, <1>3, GridAssumption DEF Through
<1> QED
  BY <1>1, <1>2, <1>3, <1>4

\* What Around does: the parent is next to the cell.  What is not queued had a
\* parent before.
LEMMA AroundGives ==
  ASSUME IInv, Around
  PROVE  LET c == Child(current, i)
         IN  /\ c \in Cells /\ c \notin closed
             /\ Looks /\ Looked
             /\ \E p \in closed :
                  /\ Legal(p, c)
                  /\ Through(p, c) \in Nat /\ Given(c, p, Through(p, c))
                  /\ Queued(c, Through(p, c)) \/ (NotQueued /\ dist[c] # None)
<1> DEFINE c == Child(current, i)
<1>1. Looks /\ Looked /\ Open(c)
  BY DEF Around
<1>2. PICK j \in Visited(c) :
        LET v == Child(c, j)
        IN  /\ Given(c, v, Through(v, c))
            /\ IF Closer(Through(v, c), dist[c]) THEN Queued(c, Through(v, c)) ELSE NotQueued
  BY DEF Around
<1> DEFINE v == Child(c, j)
<1>3. v \in closed /\ j \in 1..Degrees
  BY DEF Visited
<1>4. c \in Cells /\ c \notin closed /\ Free(c)
  BY <1>1 DEF Open
<1>5. Legal(v, c)
  BY <1>3, <1>4 DEF Legal, Adjacent
<1>6. v \in Cells /\ dist[v] \in Nat
  BY <1>1, <1>3, VisitedKnown DEF Looks, IInv
<1>7. Through(v, c) \in Nat
  BY <1>4, <1>6, GridAssumption DEF Through
<1>8. Queued(c, Through(v, c)) \/ (NotQueued /\ dist[c] # None)
  BY <1>2 DEF Closer
<1> HIDE DEF c, v
<1>9. Given(c, v, Through(v, c))
  BY <1>2 DEF c, v
<1>10. \E p \in closed :
         /\ Legal(p, c)
         /\ Through(p, c) \in Nat /\ Given(c, p, Through(p, c))
         /\ Queued(c, Through(p, c)) \/ (NotQueued /\ dist[c] # None)
  BY <1>3, <1>5, <1>7, <1>8, <1>9
<1> QED
  BY <1>1, <1>4, <1>10 DEF c

\* The tree of a call that begins.
LEMMA TreeBegins ==
  ASSUME TypeOK, Begin
  PROVE  OneRoot' /\ Chained' /\ Known' /\ Whole' /\ Tracing'
<1>1. /\ parent' = [c \in Cells |-> IF c = source THEN source ELSE None]
      /\ dist' = [c \in Cells |-> IF c = source THEN 0 ELSE None]
      /\ closed' = {} /\ phase' = "search" /\ source' = source /\ source \in Cells
      /\ goal' = goal
      /\ open' = {Entry(source, 0)} /\ Entry(source, 0).cell = source
  BY DEF Begin, TypeOK, request, Entry
<1>2. source # None /\ None \notin Cells /\ 0 # None
  BY <1>1, SearchAssumption
<1>3. OneRoot' /\ Known'
  BY <1>1, <1>2 DEF OneRoot, Known
<1>4. Chained'
  BY <1>1, <1>2 DEF Chained
<1>5. Whole' /\ Tracing'
  BY <1>1, <1>2 DEF Whole, Tracing
<1> QED
  BY <1>3, <1>4, <1>5

LEMMA TreeStep ==
  ASSUME IInv, [Next]_vars
  PROVE  OneRoot' /\ Chained' /\ Known'
<1>0. TypeOK /\ OneRoot /\ Chained /\ Known /\ Tracing
  BY DEF IInv
<1>1. CASE Adjust \/ Refuse \/ AskAgain
  BY <1>1 DEF Adjust, Refuse, AskAgain, OneRoot, Chained, Known, Begun
<1>2. CASE Begin
  BY <1>0, <1>2, TreeBegins
<1>3. ASSUME NEW e \in open, Drop(e) \/ Reach(e)
      PROVE  OneRoot' /\ Chained' /\ Known'
  <2>1. /\ UNCHANGED <<land, source, blocking, closed, parent, dist>> /\ Begun
        /\ open' = open \ {e} /\ phase' # "expand"
    BY <1>3 DEF Drop, Reach, request, tree, Begun
  <2>2. Known'
    BY <1>0, <2>1 DEF Known
  <2> QED
    BY <1>0, <2>1, <2>2, TreeStays
<1>4. ASSUME NEW e \in open, Expand(e)
      PROVE  OneRoot' /\ Chained' /\ Known'
  <2>1. /\ UNCHANGED <<land, source, blocking, parent, dist>> /\ Begun
        /\ closed' = closed \cup {e.cell} /\ current' = e.cell /\ open' = open \ {e}
        /\ e.cell \in Cells
    BY <1>0, <1>4 DEF Expand, request, Begun, TypeOK
  <2>2. parent[e.cell] # None
    BY <1>0, <2>1 DEF Known
  <2>3. source \in closed'
    <3>1. CASE e.cell = source
      BY <2>1, <3>1
    <3>2. CASE e.cell # source
      <4>1. parent[e.cell] \in Cells
        BY <1>0, <2>1, <2>2 DEF TypeOK
      <4>2. parent[e.cell] \in closed
        BY <1>0, <2>1, <3>2, <4>1 DEF Chained
      <4> QED
        BY <1>0, <2>1, <4>2 DEF Known
    <3> QED
      BY <3>1, <3>2
  <2>4. Known'
    BY <1>0, <2>1, <2>2, <2>3 DEF Known
  <2>5. OneRoot'
    BY <1>0, <2>1 DEF OneRoot
  <2>6. Chained'
    <3> SUFFICES ASSUME NEW c \in Cells \ {source}, NEW p \in Cells, parent'[c] = p
                 PROVE  p \in closed' /\ p # c /\ Legal(p, c)'
      BY <2>1 DEF Chained
    <3>1. p \in closed /\ p # c /\ Legal(p, c)
      BY <1>0, <2>1 DEF Chained
    <3> QED
      BY <2>1, <3>1, LegalStays
  <2> QED
    BY <2>4, <2>5, <2>6
<1>5. CASE Exhausted \/ Expanded \/ Traced \/ Trace \/ UNCHANGED vars
  <2>1. /\ UNCHANGED <<land, source, blocking, closed, parent, dist, open>>
        /\ Begun' => Begun
        /\ phase' = "expand" => phase = "expand" /\ current' = current
    BY <1>5 DEF Exhausted, Expanded, Traced, Trace, vars, request, tree, Begun
  <2>2. Known'
    BY <1>0, <2>1 DEF Known
  <2> QED
    BY <1>0, <2>1, <2>2, TreeStays
<1>6. CASE Skip
  <2>1. /\ Looks /\ Looked /\ UNCHANGED <<closed, parent, dist, open>>
        /\ UNCHANGED <<land, source, blocking, phase, current>> /\ Begun
    BY <1>6 DEF Skip, Looks, Looked, NotQueued, request, Begun
  <2>2. Known'
    BY <1>0, <2>1 DEF Known
  <2> QED
    BY <1>0, <2>1, <2>2, TreeStays
<1>7. CASE Straight \/ Around
  <2> DEFINE c == Child(current, i)
  <2>1. /\ c \in Cells /\ c \notin closed /\ Looks /\ Looked
        /\ \E p \in closed, d \in Nat :
             /\ Legal(p, c) /\ Given(c, p, d)
             /\ Queued(c, d) \/ NotQueued
    BY <1>7, StraightGives, AroundGives
  <2> HIDE DEF c
  <2>2. /\ UNCHANGED <<land, source, blocking, phase, current, closed>> /\ Begun
        /\ source \in closed /\ current \in closed
    BY <1>0, <2>1 DEF Looks, Looked, request, Begun, Known
  <2>3. PICK p \in closed, d \in Nat :
          Legal(p, c) /\ Given(c, p, d) /\ (Queued(c, d) \/ NotQueued)
    BY <2>1
  <2>4. OneRoot' /\ Chained' /\ c # source
    BY <1>0, <2>1, <2>2, <2>3, TreeGrows
  <2>5. p # None /\ parent' = [parent EXCEPT ![c] = p]
    BY <1>0, <2>3, SearchAssumption DEF Given, TypeOK
  <2>6. \A b \in Cells : parent[b] # None => parent'[b] # None
    BY <1>0, <2>5 DEF TypeOK
  <2>7. parent'[c] # None
    BY <1>0, <2>1, <2>5 DEF TypeOK
  <2>8. \A e \in open' : e \in open \/ e.cell = c
    BY <2>3 DEF Queued, NotQueued, Entry
  <2>9. \A e \in open' : parent'[e.cell] # None
    BY <1>0, <2>2, <2>6, <2>7, <2>8 DEF Known, TypeOK
  <2>10. \A b \in closed : parent'[b] # None
    BY <1>0, <2>2, <2>6 DEF Known, TypeOK
  <2>11. Known'
    BY <2>2, <2>9, <2>10 DEF Known
  <2> QED
    BY <2>4, <2>11
<1> QED
  BY <1>1, <1>2, <1>3, <1>4, <1>5, <1>6, <1>7 DEF Next, Step

--------------------------------------------------------------------------
(* Nothing is lost *)

\* A neighbour of the current cell that is passed by has a parent, or is not free.
LEMMA SkippedKnown ==
  ASSUME IInv, Skip, NEW d \in Cells, d = Child(current, i), Free(d)
  PROVE  parent[d] # None
<1>1. Begun /\ (Open(d) => dist[d] # None)
  BY DEF Skip, Looks, Closer, Begun
<1>2. CASE d \in closed
  BY <1>1, <1>2 DEF IInv, Known
<1>3. CASE d \notin closed
  BY <1>1, <1>3 DEF Open, IInv, OneRoot
<1> QED
  BY <1>2, <1>3

LEMMA WholeStep ==
  ASSUME IInv, [Next]_vars
  PROVE  Whole'
<1>0. TypeOK /\ OneRoot /\ Chained /\ Known /\ Whole
  BY DEF IInv
<1> SUFFICES ASSUME phase' \in {"search", "expand", "failed"}, zero' = None
             PROVE  Whole'
  BY DEF Whole
<1> DEFINE OpenOrClosed == \A c \in Cells : parent[c] # None => c \in closed \/ \E e \in open : e.cell = c
           Around1 == \A c \in closed, j \in 1..Degrees, d \in Cells :
                        LookedAt(c, j) /\ Child(c, j) = d /\ Free(d) => parent[d] # None
<1>w. ASSUME goal' \notin closed', OpenOrClosed', Around1', phase' = "failed" => open' = {}
      PROVE  Whole'
  BY <1>w DEF Whole
<1>1. CASE Adjust \/ Refuse \/ AskAgain \/ Trace \/ Traced
  BY <1>1 DEF Adjust, Refuse, AskAgain, Trace, Traced
<1>2. CASE Begin
  BY <1>0, <1>2, TreeBegins
<1>3. ASSUME NEW e \in open, Drop(e) \/ Reach(e)
      PROVE  Whole'
  <2>1. CASE Drop(e)
    <3>1. parent[e.cell] = None /\ Begun
      BY <2>1 DEF Drop, request, Begun
    <3> QED
      BY <1>0, <3>1 DEF Known
  <2>2. CASE Reach(e)
    BY <2>2 DEF Reach
  <2> QED
    BY <1>3, <2>1, <2>2
<1>4. ASSUME NEW e \in open, Expand(e)
      PROVE  Whole'
  <2>1. /\ UNCHANGED <<land, blocking, zero, parent, goal>> /\ phase = "search"
        /\ closed' = closed \cup {e.cell} /\ current' = e.cell /\ open' = open \ {e}
        /\ i' = 1 /\ phase' = "expand" /\ e.cell # goal
    BY <1>4 DEF Expand, request
  <2>2. goal \notin closed /\ OpenOrClosed /\ Around1
    BY <1>0, <2>1 DEF Whole
  <2>3. OpenOrClosed'
    BY <2>1, <2>2
  <2>4. Around1'
    <3> SUFFICES ASSUME NEW c \in closed', NEW j \in 1..Degrees, NEW d \in Cells,
                        LookedAt(c, j)', Child(c, j) = d, Free(d)'
                 PROVE  parent'[d] # None
      OBVIOUS
    <3>1. c # e.cell
      BY <2>1 DEF LookedAt
    <3>2. c \in closed /\ LookedAt(c, j)
      BY <2>1, <3>1 DEF LookedAt
    <3>3. Free(d)
      BY <2>1, FreeStays
    <3> QED
      BY <2>1, <2>2, <3>2, <3>3
  <2> QED
    BY <1>w, <2>1, <2>2, <2>3, <2>4
<1>5. CASE Exhausted \/ Expanded \/ UNCHANGED vars
  <2>1. /\ UNCHANGED <<land, blocking, zero, parent, goal, closed, open, current, i>>
        /\ phase \in {"search", "expand", "failed"}
        /\ phase' = "failed" => open = {}
        /\ phase' # phase => phase' = "failed" \/ i > Degrees
        /\ phase' # phase => phase = "search" \/ phase = "expand"
        /\ phase' = "expand" => phase = "expand"
    BY <1>0, <1>5 DEF Exhausted, Expanded, vars, request, tree, Whole
  <2>2. goal \notin closed /\ OpenOrClosed /\ Around1
    BY <1>0, <2>1 DEF Whole
  <2>3. OpenOrClosed'
    BY <2>1, <2>2
  <2>4. Around1'
    <3> SUFFICES ASSUME NEW c \in closed, NEW j \in 1..Degrees, NEW d \in Cells,
                        LookedAt(c, j)', Child(c, j) = d, Free(d)'
                 PROVE  parent[d] # None
      BY <2>1
    <3>1. LookedAt(c, j)
      BY <1>5, <1>0, SearchAssumption
      DEF LookedAt, Exhausted, Expanded, vars, TypeOK
    <3>2. Free(d)
      BY <2>1, FreeStays
    <3> QED
      BY <2>2, <3>1, <3>2
  <2> QED
    BY <1>w, <2>1, <2>2, <2>3, <2>4
<1>6. CASE Skip
  <2>1. /\ Looks /\ Looked /\ UNCHANGED <<closed, parent, open>>
        /\ UNCHANGED <<land, blocking, zero, goal, phase, current>> /\ i' = i + 1
    BY <1>6 DEF Skip, Looks, Looked, NotQueued, request
  <2>2. goal \notin closed /\ OpenOrClosed /\ Around1 /\ phase = "expand"
    BY <1>0, <2>1 DEF Whole, Looks
  <2>3. OpenOrClosed'
    BY <2>1, <2>2
  <2>4. Around1'
    <3> SUFFICES ASSUME NEW c \in closed, NEW j \in 1..Degrees, NEW d \in Cells,
                        LookedAt(c, j)', Child(c, j) = d, Free(d)'
                 PROVE  parent[d] # None
      BY <2>1
    <3>1. Free(d)
      BY <2>1, FreeStays
    <3>2. CASE c = current /\ j = i
      BY <1>6, <3>1, <3>2, SkippedKnown
    <3>3. CASE ~(c = current /\ j = i)
      <4>1. LookedAt(c, j)
        BY <1>0, <2>1, <3>3 DEF LookedAt, TypeOK
      <4> QED
        BY <2>2, <3>1, <4>1
    <3> QED
      BY <3>2, <3>3
  <2> QED
    BY <1>w, <2>1, <2>2, <2>3, <2>4
<1>7. CASE Straight \/ Around
  <2> DEFINE b == Child(current, i)
  <2>1. /\ b \in Cells /\ b \notin closed /\ Looks /\ Looked
        /\ \E p \in closed, d \in Nat :
             /\ Given(b, p, d)
             /\ Queued(b, d) \/ (NotQueued /\ dist[b] # None)
    BY <1>7, StraightGives, AroundGives
  <2>2. /\ UNCHANGED <<land, blocking, zero, goal, phase, current, closed>>
        /\ i' = i + 1 /\ phase = "expand" /\ Begun
    BY <2>1 DEF Looks, Looked, request, Begun
  <2>3. PICK p \in closed, d \in Nat :
          Given(b, p, d) /\ (Queued(b, d) \/ (NotQueued /\ dist[b] # None))
    BY <2>1
  <2>4. goal \notin closed /\ OpenOrClosed /\ Around1
    BY <1>0, <2>2 DEF Whole
  <2>5. /\ \A c \in Cells : c # b => parent'[c] = parent[c]
        /\ parent'[b] # None
    BY <1>0, <2>1, <2>3, SearchAssumption DEF Given, TypeOK
  <2>6. open \subseteq open' /\ \E e \in open' : e.cell = b
    <3>1. CASE Queued(b, d)
      <4> DEFINE f == Entry(b, Cost(d, b, source, goal))
      <4>1. open' = open \cup {f}
        BY <3>1 DEF Queued
      <4>2. f.cell = b
        BY DEF Entry
      <4> HIDE DEF f, b
      <4> QED
        BY <4>1, <4>2
    <3>2. CASE NotQueued /\ dist[b] # None
      <4>1. parent[b] # None
        BY <1>0, <2>1, <2>2, <3>2 DEF OneRoot
      <4> QED
        BY <2>1, <2>4, <3>2, <4>1 DEF NotQueued
    <3> QED
      BY <2>3, <3>1, <3>2
  <2>7. OpenOrClosed'
    BY <2>2, <2>4, <2>5, <2>6
  <2>8. Around1'
    <3> SUFFICES ASSUME NEW c \in closed, NEW j \in 1..Degrees, NEW a \in Cells,
                        LookedAt(c, j)', Child(c, j) = a, Free(a)'
                 PROVE  parent'[a] # None
      BY <2>2
    <3>1. CASE a = b
      BY <2>5, <3>1
    <3>2. CASE a # b
      <4>1. LookedAt(c, j)
        BY <1>0, <2>2, <3>2 DEF LookedAt, TypeOK
      <4>2. Free(a)
        BY <2>2, FreeStays
      <4> QED
        BY <2>4, <2>5, <3>2, <4>1, <4>2
    <3> QED
      BY <3>1, <3>2
  <2> QED
    BY <1>w, <2>2, <2>4, <2>7, <2>8
<1> QED
  BY <1>1, <1>2, <1>3, <1>4, <1>5, <1>6, <1>7 DEF Next, Step

--------------------------------------------------------------------------
(* The result *)

\* Another cell than the source is reached from its parent by a legal step.
LEMMA ParentLegal ==
  ASSUME TypeOK, OneRoot, Chained, Begun, NEW c \in Cells, parent[c] # None,
         c # source \/ parent[c] # c
  PROVE  parent[c] \in Cells /\ parent[c] # c /\ Legal(parent[c], c)
<1>1. c # source /\ parent[c] \in Cells
  BY DEF OneRoot, TypeOK
<1> QED
  BY <1>1 DEF Chained

LEMMA TracingStep ==
  ASSUME IInv, [Next]_vars
  PROVE  Tracing'
<1>0. TypeOK /\ OneRoot /\ Chained /\ Known /\ Tracing
  BY DEF IInv
<1> SUFFICES ASSUME phase' \in {"found", "done"}
             PROVE  Tracing'
  BY DEF Tracing
<1>1. CASE Adjust \/ Refuse \/ Begin \/ AskAgain \/ Exhausted \/ Expanded
  BY <1>1 DEF Adjust, Refuse, Begin, AskAgain, Exhausted, Expanded
<1>2. CASE Skip \/ Straight \/ Around
  BY <1>2 DEF Skip, Straight, Around, Looks, Looked
<1>3. ASSUME NEW e \in open, Drop(e) \/ Expand(e)
      PROVE  Tracing'
  BY <1>3 DEF Drop, Expand
<1>4. ASSUME NEW e \in open, Reach(e)
      PROVE  Tracing'
  <2>1. /\ goal' = e.cell /\ current' = e.cell /\ phase' = "found"
        /\ UNCHANGED <<parent, path>> /\ phase = "search"
    BY <1>4 DEF Reach, tree
  <2>2. parent[e.cell] # None
    BY <1>0, <2>1 DEF Known, Begun
  <2>3. path = <<>>
    BY <2>1 DEF IInv, Untraced
  <2> QED
    BY <2>1, <2>2, <2>3 DEF Tracing
<1>5. CASE Trace
  <2>1. /\ phase = "found" /\ (path = <<>> \/ current # parent[current])
        /\ path' = <<current>> \o path /\ current' = parent[current]
        /\ UNCHANGED <<phase, goal, parent, source, land, blocking>> /\ Begun
    BY <1>5 DEF Trace, request, tree, Begun
  <2>2. parent[current] # None /\ parent[current] \in Cells /\ current \in Cells /\ path \in Seq(Cells)
    BY <1>0, <2>1 DEF Tracing, TypeOK
  <2>3. /\ Len(path') = Len(path) + 1 /\ path'[1] = current
        /\ \A k \in 1..Len(path) : path'[k + 1] = path[k]
    BY <2>1, <2>2
  <2>4. parent[parent[current]] # None
    <3>1. CASE current = source /\ parent[current] = current
      BY <2>2, <3>1
    <3>2. CASE ~(current = source /\ parent[current] = current)
      <4>1. current # source
        BY <1>0, <2>1, <3>2 DEF OneRoot
      <4>2. parent[current] \in closed
        BY <1>0, <2>1, <2>2, <4>1 DEF Chained
      <4> QED
        BY <1>0, <2>1, <4>2 DEF Known
    <3> QED
      BY <3>1, <3>2
  <2>5. path'[Len(path')] = goal
    BY <1>0, <2>1, <2>2, <2>3 DEF Tracing
  <2>6. ASSUME NEW k \in 1..(Len(path') - 1), NEW p \in Cells, NEW c \in Cells,
               path'[k] = p, path'[k + 1] = c
        PROVE  Legal(p, c)'
    <3>1. CASE k = 1
      <4>1. path # <<>> /\ p = current /\ c = path[1]
        BY <2>2, <2>3, <2>6, <3>1
      <4>2. parent[c] = current /\ current # parent[current]
        BY <1>0, <2>1, <4>1 DEF Tracing
      <4>3. c # source
        BY <1>0, <2>1, <4>2 DEF OneRoot
      <4>4. Legal(p, c)
        BY <1>0, <2>1, <4>1, <4>2, <4>3 DEF Chained
      <4> QED
        BY <2>1, <4>4, LegalStays
    <3>2. CASE k # 1
      <4>1. k - 1 \in 1..(Len(path) - 1) /\ k \in 1..Len(path) /\ k - 1 \in 1..Len(path)
        BY <2>2, <2>3, <2>6, <3>2
      <4>2. path[k - 1] = p /\ path[(k - 1) + 1] = c
        BY <2>3, <2>6, <4>1
      <4>3. path # <<>>
        BY <2>2, <4>1
      <4>4. Legal(p, c)
        BY <1>0, <2>1, <4>1, <4>2, <4>3 DEF Tracing
      <4> QED
        BY <2>1, <4>4, LegalStays
    <3> QED
      BY <3>1, <3>2
  <2>7. path' # <<>>
    BY <2>2, <2>3
  <2> QED
    BY <2>1, <2>3, <2>4, <2>5, <2>6, <2>7 DEF Tracing
<1>6. CASE Traced \/ UNCHANGED vars
  <2>1. /\ UNCHANGED <<goal, parent, source, land, blocking, path, current>>
        /\ phase \in {"found", "done"} /\ (phase' = "found" => phase = "found")
        /\ phase' = "done" /\ phase = "found" => path # <<>> /\ current = parent[current]
    BY <1>6 DEF Traced, vars, request, tree
  <2>2. /\ parent[current] # None
        /\ path = <<>> => current = goal /\ phase' = "found"
        /\ path # <<>> => path[Len(path)] = goal /\ parent[path[1]] = current
        /\ phase' = "done" => current = parent[current]
    BY <1>0, <2>1 DEF Tracing
  <2>3. ASSUME path # <<>>, NEW k \in 1..(Len(path) - 1), NEW p \in Cells, NEW c \in Cells,
               path[k] = p, path[k + 1] = c
        PROVE  Legal(p, c)'
    <3>1. Legal(p, c)
      BY <1>0, <2>1, <2>3 DEF Tracing
    <3> QED
      BY <2>1, <3>1, LegalStays
  <2> QED
    BY <2>1, <2>2, <2>3 DEF Tracing
<1> QED
  BY <1>1, <1>2, <1>3, <1>4, <1>5, <1>6 DEF Next, Step

LEMMA UntracedStep ==
  ASSUME IInv, [Next]_vars
  PROVE  Untraced'
<1>1. Untraced
  BY DEF IInv
<1>2. CASE Adjust \/ Refuse \/ Begin \/ Exhausted \/ Expanded \/ Trace \/ Traced \/ AskAgain
  BY <1>1, <1>2
  DEF Adjust, Refuse, Begin, Exhausted, Expanded, Trace, Traced, AskAgain, Untraced
<1>3. ASSUME NEW e \in open, Drop(e) \/ Reach(e) \/ Expand(e)
      PROVE  Untraced'
  BY <1>1, <1>3 DEF Drop, Reach, Expand, Untraced
<1>4. CASE Skip \/ Straight \/ Around
  BY <1>1, <1>4 DEF Skip, Straight, Around, Looks, Looked, Untraced
<1>5. CASE UNCHANGED vars
  BY <1>1, <1>5 DEF vars, Untraced
<1> QED
  BY <1>1, <1>2, <1>3, <1>4, <1>5 DEF Next, Step

--------------------------------------------------------------------------
(* The theorems *)

LEMMA Inductive == Spec => []IInv
<1>1. Init => IInv
  BY TypeInit, TreeInit DEF IInv
<1>2. IInv /\ [Next]_vars => IInv'
  BY TypeStep, TreeStep, WholeStep, TracingStep, UntracedStep DEF IInv
<1> QED
  BY <1>1, <1>2, PTL DEF Spec

\* The arguments, the tree of parents and the queue keep their types, in this
\* call of Map::FindPath and in the next.
THEOREM TypeSafe == Spec => []TypeOK
<1>1. IInv => TypeOK
  BY DEF IInv
<1> QED
  BY <1>1, Inductive, PTL

\* What Map::FindPath returns is a path from the source to the goal whose every
\* step is legal, whichever open cell is looked at next and whatever distances
\* and costs are.
THEOREM PathsAreLegal == Spec => []PathIsLegal
<1>1. IInv => PathIsLegal
  <2> SUFFICES ASSUME IInv, phase = "done"
               PROVE  PathIsLegal
    BY DEF PathIsLegal
  <2>1. /\ TypeOK /\ OneRoot /\ Chained /\ Tracing /\ Begun /\ current \in Cells
        /\ path \in Seq(Cells)
    BY DEF IInv, Begun, TypeOK
  <2>2. /\ path # <<>> /\ path[Len(path)] = goal /\ parent[path[1]] = current
        /\ current = parent[current] /\ parent[current] # None
    BY <2>1 DEF Tracing
  <2>3. path[1] \in Cells
    BY <2>1, <2>2
  <2>4. current = source
    BY <2>1, <2>2, ParentLegal
  <2>5. path[1] # source => Legal(source, path[1])
    BY <2>1, <2>2, <2>3, <2>4, ParentLegal
  <2>6. ASSUME NEW k \in 1..(Len(path) - 1)
        PROVE  Legal(path[k], path[k + 1])
    <3>1. path[k] \in Cells /\ path[k + 1] \in Cells
      BY <2>1
    <3> QED
      BY <2>1, <2>2, <3>1 DEF Tracing
  <2> QED
    BY <2>2, <2>5, <2>6 DEF PathIsLegal
<1> QED
  BY <1>1, Inductive, PTL

\* When Map::FindPath gives up, the cells it has closed are a cut between the
\* source and the goal: no sequence of free neighbours leads from one to the
\* other.  Lazy parents, distances that grow and cells that are not queued again
\* lose no way.
THEOREM NothingMissed == Spec => []NoPathMeansNoWay
<1>1. IInv => NoPathMeansNoWay
  <2> SUFFICES ASSUME IInv, phase = "failed", zero = None
               PROVE  \E s \in SUBSET Cells : Cut(s)
    BY DEF NoPathMeansNoWay
  <2>1. TypeOK /\ OneRoot /\ Whole /\ Begun /\ source \in Cells /\ closed \in SUBSET Cells
    BY DEF IInv, Begun, TypeOK
  <2>2. /\ goal \notin closed
        /\ \A c \in Cells : parent[c] # None => c \in closed
        /\ \A c \in closed, j \in 1..Degrees, d \in Cells :
             Child(c, j) = d /\ Free(d) => parent[d] # None
    BY <2>1 DEF Whole, LookedAt
  <2>3. source \in closed
    BY <2>1, <2>2, SearchAssumption DEF OneRoot
  <2>4. Cut(closed)
    BY <2>2, <2>3 DEF Cut
  <2> QED
    BY <2>1, <2>4
<1> QED
  BY <1>1, Inductive, PTL

--------------------------------------------------------------------------
(* With the queue of buckets *)

LEMMA FStepIsStep == FStep => [Next]_vars
<1> SUFFICES ASSUME FStep PROVE [Next]_vars
  OBVIOUS
<1>1. CASE FBegin
  BY <1>1 DEF FBegin, Next, Step
<1>2. CASE FPop
  <2>1. Next1 \in open /\ (Drop(Next1) \/ Reach(Next1) \/ Expand(Next1))
    BY <1>2 DEF FPop, Drop, Reach, Expand
  <2> HIDE DEF Next1
  <2> QED
    BY <2>1 DEF Next, Step
<1>3. CASE FPush
  BY <1>3 DEF FPush, Next, Step
<1>4. CASE FExhausted
  BY <1>4 DEF FExhausted, Next, Step
<1>5. CASE Adjust \/ Refuse \/ Skip \/ Expanded \/ Trace \/ Traced \/ AskAgain
  BY <1>5 DEF Next, Step
<1> QED
  BY <1>1, <1>2, <1>3, <1>4, <1>5 DEF FStep

\* The path finder with its buckets is one of the searches above.
THEOREM FinderSearches == FSpec => Spec
<1>1. FInit => Init
  BY DEF FInit
<1>2. [FStep]_fvars => [Next]_vars
  BY FStepIsStep DEF fvars
<1> QED
  BY <1>1, <1>2, PTL DEF FSpec, Spec

\* So its paths are legal, and it gives up only when there is no way.
THEOREM FinderIsRight == FSpec => [](PathIsLegal /\ NoPathMeansNoWay)
<1> QED
  BY FinderSearches, PathsAreLegal, NothingMissed, PTL

--------------------------------------------------------------------------
(* Numbers *)

\* Induction over the natural numbers, for a set: were some k missing from T,
\* n + 1 would put the members of T up to k, one to one, in fewer places.
LEMMA SetInduction ==
  ASSUME NEW T \in SUBSET Nat, 0 \in T, \A n \in T : n + 1 \in T
  PROVE  T = Nat
<1> SUFFICES ASSUME NEW k \in Nat, k \notin T PROVE FALSE
  OBVIOUS
<1> DEFINE S == T \cap 0..k
           f == [n \in S |-> n + 1]
<1>1. 0 \in S /\ \A n \in S : n + 1 \in S \ {0}
  OBVIOUS
<1>2. IsFiniteSet(0..k)
  BY FS_Interval
<1>3. /\ IsFiniteSet(S) /\ IsFiniteSet(S \ {0})
      /\ Cardinality(S \ {0}) = Cardinality(S) - 1
  <2>1. S \in SUBSET 0..k
    OBVIOUS
  <2> HIDE DEF S
  <2>2. IsFiniteSet(S)
    BY <1>2, <2>1, FS_Subset
  <2> QED
    BY <1>1, <2>2, FS_RemoveElement
<1>4. Cardinality(S \ {0}) < Cardinality(S)
  BY <1>3, FS_CardinalityType
<1>5. f \in [S -> S \ {0}]
  BY <1>1
<1>6. PICK m \in S, n \in S : m # n /\ f[m] = f[n]
  <2> HIDE DEF S, f
  <2> QED
    BY <1>3, <1>4, <1>5, FS_PigeonHole
<1> QED
  BY <1>6

\* A set of natural numbers that is not empty has a least one.
LEMMA LeastMember ==
  ASSUME NEW T \in SUBSET Nat, T # {}
  PROVE  \E x \in T : \A y \in T : x <= y
<1> SUFFICES ASSUME \A x \in T : \E y \in T : y < x PROVE FALSE
  OBVIOUS
<1> DEFINE U == {n \in Nat : \A x \in T : n <= x}
<1>1. 0 \in U /\ U \in SUBSET Nat
  OBVIOUS
<1>2. \A n \in U : n + 1 \in U
  OBVIOUS
<1>3. U = Nat
  <2> HIDE DEF U
  <2> QED
    BY <1>1, <1>2, SetInduction
<1>4. PICK x \in T : TRUE
  OBVIOUS
<1>5. x + 1 \in U
  BY <1>3
<1> QED
  BY <1>5

\* What is smaller is not in a higher stretch of Unit.
LEMMA DivMonotone ==
  ASSUME NEW m \in Nat, NEW n \in Nat, NEW u \in Nat \ {0}, m <= n
  PROVE  m \div u \in Nat /\ m \div u <= n \div u
<1>1. /\ m \div u \in Int /\ n \div u \in Int
      /\ u * (m \div u) <= m /\ m < u * ((m \div u) + 1)
      /\ u * (n \div u) <= n /\ n < u * ((n \div u) + 1)
  OBVIOUS
<1> QED
  BY <1>1

LEMMA LessThanOne ==
  ASSUME NEW u \in Nat \ {0}, NEW k \in Int, u * k < u, -u < u * k
  PROVE  k = 0
<1>1. CASE k >= 1
  <2>1. u * k >= u
    BY <1>1
  <2> QED
    BY <2>1
<1>2. CASE k <= -1
  <2>1. u * k <= -u
    BY <1>2
  <2> QED
    BY <2>1
<1> QED
  BY <1>1, <1>2

\* What is left over does not depend on how it is divided.
LEMMA RestIs ==
  ASSUME NEW u \in Nat \ {0}, NEW a \in Int, NEW b \in 0..(u - 1)
  PROVE  (u * a + b) % u = b
<1> DEFINE x == u * a + b
           c == x \div u
           d == x % u
<1>1. x \in Int /\ c \in Int /\ d \in 0..(u - 1) /\ x = u * c + d
  OBVIOUS
<1>2. u * (a - c) = u * a - u * c /\ a - c \in Int
  BY <1>1
<1>3. u * (a - c) = d - b
  BY <1>1, <1>2
<1>4. a - c = 0
  BY <1>1, <1>2, <1>3, LessThanOne
<1> QED
  BY <1>1, <1>3, <1>4

LEMMA RestOfSum ==
  ASSUME NEW u \in Nat \ {0}, NEW n \in Int, NEW k \in Int
  PROVE  (n + u * k) % u = n % u
<1> DEFINE a == n \div u
           b == n % u
<1>1. a \in Int /\ b \in 0..(u - 1) /\ n = u * a + b
  OBVIOUS
<1>2. u * (a + k) = u * a + u * k /\ a + k \in Int
  BY <1>1
<1>3. n + u * k = u * (a + k) + b
  BY <1>1, <1>2
<1> QED
  BY <1>1, <1>2, <1>3, RestIs

LEMMA TimesMonotone ==
  ASSUME NEW a \in Nat, NEW b \in Nat, NEW n \in Nat, a < b
  PROVE  n * a \in Nat /\ n * b \in Nat /\ n * a + n <= n * b
OBVIOUS

--------------------------------------------------------------------------
(* The buckets *)

Entries == [cell : Cells, cost : Nat, nr : Nat]
QueueSet ==
  [size : [Buckets -> Nat], store : [Cellar -> Entries \cup {Junk}],
   minBucket : 0..BucketsCount, count : Nat]

\* How much a bucket has room for: the last one has the overflow too.
Room(b) == IF b = BucketsCount - 1 THEN BucketSize + LastBucketOverflow ELSE BucketSize

\* Those that belong in a bucket, and that they have room there and can be counted.
Of(S, b) == {e \in S : BucketOf(e.cost) = b}
Fitting(S) ==
  \A b \in Buckets : Cardinality(Of(S, b)) <= Room(b) /\ Cardinality(Of(S, b)) < SizeRange

\* A queue holds a set of entries, each of them once and in its bucket.
Item(q, b, k) == q.store[BeginIdx(b) + k]
Holds(q, S) ==
  /\ \A b \in Buckets : q.size[b] = Cardinality(Of(S, b)) /\ q.size[b] <= Room(b)
  /\ \A b \in Buckets, k \in Nat : k < q.size[b] => Item(q, b, k) \in Of(S, b)
  /\ \A b \in Buckets, k, m \in Nat :
       k < q.size[b] /\ m < q.size[b] /\ Item(q, b, k) = Item(q, b, m) => k = m
  /\ \A b \in Buckets : \A e \in Of(S, b) :
       \E k \in Nat : k < q.size[b] /\ Item(q, b, k) = e
  /\ q.count = Cardinality(S)
  /\ \A e \in S : q.minBucket <= BucketOf(e.cost)

LEMMA BucketIs ==
  ASSUME NEW n \in Nat
  PROVE  BucketOf(n) \in Buckets
<1>1. n \div Unit \in Nat
  BY BucketAssumption, DivMonotone
<1> QED
  BY <1>1, BucketAssumption DEF BucketOf, Buckets, Least

\* What is dearer is in no lower bucket.
LEMMA BucketsRise ==
  ASSUME NEW m \in Nat, NEW n \in Nat, m <= n
  PROVE  BucketOf(m) <= BucketOf(n)
<1>1. m \div Unit \in Nat /\ n \div Unit \in Nat /\ m \div Unit <= n \div Unit
  BY BucketAssumption, DivMonotone
<1> QED
  BY <1>1, BucketAssumption DEF BucketOf, Least

\* The buckets are apart, as long as no one holds more than it has room for.
LEMMA BucketsAreApart ==
  ASSUME NEW a \in Buckets, NEW b \in Buckets, NEW k \in Nat, NEW m \in Nat,
         k < Room(a), m < Room(b)
  PROVE  /\ BeginIdx(a) + k \in Cellar
         /\ BeginIdx(a) + k = BeginIdx(b) + m => a = b /\ k = m
<1>1. /\ a \in Nat /\ b \in Nat /\ BucketSize \in Nat /\ BucketsCount - 1 \in Nat
      /\ BucketsCount \in Nat /\ LastBucketOverflow \in Nat
      /\ a <= BucketsCount - 1 /\ b <= BucketsCount - 1
  BY BucketAssumption DEF Buckets
<1>2. \A x, y \in Nat : x < y => BucketSize * x + BucketSize <= BucketSize * y
  BY <1>1, TimesMonotone
<1>3. /\ BucketSize * a \in Nat /\ BucketSize * b \in Nat
      /\ BucketSize * BucketsCount \in Nat
  BY <1>1
<1>4. BeginIdx(a) + k \in Cellar
  <2>1. BucketSize * a + BucketSize <= BucketSize * BucketsCount
    BY <1>1, <1>2
  <2> QED
    BY <1>1, <1>3, <2>1 DEF BeginIdx, Cellar, Room
<1>5. ASSUME a < b PROVE BeginIdx(a) + k < BeginIdx(b) + m
  <2>1. BucketSize * a + BucketSize <= BucketSize * b /\ k < BucketSize
    BY <1>1, <1>2, <1>5 DEF Room
  <2> QED
    BY <1>1, <1>3, <2>1 DEF BeginIdx
<1>6. ASSUME b < a PROVE BeginIdx(b) + m < BeginIdx(a) + k
  <2>1. BucketSize * b + BucketSize <= BucketSize * a /\ m < BucketSize
    BY <1>1, <1>2, <1>6 DEF Room
  <2> QED
    BY <1>1, <1>3, <2>1 DEF BeginIdx
<1>7. a = b => (BeginIdx(a) + k = BeginIdx(b) + m => k = m)
  BY <1>1, <1>3 DEF BeginIdx
<1>8. BeginIdx(a) \in Nat /\ BeginIdx(b) \in Nat
  BY <1>3 DEF BeginIdx
<1> QED
  BY <1>1, <1>4, <1>5, <1>6, <1>7, <1>8

LEMMA QueueFrom ==
  ASSUME NEW q \in QueueSet, NEW n \in Nat, NEW m \in 0..BucketsCount,
         NEW f \in [Cellar -> Entries \cup {Junk}], NEW s \in [Buckets -> Nat]
  PROVE  [q EXCEPT !.count = n, !.minBucket = m, !.store = f, !.size = s] \in QueueSet
BY DEF QueueSet

\* A new entry has the place after the last of its bucket.
LEMMA PushedHolds ==
  ASSUME NEW q \in QueueSet, NEW S \in SUBSET Entries, IsFiniteSet(S), Holds(q, S),
         NEW e \in Entries, e \notin S, Fitting(S \cup {e})
  PROVE  Pushed(q, e) \in QueueSet /\ Holds(Pushed(q, e), S \cup {e})
<1> DEFINE c == BucketOf(e.cost)
           T == S \cup {e}
           p == Pushed(q, e)
           n == q.size[c]
           x == BeginIdx(c) + n
<1>1. e.cost \in Nat /\ c \in Buckets /\ (\A f \in S : f.cost \in Nat /\ BucketOf(f.cost) \in Buckets)
  BY BucketIs DEF Entries
<1>2. /\ \A b \in Buckets : b # c => Of(T, b) = Of(S, b)
      /\ Of(T, c) = Of(S, c) \cup {e} /\ e \notin Of(S, c)
  BY DEF Of
<1>3. /\ IsFiniteSet(Of(S, c)) /\ Cardinality(Of(S, c)) \in Nat /\ Cardinality(S) \in Nat
      /\ Cardinality(Of(T, c)) = Cardinality(Of(S, c)) + 1
      /\ Cardinality(T) = Cardinality(S) + 1
  <2>1. IsFiniteSet(Of(S, c))
    BY FS_Subset DEF Of
  <2>2. Cardinality(T) = Cardinality(S) + 1 /\ Cardinality(S) \in Nat
    BY FS_AddElement, FS_CardinalityType
  <2> DEFINE A == Of(S, c)
  <2> HIDE DEF A, T, c
  <2>3. Cardinality(A \cup {e}) = Cardinality(A) + 1 /\ Cardinality(A) \in Nat
    BY <1>2, <2>1, FS_AddElement, FS_CardinalityType DEF A
  <2> QED
    BY <1>2, <2>1, <2>2, <2>3 DEF A
<1>4. /\ n = Cardinality(Of(S, c)) /\ n \in Nat /\ n + 1 <= Room(c) /\ n < Room(c)
      /\ (n + 1) % SizeRange = n + 1
  <2>1. n = Cardinality(Of(S, c)) /\ n \in Nat
    BY <1>1, <1>3 DEF Holds
  <2>2. n + 1 <= Room(c) /\ n + 1 < SizeRange
    BY <1>1, <1>3, <2>1 DEF Fitting
  <2>3. Room(c) \in Nat /\ SizeRange \in Nat
    BY BucketAssumption DEF Room
  <2> QED
    BY <2>1, <2>2, <2>3
<1>5. x \in Cellar
  BY <1>1, <1>4, BucketsAreApart
<1>6. /\ c \in 0..BucketsCount /\ q.minBucket \in 0..BucketsCount
      /\ q.count \in Nat /\ q.size \in [Buckets -> Nat]
      /\ q.store \in [Cellar -> Entries \cup {Junk}]
  BY <1>1, BucketAssumption DEF QueueSet, Buckets
<1>7. /\ p.count = q.count + 1
      /\ p.minBucket = Least(q.minBucket, c)
      /\ p.store = [q.store EXCEPT ![x] = e]
      /\ p.size = [q.size EXCEPT ![c] = n + 1]
  BY <1>4 DEF Pushed, QueueSet
<1>8. p \in QueueSet
  <2> HIDE DEF p, n, x, c
  <2>1. p.count \in Nat /\ p.minBucket \in 0..BucketsCount
    BY <1>6, <1>7 DEF Least
  <2>2. p.store \in [Cellar -> Entries \cup {Junk}]
    BY <1>6, <1>7
  <2>3. p.size \in [Buckets -> Nat]
    <3>1. n + 1 \in Nat /\ p.size = [q.size EXCEPT ![c] = n + 1]
      BY <1>4, <1>7
    <3> QED
      BY <1>6, <3>1
  <2>4. p = [q EXCEPT !.count = p.count, !.minBucket = p.minBucket,
                      !.store = p.store, !.size = p.size]
    BY <1>7 DEF Pushed, p, n, x, c
  <2>5. [q EXCEPT !.count = p.count, !.minBucket = p.minBucket,
                  !.store = p.store, !.size = p.size] \in QueueSet
    BY <2>1, <2>2, <2>3, QueueFrom
  <2> QED
    BY <2>4, <2>5
<1>9. \A b \in Buckets : b # c => p.size[b] = q.size[b]
  BY <1>6, <1>7
<1>10. p.size[c] = n + 1
  BY <1>1, <1>6, <1>7
<1>11. \A b \in Buckets : q.size[b] \in Nat /\ q.size[b] <= Room(b)
  BY <1>6 DEF Holds
<1>12. Item(p, c, n) = e
  BY <1>5, <1>6, <1>7 DEF Item
<1>13. ASSUME NEW b \in Buckets, NEW k \in Nat, k < q.size[b]
       PROVE  Item(p, b, k) = Item(q, b, k)
  <2>1. /\ Room(b) \in Nat /\ k < Room(b)
    BY <1>11, <1>13, BucketAssumption DEF Room
  <2>2. BeginIdx(b) + k # x
    BY <1>1, <1>4, <1>13, <2>1, BucketsAreApart
  <2>3. BeginIdx(b) + k \in Cellar
    BY <1>13, <2>1, BucketsAreApart
  <2> QED
    BY <1>6, <1>7, <2>2, <2>3 DEF Item
<1> HIDE DEF p, T, x, c
<1>14. \A b \in Buckets : p.size[b] = Cardinality(Of(T, b)) /\ p.size[b] <= Room(b)
  BY <1>2, <1>3, <1>4, <1>9, <1>10, <1>11 DEF Holds
<1>15. \A k \in Nat : k < n + 1 => k < n \/ k = n
  BY <1>4
<1>16. \A b \in Buckets, k \in Nat : k < p.size[b] =>
         \/ k < q.size[b] /\ Item(p, b, k) = Item(q, b, k) /\ Item(p, b, k) \in Of(S, b)
         \/ b = c /\ k = n /\ Item(p, b, k) = e
  BY <1>9, <1>10, <1>12, <1>13, <1>15 DEF Holds
<1>17. \A b \in Buckets, k \in Nat : k < p.size[b] => Item(p, b, k) \in Of(T, b)
  BY <1>2, <1>16
<1>18. \A b \in Buckets, k, m \in Nat :
         k < p.size[b] /\ m < p.size[b] /\ Item(p, b, k) = Item(p, b, m) => k = m
  <2> SUFFICES ASSUME NEW b \in Buckets, NEW k \in Nat, NEW m \in Nat, k < p.size[b],
                      m < p.size[b], Item(p, b, k) = Item(p, b, m)
               PROVE  k = m
    OBVIOUS
  <2> QED
    BY <1>2, <1>16 DEF Holds
<1>19. \A b \in Buckets : \A f \in Of(T, b) :
         \E k \in Nat : k < p.size[b] /\ Item(p, b, k) = f
  <2> SUFFICES ASSUME NEW b \in Buckets, NEW f \in Of(T, b)
               PROVE  \E k \in Nat : k < p.size[b] /\ Item(p, b, k) = f
    OBVIOUS
  <2>1. CASE f \in Of(S, b)
    <3>1. PICK k \in Nat : k < q.size[b] /\ Item(q, b, k) = f
      BY <2>1 DEF Holds
    <3>2. k < p.size[b]
      BY <1>4, <1>9, <1>10, <1>11, <3>1
    <3> QED
      BY <1>13, <3>1, <3>2
  <2>2. CASE f \notin Of(S, b)
    <3>1. b = c /\ f = e
      BY <1>2, <2>2
    <3> QED
      BY <1>4, <1>10, <1>12, <3>1
  <2> QED
    BY <2>1, <2>2
<1>20. p.count = Cardinality(T)
  BY <1>3, <1>7 DEF Holds
<1>21. \A f \in T : p.minBucket <= BucketOf(f.cost)
  <2> SUFFICES ASSUME NEW f \in T PROVE p.minBucket <= BucketOf(f.cost)
    OBVIOUS
  <2>1. BucketOf(f.cost) \in Int /\ (f \in S => q.minBucket <= BucketOf(f.cost)) /\ (f \notin S => BucketOf(f.cost) = c)
    BY <1>1 DEF Holds, T, c, Buckets
  <2>2. c \in Int /\ q.minBucket \in Int
    BY <1>6
  <2> QED
    BY <1>7, <2>1, <2>2 DEF Least
<1> QED
  BY <1>8, <1>14, <1>17, <1>18, <1>19, <1>20, <1>21 DEF Holds, p, T

\* Pop begins with the lowest bucket that has anything.
LEMMA LowestBucketIs ==
  ASSUME NEW q \in QueueSet, NEW S \in SUBSET Entries, Holds(q, S), S # {}
  PROVE  /\ LowestBucket(q) \in Buckets /\ q.size[LowestBucket(q)] > 0
         /\ \A a \in Buckets : a < LowestBucket(q) => q.size[a] = 0
         /\ q.minBucket <= LowestBucket(q)
<1> DEFINE Fine(b) == /\ q.size[b] > 0 \/ b = BucketsCount - 1
                      /\ \A a \in q.minBucket..(b - 1) : q.size[a] = 0
           R == q.minBucket..(BucketsCount - 1)
           T == {b \in R : q.size[b] > 0}
           l == LowestBucket(q)
<1>1. q.minBucket \in Nat /\ q.size \in [Buckets -> Nat] /\ BucketsCount \in Nat
  BY BucketAssumption DEF QueueSet
<1>2. R \subseteq Buckets /\ T \subseteq R /\ R \subseteq Nat
  BY <1>1 DEF Buckets
<1>3. PICK c \in Buckets : c >= q.minBucket /\ q.size[c] > 0
  <2>1. PICK e \in S : TRUE
    OBVIOUS
  <2>2. BucketOf(e.cost) \in Buckets /\ e \in Of(S, BucketOf(e.cost))
    BY BucketIs DEF Entries, Of
  <2>3. PICK k \in Nat : k < q.size[BucketOf(e.cost)]
    BY <2>2 DEF Holds
  <2>4. q.size[BucketOf(e.cost)] > 0
    BY <1>1, <2>2, <2>3
  <2>5. BucketOf(e.cost) >= q.minBucket
    BY <1>1, <2>2 DEF Holds, Buckets
  <2> QED
    BY <2>2, <2>4, <2>5
<1>4. c \in T /\ T \in SUBSET Nat
  BY <1>1, <1>2, <1>3 DEF Buckets
<1>5. PICK x \in T : \A y \in T : x <= y
  <2> HIDE DEF T
  <2> QED
    BY <1>4, LeastMember
<1>6. \A a \in R : a < x => q.size[a] = 0
  <2> SUFFICES ASSUME NEW a \in R, a < x, q.size[a] # 0 PROVE FALSE
    OBVIOUS
  <2>1. q.size[a] \in Nat /\ a \in Nat /\ x \in Nat
    BY <1>1, <1>2
  <2>2. a \in T
    BY <2>1
  <2> QED
    BY <1>5, <2>1, <2>2
<1>7. x \in R /\ Fine(x)
  <2>1. \A a \in q.minBucket..(x - 1) : a \in R /\ a < x
    BY <1>1, <1>2
  <2> QED
    BY <1>6, <2>1
<1>8. l \in R /\ Fine(l)
  <2>1. l = CHOOSE b \in R : Fine(b)
    BY DEF LowestBucket
  <2> HIDE DEF R, Fine, l
  <2> QED
    BY <1>7, <2>1
<1>9. \A a \in Buckets : a < q.minBucket => q.size[a] = 0
  <2> SUFFICES ASSUME NEW a \in Buckets, a < q.minBucket, q.size[a] # 0 PROVE FALSE
    OBVIOUS
  <2>1. 0 < q.size[a] /\ 0 \in Nat
    BY <1>1
  <2>2. Item(q, a, 0) \in S /\ BucketOf(Item(q, a, 0).cost) = a
    BY <2>1 DEF Holds, Of
  <2>3. q.minBucket <= a
    BY <2>2 DEF Holds
  <2> QED
    BY <1>1, <2>3 DEF Buckets
<1>10. l \in Nat /\ c \in Nat /\ \A a \in Buckets : a \in Nat
  BY <1>1, <1>8 DEF Buckets
<1>11. \A a \in Buckets : a < l => q.size[a] = 0
  <2> SUFFICES ASSUME NEW a \in Buckets, a < l PROVE q.size[a] = 0
    OBVIOUS
  <2>1. CASE a < q.minBucket
    BY <1>9, <2>1
  <2>2. CASE ~(a < q.minBucket)
    <3>1. a \in q.minBucket..(l - 1)
      BY <1>1, <1>10, <2>2
    <3> QED
      BY <1>8, <3>1
  <2> QED
    BY <2>1, <2>2
<1>12. q.size[l] > 0
  <2> SUFFICES ASSUME ~(q.size[l] > 0) PROVE FALSE
    OBVIOUS
  <2>1. l = BucketsCount - 1
    BY <1>8
  <2>2. c < l \/ c = l
    BY <1>10, <2>1, <1>1 DEF Buckets
  <2> QED
    BY <1>3, <1>11, <2>2
<1> QED
  BY <1>1, <1>2, <1>8, <1>11, <1>12

\* In it, it takes the first of the cheapest.
LEMMA CheapestIdxIs ==
  ASSUME NEW q \in QueueSet, NEW b \in Buckets, q.size[b] > 0,
         \A k \in Nat : k < q.size[b] => Item(q, b, k) \in Entries
  PROVE  /\ CheapestIdx(q, b) \in Nat /\ CheapestIdx(q, b) < q.size[b]
         /\ \A k \in Nat : k < q.size[b] =>
              Item(q, b, CheapestIdx(q, b)).cost <= Item(q, b, k).cost
<1> DEFINE n == q.size[b]
           R == 0..(n - 1)
           cost(k) == Item(q, b, k).cost
           Fine(k) == /\ \A j \in R : cost(k) <= cost(j)
                      /\ \A j \in 0..(k - 1) : cost(k) < cost(j)
<1>1. n \in Nat /\ R \in SUBSET Nat /\ 0 \in R /\ (\A k \in Nat : k < n <=> k \in R)
  BY DEF QueueSet
<1>2. \A k \in R : cost(k) \in Nat
  BY <1>1 DEF Entries
<1>3. CheapestIdx(q, b) = CHOOSE k \in R : Fine(k)
  BY DEF CheapestIdx, Item
<1> HIDE DEF cost
<1>4. PICK m \in R : \A k \in R : cost(m) <= cost(k)
  <2> DEFINE C == {cost(k) : k \in R}
  <2>1. C \in SUBSET Nat /\ C # {}
    BY <1>1, <1>2
  <2>2. PICK v \in C : \A w \in C : v <= w
    <3> HIDE DEF C
    <3> QED
      BY <2>1, LeastMember
  <2> QED
    BY <2>2
<1>5. PICK x \in R : cost(x) = cost(m) /\ \A k \in R : cost(k) = cost(m) => x <= k
  <2> DEFINE D == {k \in R : cost(k) = cost(m)}
  <2>1. D \in SUBSET Nat /\ D # {}
    BY <1>1
  <2>2. PICK v \in D : \A w \in D : v <= w
    <3> HIDE DEF D
    <3> QED
      BY <2>1, LeastMember
  <2> QED
    BY <2>2
<1>6. Fine(x)
  <2>1. \A j \in R : cost(x) <= cost(j)
    BY <1>4, <1>5
  <2>2. ASSUME NEW j \in 0..(x - 1) PROVE cost(x) < cost(j)
    <3>1. j \in R /\ j < x
      BY <1>1
    <3>2. cost(j) # cost(m)
      BY <1>1, <1>5, <3>1
    <3> QED
      BY <1>2, <1>5, <2>1, <3>1, <3>2
  <2> QED
    BY <2>1, <2>2
<1>7. CheapestIdx(q, b) \in R /\ Fine(CheapestIdx(q, b))
  <2> HIDE DEF Fine, R
  <2> QED
    BY <1>3, <1>6
<1> QED
  BY <1>1, <1>7 DEF cost

\* What is popped is the cheapest there is, and the last of its bucket takes
\* its place.
LEMMA PoppedHolds ==
  ASSUME NEW q \in QueueSet, NEW S \in SUBSET Entries, IsFiniteSet(S), Holds(q, S), S # {}
  PROVE  /\ PopPoint(q) \in S /\ \A f \in S : PopPoint(q).cost <= f.cost
         /\ Popped(q) \in QueueSet /\ Holds(Popped(q), S \ {PopPoint(q)})
<1> DEFINE c == LowestBucket(q)
           i1 == CheapestIdx(q, c)
           n == q.size[c]
           e == PopPoint(q)
           T == S \ {e}
           p == Popped(q)
           x == BeginIdx(c) + i1
           last == BeginIdx(c) + n - 1
<1>1. /\ c \in Buckets /\ n > 0 /\ q.minBucket <= c
      /\ \A a \in Buckets : a < c => q.size[a] = 0
  BY LowestBucketIs
<1>2. /\ q.minBucket \in 0..BucketsCount
      /\ q.count \in Nat /\ q.size \in [Buckets -> Nat]
      /\ q.store \in [Cellar -> Entries \cup {Junk}]
      /\ \A b \in Buckets : q.size[b] \in Nat /\ b \in Nat /\ Room(b) \in Nat /\ b < BucketsCount
      /\ BucketsCount \in Nat
  BY BucketAssumption DEF QueueSet, Buckets, Room
<1>3. \A k \in Nat : k < n => Item(q, c, k) \in Of(S, c) /\ Item(q, c, k) \in Entries
  BY <1>1 DEF Holds, Of
<1>4. /\ i1 \in Nat /\ i1 < n
      /\ \A k \in Nat : k < n => Item(q, c, i1).cost <= Item(q, c, k).cost
  <2> HIDE DEF c
  <2> QED
    BY <1>1, <1>3, CheapestIdxIs
<1>5. e = Item(q, c, i1) /\ e \in Of(S, c) /\ e \in S
  BY <1>3, <1>4 DEF PopPoint, Item, Of
<1>6. \A b \in Buckets : q.size[b] <= Room(b)
  BY DEF Holds
<1>7. \A f \in S : e.cost <= f.cost
  <2> SUFFICES ASSUME NEW f \in S PROVE e.cost <= f.cost
    OBVIOUS
  <2> DEFINE b == BucketOf(f.cost)
  <2>1. b \in Buckets /\ f \in Of(S, b) /\ f.cost \in Nat /\ e.cost \in Nat /\ BucketOf(e.cost) = c
    BY <1>5, BucketIs DEF Entries, Of
  <2>2. PICK k \in Nat : k < q.size[b] /\ Item(q, b, k) = f
    BY <2>1 DEF Holds
  <2>3. c <= b
    BY <1>1, <1>2, <2>1, <2>2
  <2>4. CASE b = c
    BY <1>4, <1>5, <2>2, <2>4
  <2>5. CASE c < b
    <3> HIDE DEF b, c
    <3>1. ~(f.cost <= e.cost)
      <4> SUFFICES ASSUME f.cost <= e.cost PROVE FALSE
        OBVIOUS
      <4>1. BucketOf(f.cost) <= BucketOf(e.cost)
        BY <2>1, BucketsRise
      <4> QED
        BY <1>1, <1>2, <2>1, <2>5, <4>1 DEF b
    <3> QED
      BY <2>1, <3>1
  <2> QED
    BY <1>1, <1>2, <2>1, <2>3, <2>4, <2>5
<1>8. /\ IsFiniteSet(Of(S, c)) /\ Cardinality(Of(S, c)) \in Nat /\ Cardinality(S) \in Nat
      /\ Of(T, c) = Of(S, c) \ {e}
      /\ Cardinality(Of(T, c)) = Cardinality(Of(S, c)) - 1
      /\ Cardinality(T) = Cardinality(S) - 1
  <2>1. IsFiniteSet(Of(S, c))
    BY FS_Subset DEF Of
  <2>2. Cardinality(T) = Cardinality(S) - 1 /\ Cardinality(S) \in Nat
    BY <1>5, FS_RemoveElement, FS_CardinalityType
  <2>3. Of(T, c) = Of(S, c) \ {e}
    BY DEF Of
  <2> HIDE DEF e, c, T
  <2> QED
    BY <1>5, <2>1, <2>2, <2>3, FS_RemoveElement, FS_CardinalityType
<1>9. \A b \in Buckets : b # c => Of(T, b) = Of(S, b)
  BY <1>5 DEF Of
<1>10. /\ n \in Nat /\ n - 1 \in Nat /\ n - 1 < n /\ n <= Room(c)
       /\ i1 < Room(c) /\ n - 1 < Room(c)
       /\ last = BeginIdx(c) + (n - 1)
  <2>1. BeginIdx(c) \in Nat /\ n \in Nat
    BY <1>1, <1>2, BucketAssumption DEF BeginIdx
  <2> HIDE DEF c, n, i1
  <2> QED
    BY <1>1, <1>2, <1>4, <1>6, <2>1 DEF n
<1> HIDE DEF c, n, i1
<1>11. x \in Cellar /\ last \in Cellar
  BY <1>1, <1>4, <1>10, BucketsAreApart
<1>12. /\ p.count = q.count - 1
       /\ p.minBucket = c
       /\ p.size = [q.size EXCEPT ![c] = n - 1]
       /\ p.store = [q.store EXCEPT ![x] = Item(q, c, n - 1)]
  <2>1. q.store[last] = Item(q, c, n - 1)
    BY <1>10 DEF Item
  <2> QED
    BY <2>1 DEF Popped, QueueSet, c, n, i1
<1>13. q.count = Cardinality(S) /\ Cardinality(S) # 0
  BY FS_EmptySet DEF Holds
<1>14. p \in QueueSet
  <2> HIDE DEF p, x, last
  <2>1. p.count \in Nat /\ p.minBucket \in 0..BucketsCount
    BY <1>1, <1>2, <1>12, <1>13
  <2>2. Item(q, c, n - 1) \in Entries
    BY <1>3, <1>10
  <2>3. p.store \in [Cellar -> Entries \cup {Junk}]
    BY <1>2, <1>12, <2>2
  <2>4. p.size \in [Buckets -> Nat]
    BY <1>2, <1>10, <1>12
  <2>5. p = [q EXCEPT !.count = p.count, !.minBucket = p.minBucket,
                      !.store = p.store, !.size = p.size]
    BY <1>12 DEF Popped, p, n, x, last, c, i1
  <2>6. [q EXCEPT !.count = p.count, !.minBucket = p.minBucket,
                  !.store = p.store, !.size = p.size] \in QueueSet
    BY <2>1, <2>3, <2>4, QueueFrom
  <2> QED
    BY <2>5, <2>6
<1>15. (\A b \in Buckets : b # c => p.size[b] = q.size[b]) /\ p.size[c] = n - 1
  BY <1>1, <1>2, <1>12
<1>16. ASSUME NEW b \in Buckets, NEW k \in Nat, k < q.size[b]
       PROVE  Item(p, b, k) = IF b = c /\ k = i1 THEN Item(q, c, n - 1) ELSE Item(q, b, k)
  <2>1. k < Room(b)
    BY <1>2, <1>6, <1>16
  <2>2. BeginIdx(b) + k \in Cellar /\ (BeginIdx(b) + k = x => b = c /\ k = i1)
    BY <1>1, <1>4, <1>10, <1>16, <2>1, BucketsAreApart
  <2> QED
    BY <1>2, <1>11, <1>12, <2>2 DEF Item
<1> HIDE DEF p, x, last, e
<1>17. \A k, m \in Nat : k < n /\ m < n /\ Item(q, c, k) = Item(q, c, m) => k = m
  BY <1>1 DEF Holds, n
<1>18. \A k \in Nat : k < n - 1 =>
         /\ Item(p, c, k) = IF k = i1 THEN Item(q, c, n - 1) ELSE Item(q, c, k)
         /\ Item(p, c, k) \in Of(T, c)
  <2> SUFFICES ASSUME NEW k \in Nat, k < n - 1
               PROVE  /\ Item(p, c, k) = IF k = i1 THEN Item(q, c, n - 1) ELSE Item(q, c, k)
                      /\ Item(p, c, k) \in Of(T, c)
    OBVIOUS
  <2>2. k < n /\ k # n - 1
    BY <1>10
  <2>3. Item(p, c, k) = IF k = i1 THEN Item(q, c, n - 1) ELSE Item(q, c, k)
    BY <1>1, <1>16, <2>2 DEF n
  <2>4. CASE k = i1
    <3>1. Item(q, c, n - 1) # e
      BY <1>4, <1>5, <1>10, <1>17, <2>2, <2>4
    <3> QED
      BY <1>3, <1>8, <1>10, <2>3, <2>4, <3>1
  <2>5. CASE k # i1
    <3>1. Item(q, c, k) # e
      BY <1>4, <1>5, <1>17, <2>2, <2>5
    <3> QED
      BY <1>3, <1>8, <2>2, <2>3, <2>5, <3>1
  <2> QED
    BY <2>3, <2>4, <2>5
<1>19. \A b \in Buckets, k \in Nat : b # c /\ k < p.size[b] =>
         k < q.size[b] /\ Item(p, b, k) = Item(q, b, k)
  BY <1>15, <1>16
<1>20. \A b \in Buckets : p.size[b] = Cardinality(Of(T, b)) /\ p.size[b] <= Room(b)
  <2> SUFFICES ASSUME NEW b \in Buckets
               PROVE  p.size[b] = Cardinality(Of(T, b)) /\ p.size[b] <= Room(b)
    OBVIOUS
  <2>1. CASE b = c
    <3>1. n = Cardinality(Of(S, c))
      BY <1>1 DEF Holds, n
    <3> QED
      BY <1>2, <1>8, <1>10, <1>15, <2>1, <3>1
  <2>2. CASE b # c
    BY <1>9, <1>15, <2>2 DEF Holds
  <2> QED
    BY <2>1, <2>2
<1>21. \A b \in Buckets, k \in Nat : k < p.size[b] => Item(p, b, k) \in Of(T, b)
  <2> SUFFICES ASSUME NEW b \in Buckets, NEW k \in Nat, k < p.size[b]
               PROVE  Item(p, b, k) \in Of(T, b)
    OBVIOUS
  <2>1. CASE b = c
    BY <1>15, <1>18, <2>1
  <2>2. CASE b # c
    BY <1>9, <1>19, <2>2 DEF Holds
  <2> QED
    BY <2>1, <2>2
<1>22. \A b \in Buckets, k, m \in Nat :
         k < p.size[b] /\ m < p.size[b] /\ Item(p, b, k) = Item(p, b, m) => k = m
  <2> SUFFICES ASSUME NEW b \in Buckets, NEW k \in Nat, NEW m \in Nat, k < p.size[b],
                      m < p.size[b], Item(p, b, k) = Item(p, b, m)
               PROVE  k = m
    OBVIOUS
  <2>1. CASE b = c
    <3>1. k < n - 1 /\ m < n - 1
      BY <1>15, <2>1
    <3>2. k < n /\ m < n /\ k # n - 1 /\ m # n - 1
      BY <1>10, <3>1
    <3>3. /\ Item(p, c, k) = IF k = i1 THEN Item(q, c, n - 1) ELSE Item(q, c, k)
          /\ Item(p, c, m) = IF m = i1 THEN Item(q, c, n - 1) ELSE Item(q, c, m)
      BY <1>18, <3>1
    <3> QED
      BY <1>10, <1>17, <2>1, <3>2, <3>3
  <2>2. CASE b # c
    BY <1>19, <2>2 DEF Holds
  <2> QED
    BY <2>1, <2>2
<1>23. \A b \in Buckets : \A f \in Of(T, b) :
         \E k \in Nat : k < p.size[b] /\ Item(p, b, k) = f
  <2> SUFFICES ASSUME NEW b \in Buckets, NEW f \in Of(T, b)
               PROVE  \E k \in Nat : k < p.size[b] /\ Item(p, b, k) = f
    OBVIOUS
  <2>1. PICK k \in Nat : k < q.size[b] /\ Item(q, b, k) = f
    BY DEF Holds, Of
  <2>2. CASE b # c
    BY <1>15, <1>16, <2>1, <2>2
  <2>3. CASE b = c
    <3>1. k # i1 /\ k < n
      BY <1>5, <2>1, <2>3 DEF Of, n
    <3>2. CASE k = n - 1
      <4>1. i1 < n - 1
        BY <1>4, <1>10, <3>1, <3>2
      <4>2. Item(p, c, i1) = f
        BY <1>4, <1>18, <2>1, <2>3, <3>2, <4>1
      <4> QED
        BY <1>4, <1>15, <2>3, <4>1, <4>2
    <3>3. CASE k # n - 1
      <4>1. k < n - 1
        BY <1>2, <1>10, <3>1, <3>3
      <4> QED
        BY <1>15, <1>18, <2>1, <2>3, <3>1, <4>1
    <3> QED
      BY <3>2, <3>3
  <2> QED
    BY <2>2, <2>3
<1>24. p.count = Cardinality(T)
  BY <1>8, <1>12, <1>13
<1>25. \A f \in T : p.minBucket <= BucketOf(f.cost)
  <2> SUFFICES ASSUME NEW f \in T PROVE c <= BucketOf(f.cost)
    BY <1>12
  <2>1. f \in S /\ f.cost \in Nat /\ e.cost \in Nat
    BY <1>5 DEF Entries
  <2> QED
    BY <1>5, <1>7, <2>1, BucketsRise DEF Of
<1> HIDE DEF T
<1>26. Holds(p, T)
  BY <1>20, <1>21, <1>22, <1>23, <1>24, <1>25 DEF Holds
<1> QED
  BY <1>5, <1>7, <1>14, <1>26 DEF p, T, e

LEMMA ClearedHolds ==
  ASSUME NEW q \in QueueSet
  PROVE  Cleared(q) \in QueueSet /\ Holds(Cleared(q), {})
<1> DEFINE p == Cleared(q)
<1>1. /\ p.count = 0 /\ p.minBucket = BucketsCount
      /\ p.size = [b \in Buckets |-> 0] /\ p.store = q.store
  BY DEF Cleared, QueueSet
<1>2. \A b \in Buckets : Of({}, b) = {} /\ Room(b) \in Nat
  BY BucketAssumption DEF Of, Room
<1>3. \A b \in Buckets : p.size[b] = 0
  BY <1>1
<1>4. Holds(p, {})
  <2> HIDE DEF p
  <2> QED
    BY <1>1, <1>2, <1>3, FS_EmptySet DEF Holds
<1>5. p \in QueueSet
  <2>1. /\ 0 \in Nat /\ BucketsCount \in 0..BucketsCount
        /\ [b \in Buckets |-> 0] \in [Buckets -> Nat]
    BY BucketAssumption
  <2> HIDE DEF p
  <2>2. p = [q EXCEPT !.count = 0, !.minBucket = BucketsCount, !.size = [b \in Buckets |-> 0]]
    BY DEF Cleared, p
  <2> QED
    BY <2>1, <2>2 DEF QueueSet
<1> QED
  BY <1>4, <1>5

\* The slots of the buckets have what is held.
LEMMA ContentIs ==
  ASSUME NEW q \in QueueSet, NEW S \in SUBSET Entries, Holds(q, S)
  PROVE  Content(q) = S
<1>1. /\ q.size \in [Buckets -> Nat] /\ \A b \in Buckets : q.size[b] <= Room(b) /\ Room(b) \in Nat
      /\ \A b \in Buckets : BeginIdx(b) \in Nat
  BY BucketAssumption DEF QueueSet, Holds, Room, Buckets, BeginIdx
<1>2. ASSUME NEW e \in Content(q) PROVE e \in S
  <2>1. PICK x \in Slots(q) : e = q.store[x]
    BY <1>2 DEF Content
  <2>2. PICK b \in Buckets : BeginIdx(b) <= x /\ x < BeginIdx(b) + q.size[b]
    BY <2>1 DEF Slots
  <2>3. x \in Nat
    BY <2>1, BucketAssumption DEF Slots, Cellar
  <2> DEFINE k == x - BeginIdx(b)
  <2>4. k \in Nat /\ k < q.size[b] /\ BeginIdx(b) + k = x
    BY <1>1, <2>2, <2>3
  <2>5. Item(q, b, k) \in Of(S, b) /\ Item(q, b, k) = e
    <3> HIDE DEF k
    <3> QED
      BY <2>1, <2>2, <2>4 DEF Holds, Item
  <2> QED
    BY <2>5 DEF Of
<1>3. ASSUME NEW e \in S PROVE e \in Content(q)
  <2> DEFINE b == BucketOf(e.cost)
  <2>1. b \in Buckets /\ e \in Of(S, b)
    BY BucketIs DEF Entries, Of
  <2>2. PICK k \in Nat : k < q.size[b] /\ Item(q, b, k) = e
    BY <2>1 DEF Holds
  <2>3. BeginIdx(b) + k \in Cellar
    <3> HIDE DEF b
    <3>1. k < Room(b)
      BY <1>1, <2>1, <2>2
    <3> QED
      BY <2>1, <3>1, BucketsAreApart
  <2>4. BeginIdx(b) + k \in Slots(q)
    <3> HIDE DEF b
    <3> QED
      BY <1>1, <2>1, <2>2, <2>3 DEF Slots
  <2> QED
    BY <2>2, <2>4 DEF Content, Item
<1> QED
  BY <1>2, <1>3

--------------------------------------------------------------------------
(* What the path finder has still to look at *)

\* Costs are no less than nothing (PathFinder.cpp:296, 297: distances and a
\* cross product without its sign).
CostsAreWhole == \A d \in Nat, c, s, g \in Cells : Cost(d, c, s, g) \in Nat

\* No bucket is asked to hold more than it has room for or than it can count.
Fits == Fitting(open)

QueueInv ==
  /\ open \subseteq Entries /\ IsFiniteSet(open)
  /\ \A e \in open : e.nr < pushes
  /\ queue \in QueueSet
  /\ phase \in {"search", "expand", "found"} => Holds(queue, open)

LEMMA QueueStarts == FInit => QueueInv
<1> SUFFICES ASSUME FInit PROVE QueueInv
  OBVIOUS
<1>1. open = {} /\ phase = "asked" /\ queue = EmptyQueue
  BY DEF FInit, Init
<1>2. EmptyQueue \in QueueSet
  BY BucketAssumption DEF EmptyQueue, QueueSet
<1> QED
  BY <1>1, <1>2, FS_EmptySet DEF QueueInv

\* An entry for a neighbour is pushed, or nothing is.
LEMMA FPushKeeps ==
  ASSUME CostsAreWhole, IInv, QueueInv, Fits', FPush
  PROVE  QueueInv'
<1> DEFINE c == Child(current, i)
           p == parent[current]
<1>0. /\ phase = "expand" /\ phase' = phase /\ c \in Cells /\ pushes \in Nat
      /\ source \in Cells /\ goal \in Cells
      /\ TypeOK /\ OneRoot /\ Chained /\ Known
  BY DEF FPush, Straight, Around, Looks, Looked, Open, IInv, TypeOK
<1>1. \/ pushes' = pushes /\ open' = open
      \/ \E d \in Nat : Queued(c, d)
  <2>1. CASE Straight
    <3>1. p \in Cells /\ dist[p] \in Nat
      BY <1>0, CurrentParent
    <3>2. Through(p, c) \in Nat
      BY <1>0, <3>1, GridAssumption DEF Through
    <3> QED
      BY <2>1, <3>2 DEF Straight
  <2>2. CASE Around
    <3>1. PICK j \in Visited(c) :
            \/ Queued(c, Through(Child(c, j), c))
            \/ NotQueued
      BY <2>2 DEF Around
    <3>2. Child(c, j) \in closed
      BY <3>1 DEF Visited
    <3>3. Child(c, j) \in Cells /\ dist[Child(c, j)] \in Nat
      BY <1>0, <3>2, VisitedKnown
    <3>4. Through(Child(c, j), c) \in Nat
      BY <1>0, <3>3, GridAssumption DEF Through
    <3> QED
      BY <3>1, <3>4 DEF NotQueued
  <2> QED
    BY <2>1, <2>2 DEF FPush
<1>2. CASE pushes' = pushes /\ open' = open
  BY <1>0, <1>2 DEF QueueInv, FPush
<1>3. ASSUME NEW d \in Nat, Queued(c, d) PROVE QueueInv'
  <2> DEFINE e == Entry(c, Cost(d, c, source, goal))
  <2>1. open' = open \cup {e} /\ pushes' = pushes + 1
    BY <1>3 DEF Queued
  <2>2. e \in Entries /\ e.nr = pushes
    BY <1>0 DEF Entry, Entries, CostsAreWhole
  <2>3. \A f \in open : f.nr < pushes /\ f.nr \in Nat
    BY DEF QueueInv, Entries
  <2>4. e \notin open
    BY <1>0, <2>2, <2>3
  <2>5. \A f \in open' : f.nr = pushes <=> f = e
    BY <1>0, <2>1, <2>2, <2>3
  <2>6. e = CHOOSE f \in open' : f.nr = pushes
    <3> HIDE DEF e
    <3> QED
      BY <2>1, <2>5
  <2>7. queue' = Pushed(queue, e)
    <3> HIDE DEF e
    <3>1. pushes' # pushes
      BY <1>0, <2>1
    <3> QED
      BY <2>6, <3>1 DEF FPush
  <2> HIDE DEF e
  <2>8. /\ open \in SUBSET Entries /\ IsFiniteSet(open) /\ queue \in QueueSet
        /\ Holds(queue, open)
    BY <1>0 DEF QueueInv
  <2>9. Fitting(open \cup {e})
    BY <2>1 DEF Fits
  <2>10. Pushed(queue, e) \in QueueSet /\ Holds(Pushed(queue, e), open \cup {e})
    BY <2>2, <2>4, <2>8, <2>9, PushedHolds
  <2>11. IsFiniteSet(open \cup {e})
    BY <2>8, FS_AddElement
  <2>12. \A f \in open' : f.nr < pushes'
    BY <1>0, <2>1, <2>2, <2>3
  <2>13. Holds(queue', open')
    BY <2>1, <2>7, <2>10
  <2> QED
    BY <2>1, <2>2, <2>7, <2>8, <2>10, <2>11, <2>12, <2>13 DEF QueueInv
<1> QED
  BY <1>1, <1>2, <1>3

\* A pop takes the cheapest away.
LEMMA FPopKeeps ==
  ASSUME IInv, QueueInv, FPop
  PROVE  /\ QueueInv'
         /\ Next1 \in open /\ open' = open \ {Next1}
         /\ \A f \in open : Next1.cost <= f.cost
<1>1. /\ phase = "search" /\ queue.count > 0 /\ queue' = Popped(queue)
      /\ open' = open \ {Next1} /\ pushes' = pushes
      /\ phase' \in {"search", "expand", "found"}
  BY DEF FPop, Popping, Drop, Reach, Expand
<1>2. /\ open \in SUBSET Entries /\ IsFiniteSet(open) /\ queue \in QueueSet
      /\ Holds(queue, open)
  BY <1>1 DEF QueueInv
<1>3. open # {}
  BY <1>1, <1>2, FS_EmptySet DEF Holds
<1>4. /\ Next1 \in open /\ \A f \in open : Next1.cost <= f.cost
      /\ Popped(queue) \in QueueSet /\ Holds(Popped(queue), open \ {Next1})
  BY <1>2, <1>3, PoppedHolds DEF Next1
<1>5. IsFiniteSet(open \ {Next1})
  BY <1>2, FS_RemoveElement
<1>6. Holds(queue', open')
  BY <1>1, <1>4
<1>7. \A f \in open' : f.nr < pushes'
  BY <1>1 DEF QueueInv
<1> QED
  BY <1>1, <1>2, <1>4, <1>5, <1>6, <1>7 DEF QueueInv

LEMMA FBeginKeeps ==
  ASSUME CostsAreWhole, IInv, QueueInv, Fits', FBegin
  PROVE  QueueInv'
<1> DEFINE e == Entry(source, 0)
           q == Cleared(queue)
<1>1. /\ open' = {e} /\ pushes' = pushes + 1 /\ queue' = Pushed(q, e) /\ source \in Cells
      /\ pushes \in Nat
  BY DEF FBegin, Begin, IInv, TypeOK
<1>2. e \in Entries /\ e.nr = pushes
  BY <1>1 DEF Entry, Entries
<1>3. q \in QueueSet /\ Holds(q, {})
  BY ClearedHolds DEF QueueInv
<1> HIDE DEF e, q
<1>4. Fitting({} \cup {e}) /\ {} \cup {e} = {e}
  BY <1>1 DEF Fits
<1>5. Pushed(q, e) \in QueueSet /\ Holds(Pushed(q, e), {e})
  BY <1>2, <1>3, <1>4, PushedHolds, FS_EmptySet
<1>6. Holds(queue', open')
  BY <1>1, <1>5
<1>7. \A f \in open' : f.nr < pushes'
  BY <1>1, <1>2
<1>8. IsFiniteSet(open') /\ open' \subseteq Entries /\ queue' \in QueueSet
  BY <1>1, <1>2, <1>5, FS_Singleton
<1> QED
  BY <1>6, <1>7, <1>8 DEF QueueInv

LEMMA QueueKept ==
  ASSUME CostsAreWhole, IInv, QueueInv, Fits', [FStep]_fvars
  PROVE  QueueInv'
<1>1. CASE FExhausted
  BY <1>1 DEF FExhausted, Exhausted, QueueInv, Holds, Item
<1>2. CASE (Adjust \/ Refuse \/ Skip \/ Expanded \/ Trace \/ Traced \/ AskAgain) /\ UNCHANGED queue
  <2>1. /\ UNCHANGED <<open, pushes, queue>>
        /\ phase' \in {"search", "expand", "found"} => phase \in {"search", "expand", "found"}
    BY <1>2 DEF Adjust, Refuse, Skip, Expanded, Trace, Traced, AskAgain, Looked, Looks, NotQueued
  <2> QED
    BY <2>1 DEF QueueInv
<1>3. CASE UNCHANGED fvars
  BY <1>3 DEF fvars, vars, QueueInv
<1> QED
  BY <1>1, <1>2, <1>3, FPushKeeps, FPopKeeps, FBeginKeeps DEF FStep

LEMMA QueueInductive ==
  ASSUME CostsAreWhole
  PROVE  FSpec /\ []Fits => [](IInv /\ QueueInv)
<1>1. IInv /\ QueueInv /\ Fits' /\ [FStep]_fvars => QueueInv'
  BY QueueKept
<1>2. FSpec => []IInv
  BY FinderSearches, Inductive, PTL
<1> QED
  BY <1>1, <1>2, QueueStarts, PTL DEF FSpec

\* As long as no bucket is given more than it has room for, the last one with
\* the overflow, or than its counter counts, the queue holds what has been
\* pushed and not popped, each once, although all buckets are in one array
\* without ends and a push or a pop of one bucket is written over nobody
\* else's, for any number and size of buckets (BucketPriorityQueue.h).
THEOREM QueueAlwaysHolds ==
  ASSUME CostsAreWhole
  PROVE  FSpec /\ []Fits => []QueueHolds
<1>1. QueueInv => QueueHolds
  <2> SUFFICES ASSUME QueueInv, phase \in {"search", "expand", "found"}
               PROVE  Content(queue) = open /\ queue.count = Cardinality(open)
    BY DEF QueueHolds
  <2>1. open \in SUBSET Entries /\ queue \in QueueSet /\ Holds(queue, open)
    BY DEF QueueInv
  <2> QED
    BY <2>1, ContentIs DEF Holds
<1> QED
  BY <1>1, QueueInductive, PTL

\* As long as that is so, what is popped is no dearer than anything that stays,
\* though the buckets below the lowest in use are never looked at and the last
\* one has every cost that is too high (BucketPriorityQueue::Pop).
THEOREM CheapestIsPopped ==
  ASSUME CostsAreWhole
  PROVE  FSpec /\ []Fits => PopsCheapest
<1> DEFINE Cheapest ==
             \A e \in open \ open' : phase = "search" => \A f \in open' : e.cost <= f.cost
<1>1. IInv /\ QueueInv /\ [FStep]_fvars => [Cheapest]_fvars
  <2> SUFFICES ASSUME IInv, QueueInv, FStep, NEW e \in open \ open', phase = "search",
                      NEW f \in open'
               PROVE  e.cost <= f.cost
    OBVIOUS
  <2>1. CASE FPop
    BY <2>1, FPopKeeps
  <2>2. CASE ~FPop
    <3>1. open' = open
      BY <2>2 DEF FStep, FBegin, Begin, FPush, Straight, Around, Looks, FExhausted, Exhausted,
                  Adjust, Refuse, Skip, Expanded, Trace, Traced, AskAgain, Ended
    <3> QED
      BY <3>1
  <2> QED
    BY <2>1, <2>2
<1> QED
  BY <1>1, QueueInductive, PTL DEF FSpec, PopsCheapest

--------------------------------------------------------------------------
(* Whom the traversability cache takes for an occupant *)

\* The data as it is passed from one step of a redrawing to the next, and what
\* is true of it when `seen` is what is remembered.
DataSet == [state : [Points -> 0..(StateRange - 1)], occupant : [Points -> Actors \cup {Nil}]]

Stands(d, seen) ==
  \A c \in Points : d.occupant[c] # Nil =>
    /\ seen[d.occupant[c]] # Nil
    /\ seen[d.occupant[c]].alive
    /\ c \in Under(seen[d.occupant[c]])

Remembered == [Actors -> Being \cup {Nil}]

LEMMA BeingIsNotNil == ASSUME NEW b \in Being PROVE b # Nil
  BY CrowdAssumption DEF Being

LEMMA TokenIsSmall == ASSUME NEW b \in Being PROVE Token(b) \in 0..(StateRange - 1)
  BY TokensAssumption DEF Token, Being

\* A living actor has a token to put down, and only a living one.
LEMMA TokenOfTheLiving == ASSUME NEW b \in Being PROVE Token(b) > 0 <=> b.alive
  BY TokensAssumption DEF Token, Being

LEMMA WithdrawnData ==
  ASSUME NEW d \in DataSet, NEW a \in Actors, NEW b \in Being
  PROVE  Withdrawn(d, a, b) \in DataSet
  <1>1. \A c \in Points : d.state[c] \in 0..(StateRange - 1) /\ d.occupant[c] \in Actors \cup {Nil}
    BY DEF DataSet
  <1>2. \A n \in Int : n % StateRange \in 0..(StateRange - 1)
    BY TokensAssumption
  <1>3. \A c \in Points : (d.state[c] - Token(b)) % StateRange \in 0..(StateRange - 1)
    BY <1>1, <1>2, TokenIsSmall, TokensAssumption
  <1> QED BY <1>1, <1>3 DEF Withdrawn, DataSet

LEMMA EnteredData ==
  ASSUME NEW d \in DataSet, NEW a \in Actors, NEW b \in Being
  PROVE  Entered(d, a, b) \in DataSet
  <1>1. \A c \in Points : d.state[c] \in 0..(StateRange - 1) /\ d.occupant[c] \in Actors \cup {Nil}
    BY DEF DataSet
  <1>2. \A n \in Int : n % StateRange \in 0..(StateRange - 1)
    BY TokensAssumption
  <1>3. \A c \in Points : (d.state[c] + Token(b)) % StateRange \in 0..(StateRange - 1)
    BY <1>1, <1>2, TokenIsSmall, TokensAssumption
  <1> QED BY <1>1, <1>3 DEF Entered, DataSet

\* Who is withdrawn as what is remembered of him occupies nothing.
LEMMA WithdrawnIsGone ==
  ASSUME NEW d \in DataSet, NEW seen \in Remembered, NEW a \in Actors, seen[a] # Nil,
         Stands(d, seen)
  PROVE  \A c \in Points : Withdrawn(d, a, seen[a]).occupant[c] # a
  <1> SUFFICES ASSUME NEW c \in Points PROVE Withdrawn(d, a, seen[a]).occupant[c] # a
    OBVIOUS
  <1>1. a # Nil
    BY CrowdAssumption
  <1> QED BY <1>1 DEF Withdrawn, Stands

\* Then anything may be remembered of him.
LEMMA WithdrawnStands ==
  ASSUME NEW d \in DataSet, NEW seen \in Remembered, NEW a \in Actors, seen[a] # Nil,
         Stands(d, seen), NEW n \in Being \cup {Nil}
  PROVE  Stands(Withdrawn(d, a, seen[a]), [seen EXCEPT ![a] = n])
  <1> DEFINE w == Withdrawn(d, a, seen[a])
             now1 == [seen EXCEPT ![a] = n]
  <1>1. \A c \in Points : w.occupant[c] # a
    BY WithdrawnIsGone
  <1>2. \A c \in Points : w.occupant[c] # Nil => w.occupant[c] = d.occupant[c]
    BY DEF Withdrawn
  <1>3. \A c \in Points : d.occupant[c] \in Actors \cup {Nil}
    BY DEF DataSet
  <1>4. \A b \in Actors \ {a} : now1[b] = seen[b]
    BY DEF Remembered
  <1> HIDE DEF w, now1
  <1>5. Stands(w, now1)
    BY <1>1, <1>2, <1>3, <1>4 DEF Stands
  <1> QED BY <1>5 DEF w, now1

\* Who enters where he occupies nothing is the occupant of living ground.
LEMMA EnteredStands ==
  ASSUME NEW d \in DataSet, NEW seen \in Remembered, NEW a \in Actors, NEW n \in Being,
         \A c \in Points : d.occupant[c] # a,
         Stands(d, [seen EXCEPT ![a] = n])
  PROVE  Stands(Entered(d, a, n), [seen EXCEPT ![a] = n])
  <1> DEFINE w == Entered(d, a, n)
             now1 == [seen EXCEPT ![a] = n]
  <1>1. now1[a] = n /\ n # Nil
    BY BeingIsNotNil DEF Remembered
  <1>2. \A c \in Points : \/ w.occupant[c] = a /\ c \in Under(n) /\ n.alive
                          \/ w.occupant[c] = d.occupant[c]
    BY TokenOfTheLiving DEF Entered
  <1>3. Stands(d, now1)
    OBVIOUS
  <1> HIDE DEF w, now1
  <1>4. Stands(w, now1)
    BY <1>1, <1>2, <1>3 DEF Stands
  <1> QED BY <1>4 DEF w, now1

\* One turn of the loop over the actors that have changed.
LEMMA RedrawnStands ==
  ASSUME NEW d \in DataSet, NEW seen \in Remembered, NEW a \in Actors, seen[a] # Nil,
         NEW n \in Being, Stands(d, seen)
  PROVE  /\ Redrawn(d, a, seen[a], n) \in DataSet
         /\ Stands(Redrawn(d, a, seen[a], n), [seen EXCEPT ![a] = n])
  <1> DEFINE old == seen[a]
             w == Withdrawn(d, a, old)
             now1 == [seen EXCEPT ![a] = n]
  <1>1. old \in Being
    BY DEF Remembered
  <1>2. w \in DataSet /\ Stands(w, now1) /\ \A c \in Points : w.occupant[c] # a
    BY <1>1, WithdrawnData, WithdrawnStands, WithdrawnIsGone
  <1>3. Entered(w, a, n) \in DataSet /\ Stands(Entered(w, a, n), now1)
    <2> HIDE DEF w
    <2> QED BY <1>2, EnteredData, EnteredStands
  <1>4. CASE old.at = n.at /\ old.size = n.size /\ ~old.alive /\ n.alive
    <2>1. \A c \in Points : d.occupant[c] # a
      BY <1>4, CrowdAssumption DEF Stands
    <2>2. \A b \in Actors \ {a} : now1[b] = seen[b]
      BY DEF Remembered
    <2>3. \A c \in Points : d.occupant[c] \in Actors \cup {Nil}
      BY DEF DataSet
    <2> HIDE DEF now1
    <2>4. Stands(d, now1)
      BY <2>1, <2>2, <2>3 DEF Stands
    <2>5. Entered(d, a, n) \in DataSet /\ Stands(Entered(d, a, n), now1)
      BY <2>1, <2>4, EnteredData, EnteredStands DEF now1
    <2>6. Redrawn(d, a, old, n) = Entered(d, a, n)
      BY <1>4 DEF Redrawn
    <2> QED BY <2>5, <2>6 DEF now1
  <1>5. CASE ~(old.at = n.at /\ old.size = n.size /\ ~old.alive /\ n.alive)
    <2>1. Redrawn(d, a, old, n) \in {w, Entered(w, a, n)}
      BY <1>5 DEF Redrawn
    <2> QED BY <2>1, <1>2, <1>3
  <1> QED BY <1>4, <1>5

--------------------------------------------------------------------------
(* The invariant *)

CrowdInv == CrowdTypeOK /\ OccupantsStand

LEMMA InvIsOfTheData ==
  ASSUME CrowdTypeOK
  PROVE  /\ Data \in DataSet /\ cached \in Remembered
         /\ OccupantsStand <=> Stands(Data, cached)
  BY DEF CrowdTypeOK, Data, DataSet, Remembered, OccupantsStand, Stands

LEMMA CrowdStarts == CrowdInit => CrowdInv
  <1> SUFFICES ASSUME CrowdInit PROVE CrowdInv
    OBVIOUS
  <1>1. OnMap = {}
    BY DEF CrowdInit, OnMap
  <1>2. 0 \in 0..(StateRange - 1) /\ 0 \in 0..MaxChanges
    BY CrowdAssumption, TokensAssumption
  <1>3. CrowdTypeOK
    BY <1>1, <1>2 DEF CrowdInit, CrowdTypeOK
  <1>4. OccupantsStand
    BY DEF CrowdInit, OccupantsStand
  <1> QED BY <1>3, <1>4 DEF CrowdInv

\* The points after a step that redraws them.
LEMMA AfterRedrawing ==
  ASSUME NEW d \in DataSet, Redraw(d), cached' \in Remembered, Stands(d, cached')
  PROVE  /\ state' \in [Points -> 0..(StateRange - 1)]
         /\ occupyingActor' \in [Points -> Actors \cup {Nil}]
         /\ OccupantsStand'
  BY DEF Redraw, DataSet, Stands, OccupantsStand

LEMMA ComparePreserves == CrowdInv /\ Compare => CrowdInv'
  BY CrowdAssumption
  DEF CrowdInv, CrowdTypeOK, OccupantsStand, Compare, Changed, OnMap, data

LEMMA ClearRemovedPreserves == CrowdInv /\ ClearRemoved => CrowdInv'
  <1> SUFFICES ASSUME CrowdInv, ClearRemoved PROVE CrowdInv'
    OBVIOUS
  <1>1. CASE actorsRemoved = {}
    BY <1>1 DEF CrowdInv, CrowdTypeOK, OccupantsStand, ClearRemoved, OnMap, data
  <1>2. CASE actorsRemoved # {}
    <2>1. PICK a \in actorsRemoved :
            /\ Redraw(Withdrawn(Data, a, cached[a]))
            /\ cached' = [cached EXCEPT ![a] = Nil]
            /\ actorsRemoved' = actorsRemoved \ {a} /\ UNCHANGED stage
      BY <1>2 DEF ClearRemoved
    <2>2. a \in Actors /\ cached[a] # Nil /\ cached[a] \in Being
      BY DEF CrowdInv, CrowdTypeOK
    <2>3. Withdrawn(Data, a, cached[a]) \in DataSet
          /\ Stands(Withdrawn(Data, a, cached[a]), cached')
      BY <2>1, <2>2, InvIsOfTheData, WithdrawnData, WithdrawnStands DEF CrowdInv
    <2>4. cached' \in Remembered /\ \A b \in Actors \ {a} : cached'[b] = cached[b]
      BY <2>1, <2>2 DEF CrowdInv, CrowdTypeOK, Remembered
    <2>5. /\ state' \in [Points -> 0..(StateRange - 1)]
          /\ occupyingActor' \in [Points -> Actors \cup {Nil}]
          /\ OccupantsStand'
      BY <2>1, <2>3, <2>4, AfterRedrawing
    <2>6. UNCHANGED <<now, updated, actorsUpdated, actorsNew, changes, stage>> /\ stage = "removed"
      BY <2>1 DEF ClearRemoved
    <2>7. a \notin actorsUpdated /\ a \notin OnMap
      BY DEF CrowdInv, CrowdTypeOK
    <2> QED BY <2>1, <2>2, <2>4, <2>5, <2>6, <2>7 DEF CrowdInv, CrowdTypeOK, Remembered, OnMap
  <1> QED BY <1>1, <1>2

LEMMA RedrawUpdatedPreserves == CrowdInv /\ RedrawUpdated => CrowdInv'
  <1> SUFFICES ASSUME CrowdInv, RedrawUpdated PROVE CrowdInv'
    OBVIOUS
  <1>1. CASE actorsUpdated = {}
    BY <1>1 DEF CrowdInv, CrowdTypeOK, OccupantsStand, RedrawUpdated, OnMap, data
  <1>2. CASE actorsUpdated # {}
    <2>1. PICK a \in First(actorsUpdated) :
            /\ Redraw(Redrawn(Data, a, cached[a], now[a]))
            /\ cached' = [cached EXCEPT ![a] = now[a]]
            /\ actorsUpdated' = actorsUpdated \ {a} /\ UNCHANGED stage
      BY <1>2 DEF RedrawUpdated
    <2>2. /\ a \in Actors /\ cached[a] # Nil /\ cached[a] \in Being
          /\ now[a] # Nil /\ now[a] \in Being
      BY DEF CrowdInv, CrowdTypeOK, OnMap, First
    <2>3. Redrawn(Data, a, cached[a], now[a]) \in DataSet
          /\ Stands(Redrawn(Data, a, cached[a], now[a]), cached')
      BY <2>1, <2>2, InvIsOfTheData, RedrawnStands DEF CrowdInv
    <2>4. /\ cached' \in Remembered /\ cached'[a] # Nil
          /\ \A b \in Actors \ {a} : cached'[b] = cached[b]
      BY <2>1, <2>2 DEF CrowdInv, CrowdTypeOK, Remembered
    <2>5. /\ state' \in [Points -> 0..(StateRange - 1)]
          /\ occupyingActor' \in [Points -> Actors \cup {Nil}]
          /\ OccupantsStand'
      BY <2>1, <2>3, <2>4, AfterRedrawing
    <2>6. UNCHANGED <<now, updated, actorsRemoved, actorsNew, changes, stage>> /\ stage = "updated"
      BY <2>1 DEF RedrawUpdated
    <2>7. a \notin actorsRemoved /\ a \notin actorsNew
      BY <2>2 DEF CrowdInv, CrowdTypeOK, OnMap
    <2> QED BY <2>1, <2>2, <2>4, <2>5, <2>6, <2>7 DEF CrowdInv, CrowdTypeOK, Remembered, OnMap
  <1> QED BY <1>1, <1>2

LEMMA MarkNewPreserves == CrowdInv /\ MarkNew => CrowdInv'
  <1> SUFFICES ASSUME CrowdInv, MarkNew PROVE CrowdInv'
    OBVIOUS
  <1>1. CASE actorsNew = {}
    BY <1>1 DEF CrowdInv, CrowdTypeOK, OccupantsStand, MarkNew, OnMap, data
  <1>2. CASE actorsNew # {}
    <2>1. PICK a \in First(actorsNew) :
            /\ Redraw(Entered(Data, a, now[a]))
            /\ cached' = [cached EXCEPT ![a] = now[a]]
            /\ actorsNew' = actorsNew \ {a} /\ UNCHANGED stage
      BY <1>2 DEF MarkNew
    <2>2. a \in Actors /\ cached[a] = Nil /\ now[a] # Nil /\ now[a] \in Being
      BY DEF CrowdInv, CrowdTypeOK, OnMap, First
    <2>3. \A c \in Points : occupyingActor[c] # a
      BY <2>2, CrowdAssumption DEF CrowdInv, OccupantsStand
    <2>4. /\ cached' \in Remembered /\ cached'[a] # Nil
          /\ \A b \in Actors \ {a} : cached'[b] = cached[b]
      BY <2>1, <2>2 DEF CrowdInv, CrowdTypeOK, Remembered
    <2>5. Stands(Data, cached')
      <3>1. \A c \in Points : Data.occupant[c] = occupyingActor[c]
        BY DEF Data
      <3>2. \A c \in Points : occupyingActor[c] \in Actors \cup {Nil}
        BY DEF CrowdInv, CrowdTypeOK
      <3> QED BY <2>3, <2>4, <3>1, <3>2 DEF Stands, CrowdInv, OccupantsStand
    <2>6. Entered(Data, a, now[a]) \in DataSet
          /\ Stands(Entered(Data, a, now[a]), cached')
      <3>1. \A c \in Points : Data.occupant[c] # a
        BY <2>3 DEF Data
      <3> QED BY <2>1, <2>2, <2>5, <3>1, InvIsOfTheData, EnteredData, EnteredStands DEF CrowdInv
    <2>7. /\ state' \in [Points -> 0..(StateRange - 1)]
          /\ occupyingActor' \in [Points -> Actors \cup {Nil}]
          /\ OccupantsStand'
      BY <2>1, <2>6, <2>4, AfterRedrawing
    <2>8. UNCHANGED <<now, updated, actorsRemoved, actorsUpdated, changes, stage>> /\ stage = "new"
      BY <2>1 DEF MarkNew
    <2>9. a \notin actorsRemoved /\ a \notin actorsUpdated
      BY <2>2 DEF CrowdInv, CrowdTypeOK, OnMap
    <2> QED BY <2>1, <2>2, <2>4, <2>7, <2>8, <2>9 DEF CrowdInv, CrowdTypeOK, Remembered, OnMap
  <1> QED BY <1>1, <1>2

LEMMA MarkNewFramePreserves == CrowdInv /\ MarkNewFrame => CrowdInv'
  BY DEF CrowdInv, CrowdTypeOK, OccupantsStand, MarkNewFrame, OnMap, data, lists

\* The game changes what the actors are, and only between two updates.
LEMMA ChangingPreserves ==
  ASSUME CrowdInv, Changing, now' \in [Actors -> Being \cup {Nil}]
  PROVE  CrowdInv'
  <1>1. stage' = "idle" /\ actorsRemoved' = {} /\ actorsUpdated' = {} /\ actorsNew' = {}
    BY DEF CrowdInv, CrowdTypeOK, Changing, lists
  <1>2. changes' \in 0..MaxChanges
    BY CrowdAssumption DEF CrowdInv, CrowdTypeOK, Changing
  <1>3. UNCHANGED <<cached, state, occupyingActor, updated>>
    BY DEF Changing, data
  <1>4. CrowdTypeOK'
    BY <1>1, <1>2, <1>3 DEF CrowdInv, CrowdTypeOK
  <1>5. OccupantsStand'
    BY <1>3 DEF CrowdInv, OccupantsStand
  <1> QED BY <1>4, <1>5 DEF CrowdInv

LEMMA OneChangeIsOne == ASSUME NEW b \in Being PROVE OneChange(b) \subseteq Being
  BY DEF OneChange, Being

LEMMA TheGamePreserves ==
  ASSUME CrowdInv, NEW a \in Actors,
         \/ \E b \in Being : AddActor(a, b)
         \/ RemoveActor(a)
         \/ a \in OnMap /\ \E b \in OneChange(now[a]) \ {now[a]} : Become(a, b)
  PROVE  CrowdInv'
  <1>1. now \in [Actors -> Being \cup {Nil}]
    BY DEF CrowdInv, CrowdTypeOK
  <1>2. CASE \E b \in Being : AddActor(a, b)
    BY <1>1, <1>2, ChangingPreserves DEF AddActor
  <1>3. CASE RemoveActor(a)
    BY <1>1, <1>3, ChangingPreserves DEF RemoveActor
  <1>4. CASE a \in OnMap /\ \E b \in OneChange(now[a]) \ {now[a]} : Become(a, b)
    <2>1. now[a] \in Being
      BY <1>1, <1>4 DEF OnMap
    <2>2. PICK b \in OneChange(now[a]) : Become(a, b)
      BY <1>4
    <2>3. b \in Being
      BY <2>1, <2>2, OneChangeIsOne
    <2>4. Changing /\ now' = [now EXCEPT ![a] = b]
      BY <2>2 DEF Become
    <2> QED BY <1>1, <2>3, <2>4, ChangingPreserves
  <1> QED BY <1>2, <1>3, <1>4

LEMMA CrowdStepPreserves == CrowdInv /\ [CrowdNext]_crowdVars => CrowdInv'
  <1> SUFFICES ASSUME CrowdInv, [CrowdNext]_crowdVars PROVE CrowdInv'
    OBVIOUS
  <1>1. CASE Compare
    BY <1>1, ComparePreserves
  <1>2. CASE ClearRemoved
    BY <1>2, ClearRemovedPreserves
  <1>3. CASE RedrawUpdated
    BY <1>3, RedrawUpdatedPreserves
  <1>4. CASE MarkNew
    BY <1>4, MarkNewPreserves
  <1>5. CASE MarkNewFrame
    BY <1>5, MarkNewFramePreserves
  <1>6. ASSUME NEW a \in Actors, NEW b \in Being, AddActor(a, b)
        PROVE  CrowdInv'
    BY <1>6, TheGamePreserves
  <1>7. ASSUME NEW a \in Actors, RemoveActor(a)
        PROVE  CrowdInv'
    BY <1>7, TheGamePreserves
  <1>8. ASSUME NEW a \in OnMap, NEW b \in OneChange(now[a]) \ {now[a]}, Become(a, b)
        PROVE  CrowdInv'
    <2>1. a \in Actors /\ a \in OnMap
      BY DEF OnMap
    <2> QED BY <1>8, <2>1, TheGamePreserves
  <1>9. CASE UNCHANGED crowdVars
    BY <1>9 DEF CrowdInv, CrowdTypeOK, OccupantsStand, OnMap, crowdVars, data, lists
  <1> QED BY <1>1, <1>2, <1>3, <1>4, <1>5, <1>6, <1>7, <1>8, <1>9 DEF CrowdNext

LEMMA CrowdAlways == CrowdSpec => []CrowdInv
  BY CrowdStarts, CrowdStepPreserves, PTL DEF CrowdSpec

--------------------------------------------------------------------------
(* A sum of tokens is the size of a set *)

\* One pair for each unit of the weight of each of a set.
Units(w, S) == {p \in S \X (1..StateRange) : p[2] <= w[p[1]]}

LEMMA UnitsOfOne ==
  ASSUME NEW a, NEW t \in Nat
  PROVE  IsFiniteSet({a} \X (1..t)) /\ Cardinality({a} \X (1..t)) = t
<1>1. IsFiniteSet({a}) /\ Cardinality({a}) = 1
  BY FS_Singleton
<1>2. IsFiniteSet(1..t) /\ Cardinality(1..t) = t
  <2>1. 1 \in Int /\ t \in Int
    OBVIOUS
  <2>2. IsFiniteSet(1..t) /\ Cardinality(1..t) = IF 1 > t THEN 0 ELSE t - 1 + 1
    BY <2>1, FS_Interval
  <2> QED
    BY <2>2
<1>3. /\ IsFiniteSet({a} \X (1..t))
      /\ Cardinality({a} \X (1..t)) = Cardinality({a}) * Cardinality(1..t)
  BY <1>1, <1>2, FS_Product
<1> QED
  BY <1>1, <1>2, <1>3

LEMMA UnitsSplit ==
  ASSUME NEW S, IsFiniteSet(S), NEW w, \A x \in S : w[x] \in 0..StateRange, NEW a \in S
  PROVE  /\ IsFiniteSet(Units(w, S)) /\ Cardinality(Units(w, S)) \in Nat
         /\ Cardinality(Units(w, S \ {a})) \in Nat
         /\ Cardinality(Units(w, S)) = w[a] + Cardinality(Units(w, S \ {a}))
<1> DEFINE R == S \ {a}
           P == {a} \X (1..w[a])
<1>0. StateRange \in Nat
  BY TokensAssumption
<1>1. IsFiniteSet(S \X (1..StateRange))
  <2>1. IsFiniteSet(1..StateRange)
    BY <1>0, FS_Interval
  <2> QED
    BY <2>1, FS_Product
<1>2. Units(w, S) = Units(w, R) \cup P /\ Units(w, R) \cap P = {}
  BY <1>0 DEF Units
<1>3. Units(w, R) \subseteq Units(w, S) /\ Units(w, S) \subseteq S \X (1..StateRange)
  BY DEF Units
<1>4. IsFiniteSet(Units(w, S)) /\ IsFiniteSet(Units(w, R))
  BY <1>1, <1>3, FS_Subset
<1>5. IsFiniteSet(P) /\ Cardinality(P) = w[a] /\ w[a] \in Nat
  <2>1. w[a] \in Nat
    BY <1>0
  <2> QED
    BY <2>1, UnitsOfOne
<1> HIDE DEF P, R
<1>6. Cardinality(Units(w, R) \cap P) = 0
  BY <1>2, FS_EmptySet
<1>7. /\ Cardinality(Units(w, S)) \in Nat /\ Cardinality(Units(w, R)) \in Nat
  BY <1>4, FS_CardinalityType
<1>8. Cardinality(Units(w, S)) = Cardinality(Units(w, R)) + Cardinality(P) - 0
  BY <1>2, <1>4, <1>5, <1>6, FS_Union
<1> QED
  BY <1>4, <1>5, <1>7, <1>8 DEF R

\* Whichever is taken first, it is the sum of MapThenSumSet.
LEMMA TokensAreUnits ==
  ASSUME NEW S, IsFiniteSet(S), \A a \in S : Token(now[a]) \in 0..StateRange
  PROVE  MapThenSumSet(LAMBDA a : Token(now[a]), S)
           = Cardinality(Units([a \in S |-> Token(now[a])], S))
<1> DEFINE w == [a \in S |-> Token(now[a])]
           Sums(f) == [s \in SUBSET S |->
                         IF s = {} THEN 0
                         ELSE LET x == CHOOSE y \in s : TRUE IN Token(now[x]) + f[s \ {x}]]
           units == [s \in SUBSET S |-> Cardinality(Units(w, s))]
           sum == CHOOSE f : f = Sums(f)
<1>1. MapThenSumSet(LAMBDA a : Token(now[a]), S) = sum[S]
  BY DEF MapThenSumSet, MapThenFoldSet
<1>0. \A x \in S : w[x] = Token(now[x]) /\ w[x] \in 0..StateRange
  OBVIOUS
<1> HIDE DEF w
<1>2. \A s \in SUBSET S : IsFiniteSet(s) /\ (s = {} => Units(w, s) = {})
  BY FS_Subset DEF Units
<1>3. \A s \in SUBSET S : \A x \in s :
        /\ Cardinality(Units(w, s)) = w[x] + Cardinality(Units(w, s \ {x}))
        /\ Cardinality(Units(w, s)) \in Nat
  BY <1>0, <1>2, UnitsSplit
<1>4. units = Sums(units)
  <2> SUFFICES ASSUME NEW s \in SUBSET S
               PROVE  units[s] = IF s = {} THEN 0
                                 ELSE LET x == CHOOSE y \in s : TRUE IN Token(now[x]) + units[s \ {x}]
    OBVIOUS
  <2>1. CASE s = {}
    BY <1>2, <2>1, FS_EmptySet
  <2>2. CASE s # {}
    <3> DEFINE x == CHOOSE y \in s : TRUE
    <3>1. x \in s
      BY <2>2
    <3> HIDE DEF x
    <3>2. units[s] = Token(now[x]) + units[s \ {x}]
      BY <1>0, <1>3, <3>1
    <3> QED
      BY <2>2, <3>2 DEF x
  <2> QED
    BY <2>1, <2>2
<1>5. sum = Sums(sum)
  <2> HIDE DEF Sums, units
  <2> QED
    BY <1>4
<1> HIDE DEF sum
<1>6. \A s \in SUBSET S :
        sum[s] = IF s = {} THEN 0
                 ELSE LET x == CHOOSE y \in s : TRUE IN Token(now[x]) + sum[s \ {x}]
  <2>1. \A s \in SUBSET S : sum[s] = Sums(sum)[s]
    <3> HIDE DEF Sums
    <3> QED
      BY <1>5
  <2> QED
    BY <2>1
<1> DEFINE T == {n \in Nat : \A s \in SUBSET S :
                               Cardinality(s) = n => sum[s] = Cardinality(Units(w, s))}
<1>7. 0 \in T
  BY <1>2, <1>6, FS_EmptySet
<1>8. ASSUME NEW n \in T PROVE n + 1 \in T
  <2> SUFFICES ASSUME NEW s \in SUBSET S, Cardinality(s) = n + 1
               PROVE  sum[s] = Cardinality(Units(w, s))
    OBVIOUS
  <2> DEFINE x == CHOOSE y \in s : TRUE
  <2>1. s # {}
    BY <1>2, FS_EmptySet
  <2>2. x \in s
    BY <2>1
  <2> HIDE DEF x
  <2>3. Cardinality(s \ {x}) = n
    <3>1. Cardinality(s \ {x}) = Cardinality(s) - 1
      BY <1>2, <2>2, FS_RemoveElement
    <3> QED
      BY <3>1
  <2>4. sum[s \ {x}] = Cardinality(Units(w, s \ {x}))
    BY <2>3
  <2>5. sum[s] = w[x] + sum[s \ {x}]
    BY <1>0, <1>6, <2>1, <2>2 DEF x
  <2> QED
    BY <1>3, <2>2, <2>4, <2>5
<1>9. T = Nat
  <2> HIDE DEF T
  <2>1. T \in SUBSET Nat
    BY DEF T
  <2> QED
    BY <1>7, <1>8, <2>1, SetInduction
<1>10. Cardinality(S) \in Nat
  BY FS_CardinalityType
<1>11. sum[S] = Cardinality(Units(w, S))
  BY <1>9, <1>10
<1> QED
  BY <1>1, <1>11 DEF w

--------------------------------------------------------------------------
(* Whom the traversability cache counts *)

\* What everybody puts down on a point, as he is remembered.
Weight(seen, c) ==
  [a \in Actors |-> IF seen[a] # Nil /\ c \in Under(seen[a]) THEN Token(seen[a]) ELSE 0]
Weighs(seen, c) == Cardinality(Units(Weight(seen, c), Actors))

Counted(d, seen) == \A c \in Points : d.state[c] = Weighs(seen, c) % StateRange

\* Nothing has been put down by who is not remembered or was dead.
Weightless(seen, a) == seen[a] # Nil => Token(seen[a]) = 0

LEMMA WeightIs ==
  ASSUME NEW seen \in Remembered, NEW c, NEW a \in Actors
  PROVE  Weight(seen, c)[a] \in Nat /\ Weight(seen, c)[a] \in 0..StateRange
<1>1. seen[a] = Nil \/ seen[a] \in Being
  BY DEF Remembered
<1>2. seen[a] # Nil => Token(seen[a]) \in 0..(StateRange - 1)
  BY <1>1, TokenIsSmall
<1> QED
  BY <1>2, TokensAssumption DEF Weight

\* Only he who is remembered otherwise weighs otherwise.
LEMMA WeighsOtherwise ==
  ASSUME IsFiniteSet(Actors), NEW seen \in Remembered, NEW c, NEW a \in Actors,
         NEW n \in Being \cup {Nil}
  PROVE  \E r \in Nat :
           /\ Weighs(seen, c) = Weight(seen, c)[a] + r
           /\ Weighs([seen EXCEPT ![a] = n], c)
                = (IF n # Nil /\ c \in Under(n) THEN Token(n) ELSE 0) + r
<1> DEFINE then == [seen EXCEPT ![a] = n]
           r == Cardinality(Units(Weight(seen, c), Actors \ {a}))
<1>1. then \in Remembered /\ then[a] = n /\ \A b \in Actors \ {a} : then[b] = seen[b]
  BY DEF Remembered
<1> HIDE DEF then
<1>2. /\ \A b \in Actors : Weight(seen, c)[b] \in 0..StateRange
      /\ \A b \in Actors : Weight(then, c)[b] \in 0..StateRange
  BY <1>1, WeightIs
<1>3. \A b \in Actors \ {a} : Weight(seen, c)[b] = Weight(then, c)[b]
  BY <1>1 DEF Weight
<1>4. Units(Weight(seen, c), Actors \ {a}) = Units(Weight(then, c), Actors \ {a})
  BY <1>3 DEF Units
<1>5. /\ Weighs(seen, c) = Weight(seen, c)[a] + r /\ r \in Nat
  BY <1>2, UnitsSplit DEF Weighs
<1>6. Weighs(then, c) = Weight(then, c)[a] + Cardinality(Units(Weight(then, c), Actors \ {a}))
  BY <1>2, UnitsSplit DEF Weighs
<1>7. Weight(then, c)[a] = IF n # Nil /\ c \in Under(n) THEN Token(n) ELSE 0
  BY <1>1 DEF Weight
<1> QED
  BY <1>4, <1>5, <1>6, <1>7 DEF then

\* The rest of a sum when a part is taken away or added.
LEMMA CountBack ==
  ASSUME NEW t \in Nat, NEW r \in Nat
  PROVE  /\ (((t + r) % StateRange) - t) % StateRange = r % StateRange
         /\ ((r % StateRange) + t) % StateRange = (t + r) % StateRange
<1> DEFINE u == StateRange
           a == (t + r) \div u
           b == r \div u
           x == (t + r) % u
           y == r % u
<1>0. u \in Nat \ {0}
  BY TokensAssumption
<1>1. /\ a \in Int /\ b \in Int /\ x \in Int /\ y \in Int
      /\ t + r = u * a + x /\ r = u * b + y
  BY <1>0
<1> HIDE DEF u, a, b, x, y
<1>2. /\ u * (-a) = -(u * a) /\ -a \in Int /\ u * a \in Int
      /\ u * (-b) = -(u * b) /\ -b \in Int /\ u * b \in Int
  BY <1>0, <1>1
<1>3. x - t = r + u * (-a) /\ y + t = (t + r) + u * (-b)
  BY <1>0, <1>1, <1>2
<1>4. (r + u * (-a)) % u = r % u /\ ((t + r) + u * (-b)) % u = (t + r) % u
  <2>1. t + r \in Int /\ r \in Int
    OBVIOUS
  <2> QED
    BY <1>0, <1>2, <2>1, RestOfSum
<1> QED
  BY <1>3, <1>4 DEF x, y, u

LEMMA WithdrawnCounted ==
  ASSUME IsFiniteSet(Actors), NEW d \in DataSet, NEW seen \in Remembered, NEW a \in Actors,
         seen[a] # Nil, Counted(d, seen)
  PROVE  Counted(Withdrawn(d, a, seen[a]), [seen EXCEPT ![a] = Nil])
<1> SUFFICES ASSUME NEW c \in Points
             PROVE  Withdrawn(d, a, seen[a]).state[c]
                      = Weighs([seen EXCEPT ![a] = Nil], c) % StateRange
  BY DEF Counted
<1> DEFINE t == Weight(seen, c)[a]
           then == [seen EXCEPT ![a] = Nil]
<1>1. PICK r \in Nat : Weighs(seen, c) = t + r /\ Weighs(then, c) = r
  <2>1. PICK r \in Nat :
          /\ Weighs(seen, c) = t + r
          /\ Weighs(then, c) = (IF Nil # Nil /\ c \in Under(Nil) THEN Token(Nil) ELSE 0) + r
    BY WeighsOtherwise
  <2> QED
    BY <2>1
<1>2. d.state[c] = (t + r) % StateRange
  BY <1>1 DEF Counted
<1>3. t \in Nat /\ t = IF c \in Under(seen[a]) THEN Token(seen[a]) ELSE 0
  BY WeightIs DEF Weight
<1>4. Withdrawn(d, a, seen[a]).state[c] =
        IF c \in Under(seen[a]) THEN (d.state[c] - Token(seen[a])) % StateRange ELSE d.state[c]
  BY DEF Withdrawn
<1> HIDE DEF t, then
<1>5. (((t + r) % StateRange) - t) % StateRange = r % StateRange
  BY <1>3, CountBack
<1>6. CASE c \in Under(seen[a])
  BY <1>1, <1>2, <1>3, <1>4, <1>5, <1>6 DEF then
<1>7. CASE c \notin Under(seen[a])
  <2>1. t = 0 /\ t + r = r
    BY <1>3, <1>7
  <2> QED
    BY <1>1, <1>2, <1>4, <1>7, <2>1 DEF then
<1> QED
  BY <1>6, <1>7

LEMMA EnteredCounted ==
  ASSUME IsFiniteSet(Actors), NEW d \in DataSet, NEW seen \in Remembered, NEW a \in Actors,
         NEW n \in Being, Weightless(seen, a), Counted(d, seen)
  PROVE  Counted(Entered(d, a, n), [seen EXCEPT ![a] = n])
<1> SUFFICES ASSUME NEW c \in Points
             PROVE  Entered(d, a, n).state[c]
                      = Weighs([seen EXCEPT ![a] = n], c) % StateRange
  BY DEF Counted
<1> DEFINE t == IF c \in Under(n) THEN Token(n) ELSE 0
           then == [seen EXCEPT ![a] = n]
<1>0. n # Nil /\ Token(n) \in Nat
  BY BeingIsNotNil, TokenIsSmall, TokensAssumption
<1>1. PICK r \in Nat : Weighs(seen, c) = r /\ Weighs(then, c) = t + r
  <2>1. PICK r \in Nat :
          /\ Weighs(seen, c) = Weight(seen, c)[a] + r
          /\ Weighs(then, c) = (IF n # Nil /\ c \in Under(n) THEN Token(n) ELSE 0) + r
    BY WeighsOtherwise
  <2>2. Weight(seen, c)[a] = 0
    BY DEF Weight, Weightless
  <2> QED
    BY <1>0, <2>1, <2>2
<1>2. d.state[c] = r % StateRange
  BY <1>1 DEF Counted
<1>3. t \in Nat
  BY <1>0
<1>4. Entered(d, a, n).state[c] =
        IF c \in Under(n) THEN (d.state[c] + Token(n)) % StateRange ELSE d.state[c]
  BY DEF Entered
<1>5. c \in Under(n) => t = Token(n)
  OBVIOUS
<1>6. c \notin Under(n) => t = 0
  OBVIOUS
<1> HIDE DEF t, then
<1>7. ((r % StateRange) + t) % StateRange = (t + r) % StateRange
  BY <1>3, CountBack
<1>8. t = 0 => t + r = r
  BY <1>3
<1> QED
  BY <1>1, <1>2, <1>4, <1>5, <1>6, <1>7, <1>8 DEF then

\* One turn of the loop over the actors that have changed: a dead actor has put
\* nothing down, so who comes to life need not be withdrawn, and who dies need
\* not be entered.
LEMMA RedrawnCounted ==
  ASSUME IsFiniteSet(Actors), NEW d \in DataSet, NEW seen \in Remembered, NEW a \in Actors,
         seen[a] # Nil, NEW n \in Being, Counted(d, seen)
  PROVE  Counted(Redrawn(d, a, seen[a], n), [seen EXCEPT ![a] = n])
<1> DEFINE old == seen[a]
           w == Withdrawn(d, a, old)
           gone == [seen EXCEPT ![a] = Nil]
           then == [seen EXCEPT ![a] = n]
<1>1. /\ old \in Being /\ gone \in Remembered /\ gone[a] = Nil /\ then \in Remembered
      /\ [gone EXCEPT ![a] = n] = then /\ then[a] = n
      /\ \A b \in Actors \ {a} : gone[b] = seen[b] /\ then[b] = seen[b]
  BY DEF Remembered
<1>2. w \in DataSet /\ Counted(w, gone)
  <2>1. w \in DataSet
    BY <1>1, WithdrawnData
  <2> QED
    BY <2>1, WithdrawnCounted
<1>3. Weightless(gone, a)
  BY <1>1 DEF Weightless
<1> HIDE DEF gone, w
<1>4. Counted(Entered(w, a, n), then)
  BY <1>1, <1>2, <1>3, EnteredCounted
<1>5. CASE ~old.alive
  <2>1. Token(old) = 0
    BY <1>5 DEF Token
  <2>2. Weightless(seen, a)
    BY <2>1 DEF Weightless
  <2> QED
    BY <1>4, <1>5, <2>2, EnteredCounted DEF Redrawn, w
<1>6. CASE ~n.alive
  <2>1. Token(n) = 0 /\ n # Nil
    BY <1>6, BeingIsNotNil DEF Token
  <2>2. \A c \in Points : Weight(gone, c) = Weight(then, c)
    BY <1>1, <2>1 DEF Weight
  <2>3. Counted(w, then)
    BY <1>2, <2>2 DEF Counted, Weighs
  <2> QED
    BY <1>4, <1>5, <1>6, <2>3 DEF Redrawn, w
<1>7. CASE old.alive /\ n.alive
  BY <1>4, <1>7 DEF Redrawn, w
<1> QED
  BY <1>5, <1>6, <1>7

\* What Update has not come to is in one of its lists.
AllListed ==
  stage # "idle" =>
    \A a \in Actors : cached[a] # now[a] => a \in actorsRemoved \cup actorsUpdated \cup actorsNew

CountInv == Counted(Data, cached) /\ AllListed

LEMMA CountStarts ==
  ASSUME IsFiniteSet(Actors)
  PROVE  CrowdInit => CountInv
<1> SUFFICES ASSUME CrowdInit PROVE CountInv
  OBVIOUS
<1>1. \A c \in Points : Weighs(cached, c) = 0
  <2> SUFFICES ASSUME NEW c \in Points PROVE Weighs(cached, c) = 0
    OBVIOUS
  <2>1. \A a \in Actors : Weight(cached, c)[a] = 0
    BY DEF CrowdInit, Weight
  <2>2. Units(Weight(cached, c), Actors) = {}
    BY <2>1, TokensAssumption DEF Units
  <2> QED
    BY <2>2, FS_EmptySet DEF Weighs
<1>2. \A c \in Points : Data.state[c] = 0
  BY DEF CrowdInit, Data
<1>3. 0 % StateRange = 0
  BY TokensAssumption
<1>4. Counted(Data, cached)
  BY <1>1, <1>2, <1>3 DEF Counted
<1> QED
  BY <1>4 DEF CountInv, AllListed, CrowdInit

\* A turn of a loop that redraws one actor's points.
LEMMA RedrawingCounts ==
  ASSUME CrowdInv, AllListed, stage # "idle", NEW a \in Actors,
         NEW d, Redraw(d), Counted(d, cached'), cached' = [cached EXCEPT ![a] = now[a]],
         UNCHANGED <<now, stage>>,
         (actorsRemoved \cup actorsUpdated \cup actorsNew) \ {a}
           \subseteq actorsRemoved' \cup actorsUpdated' \cup actorsNew'
  PROVE  CountInv'
<1>1. \A b \in Actors : cached'[b] = IF b = a THEN now[a] ELSE cached[b]
  BY DEF CrowdInv, CrowdTypeOK
<1>2. AllListed'
  BY <1>1 DEF AllListed
<1>3. Data'.state = d.state
  BY DEF Data, Redraw
<1>4. Counted(Data, cached)'
  BY <1>3 DEF Counted, Weighs, Weight, Units, Under, Token
<1> QED
  BY <1>2, <1>4 DEF CountInv

LEMMA CountPreserved ==
  ASSUME IsFiniteSet(Actors), CrowdInv, CountInv, [CrowdNext]_crowdVars
  PROVE  CountInv'
<1>0. /\ Data \in DataSet /\ Counted(Data, cached) /\ AllListed
      /\ now \in Remembered /\ cached \in Remembered
  BY InvIsOfTheData DEF CrowdInv, CrowdTypeOK, CountInv, Remembered
<1>1. ASSUME UNCHANGED <<data, cached>>, AllListed' PROVE CountInv'
  BY <1>0, <1>1 DEF CountInv, Counted, Data, data, Weighs, Weight, Units, Under, Token
<1>2. CASE Compare
  <2>1. AllListed'
    BY <1>2 DEF Compare, AllListed, Changed, OnMap
  <2> QED
    BY <1>1, <1>2, <2>1 DEF Compare
<1>3. CASE ClearRemoved
  <2>1. CASE actorsRemoved = {}
    <3>1. AllListed' /\ UNCHANGED <<data, cached>>
      BY <1>0, <1>3, <2>1 DEF ClearRemoved, AllListed
    <3> QED
      BY <1>1, <3>1
  <2>2. CASE actorsRemoved # {}
    <3>1. PICK a \in actorsRemoved :
            /\ Redraw(Withdrawn(Data, a, cached[a]))
            /\ cached' = [cached EXCEPT ![a] = Nil]
            /\ actorsRemoved' = actorsRemoved \ {a} /\ UNCHANGED stage
      BY <1>3, <2>2 DEF ClearRemoved
    <3>2. a \in Actors /\ cached[a] # Nil /\ now[a] = Nil
      BY DEF CrowdInv, CrowdTypeOK, OnMap
    <3>3. Counted(Withdrawn(Data, a, cached[a]), cached')
      BY <1>0, <3>1, <3>2, WithdrawnCounted
    <3>4. UNCHANGED <<now, actorsUpdated, actorsNew>> /\ stage # "idle"
      BY <1>3 DEF ClearRemoved
    <3> QED
      BY <1>0, <3>1, <3>2, <3>3, <3>4, RedrawingCounts
  <2> QED
    BY <2>1, <2>2
<1>4. CASE RedrawUpdated
  <2>1. CASE actorsUpdated = {}
    <3>1. AllListed' /\ UNCHANGED <<data, cached>>
      BY <1>0, <1>4, <2>1 DEF RedrawUpdated, AllListed
    <3> QED
      BY <1>1, <3>1
  <2>2. CASE actorsUpdated # {}
    <3>1. PICK a \in First(actorsUpdated) :
            /\ Redraw(Redrawn(Data, a, cached[a], now[a]))
            /\ cached' = [cached EXCEPT ![a] = now[a]]
            /\ actorsUpdated' = actorsUpdated \ {a} /\ UNCHANGED stage
      BY <1>4, <2>2 DEF RedrawUpdated
    <3>2. a \in Actors /\ cached[a] # Nil /\ now[a] \in Being
      BY DEF CrowdInv, CrowdTypeOK, OnMap, First
    <3>3. Counted(Redrawn(Data, a, cached[a], now[a]), cached')
      BY <1>0, <3>1, <3>2, RedrawnCounted
    <3>4. UNCHANGED <<now, actorsRemoved, actorsNew>> /\ stage # "idle"
      BY <1>4 DEF RedrawUpdated
    <3> QED
      BY <1>0, <3>1, <3>2, <3>3, <3>4, RedrawingCounts
  <2> QED
    BY <2>1, <2>2
<1>5. CASE MarkNew
  <2>1. CASE actorsNew = {}
    <3>1. AllListed' /\ UNCHANGED <<data, cached>>
      BY <1>5, <2>1 DEF MarkNew, AllListed
    <3> QED
      BY <1>1, <3>1
  <2>2. CASE actorsNew # {}
    <3>1. PICK a \in First(actorsNew) :
            /\ Redraw(Entered(Data, a, now[a]))
            /\ cached' = [cached EXCEPT ![a] = now[a]]
            /\ actorsNew' = actorsNew \ {a} /\ UNCHANGED stage
      BY <1>5, <2>2 DEF MarkNew
    <3>2. a \in Actors /\ cached[a] = Nil /\ now[a] \in Being
      BY DEF CrowdInv, CrowdTypeOK, OnMap, First
    <3>3. Weightless(cached, a)
      BY <3>2 DEF Weightless
    <3>4. Counted(Entered(Data, a, now[a]), cached')
      BY <1>0, <3>1, <3>2, <3>3, EnteredCounted
    <3>5. UNCHANGED <<now, actorsRemoved, actorsUpdated>> /\ stage # "idle"
      BY <1>5 DEF MarkNew
    <3> QED
      BY <1>0, <3>1, <3>2, <3>4, <3>5, RedrawingCounts
  <2> QED
    BY <2>1, <2>2
<1>6. ASSUME stage' = "idle", UNCHANGED <<data, cached>> PROVE CountInv'
  BY <1>1, <1>6 DEF AllListed
<1>7. CASE MarkNewFrame
  BY <1>6, <1>7 DEF MarkNewFrame
<1>8. ASSUME NEW a \in Actors, NEW b \in Being, AddActor(a, b) PROVE CountInv'
  BY <1>6, <1>8 DEF AddActor, Changing
<1>9. ASSUME NEW a \in Actors, RemoveActor(a) PROVE CountInv'
  BY <1>6, <1>9 DEF RemoveActor, Changing
<1>10. ASSUME NEW a \in OnMap, NEW b \in OneChange(now[a]) \ {now[a]}, Become(a, b)
       PROVE  CountInv'
  BY <1>6, <1>10 DEF Become, Changing
<1>11. CASE UNCHANGED crowdVars
  BY <1>0, <1>1, <1>11 DEF crowdVars, AllListed, lists
<1> QED
  BY <1>2, <1>3, <1>4, <1>5, <1>7, <1>8, <1>9, <1>10, <1>11 DEF CrowdNext

\* What is remembered of the living is what they put down.
LEMMA LivingWeigh ==
  ASSUME IsFiniteSet(Actors), CrowdInv, NEW c \in Points
  PROVE  MapThenSumSet(LAMBDA a : Token(now[a]), Living(c)) = Weighs(now, c)
<1>0. now \in Remembered /\ Living(c) \subseteq Actors
  BY DEF CrowdInv, CrowdTypeOK, Remembered, Living, OnMap
<1>1. IsFiniteSet(Living(c))
  BY <1>0, FS_Subset
<1>2. \A a \in Living(c) : Token(now[a]) \in 0..StateRange
  <2> SUFFICES ASSUME NEW a \in Living(c) PROVE Token(now[a]) \in 0..StateRange
    OBVIOUS
  <2>1. now[a] \in Being
    BY <1>0 DEF Living, OnMap, Remembered
  <2> QED
    BY <2>1, TokenIsSmall, TokensAssumption
<1>3. MapThenSumSet(LAMBDA a : Token(now[a]), Living(c))
        = Cardinality(Units([a \in Living(c) |-> Token(now[a])], Living(c)))
  BY <1>1, <1>2, TokensAreUnits
<1>4. ASSUME NEW p
      PROVE  p \in Units([a \in Living(c) |-> Token(now[a])], Living(c))
               <=> p \in Units(Weight(now, c), Actors)
  <2>1. \A a \in Living(c) : Weight(now, c)[a] = Token(now[a]) /\ a \in Actors
    BY <1>0 DEF Weight, Living, OnMap
  <2>2. \A a \in Actors \ Living(c) : Weight(now, c)[a] = 0
    BY DEF Weight, Living, OnMap, Token
  <2> QED
    BY <1>0, <2>1, <2>2, TokensAssumption DEF Units
<1>5. Units([a \in Living(c) |-> Token(now[a])], Living(c)) = Units(Weight(now, c), Actors)
  BY <1>4
<1> QED
  BY <1>3, <1>5 DEF Weighs

--------------------------------------------------------------------------
(* Theorems *)

\* What Update has still to do is what is left of the differences it found: no
\* loop of it meets an actor another one takes care of (TraversabilityCache::Update).
THEOREM CrowdTypeCorrect == CrowdSpec => []CrowdTypeOK
  <1>1. CrowdInv => CrowdTypeOK
    BY DEF CrowdInv
  <1> QED BY <1>1, CrowdAlways, PTL

\* Whatever has walked, grown, died or gone since, the occupant the path finder
\* finds on a point is somebody who was alive and stood there when the points
\* were last redrawn: ClearOldPosition forgets whoever leaves before anybody
\* else is entered, and a removed actor before its pointer is dropped.
THEOREM OccupantsAlwaysStand == CrowdSpec => []OccupantsStand
  <1>1. CrowdInv => OccupantsStand
    BY DEF CrowdInv
  <1> QED BY <1>1, CrowdAlways, PTL

\* When Update is over, the state of a point is the tokens of all the living
\* who stand on it now, each once, whatever has happened to them since it was
\* last counted and in whatever order, for any crowd that is finite and any
\* tokens, as far as the width of a counter goes (TraversabilityCache.h:21).
THEOREM CrowdAlwaysCounted ==
  ASSUME IsFiniteSet(Actors)
  PROVE  CrowdSpec => CrowdIsCounted
<1> DEFINE IsCounted ==
             stage = "new" /\ stage' = "idle" =>
               \A c \in Points :
                 state'[c] = MapThenSumSet(LAMBDA a : Token(now[a]), Living(c)) % StateRange
<1>1. CrowdInv /\ CountInv /\ [CrowdNext]_crowdVars => [IsCounted]_crowdVars
  <2> SUFFICES ASSUME CrowdInv, CountInv, CrowdNext, stage = "new", stage' = "idle",
                      NEW c \in Points
               PROVE  state'[c] = MapThenSumSet(LAMBDA a : Token(now[a]), Living(c)) % StateRange
    OBVIOUS
  <2>1. MarkNew /\ actorsNew = {} /\ state' = state
    BY DEF CrowdNext, Compare, ClearRemoved, RedrawUpdated, MarkNew, MarkNewFrame, AddActor,
           RemoveActor, Become, Changing, data
  <2>2. actorsRemoved = {} /\ actorsUpdated = {}
    BY DEF CrowdInv, CrowdTypeOK
  <2>3. \A a \in Actors : cached[a] = now[a]
    BY <2>1, <2>2 DEF CountInv, AllListed
  <2>4. cached = now
    BY <2>3 DEF CrowdInv, CrowdTypeOK
  <2>5. state[c] = Weighs(now, c) % StateRange
    BY <2>4 DEF CountInv, Counted, Data
  <2> QED
    BY <2>1, <2>5, LivingWeigh
<1>2. CrowdInv /\ CountInv /\ [CrowdNext]_crowdVars => CountInv'
  BY CountPreserved
<1>3. CrowdInit => CountInv
  BY CountStarts
<1> QED
  BY <1>1, <1>2, <1>3, CrowdAlways, PTL DEF CrowdSpec, CrowdIsCounted
=============================================================================
