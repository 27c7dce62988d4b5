----------------------------- MODULE MCMovement -----------------------------
(* Paths over small maps, and a small crowd.  A behaviour is one of one of     *)
(* them: the maps have their crowd drawn in.                                   *)
EXTENDS PathFinder, Traversability, FiniteSetsExt

CONSTANTS Width, Height

VARIABLE part

\* A cell is <<x, y>>, from 0.
Grid == (0..(Width - 1)) \X (0..(Height - 1))
Dxy == << <<1, 0>>, <<0, 1>>, <<-1, 0>>, <<0, -1>> >>
GridChild(c, j) == <<c[1] + Dxy[j][1], c[2] + Dxy[j][2]>>

Abs(n) == IF n < 0 THEN -n ELSE n

\* The roots, rounded down, of what is under them here.
Roots == [n \in 0..(100 * (Width * Width + Height * Height)) |->
            Max({r \in 0..(10 * (Width + Height)) : r * r <= n})]
Apart(c, d) == (c[1] - d[1]) * (c[1] - d[1]) + (c[2] - d[2]) * (c[2] - d[2])
GridDistance(c, d) == Roots[Apart(c, d)]

\* The whole number nearest to a / b.
Nearest(a, b) == (2 * a + b) \div (2 * b)

\* The cells one comes through on the way, in Fine steps.
Fine == 12
Lines ==
  [cd \in Grid \X Grid |->
     {<<Nearest(cd[1][1] * (Fine - k) + cd[2][1] * k, Fine),
        Nearest(cd[1][2] * (Fine - k) + cd[2][2] * k, Fine)>> : k \in 0..Fine} \ {cd[1]}]
GridLine(c, d) == Lines[<<c, d>>]

\* In tenths: the distance so far, and one and a half of what is ahead and of
\* how far it is from the straight line.
GridCost(d, c, s, g) ==
  LET cross == Abs((c[1] - g[1]) * (g[2] - s[2]) - (c[2] - g[2]) * (g[1] - s[1])) \div 8
  IN  10 * d + (15 * (Roots[100 * Apart(c, g)] + 10 * cross)) \div 10

\* A map, row by row.
Map(rows) == [c \in Grid |-> rows[c[2] + 1][c[1] + 1]]
F == "floor"
R == "rock"
S == "side"
B == "bumpable"
T == "rooted"
U == "unmarked"

\* A spur of rock, a wall and people about, and two rooms with no door.
SomeLands == {
  Map(<< <<F, F, F, F>>, <<F, R, R, F>>, <<F, F, F, F>> >>),
  Map(<< <<F, R, F, U>>, <<F, B, S, F>>, <<F, F, F, T>> >>),
  Map(<< <<F, S, F, F>>, <<F, S, F, B>>, <<B, R, F, F>> >>) }

SomeZeros == {None, <<0, 0>>}

\* From two of the cells, and back again.
Back(s, g) == IF s \in {<<3, 0>>, <<0, 2>>} THEN {<<g, s>>} ELSE {}

\* The points at a distance of less than its size.
Around1(p, s) == ((p - s + 1)..(p + s - 1)) \cap Points

\* The path that a behaviour of the crowd never looks for.
NoSearch ==
  /\ land = Map(<< <<F, F, F, F>>, <<F, R, R, F>>, <<F, F, F, F>> >>)
  /\ source = <<0, 0>> /\ aim = <<0, 0>> /\ reach = 0 /\ blocking /\ zero = None

MCInit ==
  /\ FInit /\ CrowdInit
  /\ part \in {"path", "crowd"} /\ (part = "crowd" => NoSearch)

MCNext ==
  \/ part = "path" /\ FStep /\ UNCHANGED <<crowdVars, part>>
  \/ part = "crowd" /\ CrowdNext /\ UNCHANGED <<fvars, part>>

\* The search's fairness says nothing of a crowd.
MCSpec ==
  /\ MCInit /\ [][MCNext]_<<fvars, crowdVars, part>>
  /\ WF_fvars(FStep)
=============================================================================
