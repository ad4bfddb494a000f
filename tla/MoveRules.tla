----------------------------- MODULE MoveRules -----------------------------
(***************************************************************************)
(* The moves of Rollerball as geometry, without tables, regions or rotated *)
(* arrays: a reference definition the generator is compared with.  Squares *)
(* are points <<x, y>>, and every man moves relative to the clockwise      *)
(* direction Forward of the square it stands on.                           *)
(***************************************************************************)
EXTENDS MoveGen

Coord == 0..6
Inner == 2..4
OnRing(p) == p[1] \in Coord /\ p[2] \in Coord /\ ~(p[1] \in Inner /\ p[2] \in Inner)
RingPoints == {p \in Coord \X Coord : OnRing(p)}

Plus(p, d) == <<p[1] + d[1], p[2] + d[2]>>
Dot(d, e) == d[1] * e[1] + d[2] * e[2]
Quarter(p) == <<p[2], 6 - p[1]>>  \* a quarter of a turn of the board, clockwise

Orthogonal == {<<1, 0>>, <<-1, 0>>, <<0, 1>>, <<0, -1>>}
Diagonal == {-1, 1} \X {-1, 1}

(* Clockwise; a corner belongs to the side a man leaves it along. *)
Forward(p) ==
  CASE (p[2] = 0 /\ p[1] > 0) \/ (p[2] = 1 /\ p[1] \in 2..5) -> <<-1, 0>>
    [] (p[1] = 0 /\ p[2] < 6) \/ (p[1] = 1 /\ p[2] \in 1..4) -> <<0, 1>>
    [] (p[2] = 6 /\ p[1] < 6) \/ (p[2] = 5 /\ p[1] \in 1..4) -> <<1, 0>>
    [] OTHER -> <<0, -1>>

Corner == {0, 6} \X {0, 6}

(***************************************************************************)
(* Rays, as sequences of points.                                           *)
(***************************************************************************)
Straight(p, d) ==
  LET at(k) == <<p[1] + k * d[1], p[2] + k * d[2]>>
      reach == {k \in 1..6 : \A j \in 1..k : OnRing(at(j))}
  IN  [k \in reach |-> at(k)]

(* A rook goes any distance in the direction that is forward where it      *)
(* stands or where it arrives, one square in the others; when the forward  *)
(* lane ends in a corner it turns there once.                              *)
RookRay(p, d) ==
  LET straight == Straight(p, d)
      n == Len(straight)
  IN  CASE n = 0 -> <<>>
        [] n > 0 /\ d = Forward(p) /\ straight[n] \in Corner
             -> straight \o Straight(straight[n], Forward(straight[n]))
        [] n > 0 /\ d = Forward(p) /\ straight[n] \notin Corner -> straight
        [] n > 0 /\ d # Forward(p) /\ d = Forward(straight[1]) -> straight
        [] OTHER -> <<straight[1]>>

(* A bishop goes forward along a diagonal, bouncing once off a wall (a     *)
(* corner of the middle block is not one), and one square back.            *)
Walk(p, d) ==
  LET straight == Straight(p, d)
      last     == IF straight = <<>> THEN p ELSE straight[Len(straight)]
      across   == OnRing(<<last[1] + d[1], last[2]>>)
      along    == OnRing(<<last[1], last[2] + d[2]>>)
  IN  CASE across /\ ~along -> straight \o Straight(last, <<d[1], -d[2]>>)
        [] along /\ ~across -> straight \o Straight(last, <<-d[1], d[2]>>)
        [] OTHER            -> straight

BishopRay(p, d) ==
  IF Dot(d, Forward(p)) > 0 THEN Walk(p, d)
  ELSE IF OnRing(Plus(p, d)) THEN <<Plus(p, d)>> ELSE <<>>

KingSteps(p) ==
  {q \in RingPoints \ {p} : q[1] - p[1] \in -1..1 /\ q[2] - p[2] \in -1..1}

PawnSteps(p) ==
  {q \in KingSteps(p) : Dot(<<q[1] - p[1], q[2] - p[2]>>, Forward(p)) = 1}

(***************************************************************************)
(* Destinations, given the points where our and their men stand.           *)
(***************************************************************************)
Reached(ray, ours, theirs) ==
  {ray[k] : k \in {k \in DOMAIN ray :
     ray[k] \notin ours /\ \A j \in DOMAIN ray : j < k => ray[j] \notin ours \cup theirs}}

Destinations(man, p, ours, theirs) ==
  CASE man = "KING"   -> KingSteps(p) \ ours
    [] man = "PAWN"   -> PawnSteps(p) \ ours
    [] man = "ROOK"   -> UNION {Reached(RookRay(p, d), ours, theirs) : d \in Orthogonal}
    [] man = "BISHOP" -> UNION {Reached(BishopRay(p, d), ours, theirs) : d \in Diagonal}

(***************************************************************************)
(* The generator compared with it.                                         *)
(***************************************************************************)
Point(q) == <<getx(q), gety(q)>>
Index(p) == pos(p[1], p[2])
Ring == {Index(p) : p \in RingPoints}

(* The orientations are the board turned by a quarter, a half and three.   *)
ASSUME QuarterAssumption ==
  \A q \in Ring : /\ Point(Rot[0][q]) = Point(q)
                  /\ Point(Rot[90][q]) = Quarter(Point(q))
                  /\ Point(Rot[180][q]) = Quarter(Quarter(Point(q)))
                  /\ Point(Rot[270][q]) = Quarter(Quarter(Quarter(Point(q))))

MenOf(b, c) == {Point(q) : q \in {q \in Ring : c \in board_0(b)[q]}}

(* The man on p, which is what it is whatever flags an undone promotion    *)
(* has left on it, can go exactly where the rules let it go.               *)
FollowsRules(b, p) ==
  \E c \in Side, type \in PieceType :
    /\ Norm(board_0(b)[p]) = {type, c}
    /\ {Point(m.p1) : m \in _get_pseudolegal_moves_for_piece(b, p)} =
         Destinations(type, Point(p), MenOf(b, c), MenOf(b, Opponent(c)))
=============================================================================
