--------------------------- MODULE MoveGenProofs ---------------------------
(***************************************************************************)
(* The move generator, for every set of tables and every list of pieces    *)
(* that MoveGenAssumption, HalfTurnAssumption, QuarterAssumption and       *)
(* BoardAssumption allow: what it reads of a board, what get_legal_moves   *)
(* leaves of it, the board after half a turn, and that the moves it finds  *)
(* are those of MoveRules.                                                 *)
(***************************************************************************)
EXTENDS MoveRules, BoardProofs, FiniteSetTheorems, SequenceTheorems, WellFoundedInduction

(***************************************************************************)
(* The bottom side.  The generator asks an array two things only: whether  *)
(* a square has a man of the mover's colour and whether it is empty.  It   *)
(* asks, and arrives, on the squares of the board only.                    *)
(***************************************************************************)
Alike(own1, arr1, own2, arr2) ==
  \A t \in Track : /\ own1 \cap arr1[t] = {} <=> own2 \cap arr2[t] = {}
                   /\ arr1[t] = EMPTY <=> arr2[t] = EMPTY

(* A ray that stays on the board. *)
IsRay(ray) == (\E n \in Nat : DOMAIN ray = 1..n) /\ \A k \in DOMAIN ray : ray[k] \in Track

(* What the targets of a man of colour own must satisfy in arr1, and that  *)
(* they are the same in arr2.                                              *)
SameTargets(own, arr1, in1, in2) ==
  in1 \subseteq Track /\ (\A t \in in1 : own \cap arr1[t] = {}) /\ in1 = in2

(* Both arrays are free in the same squares of the board (FreeOf). *)
LEMMA FreeOfFacts ==
  ASSUME NEW own1, NEW arr1, NEW own2, NEW arr2, Alike(own1, arr1, own2, arr2),
         NEW squares \in SUBSET Track
  PROVE  SameTargets(own1, arr1, FreeOf(own1, arr1, squares), FreeOf(own2, arr2, squares))
BY DEF FreeOf, SameTargets, Alike

(* And a ray is cut short in both after the same square (Sweep). *)
LEMMA SweepFacts ==
  ASSUME NEW own1, NEW arr1, NEW own2, NEW arr2, Alike(own1, arr1, own2, arr2),
         NEW ray, IsRay(ray)
  PROVE  SameTargets(own1, arr1, Sweep(own1, arr1, ray), Sweep(own2, arr2, ray))
<1>1. \A k \in DOMAIN ray : own1 \cap arr1[ray[k]] = {} <=> own2 \cap arr2[ray[k]] = {}
  BY DEF Alike, IsRay
<1>2. \A k \in DOMAIN ray : \A j \in 1..(k - 1) : ray[j] \in Track
  BY DEF IsRay
<1>3. \A k \in DOMAIN ray : \A j \in 1..(k - 1) : arr1[ray[j]] = EMPTY <=> arr2[ray[j]] = EMPTY
  BY <1>2 DEF Alike
<1> QED
  BY <1>1, <1>3 DEF Sweep, SameTargets, IsRay

(* Rays of both kinds of the rook. *)
LEMMA RookRays ==
  ASSUME NEW p0 \in bottom
  PROVE  IsRay(LeftRay(p0)) /\ IsRay([y \in 1..6 |-> pos(1, y)]) /\ IsRay(<<>>)
<1>1. IsRay([y \in 1..6 |-> pos(1, y)])
  BY DEF IsRay, pos, Track, left, top, bottom
<1>2. IsRay(<<>>)
  <2>1. DOMAIN <<>> = 1..0
    OBVIOUS
  <2> QED
    BY <2>1 DEF IsRay
<1>3. IsRay(LeftRay(p0))
  <2> DEFINE straight == [k \in 1..getx(p0) |-> p0 - k]
  <2>1. getx(p0) \in 1..6 /\ \A k \in 1..getx(p0) : p0 - k \in Track
    BY DEF bottom, getx, Track, left
  <2>2. straight \in Seq(Track) /\ Len(straight) = getx(p0)
    BY <2>1
  <2>3. left_rook_reflect \in Seq(Track)
    BY DEF left_rook_reflect, Track, left, top
  <2>4. <<>> \in Seq(Track)
    OBVIOUS
  <2> HIDE DEF straight
  <2>5. \A tail \in Seq(Track) : straight \o tail \in Seq(Track)
    BY <2>2
  <2>6. LeftRay(p0) \in Seq(Track)
    BY <2>3, <2>4, <2>5 DEF LeftRay, straight
  <2>7. \A r \in Seq(Track) : IsRay(r)
    BY DEF IsRay
  <2> QED
    BY <2>6, <2>7
<1> QED
  BY <1>1, <1>2, <1>3

(* Rays written out in a list (BishopRays). *)
LEMMA ListedRays ==
  /\ \A a \in Track : IsRay(<<a>>)
  /\ \A a, c \in Track : IsRay(<<a, c>>)
  /\ \A a, c, d \in Track : IsRay(<<a, c, d>>)
  /\ \A a, c, d, e \in Track : IsRay(<<a, c, d, e>>)
  /\ \A a, c, d, e, f \in Track : IsRay(<<a, c, d, e, f>>)
  /\ \A a, c, d, e, f, g \in Track : IsRay(<<a, c, d, e, f, g>>)
<1>1. \A r \in Seq(Track) : IsRay(r)
  BY DEF IsRay
<1>2. \A a \in Track : <<a>> \in Seq(Track)
  OBVIOUS
<1>3. \A a, c \in Track : <<a, c>> \in Seq(Track)
  OBVIOUS
<1>4. \A a, c, d \in Track : <<a, c, d>> \in Seq(Track)
  OBVIOUS
<1>5. \A a, c, d, e \in Track : <<a, c, d, e>> \in Seq(Track)
  OBVIOUS
<1>6. \A a, c, d, e, f \in Track : <<a, c, d, e, f>> \in Seq(Track)
  OBVIOUS
<1>7. \A a, c, d, e, f, g \in Track : <<a, c, d, e, f, g>> \in Seq(Track)
  OBVIOUS
<1> HIDE DEF IsRay
<1> QED
  BY <1>1, <1>2, <1>3, <1>4, <1>5, <1>6, <1>7

(* The rays of the bishop stay on the board. *)
LEMMA BishopRaysFacts ==
  ASSUME NEW p0 \in bottom, NEW ray \in BishopRays(p0)
  PROVE  IsRay(ray)
<1>1. /\ 1 \in Track /\ 2 \in Track /\ 3 \in Track /\ 4 \in Track /\ 8 \in Track
      /\ 9 \in Track /\ 10 \in Track /\ 11 \in Track /\ 12 \in Track /\ 13 \in Track
      /\ 16 \in Track /\ 17 \in Track /\ 24 \in Track /\ 25 \in Track /\ 33 \in Track
      /\ 42 \in Track /\ 51 \in Track
  BY DEF Track, bottom, left, top
<1>2. \/ ray \in {<<8, 17>>, <<11, 2>>, <<12, 3>>, <<1, 8>>, <<4, 11>>}
      \/ ray \in {<<9, 16, 25>>, <<2, 9, 16>>}
      \/ ray \in {<<13>>, <<3, 10, 17, 24>>, <<17, 24, 33, 42, 51>>, <<10, 17, 24, 33, 42, 51>>}
  BY DEF BishopRays, pos, bottom
<1>3. /\ IsRay(<<8, 17>>) /\ IsRay(<<11, 2>>) /\ IsRay(<<12, 3>>) /\ IsRay(<<1, 8>>)
      /\ IsRay(<<4, 11>>) /\ IsRay(<<9, 16, 25>>) /\ IsRay(<<2, 9, 16>>) /\ IsRay(<<13>>)
      /\ IsRay(<<3, 10, 17, 24>>) /\ IsRay(<<17, 24, 33, 42, 51>>)
      /\ IsRay(<<10, 17, 24, 33, 42, 51>>)
  BY <1>1, ListedRays, Zenon
<1> QED
  BY <1>2, <1>3, Zenon

(* SameTargets are joined. *)
LEMMA JoinTargets ==
  ASSUME NEW own, NEW arr, NEW x1, NEW x2, NEW y1, NEW y2,
         SameTargets(own, arr, x1, x2), SameTargets(own, arr, y1, y2)
  PROVE  SameTargets(own, arr, x1 \cup y1, x2 \cup y2)
BY DEF SameTargets

(* The pawn, the king, the bishop and the rook. *)
LEMMA BottomFacts ==
  ASSUME NEW p0 \in bottom, NEW arr1, NEW arr2,
         Alike(color(arr1[p0]), arr1, color(arr2[p0]), arr2)
  PROVE  LET own == color(arr1[p0])
         IN  /\ SameTargets(own, arr1, construct_bottom_pawn_moves_with_board(p0, arr1),
                                   construct_bottom_pawn_moves_with_board(p0, arr2))
             /\ SameTargets(own, arr1, construct_bottom_king_moves_with_board(p0, arr1),
                                   construct_bottom_king_moves_with_board(p0, arr2))
             /\ SameTargets(own, arr1, construct_bottom_bishop_moves_with_board(p0, arr1),
                                   construct_bottom_bishop_moves_with_board(p0, arr2))
             /\ SameTargets(own, arr1, construct_bottom_rook_moves_with_board(p0, arr1),
                                   construct_bottom_rook_moves_with_board(p0, arr2))
<1> DEFINE own == color(arr1[p0])
           own2 == color(arr2[p0])
<1>0. Alike(own, arr1, own2, arr2)
  OBVIOUS
<1> HIDE DEF own, own2
<1>1. SameTargets(own, arr1, construct_bottom_pawn_moves_with_board(p0, arr1),
                         construct_bottom_pawn_moves_with_board(p0, arr2))
  <2> DEFINE squares == {pos(getx(p0) - 1, 0), pos(getx(p0) - 1, 1)} \cup {p \in {17} : p0 = 10}
  <2>1. squares \in SUBSET Track
    BY DEF pos, getx, bottom, Track, left
  <2> HIDE DEF squares
  <2>2. SameTargets(own, arr1, FreeOf(own, arr1, squares), FreeOf(own2, arr2, squares))
    BY <1>0, <2>1, FreeOfFacts
  <2> QED
    BY <1>0, <2>2 DEF construct_bottom_pawn_moves_with_board, squares, own, own2
<1>2. SameTargets(own, arr1, construct_bottom_king_moves_with_board(p0, arr1),
                         construct_bottom_king_moves_with_board(p0, arr2))
  <2> DEFINE x == getx(p0)
             squares ==
               {pos(x - 1, 0), pos(x - 1, 1), pos(x, 1 - gety(p0))}
                 \cup {p \in {pos(x - 1, 2)} : p0 = 10}
                 \cup {p \in {pos(x + 1, 0), pos(x + 1, 1)} : p0 # 6}
                 \cup {p \in {pos(x + 1, 2)} : p0 >= 12}
                 \cup {p \in {pos(x, 2)} : p0 = 13}
  <2>1. squares \in SUBSET Track
    BY DEF pos, getx, gety, bottom, Track, left, right
  <2> HIDE DEF squares
  <2>2. SameTargets(own, arr1, FreeOf(own, arr1, squares), FreeOf(own2, arr2, squares))
    BY <1>0, <2>1, FreeOfFacts
  <2> QED
    BY <1>0, <2>2 DEF construct_bottom_king_moves_with_board, squares, own, own2
<1>3. SameTargets(own, arr1, construct_bottom_bishop_moves_with_board(p0, arr1),
                         construct_bottom_bishop_moves_with_board(p0, arr2))
  <2> DEFINE squares == {p \in {p0 + 9, p0 - 7} : \/ p = p0 + 9 /\ (p0 < 6 \/ p0 >= 12)
                                                  \/ p = p0 - 7 /\ p0 > 6}
             along(o, arr) == UNION {Sweep(o, arr, ray) : ray \in BishopRays(p0)}
  <2>1. squares \in SUBSET Track
    BY DEF bottom, Track, left, right
  <2> HIDE DEF squares
  <2>2. SameTargets(own, arr1, FreeOf(own, arr1, squares), FreeOf(own2, arr2, squares))
    BY <1>0, <2>1, FreeOfFacts
  <2>3. SameTargets(own, arr1, along(own, arr1), along(own2, arr2))
    <3>1. \A ray \in BishopRays(p0) :
            SameTargets(own, arr1, Sweep(own, arr1, ray), Sweep(own2, arr2, ray))
      BY <1>0, BishopRaysFacts, SweepFacts
    <3> QED
      BY <3>1 DEF SameTargets
  <2> HIDE DEF along
  <2>4. SameTargets(own, arr1, FreeOf(own, arr1, squares) \cup along(own, arr1),
                           FreeOf(own2, arr2, squares) \cup along(own2, arr2))
    BY <2>2, <2>3, JoinTargets
  <2> QED
    BY <1>0, <2>4 DEF construct_bottom_bishop_moves_with_board, squares, along, own, own2
<1>4. SameTargets(own, arr1, construct_bottom_rook_moves_with_board(p0, arr1),
                         construct_bottom_rook_moves_with_board(p0, arr2))
  <2> DEFINE squares == {p \in {p0 + 8, p0 - 8, p0 + 1} :
                           \/ p = p0 + 8 /\ (p0 < 8 \/ p0 = 13)
                           \/ p = p0 - 8 /\ p0 >= 8
                           \/ p = p0 + 1 /\ p0 # 6}
             up == IF p0 = 1 THEN [y \in 1..6 |-> pos(1, y)] ELSE <<>>
  <2>1. squares \in SUBSET Track
    BY DEF bottom, Track, left, right
  <2>2. IsRay(up) /\ IsRay(LeftRay(p0))
    BY RookRays
  <2> HIDE DEF squares, up
  <2>3. /\ SameTargets(own, arr1, FreeOf(own, arr1, squares), FreeOf(own2, arr2, squares))
        /\ SameTargets(own, arr1, Sweep(own, arr1, up), Sweep(own2, arr2, up))
        /\ SameTargets(own, arr1, Sweep(own, arr1, LeftRay(p0)), Sweep(own2, arr2, LeftRay(p0)))
    BY <1>0, <2>1, <2>2, FreeOfFacts, SweepFacts
  <2>4. SameTargets(own, arr1,
          FreeOf(own, arr1, squares) \cup Sweep(own, arr1, up) \cup Sweep(own, arr1, LeftRay(p0)),
          FreeOf(own2, arr2, squares) \cup Sweep(own2, arr2, up)
            \cup Sweep(own2, arr2, LeftRay(p0)))
    BY <2>3, JoinTargets
  <2> QED
    BY <1>0, <2>4 DEF construct_bottom_rook_moves_with_board, squares, up, own, own2
<1> QED
  BY <1>1, <1>2, <1>3, <1>4 DEF own

(***************************************************************************)
(* All sides.                                                              *)
(***************************************************************************)

(* All men of the list stand on the board or are dead. *)
OnTrack(a) == \A i \in Piece : a.piece[i] \in Track \cup {DEAD}

(* Boards of two like positions, with their four arrays in order. *)
SameMen(a, x) ==
  /\ a \in BoardData /\ ViewsAgree(a)
  /\ x \in BoardData /\ ViewsAgree(x)
  /\ a.piece = x.piece
  /\ \A q \in Square : Norm(board_0(a)[q]) = Norm(board_0(x)[q])

(* The squares of the board are indices and not the dead one. *)
LEMMA TrackFacts ==
  /\ Track \subseteq Square
  /\ DEAD \notin Track /\ DEAD \in Square
  /\ Track \subseteq Playable
<1>1. DEAD = 63
  BY DEF DEAD, pos
<1>2. \A t \in Track : t \in 0..63 /\ t # 63
  BY DEF Track, left, right, top, bottom
<1>3. Square = 0..63 /\ Dead = DEAD
  BY MoveGenAssumption DEF ArrayIndex
<1> QED
  BY <1>1, <1>2, <1>3 DEF Playable

(* What Norm keeps of a code is what the generator reads of it. *)
LEMMA NormReads ==
  ASSUME NEW c1 \in Code, NEW c2 \in Code, Norm(c1) = Norm(c2)
  PROVE  /\ color(c1) = color(c2)
         /\ c1 = EMPTY <=> c2 = EMPTY
         /\ "PAWN" \in c1 <=> "PAWN" \in c2
         /\ "PAWN" \notin c1 => c1 = c2
BY NormFacts DEF Norm

(* Both boards read alike from every side (rotate_board). *)
LEMMA AlikeArrays ==
  ASSUME NEW a, NEW x, SameMen(a, x), NEW v \in View, NEW own \in SUBSET Side
  PROVE  Alike(own, a.board[v], own, x.board[v])
<1> SUFFICES ASSUME NEW t \in Track
             PROVE  /\ own \cap a.board[v][t] = {} <=> own \cap x.board[v][t] = {}
                    /\ a.board[v][t] = EMPTY <=> x.board[v][t] = EMPTY
  BY DEF Alike
<1>1. PICK q \in Square : Rot[v][q] = t
  BY TrackFacts, BoardAssumption
<1>2. a.board[v][t] = board_0(a)[q] /\ x.board[v][t] = board_0(x)[q]
  BY <1>1 DEF SameMen, ViewsAgree
<1>3. board_0(a)[q] \in Code /\ board_0(x)[q] \in Code
  BY BoardTypes DEF SameMen
<1>4. /\ color(a.board[v][t]) = color(x.board[v][t])
      /\ a.board[v][t] = EMPTY <=> x.board[v][t] = EMPTY
  BY <1>2, <1>3, NormReads DEF SameMen
<1> QED
  BY <1>4 DEF color

(* A square of the board is looked up at the bottom and found again. *)
LEMMA ViewFacts ==
  ASSUME NEW p \in Track
  PROVE  /\ ViewOf(p) \in View /\ Back(ViewOf(p)) \in View
         /\ Rot[ViewOf(p)][p] \in bottom /\ bottom \subseteq Track
         /\ \A t \in Track : \E q \in Track : Rot[ViewOf(p)][q] = t /\ Rot[Back(ViewOf(p))][t] = q
<1>1. ViewOf(p) \in View /\ Back(ViewOf(p)) \in View /\ Back(Back(ViewOf(p))) = ViewOf(p)
  BY MoveGenAssumption DEF ViewOf, Back, Orientation
<1>2. Rot[ViewOf(p)][p] \in bottom /\ bottom \subseteq Track
  BY MoveGenAssumption DEF Track
<1>3. ASSUME NEW t \in Track
      PROVE  \E q \in Track : Rot[ViewOf(p)][q] = t /\ Rot[Back(ViewOf(p))][t] = q
  <2> DEFINE q == Rot[Back(ViewOf(p))][t]
  <2>1. q \in Track /\ Rot[ViewOf(p)][q] = t
    BY <1>1, MoveGenAssumption
  <2> QED
    BY <2>1
<1> QED
  BY <1>1, <1>2, <1>3

(* One man's moves: they leave it where it stands, arrive on the board and *)
(* on none of its own colour, and only a pawn is promoted; on a like board *)
(* they are the same (_get_pseudolegal_moves_for_piece).                   *)
LEMMA PieceMoves ==
  ASSUME NEW a, NEW x, SameMen(a, x), NEW p \in Track
  PROVE  /\ _get_pseudolegal_moves_for_piece(a, p) = _get_pseudolegal_moves_for_piece(x, p)
         /\ \A m \in _get_pseudolegal_moves_for_piece(a, p) :
              /\ m \in Move /\ m.p0 = p /\ m.p1 \in Track
              /\ color(board_0(a)[p]) \cap board_0(a)[m.p1] = {}
              /\ m.promo # {} => "PAWN" \in board_0(a)[p]
<1> DEFINE v == ViewOf(p)
           q == Rot[v][p]
           Man(code, arr) ==
             IF "PAWN" \in code THEN construct_bottom_pawn_moves_with_board(q, arr)
             ELSE IF "ROOK" \in code THEN construct_bottom_rook_moves_with_board(q, arr)
             ELSE IF "BISHOP" \in code THEN construct_bottom_bishop_moves_with_board(q, arr)
             ELSE IF "KING" \in code THEN construct_bottom_king_moves_with_board(q, arr)
             ELSE {}
           Promotes(code) == "PAWN" \in code /\ \E c \in color(code) : p \in PromotesAt(c)
           Made(code, arr) ==
             {[p0 |-> p, p1 |-> Rot[Back(v)][t], promo |-> pr] :
                t \in Man(code, arr), pr \in IF Promotes(code) THEN {{"ROOK"}, {"BISHOP"}} ELSE {{}}}
           ca == board_0(a)[p]
           cx == board_0(x)[p]
<1>1. /\ v \in View /\ Back(v) \in View /\ q \in bottom /\ bottom \subseteq Track
      /\ \A t \in Track : \E r \in Track : Rot[v][r] = t /\ Rot[Back(v)][t] = r
  BY ViewFacts
<1>2. p \in Square /\ ca \in Code /\ cx \in Code /\ Norm(ca) = Norm(cx)
  BY TrackFacts, BoardTypes DEF SameMen
<1>3. /\ color(ca) = color(cx) /\ ("PAWN" \in ca <=> "PAWN" \in cx)
      /\ "PAWN" \notin ca => ca = cx
  BY <1>2, NormReads
<1>4. Alike(color(ca), a.board[v], color(cx), x.board[v])
  <2>1. color(ca) \in SUBSET Side
    BY DEF color
  <2> QED
    BY <1>1, <1>3, <2>1, AlikeArrays
<1>5. a.board[v][q] = ca /\ x.board[v][q] = cx
  BY <1>1, <1>2 DEF SameMen, ViewsAgree
<1>6. /\ _get_pseudolegal_moves_for_piece(a, p) = Made(ca, a.board[v])
      /\ _get_pseudolegal_moves_for_piece(x, p) = Made(cx, x.board[v])
  BY DEF _get_pseudolegal_moves_for_piece
<1> HIDE DEF v, q, ca, cx
<1>7. SameTargets(color(ca), a.board[v], Man(ca, a.board[v]), Man(cx, x.board[v]))
  <2>1. /\ SameTargets(color(ca), a.board[v], construct_bottom_pawn_moves_with_board(q, a.board[v]),
                                          construct_bottom_pawn_moves_with_board(q, x.board[v]))
        /\ SameTargets(color(ca), a.board[v], construct_bottom_king_moves_with_board(q, a.board[v]),
                                          construct_bottom_king_moves_with_board(q, x.board[v]))
        /\ SameTargets(color(ca), a.board[v], construct_bottom_bishop_moves_with_board(q, a.board[v]),
                                          construct_bottom_bishop_moves_with_board(q, x.board[v]))
        /\ SameTargets(color(ca), a.board[v], construct_bottom_rook_moves_with_board(q, a.board[v]),
                                          construct_bottom_rook_moves_with_board(q, x.board[v]))
    BY <1>1, <1>4, <1>5, BottomFacts
  <2>2. SameTargets(color(ca), a.board[v], {}, {})
    BY DEF SameTargets
  <2> QED
    BY <1>3, <2>1, <2>2
<1>8. Promotes(ca) <=> Promotes(cx)
  BY <1>3
<1> HIDE DEF Man, Promotes
<1>9. Made(ca, a.board[v]) = Made(cx, x.board[v])
  BY <1>7, <1>8 DEF SameTargets
<1>10. ASSUME NEW m \in Made(ca, a.board[v])
       PROVE  /\ m \in Move /\ m.p0 = p /\ m.p1 \in Track
              /\ color(ca) \cap board_0(a)[m.p1] = {}
              /\ m.promo # {} => "PAWN" \in ca
  <2>1. PICK t \in Man(ca, a.board[v]),
             pr \in IF Promotes(ca) THEN {{"ROOK"}, {"BISHOP"}} ELSE {{}} :
               m = [p0 |-> p, p1 |-> Rot[Back(v)][t], promo |-> pr]
    OBVIOUS
  <2>2. t \in Track /\ color(ca) \cap a.board[v][t] = {}
    BY <1>7 DEF SameTargets
  <2>3. PICK r \in Track : Rot[v][r] = t /\ Rot[Back(v)][t] = r
    BY <1>1, <2>2
  <2>4. m = [p0 |-> p, p1 |-> r, promo |-> pr]
    BY <2>1, <2>3
  <2>5. a.board[v][t] = board_0(a)[r]
    BY <1>1, <2>3, TrackFacts DEF SameMen, ViewsAgree
  <2>6. pr \in Promotion /\ (pr # {} => "PAWN" \in ca)
    <3>1. Promotes(ca) => "PAWN" \in ca
      BY DEF Promotes
    <3>2. Promotes(ca) => pr \in {{"ROOK"}, {"BISHOP"}}
      BY <2>1
    <3>3. ~Promotes(ca) => pr = {}
      BY <2>1
    <3>4. pr \in Promotion
      BY <3>2, <3>3 DEF Promotion
    <3>5. CASE Promotes(ca)
      BY <3>1, <3>4, <3>5
    <3>6. CASE ~Promotes(ca)
      <4>1. ~Promotes(ca)
        BY <3>6
      <4>2. pr = {}
        BY <3>3, <4>1
      <4> QED
        BY <3>4, <4>2
    <3> QED
      BY <3>5, <3>6
  <2>7. m \in Move
    BY <2>4, <2>6, TrackFacts DEF Move
  <2> QED
    BY <2>2, <2>4, <2>5, <2>6, <2>7
<1> QED
  BY <1>6, <1>9, <1>10 DEF ca

(* The men on the squares of a list are on the board (_get_pseudolegal_    *)
(* moves).                                                                 *)
LEMMA SideMoves ==
  ASSUME NEW a, NEW x, SameMen(a, x), OnTrack(a), NEW c \in Side
  PROVE  /\ _get_pseudolegal_moves_for_side(a, c) = _get_pseudolegal_moves_for_side(x, c)
         /\ \A m \in _get_pseudolegal_moves_for_side(a, c) :
              /\ m \in Move /\ m.p1 \in Track /\ m.p0 \in Track
              /\ \E i \in Piece : Owner[i] = c /\ a.piece[i] = m.p0
              /\ color(board_0(a)[m.p0]) \cap board_0(a)[m.p1] = {}
              /\ m.promo # {} => "PAWN" \in board_0(a)[m.p0]
<1>1. Live(a, c) = Live(x, c)
  BY DEF Live, SameMen
<1>2. \A p \in Live(a, c) : p \in Track /\ \E i \in Piece : Owner[i] = c /\ a.piece[i] = p
  BY DEF Live, OnTrack
<1>3. \A p \in Live(a, c) :
        /\ _get_pseudolegal_moves_for_piece(a, p) = _get_pseudolegal_moves_for_piece(x, p)
        /\ \A m \in _get_pseudolegal_moves_for_piece(a, p) :
              /\ m \in Move /\ m.p0 = p /\ m.p1 \in Track
              /\ color(board_0(a)[p]) \cap board_0(a)[m.p1] = {}
              /\ m.promo # {} => "PAWN" \in board_0(a)[p]
  BY <1>2, PieceMoves
<1>4. _get_pseudolegal_moves_for_side(a, c) = _get_pseudolegal_moves_for_side(x, c)
  BY <1>1, <1>3 DEF _get_pseudolegal_moves_for_side
<1>5. ASSUME NEW m \in _get_pseudolegal_moves_for_side(a, c)
      PROVE  /\ m \in Move /\ m.p1 \in Track /\ m.p0 \in Track
             /\ \E i \in Piece : Owner[i] = c /\ a.piece[i] = m.p0
             /\ color(board_0(a)[m.p0]) \cap board_0(a)[m.p1] = {}
             /\ m.promo # {} => "PAWN" \in board_0(a)[m.p0]
  <2>1. PICK p \in Live(a, c) : m \in _get_pseudolegal_moves_for_piece(a, p)
    BY DEF _get_pseudolegal_moves_for_side
  <2> QED
    BY <1>2, <1>3, <2>1
<1> QED
  BY <1>4, <1>5

(* A check is seen alike on both boards (in_check). *)
LEMMA SameChecks ==
  ASSUME NEW a, NEW x, SameMen(a, x), OnTrack(a), a.player_to_play = x.player_to_play
  PROVE  in_check(a) = in_check(x)
<1>1. a.player_to_play \in Side /\ a.piece = x.piece
  BY BoardTypes DEF SameMen
<1>2. Opponent(a.player_to_play) \in Side
  BY <1>1, OpponentInvolution
<1>3. _get_pseudolegal_moves_for_side(a, Opponent(a.player_to_play)) =
        _get_pseudolegal_moves_for_side(x, Opponent(a.player_to_play))
  BY <1>2, SideMoves
<1> QED
  BY <1>1, <1>3 DEF in_check, _under_threat

(* A move of the generator is a candidate of Game, and stays on the board. *)
LEMMA GeneratedCandidate ==
  ASSUME NEW a \in BoardData, Consistent(a), OnTrack(a),
         NEW m \in _get_pseudolegal_moves(a)
  PROVE  IsCandidate(a, m) /\ m.p1 \in Track
<1>1. SameMen(a, a) /\ a.player_to_play \in Side
  BY BoardTypes DEF SameMen, Consistent
<1>2. /\ m \in Move /\ m.p1 \in Track /\ m.p0 \in Track
      /\ \E i \in Piece : Owner[i] = a.player_to_play /\ a.piece[i] = m.p0
      /\ color(board_0(a)[m.p0]) \cap board_0(a)[m.p1] = {}
      /\ m.promo # {} => "PAWN" \in board_0(a)[m.p0]
  BY <1>1, SideMoves DEF _get_pseudolegal_moves
<1>3. PICK i \in Piece : Owner[i] = a.player_to_play /\ a.piece[i] = m.p0
  BY <1>2
<1>4. m.p0 # Dead /\ m.p0 \in Square
  BY <1>2, TrackFacts, MoveGenAssumption
<1>5. Norm(board_0(a)[m.p0]) \in Forms(i) /\ board_0(a)[m.p0] \in Code
  BY <1>3, <1>4, BoardTypes DEF Consistent, SameMan
<1>6. color(board_0(a)[m.p0]) = {a.player_to_play}
  BY <1>3, <1>5, FormFacts
<1>7. a.player_to_play \notin board_0(a)[m.p1]
  BY <1>2, <1>6
<1>8. m.p0 # m.p1
  BY <1>6, <1>7 DEF color
<1> QED
  BY <1>2, <1>3, <1>7, <1>8 DEF IsCandidate

(***************************************************************************)
(* Doing a move with and without passing the turn.                         *)
(***************************************************************************)

(* Only the turn passes, and it comes back (_flip_player). *)
LEMMA FlipFacts ==
  ASSUME NEW a \in BoardData
  PROVE  LET f == _flip_player(a)
         IN  /\ f \in BoardData /\ f.piece = a.piece /\ f.board = a.board
             /\ f.last_killed_piece = a.last_killed_piece
             /\ f.last_killed_piece_idx = a.last_killed_piece_idx
             /\ f.player_to_play = Opponent(a.player_to_play)
             /\ _flip_player(f) = a
<1> DEFINE f == _flip_player(a)
<1>1. /\ a.player_to_play \in Side /\ Opponent(a.player_to_play) \in Side
      /\ Opponent(Opponent(a.player_to_play)) = a.player_to_play
  BY BoardTypes, OpponentInvolution
<1>2. /\ f \in BoardData /\ f.piece = a.piece /\ f.board = a.board
      /\ f.last_killed_piece = a.last_killed_piece
      /\ f.last_killed_piece_idx = a.last_killed_piece_idx
      /\ f.player_to_play = Opponent(a.player_to_play)
  BY <1>1 DEF _flip_player, BoardData
<1>3. _flip_player(f) = a
  BY <1>1 DEF _flip_player, BoardData
<1> QED
  BY <1>2, <1>3

(* Order_Children's board is like the one before: the same men stand where *)
(* they stood, and it is the same player's turn.                           *)
LEMMA SimilarMen ==
  ASSUME NEW a, NEW x
  PROVE  /\ SameMen(a, x) => SameMen(x, a) /\ SameMen(a, a)
         /\ OnTrack(a) /\ a.piece = x.piece => OnTrack(x)
         /\ /\ a \in BoardData /\ ViewsAgree(a) /\ x \in BoardData /\ ViewsAgree(x)
            /\ Similar(a, x)
            => SameMen(a, x) /\ a.player_to_play = x.player_to_play
BY DEF SameMen, OnTrack, Similar

(* _do_move and _undo_last_move, as get_legal_moves calls them, without a  *)
(* turn passing.                                                           *)
LEMMA TryFacts ==
  ASSUME NEW a \in BoardData, Consistent(a), NEW m, IsCandidate(a, m)
  PROVE  LET d == _do_move(a, m)
         IN  /\ d \in BoardData /\ ViewsAgree(d) /\ d.player_to_play = a.player_to_play
             /\ _flip_player(d) = do_move(a, m) /\ _flip_player(do_move(a, m)) = d
             /\ _undo_last_move(d, m) = undo_last_move(do_move(a, m), m)
<1> DEFINE d == _do_move(a, m)
           y == do_move(a, m)
<1>1. y \in BoardData /\ ViewsAgree(y) /\ a.player_to_play \in Side
  BY DoMoveFacts, BoardTypes
<1>2. y = _flip_player(d)
  BY DEF do_move
<1>3. d = [piece |-> d.piece, board |-> d.board, player_to_play |-> a.player_to_play,
           last_killed_piece |-> d.last_killed_piece,
           last_killed_piece_idx |-> d.last_killed_piece_idx]
  BY DEF _do_move
<1> HIDE DEF d, y
<1>4. /\ y.piece = d.piece /\ y.board = d.board
      /\ y.last_killed_piece = d.last_killed_piece
      /\ y.last_killed_piece_idx = d.last_killed_piece_idx
  BY <1>2, <1>3 DEF _flip_player
<1>5. d \in BoardData
  BY <1>1, <1>3, <1>4, BoardTypes DEF BoardData
<1>6. d.player_to_play = a.player_to_play /\ ViewsAgree(d)
  BY <1>1, <1>3, <1>4 DEF ViewsAgree, board_0
<1>7. _flip_player(y) = d /\ y.player_to_play = Opponent(d.player_to_play)
  BY <1>2, <1>5, FlipFacts
<1>8. _undo_last_move(d, m) = undo_last_move(y, m)
  <2> DEFINE u == _undo_last_move(d, m)
             w == _undo_last_move(y, m)
  <2>1. /\ u.player_to_play = d.player_to_play /\ w.player_to_play = y.player_to_play
        /\ u.piece = w.piece /\ u.board = w.board
        /\ u.last_killed_piece = w.last_killed_piece
        /\ u.last_killed_piece_idx = w.last_killed_piece_idx
    BY <1>4 DEF _undo_last_move, board_0
  <2>2. /\ u = [piece |-> u.piece, board |-> u.board, player_to_play |-> u.player_to_play,
                last_killed_piece |-> u.last_killed_piece,
                last_killed_piece_idx |-> u.last_killed_piece_idx]
        /\ w = [piece |-> w.piece, board |-> w.board, player_to_play |-> w.player_to_play,
                last_killed_piece |-> w.last_killed_piece,
                last_killed_piece_idx |-> w.last_killed_piece_idx]
    BY DEF _undo_last_move
  <2> HIDE DEF u, w
  <2>3. Opponent(w.player_to_play) = u.player_to_play
    BY <1>1, <1>6, <1>7, <2>1, OpponentInvolution
  <2>4. u = [w EXCEPT !.player_to_play = Opponent(@)]
    BY <2>1, <2>2, <2>3
  <2> QED
    BY <2>4 DEF u, w, undo_last_move, _flip_player
<1> QED
  BY <1>2, <1>5, <1>6, <1>7, <1>8 DEF d, y

(* The same move leads from like boards to like boards (_do_move).         *)
LEMMA DoSimilar ==
  ASSUME NEW a \in BoardData, Consistent(a), NEW x \in BoardData, Consistent(x),
         Similar(a, x), NEW m, IsCandidate(a, m)
  PROVE  IsCandidate(x, m) /\ Similar(do_move(a, m), do_move(x, m))
<1>1. /\ m \in Move /\ m.p0 \in Square /\ m.p1 \in Square /\ m.promo \in Promotion
      /\ m.p0 # m.p1
  BY CandidateFacts DEF IsCandidate
<1>2. /\ a.piece = x.piece /\ a.player_to_play = x.player_to_play
      /\ a.player_to_play \in Side
      /\ \A q \in Square : /\ board_0(a)[q] \in Code /\ board_0(x)[q] \in Code
                           /\ Norm(board_0(a)[q]) = Norm(board_0(x)[q])
  BY BoardTypes DEF Similar
<1>3. \A q \in Square :
        /\ a.player_to_play \in board_0(a)[q] <=> a.player_to_play \in board_0(x)[q]
        /\ "PAWN" \in board_0(a)[q] <=> "PAWN" \in board_0(x)[q]
  BY <1>2, NormFacts
<1>4. IsCandidate(x, m)
  BY <1>1, <1>2, <1>3 DEF IsCandidate
<1>5. Norm(Promote(board_0(a)[m.p0], m.promo)) = Norm(Promote(board_0(x)[m.p0], m.promo))
  <2>1. color(board_0(a)[m.p0]) = color(board_0(x)[m.p0])
    BY <1>1, <1>2, NormReads
  <2> QED
    BY <1>1, <1>2, <2>1 DEF Promote
<1> DEFINE d == do_move(a, m)
           e == do_move(x, m)
<1>6. /\ d.player_to_play = Opponent(a.player_to_play)
      /\ e.player_to_play = Opponent(x.player_to_play)
      /\ d.piece \in [Piece -> Square] /\ e.piece \in [Piece -> Square]
      /\ \A i \in Piece : d.piece[i] = IF a.piece[i] = m.p1 THEN Dead
                                       ELSE IF a.piece[i] = m.p0 THEN m.p1
                                       ELSE a.piece[i]
      /\ \A i \in Piece : e.piece[i] = IF x.piece[i] = m.p1 THEN Dead
                                       ELSE IF x.piece[i] = m.p0 THEN m.p1
                                       ELSE x.piece[i]
  BY <1>4, DoMoveFacts, BoardTypes
<1>7. /\ \A q \in Square : board_0(d)[q] =
                             IF q = m.p0 THEN EMPTY
                             ELSE IF q = m.p1 THEN Promote(board_0(a)[m.p0], m.promo)
                             ELSE board_0(a)[q]
      /\ \A q \in Square : board_0(e)[q] =
                             IF q = m.p0 THEN EMPTY
                             ELSE IF q = m.p1 THEN Promote(board_0(x)[m.p0], m.promo)
                             ELSE board_0(x)[q]
  BY <1>4, DoMoveFacts
<1> HIDE DEF d, e
<1>8. d.piece = e.piece
  <2>1. \A i \in Piece : d.piece[i] = e.piece[i]
    BY <1>2, <1>6
  <2> QED
    BY <1>6, <2>1
<1>9. \A q \in Square : Norm(board_0(d)[q]) = Norm(board_0(e)[q])
  BY <1>2, <1>5, <1>7
<1>10. Similar(d, e)
  BY <1>2, <1>6, <1>8, <1>9 DEF Similar
<1> QED
  BY <1>4, <1>10 DEF d, e

(* A move of the generator keeps all men on the board.                     *)
LEMMA DoOnTrack ==
  ASSUME NEW a \in BoardData, Consistent(a), OnTrack(a), NEW m, IsCandidate(a, m), m.p1 \in Track
  PROVE  OnTrack(do_move(a, m)) /\ OnTrack(_do_move(a, m))
<1>1. OnTrack(do_move(a, m))
  BY DoMoveFacts, MoveGenAssumption DEF OnTrack
<1>2. _do_move(a, m).piece = do_move(a, m).piece
  BY TryFacts, FlipFacts
<1> QED
  BY <1>1, <1>2 DEF OnTrack

(* Whether a move leaves the king in check does not depend on the copy it  *)
(* is tried on (get_legal_moves).                                          *)
LEMMA SameTrial ==
  ASSUME NEW a \in BoardData, Consistent(a), OnTrack(a), NEW x \in BoardData, Consistent(x),
         Similar(a, x), NEW m, IsCandidate(a, m), m.p1 \in Track
  PROVE  in_check(_do_move(a, m)) = in_check(_do_move(x, m))
<1> DEFINE d == _do_move(a, m)
           e == _do_move(x, m)
<1>1. IsCandidate(x, m) /\ Similar(do_move(a, m), do_move(x, m))
  BY DoSimilar
<1>2. /\ d \in BoardData /\ ViewsAgree(d) /\ e \in BoardData /\ ViewsAgree(e)
      /\ d.player_to_play = e.player_to_play
      /\ _flip_player(d) = do_move(a, m) /\ _flip_player(e) = do_move(x, m)
  BY <1>1, TryFacts DEF Similar
<1>3. OnTrack(d)
  BY DoOnTrack
<1> HIDE DEF d, e
<1>4. /\ d.piece = do_move(a, m).piece /\ d.board = do_move(a, m).board
      /\ e.piece = do_move(x, m).piece /\ e.board = do_move(x, m).board
  BY <1>2, FlipFacts
<1>5. SameMen(d, e)
  BY <1>1, <1>2, <1>4 DEF SameMen, Similar, board_0
<1>6. in_check(d) = in_check(e)
  BY <1>2, <1>3, <1>5, SameChecks
<1> QED
  BY <1>6 DEF d, e

(* One turn of the loop of get_legal_moves, on a copy of board a.          *)
IsCopy(a, c) == c \in BoardData /\ Consistent(c) /\ Similar(a, c)

LEMMA TurnFacts ==
  ASSUME NEW a \in BoardData, Consistent(a), OnTrack(a), NEW m \in _get_pseudolegal_moves(a),
         NEW acc, IsCopy(a, acc.c)
  PROVE  /\ IsCopy(a, TryMove(acc, m).c)
         /\ TryMove(acc, m).legal = acc.legal \cup {n \in {m} : ~in_check(_do_move(a, m))}
<1> DEFINE c == acc.c
           d == _do_move(c, m)
           u == _undo_last_move(d, m)
<1>1. c \in BoardData /\ Consistent(c) /\ Similar(a, c)
  BY DEF IsCopy
<1>2. IsCandidate(a, m) /\ m.p1 \in Track
  BY GeneratedCandidate
<1>3. IsCandidate(c, m)
  BY <1>1, <1>2, DoSimilar
<1>4. TryMove(acc, m) = [c |-> u, legal |-> acc.legal \cup {n \in {m} : ~in_check(d)}]
  BY DEF TryMove, Evaluated
<1>5. u = undo_last_move(do_move(c, m), m)
  BY <1>1, <1>3, TryFacts
<1> HIDE DEF c, u
<1>6. u \in BoardData /\ Consistent(u) /\ Similar(u, c)
  BY <1>1, <1>3, <1>5, ProbeFacts
<1>7. Similar(a, u)
  BY <1>1, <1>6, SimilarEquivalence
<1>8. in_check(d) = in_check(_do_move(a, m))
  BY <1>1, <1>2, SameTrial
<1> HIDE DEF d
<1> QED
  BY <1>4, <1>6, <1>7, <1>8 DEF IsCopy

(***************************************************************************)
(* The loop of get_legal_moves over all moves, in any order.               *)
(***************************************************************************)

(* There are finitely many moves. *)
LEMMA MovesFinite == IsFiniteSet(Move)
<1>1. IsFiniteSet(Playable)
  <2>1. IsFiniteSet(0..63)
    <3>1. 0 \in Int /\ 63 \in Int
      OBVIOUS
    <3> QED
      BY <3>1, FS_Interval, Zenon
  <2>2. Playable \in SUBSET (0..63)
    BY MoveGenAssumption DEF Playable, ArrayIndex
  <2> QED
    BY <2>1, <2>2, FS_Subset
<1>2. IsFiniteSet(Promotion)
  <2>1. IsFiniteSet({} \cup {{}})
    BY FS_EmptySet, FS_AddElement
  <2>2. IsFiniteSet(({} \cup {{}}) \cup {{"ROOK"}})
    BY <2>1, FS_AddElement
  <2>3. IsFiniteSet((({} \cup {{}}) \cup {{"ROOK"}}) \cup {{"BISHOP"}})
    BY <2>2, FS_AddElement
  <2>4. Promotion = (({} \cup {{}}) \cup {{"ROOK"}}) \cup {{"BISHOP"}}
    BY DEF Promotion
  <2> QED
    BY <2>3, <2>4
<1> DEFINE T == (Playable \X Playable) \X Promotion
           f == [m \in Move |-> <<<<m.p0, m.p1>>, m.promo>>]
<1>3. IsFiniteSet(T)
  <2>1. IsFiniteSet(Playable \X Playable)
    BY <1>1, FS_Product
  <2> QED
    BY <1>2, <2>1, FS_Product
<1>4. f \in Injection(Move, T)
  <2>1. f \in [Move -> T]
    BY DEF Move
  <2>2. ASSUME NEW m \in Move, NEW n \in Move, f[m] = f[n]
        PROVE  m = n
    <3>1. m.p0 = n.p0 /\ m.p1 = n.p1 /\ m.promo = n.promo
      BY <2>2
    <3> QED
      BY <3>1 DEF Move
  <2> HIDE DEF f, T
  <2> QED
    BY <2>1, <2>2 DEF Injection, IsInjective
<1> HIDE DEF T, f
<1> QED
  BY <1>3, <1>4, FS_Injection

(* Every set of natural numbers has a least element. *)
LEMMA LeastNumber ==
  ASSUME NEW T, T \subseteq Nat, T # {}
  PROVE  \E m \in T : \A k \in T : m <= k
<1> DEFINE R == OpToRel(<, Nat)
<1>1. IsWellFoundedOn(R, Nat)
  BY NatLessThanWellFounded
<1>2. PICK m \in T : \A k \in T : ~(<<k, m>> \in R)
  <2> HIDE DEF R
  <2> QED
    BY <1>1, WFMin
<1>3. \A k \in T : ~(k < m)
  BY <1>2 DEF OpToRel
<1> QED
  BY <1>3

(* The value of the fold after each set of moves, as FoldSet defines it.   *)
Pick(X) == CHOOSE m \in X : TRUE

Turns(base, D, f) ==
  f = [X \in D |-> IF X = {} THEN base ELSE TryMove(f[X \ {Pick(X)}], Pick(X))]

(* The subsets of up to n elements. *)
Layer(S, n) == {X \in SUBSET S : Cardinality(X) <= n}

(* Taking a move out of a set makes it smaller. *)
LEMMA SmallerSet ==
  ASSUME NEW S, IsFiniteSet(S)
  PROVE  /\ \A X \in SUBSET S : Cardinality(X) \in Nat /\ (Cardinality(X) = 0 <=> X = {})
         /\ \A X \in SUBSET S : X # {} => /\ Pick(X) \in X /\ X \ {Pick(X)} \in SUBSET S
                                          /\ Cardinality(X \ {Pick(X)}) = Cardinality(X) - 1
<1>1. ASSUME NEW X \in SUBSET S
      PROVE  /\ Cardinality(X) \in Nat /\ (Cardinality(X) = 0 <=> X = {})
             /\ X # {} => /\ Pick(X) \in X /\ X \ {Pick(X)} \in SUBSET S
                          /\ Cardinality(X \ {Pick(X)}) = Cardinality(X) - 1
  <2>1. IsFiniteSet(X)
    BY FS_Subset
  <2>2. Cardinality(X) \in Nat /\ (Cardinality(X) = 0 <=> X = {})
    BY <2>1, FS_CardinalityType, FS_EmptySet
  <2>3. X # {} => Pick(X) \in X
    BY DEF Pick
  <2>4. Cardinality(X \ {Pick(X)}) = IF Pick(X) \in X THEN Cardinality(X) - 1
                                     ELSE Cardinality(X)
    BY <2>1, FS_RemoveElement
  <2> QED
    BY <2>2, <2>3, <2>4
<1> QED
  BY <1>1

(* The function FoldSet speaks of exists. *)
LEMMA TurnsExist ==
  ASSUME NEW base, NEW S, IsFiniteSet(S)
  PROVE  \A n \in Nat : \E f : Turns(base, Layer(S, n), f)
<1> DEFINE T == {n \in Nat : ~ \E f : Turns(base, Layer(S, n), f)}
<1> SUFFICES ASSUME T # {} PROVE FALSE
  OBVIOUS
<1>1. PICK n \in T : \A k \in T : n <= k
  <2>1. T \subseteq Nat
    OBVIOUS
  <2> HIDE DEF T
  <2> QED
    BY <2>1, LeastNumber
<1>2. n \in Nat /\ ~ \E f : Turns(base, Layer(S, n), f)
  BY <1>1
<1>0. \A X \in SUBSET S : Cardinality(X) \in Nat /\ (Cardinality(X) = 0 <=> X = {})
  BY SmallerSet
<1>3. \A X \in SUBSET S : X # {} => /\ Pick(X) \in X /\ X \ {Pick(X)} \in SUBSET S
                                    /\ Cardinality(X \ {Pick(X)}) = Cardinality(X) - 1
  BY SmallerSet
<1>4. n # 0
  <2>1. \A X \in Layer(S, 0) : X = {}
    BY <1>0 DEF Layer
  <2>2. Turns(base, Layer(S, 0), [X \in Layer(S, 0) |-> base])
    BY <2>1 DEF Turns
  <2> QED
    BY <1>2, <2>2
<1>5. PICK f : Turns(base, Layer(S, n - 1), f)
  <2>1. n - 1 \in Nat /\ ~(n <= n - 1)
    BY <1>2, <1>4
  <2> QED
    BY <1>1, <2>1
<1> DEFINE D == Layer(S, n)
           E == Layer(S, n - 1)
           g == [X \in D |-> IF X \in E THEN f[X]
                             ELSE TryMove(f[X \ {Pick(X)}], Pick(X))]
<1>6. \A X \in D : X # {} => X \ {Pick(X)} \in E /\ X \ {Pick(X)} \in D
  BY <1>0, <1>2, <1>3 DEF Layer
<1>7. {} \in E /\ \A X \in E : X \in D
  <2>1. {} \in SUBSET S
    OBVIOUS
  <2> QED
    BY <1>0, <1>2, <1>4, <2>1 DEF Layer
<1>8. f = [X \in E |-> IF X = {} THEN base ELSE TryMove(f[X \ {Pick(X)}], Pick(X))]
  BY <1>5 DEF Turns
<1> HIDE DEF D, E
<1>9. \A X \in E : f[X] = IF X = {} THEN base ELSE TryMove(f[X \ {Pick(X)}], Pick(X))
  BY <1>8
<1>10. \A X \in E : g[X] = f[X]
  BY <1>7
<1>11. ASSUME NEW X \in D
       PROVE  g[X] = IF X = {} THEN base ELSE TryMove(g[X \ {Pick(X)}], Pick(X))
  <2>1. CASE X = {}
    BY <1>7, <1>9, <1>10, <2>1
  <2>2. CASE X # {}
    <3>1. g[X \ {Pick(X)}] = f[X \ {Pick(X)}]
      BY <1>6, <1>10, <2>2
    <3>2. g[X] = TryMove(f[X \ {Pick(X)}], Pick(X))
      BY <1>9, <2>2
    <3> HIDE DEF g
    <3> QED
      BY <2>2, <3>1, <3>2
  <2> QED
    BY <2>1, <2>2
<1>12. g = [X \in D |-> g[X]]
  OBVIOUS
<1> HIDE DEF g
<1>13. Turns(base, D, g)
  BY <1>11, <1>12 DEF Turns
<1> QED
  BY <1>2, <1>13 DEF D

(* After each set of moves the copy is a copy, and of these moves the      *)
(* legal ones have been found, each as on a board of its own.              *)
Found(a, X) == {m \in X : ~in_check(_do_move(a, m))}

LEMMA LoopFacts ==
  ASSUME NEW a \in BoardData, Consistent(a), OnTrack(a),
         NEW S, S = _get_pseudolegal_moves(a), IsFiniteSet(S),
         NEW f, Turns([c |-> a, legal |-> {}], SUBSET S, f)
  PROVE  \A X \in SUBSET S : IsCopy(a, f[X].c) /\ f[X].legal = Found(a, X)
<1> DEFINE Good(X) == IsCopy(a, f[X].c) /\ f[X].legal = Found(a, X)
           T == {n \in Nat : \E X \in SUBSET S : Cardinality(X) = n /\ ~Good(X)}
<1>0. \A X \in SUBSET S : Cardinality(X) \in Nat /\ (Cardinality(X) = 0 <=> X = {})
  BY SmallerSet
<1>1. \A X \in SUBSET S : X # {} => /\ Pick(X) \in X /\ X \ {Pick(X)} \in SUBSET S
                                    /\ Cardinality(X \ {Pick(X)}) = Cardinality(X) - 1
  BY SmallerSet
<1>2. \A X \in SUBSET S :
        f[X] = IF X = {} THEN [c |-> a, legal |-> {}]
               ELSE TryMove(f[X \ {Pick(X)}], Pick(X))
  <2> DEFINE D == SUBSET S
  <2>1. f = [X \in D |-> IF X = {} THEN [c |-> a, legal |-> {}]
                         ELSE TryMove(f[X \ {Pick(X)}], Pick(X))]
    BY DEF Turns
  <2> HIDE DEF D
  <2>2. \A X \in D : f[X] = IF X = {} THEN [c |-> a, legal |-> {}]
                            ELSE TryMove(f[X \ {Pick(X)}], Pick(X))
    BY <2>1
  <2> QED
    BY <2>2 DEF D
<1>3. Good({})
  <2>1. f[{}] = [c |-> a, legal |-> {}]
    BY <1>2
  <2>2. IsCopy(a, a)
    BY SimilarEquivalence DEF IsCopy
  <2> QED
    BY <2>1, <2>2 DEF Found
<1>4. ASSUME NEW X \in SUBSET S, X # {}, Good(X \ {Pick(X)})
      PROVE  Good(X)
  <2> DEFINE m == Pick(X)
             Y == X \ {m}
  <2>1. m \in X /\ m \in _get_pseudolegal_moves(a)
    BY <1>1, <1>4
  <2>2. f[X] = TryMove(f[Y], m)
    BY <1>2, <1>4
  <2>3. IsCopy(a, f[Y].c) /\ f[Y].legal = Found(a, Y)
    BY <1>4
  <2> HIDE DEF m, Y
  <2>4. /\ IsCopy(a, TryMove(f[Y], m).c)
        /\ TryMove(f[Y], m).legal = f[Y].legal \cup {n \in {m} : ~in_check(_do_move(a, m))}
    BY <2>1, <2>3, TurnFacts
  <2>5. Found(a, Y) \cup {n \in {m} : ~in_check(_do_move(a, m))} = Found(a, X)
    BY <2>1 DEF Found, Y
  <2> QED
    BY <2>2, <2>3, <2>4, <2>5
<1> HIDE DEF Good
<1>5. T = {}
  <2> SUFFICES ASSUME T # {} PROVE FALSE
    OBVIOUS
  <2>1. PICK n \in T : \A k \in T : n <= k
    <3>1. T \subseteq Nat
      OBVIOUS
    <3> HIDE DEF T
    <3> QED
      BY <3>1, LeastNumber
  <2>2. PICK X \in SUBSET S : Cardinality(X) = n /\ ~Good(X)
    BY <2>1
  <2>3. X # {} /\ ~Good(X \ {Pick(X)})
    BY <1>3, <1>4, <2>2
  <2>4. X \ {Pick(X)} \in SUBSET S /\ Cardinality(X \ {Pick(X)}) = n - 1 /\ n \in Nat \ {0}
    BY <1>0, <1>1, <2>2, <2>3
  <2>5. n - 1 \in T
    BY <2>3, <2>4
  <2> QED
    BY <2>1, <2>4, <2>5
<1>6. \A X \in SUBSET S : Good(X)
  BY <1>0, <1>5
<1> QED
  BY <1>6 DEF Good

(***************************************************************************)
(* Half a turn of the board, with the colours changed.                     *)
(***************************************************************************)

(* The table exchanges the squares of the board that lie opposite each     *)
(* other and leaves all other indices alone.                               *)
LEMMA HalfTurnTable ==
  \A q \in Square : cw_180[q] = IF q \in Track THEN 54 - q ELSE q
<1>1. Square = 0..63
  BY MoveGenAssumption DEF ArrayIndex
<1>2. \A q \in 0..7 : cw_180[q] = IF q \in Track THEN 54 - q ELSE q
  BY DEF cw_180, Table, ArrayIndex, Track, bottom, left, top, right
<1>3. \A q \in 8..15 : cw_180[q] = IF q \in Track THEN 54 - q ELSE q
  BY DEF cw_180, Table, ArrayIndex, Track, bottom, left, top, right
<1>4. \A q \in 16..23 : cw_180[q] = IF q \in Track THEN 54 - q ELSE q
  BY DEF cw_180, Table, ArrayIndex, Track, bottom, left, top, right
<1>5. \A q \in 24..31 : cw_180[q] = IF q \in Track THEN 54 - q ELSE q
  BY DEF cw_180, Table, ArrayIndex, Track, bottom, left, top, right
<1>6. \A q \in 32..39 : cw_180[q] = IF q \in Track THEN 54 - q ELSE q
  BY DEF cw_180, Table, ArrayIndex, Track, bottom, left, top, right
<1>7. \A q \in 40..47 : cw_180[q] = IF q \in Track THEN 54 - q ELSE q
  BY DEF cw_180, Table, ArrayIndex, Track, bottom, left, top, right
<1>8. \A q \in 48..55 : cw_180[q] = IF q \in Track THEN 54 - q ELSE q
  BY DEF cw_180, Table, ArrayIndex, Track, bottom, left, top, right
<1>9. \A q \in 56..63 : cw_180[q] = IF q \in Track THEN 54 - q ELSE q
  BY DEF cw_180, Table, ArrayIndex, Track, bottom, left, top, right
<1>10. \A q \in 0..63 : \/ q \in 0..7 \/ q \in 8..15 \/ q \in 16..23 \/ q \in 24..31
                        \/ q \in 32..39 \/ q \in 40..47 \/ q \in 48..55 \/ q \in 56..63
  BY SMT
<1> QED
  BY <1>1, <1>2, <1>3, <1>4, <1>5, <1>6, <1>7, <1>8, <1>9, <1>10, Zenon

(* It undoes itself, keeps the dead square and the board, and takes each   *)
(* side of it to the opposite one, and the squares where a pawn is         *)
(* promoted to those of the other colour.                                  *)
LEMMA HalfTurnFacts ==
  /\ \A q \in Square : cw_180[q] \in Square /\ cw_180[cw_180[q]] = q
  /\ cw_180[Dead] = Dead
  /\ \A q \in Track : cw_180[q] \in Track /\ cw_180[q] = 54 - q
  /\ \A q \in Track : ViewOf(cw_180[q]) = Opposite(ViewOf(q))
  /\ \A c \in Side : \A q \in Track : cw_180[q] \in PromotesAt(Opponent(c)) <=> q \in PromotesAt(c)
<1>1. \A q \in Track : 54 - q \in Track
  BY DEF Track, bottom, left, top, right
<1>2. \A q \in Track : q \in Int /\ 54 - (54 - q) = q
  BY DEF Track, bottom, left, top, right
<1>3. \A q \in Track : cw_180[q] \in Track /\ cw_180[q] = 54 - q
  BY <1>1, HalfTurnTable, TrackFacts
<1>4. \A q \in Square : cw_180[q] \in Square /\ cw_180[cw_180[q]] = q
  BY <1>2, <1>3, HalfTurnTable, TrackFacts
<1>5. cw_180[Dead] = Dead
  BY HalfTurnTable, TrackFacts, MoveGenAssumption
<1>6. \A q \in Track : ViewOf(54 - q) = Opposite(ViewOf(q))
  <2>1. /\ \A q \in bottom : 54 - q \in top
        /\ \A q \in left : 54 - q \in right
        /\ \A q \in top : 54 - q \in bottom
        /\ \A q \in right : 54 - q \in left
    BY DEF bottom, left, top, right
  <2>2. /\ \A q \in bottom : q \notin left /\ q \notin top /\ q \notin right
        /\ \A q \in left : q \notin top /\ q \notin right
        /\ \A q \in top : q \notin right
    BY DEF bottom, left, top, right
  <2>3. \A q \in bottom : ViewOf(q) = 0
    BY <2>2 DEF ViewOf
  <2>4. \A q \in left : ViewOf(q) = 270
    BY <2>2 DEF ViewOf
  <2>5. \A q \in top : ViewOf(q) = 180
    BY <2>2 DEF ViewOf
  <2>6. \A q \in right : ViewOf(q) = 90
    BY <2>2 DEF ViewOf
  <2>7. Opposite(0) = 180 /\ Opposite(180) = 0 /\ Opposite(90) = 270 /\ Opposite(270) = 90
    BY DEF Opposite
  <2>8. \A q \in bottom : ViewOf(54 - q) = Opposite(ViewOf(q))
    BY <2>1, <2>3, <2>5, <2>7
  <2>9. \A q \in left : ViewOf(54 - q) = Opposite(ViewOf(q))
    BY <2>1, <2>4, <2>6, <2>7
  <2>10. \A q \in top : ViewOf(54 - q) = Opposite(ViewOf(q))
    BY <2>1, <2>3, <2>5, <2>7
  <2>11. \A q \in right : ViewOf(54 - q) = Opposite(ViewOf(q))
    BY <2>1, <2>4, <2>6, <2>7
  <2> QED
    BY <2>8, <2>9, <2>10, <2>11 DEF Track
<1>7. \A c \in Side : \A q \in Track : 54 - q \in PromotesAt(Opponent(c)) <=> q \in PromotesAt(c)
  <2>1. Opponent("WHITE") = "BLACK" /\ Opponent("BLACK") = "WHITE"
    BY DEF Opponent, Side
  <2>2. PromotesAt("WHITE") = {51, 43} /\ PromotesAt("BLACK") = {11, 3}
    BY DEF PromotesAt
  <2>3. \A q \in Track : /\ 54 - q \in {11, 3} <=> q \in {51, 43}
                         /\ 54 - q \in {51, 43} <=> q \in {11, 3}
    BY <1>2, SMT
  <2> QED
    <3>1. \A q \in Track : 54 - q \in PromotesAt("BLACK") <=> q \in PromotesAt("WHITE")
      BY <2>2, <2>3
    <3>2. \A q \in Track : 54 - q \in PromotesAt("WHITE") <=> q \in PromotesAt("BLACK")
      BY <2>2, <2>3
    <3> QED
      BY <2>1, <3>1, <3>2 DEF Side
<1> QED
  BY <1>3, <1>4, <1>5, <1>6, <1>7

(* Back from the opposite side is opposite to back.                        *)
LEMMA OppositeFacts ==
  \A v \in View : /\ Opposite(v) \in View /\ Back(v) \in View
                  /\ Back(Opposite(v)) = Opposite(Back(v))
BY MoveGenAssumption DEF Opposite, Back, Orientation

(* Changing the colour of a man. *)
LEMMA RecolouredFacts ==
  ASSUME NEW code \in Code
  PROVE  /\ Recoloured(code) \in Code
         /\ Recoloured(Recoloured(code)) = code
         /\ Recoloured(code) = EMPTY <=> code = EMPTY
         /\ \A t \in PieceType : t \in Recoloured(code) <=> t \in code
         /\ \A c \in Side : c \in Recoloured(code) <=> Opponent(c) \in code
         /\ Norm(Recoloured(code)) = Recoloured(Norm(code))
<1>1. /\ Opponent("WHITE") = "BLACK" /\ Opponent("BLACK") = "WHITE"
      /\ \A t \in PieceType : t \notin Side
  BY DEF Opponent, Side, PieceType
<1>2. \A x \in SUBSET (Side \cup PieceType) : \A f :
        f \in Recoloured(x) <=> \/ f \in Side /\ Opponent(f) \in x
                                \/ f \in PieceType /\ f \in x
  BY <1>1 DEF Recoloured, Side
<1>3. Recoloured(code) \in Code
  BY <1>1, <1>2 DEF Code, Side
<1>4. Recoloured(Recoloured(code)) = code
  <2>1. \A f : f \in Recoloured(Recoloured(code)) <=> f \in code
    <3>1. \A f : \/ f = "WHITE" \/ f = "BLACK" \/ f \in PieceType \/ f \notin Side \cup PieceType
      BY DEF Side
    <3>2. Recoloured(code) \in SUBSET (Side \cup PieceType) /\ code \in SUBSET (Side \cup PieceType)
      BY <1>3 DEF Code
    <3>3. \A f : f \in Recoloured(Recoloured(code)) <=>
                   \/ f \in Side /\ Opponent(f) \in Recoloured(code)
                   \/ f \in PieceType /\ f \in Recoloured(code)
      BY <1>2, <3>2
    <3>4. "WHITE" \in Side /\ "BLACK" \in Side
      BY DEF Side
    <3>5. /\ "WHITE" \in Recoloured(Recoloured(code)) <=> "WHITE" \in code
          /\ "BLACK" \in Recoloured(Recoloured(code)) <=> "BLACK" \in code
      BY <1>1, <1>2, <3>2, <3>3, <3>4
    <3>6. \A f \in PieceType : f \in Recoloured(Recoloured(code)) <=> f \in code
      BY <1>1, <1>2, <3>2, <3>3
    <3> QED
      BY <3>1, <3>2, <3>3, <3>5, <3>6
  <2> QED
    BY <2>1
<1>5. /\ \A t \in PieceType : t \in Recoloured(code) <=> t \in code
      /\ \A c \in Side : c \in Recoloured(code) <=> Opponent(c) \in code
  BY <1>1, <1>2 DEF Code
<1>6. Recoloured(code) = EMPTY <=> code = EMPTY
  BY DEF Recoloured, EMPTY
<1>7. Norm(Recoloured(code)) = Recoloured(Norm(code))
  <2>1. code \ {"ROOK", "BISHOP"} \in SUBSET (Side \cup PieceType)
    BY DEF Code
  <2>2. \A f : f \in Recoloured(code) \ {"ROOK", "BISHOP"}
                 <=> f \in Recoloured(code \ {"ROOK", "BISHOP"})
    BY <1>1, <1>2, <2>1 DEF Code, Side
  <2>3. Recoloured(code) \ {"ROOK", "BISHOP"} = Recoloured(code \ {"ROOK", "BISHOP"})
    BY <2>2
  <2> QED
    BY <1>5, <2>3 DEF Norm, PieceType
<1> QED
  BY <1>3, <1>4, <1>5, <1>6, <1>7

(* A move seen from the other side of the table. *)
LEMMA TurnedMoveFacts ==
  ASSUME NEW m \in Move
  PROVE  TurnedMove(m) \in Move /\ TurnedMove(TurnedMove(m)) = m
<1>1. \A q \in Playable : cw_180[q] \in Playable /\ cw_180[cw_180[q]] = q
  BY HalfTurnFacts DEF Playable
<1>2. m.p0 \in Playable /\ m.p1 \in Playable /\ m.promo \in Promotion
  BY DEF Move
<1>3. m = [p0 |-> m.p0, p1 |-> m.p1, promo |-> m.promo]
  BY DEF Move
<1> QED
  BY <1>1, <1>2, <1>3 DEF TurnedMove, Move

(* On a turned board a man has the turned moves: no side of the board and  *)
(* neither colour has a move the other lacks, promotions included.         *)
LEMMA TurnedPieceMoves ==
  ASSUME NEW a \in BoardData, ViewsAgree(a), NEW t, t.board = HalfTurned(a.board),
         NEW p \in Track
  PROVE  _get_pseudolegal_moves_for_piece(t, cw_180[p]) =
           {TurnedMove(m) : m \in _get_pseudolegal_moves_for_piece(a, p)}
<1> DEFINE v  == ViewOf(p)
           w  == Opposite(v)
           q  == Rot[v][p]
           r  == cw_180[p]
           ca == board_0(a)[p]
           ct == board_0(t)[r]
           Man(code, arr) ==
             IF "PAWN" \in code THEN construct_bottom_pawn_moves_with_board(q, arr)
             ELSE IF "ROOK" \in code THEN construct_bottom_rook_moves_with_board(q, arr)
             ELSE IF "BISHOP" \in code THEN construct_bottom_bishop_moves_with_board(q, arr)
             ELSE IF "KING" \in code THEN construct_bottom_king_moves_with_board(q, arr)
             ELSE {}
           Promotes(code, at) == "PAWN" \in code /\ \E c \in color(code) : at \in PromotesAt(c)
           Pieces(yes) == IF yes THEN {{"ROOK"}, {"BISHOP"}} ELSE {{}}
<1>1. /\ p \in Square /\ r \in Track /\ r \in Square /\ cw_180[r] = p
      /\ ViewOf(r) = w
  BY HalfTurnFacts, TrackFacts
<1>2. /\ v \in View /\ w \in View /\ Back(v) \in View /\ Back(w) = Opposite(Back(v))
      /\ q \in bottom /\ bottom \subseteq Track
      /\ \A s2 \in Track : \E y \in Track : Rot[v][y] = s2 /\ Rot[Back(v)][s2] = y
  BY ViewFacts, OppositeFacts
<1>3. /\ \A i \in View, y \in Square : t.board[i][y] = Recoloured(a.board[i][cw_180[y]])
      /\ \A y \in Square : board_0(t)[y] = Recoloured(board_0(a)[cw_180[y]])
  BY BoardAssumption DEF HalfTurned, board_0
<1>4. ca \in Code /\ ct = Recoloured(ca)
  BY <1>1, <1>3, BoardTypes
<1>5. Rot[w][r] = q
  <2>1. Rot[v][r] \in Square /\ Rot[v][r] = cw_180[q] /\ q \in Square
    <3> HIDE DEF v
    <3>1. Rot[v][p] \in Square /\ Rot[v][r] \in Square
      <4>1. \A i \in View, y \in Square : Rot[i][y] \in Square
        BY BoardAssumption
      <4> HIDE DEF r
      <4> QED
        BY <1>1, <1>2, <4>1
    <3>2. Rot[v][cw_180[p]] = cw_180[Rot[v][p]]
      BY <1>1, <1>2, HalfTurnAssumption
    <3> QED
      BY <3>1, <3>2
  <2>2. Rot[w][r] = cw_180[Rot[v][r]]
    BY <1>1, <1>2, HalfTurnAssumption
  <2> QED
    BY <2>1, <2>2, HalfTurnFacts
<1>6. \A y \in Track : t.board[w][y] = Recoloured(a.board[v][y]) /\ a.board[v][y] \in Code
  <2> SUFFICES ASSUME NEW y \in Track
               PROVE  t.board[w][y] = Recoloured(a.board[v][y]) /\ a.board[v][y] \in Code
    OBVIOUS
  <2>1. PICK x \in Track : Rot[v][x] = y
    BY <1>2
  <2>2. x \in Square /\ y \in Square /\ Rot[w][x] = cw_180[y]
    BY <1>2, <2>1, TrackFacts, HalfTurnAssumption
  <2>3. a.board[w][cw_180[y]] = board_0(a)[x] /\ a.board[v][y] = board_0(a)[x]
    BY <1>2, <2>1, <2>2 DEF ViewsAgree
  <2>4. board_0(a)[x] \in Code
    BY <2>2, BoardTypes
  <2> QED
    BY <1>2, <1>3, <2>2, <2>3, <2>4
<1>7. /\ a.board[v][q] = ca /\ t.board[w][q] = ct
      /\ \A type \in PieceType : type \in ct <=> type \in ca
  <2>1. a.board[v][q] = ca
    BY <1>1, <1>2 DEF ViewsAgree
  <2> QED
    BY <1>2, <1>4, <1>6, <2>1, RecolouredFacts
<1>8. \A c \in Side : c \in color(ct) <=> Opponent(c) \in color(ca)
  BY <1>4, RecolouredFacts, OpponentInvolution DEF color
<1>9. Alike(color(ca), a.board[v], color(ct), t.board[w])
  <2> SUFFICES ASSUME NEW y \in Track
               PROVE  /\ color(ca) \cap a.board[v][y] = {} <=> color(ct) \cap t.board[w][y] = {}
                      /\ a.board[v][y] = EMPTY <=> t.board[w][y] = EMPTY
    BY DEF Alike
  <2>1. \A c \in Side : c \in t.board[w][y] <=> Opponent(c) \in a.board[v][y]
    BY <1>6, RecolouredFacts
  <2>2. a.board[v][y] = EMPTY <=> t.board[w][y] = EMPTY
    BY <1>6, RecolouredFacts
  <2>3. \A c \in Side : c \in color(ct) \cap t.board[w][y]
                          <=> Opponent(c) \in color(ca) \cap a.board[v][y]
    BY <1>8, <2>1
  <2>4. color(ca) \subseteq Side /\ color(ct) \subseteq Side
    BY DEF color
  <2>5. ASSUME NEW c \in color(ca) \cap a.board[v][y] PROVE color(ct) \cap t.board[w][y] # {}
    <3>1. c \in Side /\ Opponent(c) \in Side /\ Opponent(Opponent(c)) = c
      BY <2>4, OpponentInvolution
    <3> QED
      BY <2>3, <3>1
  <2>6. ASSUME NEW c \in color(ct) \cap t.board[w][y] PROVE color(ca) \cap a.board[v][y] # {}
    BY <2>3, <2>4
  <2> QED
    BY <2>2, <2>5, <2>6
<1>10. Promotes(ca, p) <=> Promotes(ct, r)
  <2>1. \A c \in Side : r \in PromotesAt(Opponent(c)) <=> p \in PromotesAt(c)
    BY HalfTurnFacts
  <2>2. color(ca) \subseteq Side /\ color(ct) \subseteq Side
    BY DEF color
  <2>3. ASSUME NEW c \in color(ca), p \in PromotesAt(c)
        PROVE  \E d \in color(ct) : r \in PromotesAt(d)
    <3>1. Opponent(c) \in Side /\ Opponent(Opponent(c)) = c
      BY <2>2, OpponentInvolution
    <3>2. Opponent(c) \in color(ct) /\ r \in PromotesAt(Opponent(c))
      BY <1>8, <2>1, <2>2, <2>3, <3>1
    <3> QED
      BY <3>2
  <2>4. ASSUME NEW c \in color(ct), r \in PromotesAt(c)
        PROVE  \E d \in color(ca) : p \in PromotesAt(d)
    <3>1. Opponent(c) \in Side /\ Opponent(Opponent(c)) = c
      BY <2>2, OpponentInvolution
    <3>2. Opponent(c) \in color(ca) /\ p \in PromotesAt(Opponent(c))
      BY <1>8, <2>1, <2>2, <2>4, <3>1
    <3> QED
      BY <3>2
  <2>5. "PAWN" \in ct <=> "PAWN" \in ca
    BY <1>7 DEF PieceType
  <2> QED
    BY <2>3, <2>4, <2>5
<1>11. /\ Man(ca, a.board[v]) = Man(ct, t.board[w])
       /\ \A y \in Man(ca, a.board[v]) : y \in Track
  <2>1. LET own == color(ca)
        IN  /\ SameTargets(own, a.board[v], construct_bottom_pawn_moves_with_board(q, a.board[v]),
                                        construct_bottom_pawn_moves_with_board(q, t.board[w]))
            /\ SameTargets(own, a.board[v], construct_bottom_king_moves_with_board(q, a.board[v]),
                                        construct_bottom_king_moves_with_board(q, t.board[w]))
            /\ SameTargets(own, a.board[v], construct_bottom_bishop_moves_with_board(q, a.board[v]),
                                        construct_bottom_bishop_moves_with_board(q, t.board[w]))
            /\ SameTargets(own, a.board[v], construct_bottom_rook_moves_with_board(q, a.board[v]),
                                        construct_bottom_rook_moves_with_board(q, t.board[w]))
    BY <1>2, <1>7, <1>9, BottomFacts
  <2> QED
    BY <1>7, <2>1 DEF SameTargets, PieceType
<1>12. _get_pseudolegal_moves_for_piece(a, p) =
         {[p0 |-> p, p1 |-> Rot[Back(v)][y], promo |-> pr] :
            y \in Man(ca, a.board[v]), pr \in Pieces(Promotes(ca, p))}
  BY DEF _get_pseudolegal_moves_for_piece
<1>13. _get_pseudolegal_moves_for_piece(t, r) =
         {[p0 |-> r, p1 |-> Rot[Back(w)][y], promo |-> pr] :
            y \in Man(ct, t.board[w]), pr \in Pieces(Promotes(ct, r))}
  <2> HIDE DEF r, w, q
  <2> QED
    BY <1>1, <1>5 DEF _get_pseudolegal_moves_for_piece
<1>14. Pieces(Promotes(ca, p)) = Pieces(Promotes(ct, r))
  <2> HIDE DEF Promotes
  <2> QED
    BY <1>10
<1> HIDE DEF v, w, q, r, ca, ct, Man, Promotes, Pieces
<1>15. \A y \in Track : cw_180[Rot[Back(v)][y]] = Rot[Back(w)][y]
  BY <1>2, TrackFacts, HalfTurnAssumption
<1>16. \A y, pr : TurnedMove([p0 |-> p, p1 |-> y, promo |-> pr]) =
                    [p0 |-> r, p1 |-> cw_180[y], promo |-> pr]
  BY DEF TurnedMove, r
<1>17. \A y \in Man(ca, a.board[v]), pr \in Pieces(Promotes(ca, p)) :
         TurnedMove([p0 |-> p, p1 |-> Rot[Back(v)][y], promo |-> pr]) =
           [p0 |-> r, p1 |-> Rot[Back(w)][y], promo |-> pr]
  BY <1>11, <1>15, <1>16
<1> QED
  <2> DEFINE M == Man(ca, a.board[v])
             P == Pieces(Promotes(ca, p))
             make(y, pr) == [p0 |-> p, p1 |-> Rot[Back(v)][y], promo |-> pr]
             turn(y, pr) == [p0 |-> r, p1 |-> Rot[Back(w)][y], promo |-> pr]
  <2>1. _get_pseudolegal_moves_for_piece(a, p) = {make(y, pr) : y \in M, pr \in P}
    BY <1>12
  <2>2. _get_pseudolegal_moves_for_piece(t, r) = {turn(y, pr) : y \in M, pr \in P}
    BY <1>11, <1>13, <1>14
  <2>3. \A y \in M, pr \in P : TurnedMove(make(y, pr)) = turn(y, pr)
    BY <1>17
  <2> HIDE DEF M, P, make, turn
  <2>4. {TurnedMove(m) : m \in {make(y, pr) : y \in M, pr \in P}} = {turn(y, pr) : y \in M, pr \in P}
    BY <2>3
  <2> QED
    BY <2>1, <2>2, <2>4 DEF r

(***************************************************************************)
(* Squares and points.                                                     *)
(***************************************************************************)

(* Index and Point are inverse to each other on the board. *)
LEMMA PointFacts ==
  /\ Ring = Track
  /\ \A q \in Track : Point(q) \in RingPoints /\ Index(Point(q)) = q
  /\ \A p \in RingPoints : Index(p) \in Track /\ Point(Index(p)) = p
<1>1. \A q \in Track : Point(q) \in RingPoints /\ Index(Point(q)) = q
  <2> SUFFICES ASSUME NEW q \in Track PROVE Point(q) \in RingPoints /\ Index(Point(q)) = q
    OBVIOUS
  <2>1. /\ q % 8 \in 0..6 /\ q \div 8 \in 0..6 /\ 8 * (q \div 8) + (q % 8) = q
        /\ ~(q % 8 \in 2..4 /\ q \div 8 \in 2..4)
    BY DEF Track, bottom, left, top, right
  <2> DEFINE x == q % 8
             y == q \div 8
  <2>2. Point(q) = <<x, y>> /\ Index(<<x, y>>) = 8 * y + x
    BY DEF Point, getx, gety, Index, pos
  <2> HIDE DEF x, y
  <2>3. <<x, y>> \in RingPoints
    BY <2>1 DEF x, y, RingPoints, OnRing, Coord, Inner
  <2> QED
    BY <2>1, <2>2, <2>3 DEF x, y
<1>2. \A p \in RingPoints : Index(p) \in Track /\ Point(Index(p)) = p
  <2> SUFFICES ASSUME NEW x \in 0..6, NEW y \in 0..6, ~(x \in 2..4 /\ y \in 2..4)
               PROVE  8 * y + x \in Track /\ Point(8 * y + x) = <<x, y>>
    <3>1. \A p \in RingPoints : /\ p = <<p[1], p[2]>> /\ p[1] \in 0..6 /\ p[2] \in 0..6
                                 /\ ~(p[1] \in 2..4 /\ p[2] \in 2..4)
      BY DEF RingPoints, OnRing, Coord, Inner
    <3>2. \A p : Index(p) = 8 * p[2] + p[1]
      BY DEF Index, pos
    <3> QED
      BY <3>1, <3>2
  <2>1. (8 * y + x) % 8 = x /\ (8 * y + x) \div 8 = y
    OBVIOUS
  <2>2. 8 * y + x \in Track
    BY DEF Track, bottom, left, top, right
  <2> QED
    BY <2>1, <2>2 DEF Point, getx, gety
<1> QED
  BY <1>1, <1>2 DEF Ring

(* No two squares are one point. *)
LEMMA PointInjective ==
  \A q, r \in Track : Point(q) = Point(r) => q = r
BY PointFacts

(***************************************************************************)
(* A quarter of a turn.  The rules are the same on all four sides.         *)
(***************************************************************************)

(* What it makes of a step, a ray and a set of points.                     *)
QuarterStep(d) == <<d[2], -d[1]>>
QuarterRay(ray) == [k \in DOMAIN ray |-> Quarter(ray[k])]
QuarterSet(points) == {Quarter(p) : p \in points}

Step == (-1..1) \X (-1..1)

(* A point of the board by its coordinates. *)
LEMMA RingCoordinates ==
  /\ \A p \in RingPoints : /\ p = <<p[1], p[2]>> /\ p[1] \in 0..6 /\ p[2] \in 0..6
                           /\ OnRing(p)
  /\ \A x, y \in Int : OnRing(<<x, y>>) <=> <<x, y>> \in RingPoints
  /\ \A d \in Step : d = <<d[1], d[2]>> /\ d[1] \in -1..1 /\ d[2] \in -1..1
<1>1. \A p \in RingPoints : /\ p = <<p[1], p[2]>> /\ p[1] \in 0..6 /\ p[2] \in 0..6
                            /\ OnRing(p)
  BY DEF RingPoints, Coord
<1>2. \A x, y \in Int : OnRing(<<x, y>>) <=> <<x, y>> \in RingPoints
  BY DEF RingPoints, OnRing
<1>3. \A d \in Step : d = <<d[1], d[2]>> /\ d[1] \in -1..1 /\ d[2] \in -1..1
  BY DEF Step
<1> QED
  BY <1>1, <1>2, <1>3

(* A point is on the board if the turned one is. *)
LEMMA QuarterOnRing ==
  \A x, y \in Int : OnRing(<<y, 6 - x>>) <=> OnRing(<<x, y>>)
BY DEF OnRing, Coord, Inner

LEMMA QuarterPoints ==
  /\ \A p \in RingPoints : /\ Quarter(p) \in RingPoints /\ Quarter(p) = <<p[2], 6 - p[1]>>
                           /\ Quarter(Quarter(Quarter(Quarter(p)))) = p
  /\ \A p, r \in RingPoints : Quarter(p) = Quarter(r) => p = r
<1>1. ASSUME NEW p \in RingPoints
      PROVE  /\ Quarter(p) \in RingPoints /\ Quarter(p) = <<p[2], 6 - p[1]>>
             /\ Quarter(Quarter(Quarter(Quarter(p)))) = p
  <2>1. p = <<p[1], p[2]>> /\ p[1] \in 0..6 /\ p[2] \in 0..6 /\ OnRing(p)
    BY RingCoordinates
  <2>2. OnRing(<<p[2], 6 - p[1]>>)
    BY <2>1, QuarterOnRing
  <2>3. Quarter(p) = <<p[2], 6 - p[1]>>
    BY DEF Quarter
  <2>4. Quarter(p) \in RingPoints
    BY <2>1, <2>2, <2>3, RingCoordinates
  <2>5. Quarter(Quarter(Quarter(Quarter(p)))) = <<6 - (6 - p[1]), 6 - (6 - p[2])>>
    BY DEF Quarter
  <2> QED
    BY <2>1, <2>3, <2>4, <2>5
<1> QED
  BY <1>1

LEMMA QuarterOrthogonal ==
  /\ QuarterStep(<<-1, 0>>) = <<0, 1>> /\ QuarterStep(<<0, 1>>) = <<1, 0>>
  /\ QuarterStep(<<1, 0>>) = <<0, -1>> /\ QuarterStep(<<0, -1>>) = <<-1, 0>>
<1>1. \A i, j \in Int : QuarterStep(<<i, j>>) = <<j, 0 - i>>
  BY DEF QuarterStep
<1>2. 0 - (-1) = 1 /\ 0 - 0 = 0 /\ 0 - 1 = -1
  OBVIOUS
<1> QED
  BY <1>1, <1>2

(* It turns the forward direction with it. *)
LEMMA QuarterForward ==
  ASSUME NEW p \in RingPoints
  PROVE  /\ Forward(Quarter(p)) = QuarterStep(Forward(p))
         /\ Forward(p) \in Orthogonal
         /\ Quarter(p) \in Corner <=> p \in Corner
<1>1. PICK x \in 0..6, y \in 0..6 : p = <<x, y>> /\ ~(x \in 2..4 /\ y \in 2..4)
  BY DEF RingPoints, OnRing, Coord, Inner
<1>2. Quarter(p) = <<y, 6 - x>>
  BY <1>1 DEF Quarter
<1>3. Quarter(p) \in Corner <=> p \in Corner
  BY <1>1, <1>2 DEF Corner
<1>4. CASE (y = 0 /\ x > 0) \/ (y = 1 /\ x \in 2..5)
  <2>1. Forward(p) = <<-1, 0>>
    BY <1>1, <1>4 DEF Forward
  <2>2. Forward(Quarter(p)) = <<0, 1>>
    BY <1>1, <1>2, <1>4 DEF Forward
  <2> QED
    BY <1>3, <2>1, <2>2, QuarterOrthogonal DEF Orthogonal
<1>5. CASE (x = 0 /\ y < 6) \/ (x = 1 /\ y \in 1..4)
  <2>1. Forward(p) = <<0, 1>>
    BY <1>1, <1>5 DEF Forward
  <2>2. Forward(Quarter(p)) = <<1, 0>>
    BY <1>1, <1>2, <1>5 DEF Forward
  <2> QED
    BY <1>3, <2>1, <2>2, QuarterOrthogonal DEF Orthogonal
<1>6. CASE (y = 6 /\ x < 6) \/ (y = 5 /\ x \in 1..4)
  <2>1. Forward(p) = <<1, 0>>
    BY <1>1, <1>6 DEF Forward
  <2>2. Forward(Quarter(p)) = <<0, -1>>
    BY <1>1, <1>2, <1>6 DEF Forward
  <2> QED
    BY <1>3, <2>1, <2>2, QuarterOrthogonal DEF Orthogonal
<1>7. CASE /\ ~((y = 0 /\ x > 0) \/ (y = 1 /\ x \in 2..5))
           /\ ~((x = 0 /\ y < 6) \/ (x = 1 /\ y \in 1..4))
           /\ ~((y = 6 /\ x < 6) \/ (y = 5 /\ x \in 1..4))
  <2>1. Forward(p) = <<0, -1>>
    BY <1>1, <1>7 DEF Forward
  <2>2. Forward(Quarter(p)) = <<-1, 0>>
    BY <1>1, <1>2, <1>7 DEF Forward
  <2> QED
    BY <1>3, <2>1, <2>2, QuarterOrthogonal DEF Orthogonal
<1> QED
  BY <1>4, <1>5, <1>6, <1>7

(* The points of a ray before the first that is not on the board. *)
LEMMA FirstSegment ==
  ASSUME NEW S
  PROVE  \E n \in 0..6 : {k \in 1..6 : \A j \in 1..k : j \in S} = 1..n
<1> DEFINE T == {k \in 1..6 : \A j \in 1..k : j \in S}
<1>1. CASE 1 \notin S
  <2>1. T = 1..0
    BY <1>1
  <2> QED
    BY <2>1
<1>2. CASE 1 \in S /\ 2 \notin S
  <2>1. T = 1..1
    BY <1>2
  <2> QED
    BY <2>1
<1>3. CASE 1 \in S /\ 2 \in S /\ 3 \notin S
  <2>1. T = 1..2
    BY <1>3
  <2> QED
    BY <2>1
<1>4. CASE 1 \in S /\ 2 \in S /\ 3 \in S /\ 4 \notin S
  <2>1. T = 1..3
    BY <1>4
  <2> QED
    BY <2>1
<1>5. CASE 1 \in S /\ 2 \in S /\ 3 \in S /\ 4 \in S /\ 5 \notin S
  <2>1. T = 1..4
    BY <1>5
  <2> QED
    BY <2>1
<1>6. CASE 1 \in S /\ 2 \in S /\ 3 \in S /\ 4 \in S /\ 5 \in S /\ 6 \notin S
  <2>1. T = 1..5
    BY <1>6
  <2> QED
    BY <2>1
<1>7. CASE 1 \in S /\ 2 \in S /\ 3 \in S /\ 4 \in S /\ 5 \in S /\ 6 \in S
  <2>1. T = 1..6
    BY <1>7
  <2> QED
    BY <2>1
<1> QED
  BY <1>1, <1>2, <1>3, <1>4, <1>5, <1>6, <1>7

(* The points of a straight ray. *)
LEMMA StraightFacts ==
  ASSUME NEW p \in RingPoints, NEW d \in Step
  PROVE  /\ Straight(p, d) \in Seq(RingPoints)
         /\ DOMAIN Straight(p, d) =
              {k \in 1..6 : \A j \in 1..k : OnRing(<<p[1] + j * d[1], p[2] + j * d[2]>>)}
         /\ \A k \in DOMAIN Straight(p, d) :
              Straight(p, d)[k] = <<p[1] + k * d[1], p[2] + k * d[2]>>
<1> DEFINE at(k) == <<p[1] + k * d[1], p[2] + k * d[2]>>
           S == {j \in 1..6 : OnRing(at(j))}
           reach == {k \in 1..6 : \A j \in 1..k : OnRing(at(j))}
           ray == [k \in reach |-> at(k)]
<1>1. Straight(p, d) = ray
  BY DEF Straight
<1>2. \A k \in 1..6 : at(k)[1] \in Int /\ at(k)[2] \in Int
  <2>1. p[1] \in Int /\ p[2] \in Int /\ d[1] \in Int /\ d[2] \in Int
    BY RingCoordinates
  <2> QED
    BY <2>1
<1>3. \A k \in reach : at(k) \in RingPoints
  <2>1. \A k \in reach : OnRing(at(k)) /\ k \in 1..6
    OBVIOUS
  <2> QED
    BY <1>2, <2>1, RingCoordinates
<1>4. PICK n \in 0..6 : reach = 1..n
  <2>1. reach = {k \in 1..6 : \A j \in 1..k : j \in S}
    OBVIOUS
  <2> HIDE DEF S, reach
  <2> QED
    BY <2>1, FirstSegment
<1> HIDE DEF at, reach
<1>5. ray \in Seq(RingPoints)
  BY <1>3, <1>4
<1> QED
  BY <1>1, <1>5 DEF at, reach

(* Turned steps. *)
LEMMA QuarterSteps ==
  /\ \A d \in Step : /\ QuarterStep(d) \in Step
                     /\ QuarterStep(d)[1] = d[2] /\ QuarterStep(d)[2] = 0 - d[1]
  /\ \A d, e \in Step : QuarterStep(d) = QuarterStep(e) => d = e
  /\ \A d, e \in Step : Dot(QuarterStep(d), QuarterStep(e)) = Dot(d, e)
  /\ Orthogonal \subseteq Step /\ Diagonal \subseteq Step
  /\ {QuarterStep(d) : d \in Orthogonal} = Orthogonal
  /\ {QuarterStep(d) : d \in Diagonal} = Diagonal
<1>1. ASSUME NEW d \in Step
      PROVE  /\ QuarterStep(d) \in Step
             /\ QuarterStep(d)[1] = d[2] /\ QuarterStep(d)[2] = 0 - d[1]
  <2>1. d[1] \in -1..1 /\ d[2] \in -1..1
    BY RingCoordinates
  <2>2. -d[1] = 0 - d[1] /\ 0 - d[1] \in -1..1
    BY <2>1
  <2> QED
    BY <2>1, <2>2 DEF QuarterStep, Step
<1>2. ASSUME NEW d \in Step, NEW e \in Step, QuarterStep(d) = QuarterStep(e)
      PROVE  d = e
  <2>1. d[1] \in Int /\ e[1] \in Int /\ d[2] = e[2] /\ 0 - d[1] = 0 - e[1]
    BY <1>1, <1>2, RingCoordinates
  <2> QED
    BY <2>1, RingCoordinates
<1>3. ASSUME NEW d \in Step, NEW e \in Step
      PROVE  Dot(QuarterStep(d), QuarterStep(e)) = Dot(d, e)
  <2>1. /\ d[1] \in -1..1 /\ d[2] \in -1..1 /\ e[1] \in -1..1 /\ e[2] \in -1..1
    BY RingCoordinates
  <2>2. Dot(QuarterStep(d), QuarterStep(e)) = d[2] * e[2] + (0 - d[1]) * (0 - e[1])
    BY <1>1 DEF Dot
  <2>3. \A i, j \in -1..1 : (0 - i) * (0 - j) = i * j /\ i * j \in Int
    OBVIOUS
  <2> QED
    BY <2>1, <2>2, <2>3 DEF Dot
<1>4. Orthogonal \subseteq Step /\ Diagonal \subseteq Step
  BY DEF Orthogonal, Diagonal, Step
<1>5. {QuarterStep(d) : d \in Orthogonal} = Orthogonal
  BY QuarterOrthogonal DEF Orthogonal
<1>6. {QuarterStep(d) : d \in Diagonal} = Diagonal
  <2>1. \A i, j \in Int : QuarterStep(<<i, j>>) = <<j, 0 - i>>
    BY DEF QuarterStep
  <2>2. /\ QuarterStep(<<-1, -1>>) = <<-1, 1>> /\ QuarterStep(<<-1, 1>>) = <<1, 1>>
        /\ QuarterStep(<<1, 1>>) = <<1, -1>> /\ QuarterStep(<<1, -1>>) = <<-1, -1>>
    BY <2>1
  <2>3. Diagonal = {<<-1, -1>>, <<-1, 1>>, <<1, 1>>, <<1, -1>>}
    BY DEF Diagonal
  <2> QED
    BY <2>2, <2>3
<1> QED
  BY <1>1, <1>2, <1>3, <1>4, <1>5, <1>6

(* Turned rays. *)
LEMMA QuarterRays ==
  ASSUME NEW r \in Seq(RingPoints), NEW s \in Seq(RingPoints)
  PROVE  /\ QuarterRay(r) \in Seq(RingPoints) /\ Len(QuarterRay(r)) = Len(r)
         /\ QuarterRay(r) = <<>> <=> r = <<>>
         /\ \A k \in 1..Len(r) : QuarterRay(r)[k] = Quarter(r[k])
         /\ QuarterRay(r \o s) = QuarterRay(r) \o QuarterRay(s)
         /\ QuarterRay(<<>>) = <<>>
         /\ \A p \in RingPoints : QuarterRay(<<p>>) = <<Quarter(p)>>
<1>1. ASSUME NEW t \in Seq(RingPoints)
      PROVE  /\ QuarterRay(t) \in Seq(RingPoints) /\ Len(QuarterRay(t)) = Len(t)
             /\ \A k \in 1..Len(t) : QuarterRay(t)[k] = Quarter(t[k])
  <2>1. DOMAIN t = 1..Len(t) /\ \A k \in 1..Len(t) : t[k] \in RingPoints
    OBVIOUS
  <2>2. \A k \in 1..Len(t) : Quarter(t[k]) \in RingPoints
    BY <2>1, QuarterPoints
  <2>3. QuarterRay(t) = [k \in 1..Len(t) |-> Quarter(t[k])]
    BY <2>1 DEF QuarterRay
  <2> QED
    BY <2>2, <2>3
<1>2. QuarterRay(r) = <<>> <=> r = <<>>
  BY <1>1, EmptySeq
<1>3. QuarterRay(r \o s) = QuarterRay(r) \o QuarterRay(s)
  <2>1. /\ r \o s \in Seq(RingPoints) /\ Len(r \o s) = Len(r) + Len(s)
        /\ \A k \in 1..Len(r) + Len(s) : (r \o s)[k] = IF k <= Len(r) THEN r[k] ELSE s[k - Len(r)]
    BY ConcatProperties
  <2>2. /\ QuarterRay(r) \o QuarterRay(s) \in Seq(RingPoints)
        /\ Len(QuarterRay(r) \o QuarterRay(s)) = Len(r) + Len(s)
        /\ \A k \in 1..Len(r) + Len(s) :
             (QuarterRay(r) \o QuarterRay(s))[k] =
               IF k <= Len(r) THEN QuarterRay(r)[k] ELSE QuarterRay(s)[k - Len(r)]
    <3>1. /\ QuarterRay(r) \in Seq(RingPoints) /\ QuarterRay(s) \in Seq(RingPoints)
          /\ Len(QuarterRay(r)) = Len(r) /\ Len(QuarterRay(s)) = Len(s)
      BY <1>1
    <3> DEFINE a == QuarterRay(r)
               b == QuarterRay(s)
    <3>2. a \in Seq(RingPoints) /\ b \in Seq(RingPoints)
      BY <3>1
    <3> HIDE DEF a, b
    <3>3. /\ a \o b \in Seq(RingPoints)
          /\ Len(a \o b) = Len(a) + Len(b)
          /\ \A k \in 1..Len(a) + Len(b) :
               (a \o b)[k] = IF k <= Len(a) THEN a[k] ELSE b[k - Len(a)]
      BY <3>2, ConcatProperties
    <3> QED
      BY <3>1, <3>3, Zenon DEF a, b
  <2>3. Len(QuarterRay(r \o s)) = Len(r) + Len(s) /\ QuarterRay(r \o s) \in Seq(RingPoints)
    BY <1>1, <2>1
  <2>4. ASSUME NEW k \in 1..Len(r) + Len(s)
        PROVE  QuarterRay(r \o s)[k] = (QuarterRay(r) \o QuarterRay(s))[k]
    <3>1. QuarterRay(r \o s)[k] = Quarter((r \o s)[k])
      BY <1>1, <2>1
    <3>2. Len(r) \in Nat /\ Len(s) \in Nat
      BY LenProperties
    <3>3. CASE k <= Len(r)
      BY <1>1, <2>1, <2>2, <3>1, <3>2, <3>3
    <3>4. CASE k > Len(r)
      <4>1. k - Len(r) \in 1..Len(s)
        BY <3>2, <3>4
      <4> QED
        BY <1>1, <2>1, <2>2, <3>1, <3>2, <3>4, <4>1
    <3>5. k \in Int
      OBVIOUS
    <3>6. k <= Len(r) \/ k > Len(r)
      BY ONLY <3>2, <3>5, SMT
    <3> QED
      BY ONLY <3>3, <3>4, <3>6
  <2> QED
    BY <2>2, <2>3, <2>4, SeqEqual
<1>4. QuarterRay(<<>>) = <<>>
  <2>1. <<>> \in Seq(RingPoints) /\ Len(<<>>) = 0
    OBVIOUS
  <2> QED
    BY <1>1, <2>1, EmptySeq
<1>5. ASSUME NEW p \in RingPoints PROVE QuarterRay(<<p>>) = <<Quarter(p)>>
  <2>1. <<p>> \in Seq(RingPoints) /\ Len(<<p>>) = 1 /\ <<p>>[1] = p
    OBVIOUS
  <2> DEFINE t == <<p>>
  <2>4. t \in Seq(RingPoints) /\ Len(t) = 1 /\ t[1] = p
    BY <2>1
  <2> HIDE DEF t
  <2>2. /\ QuarterRay(t) \in Seq(RingPoints) /\ Len(QuarterRay(t)) = 1
        /\ QuarterRay(t)[1] = Quarter(p)
    BY <1>1, <2>4
  <2>3. \A u \in Seq(RingPoints) : Len(u) = 1 => u = <<u[1]>>
    OBVIOUS
  <2> QED
    BY <2>2, <2>3 DEF t
<1> QED
  BY <1>1, <1>2, <1>3, <1>4, <1>5

LEMMA QuarterStraight ==
  ASSUME NEW p \in RingPoints, NEW d \in Step
  PROVE  Straight(Quarter(p), QuarterStep(d)) = QuarterRay(Straight(p, d))
<1> DEFINE q == Quarter(p)
           e == QuarterStep(d)
<1>1. /\ p[1] \in 0..6 /\ p[2] \in 0..6 /\ d[1] \in -1..1 /\ d[2] \in -1..1
      /\ q \in RingPoints /\ e \in Step
      /\ q[1] = p[2] /\ q[2] = 6 - p[1] /\ e[1] = d[2] /\ e[2] = 0 - d[1]
  BY RingCoordinates, QuarterPoints, QuarterSteps
<1> HIDE DEF q, e
<1>2. \A j \in 1..6 : /\ q[1] + j * e[1] = p[2] + j * d[2]
                      /\ q[2] + j * e[2] = 6 - (p[1] + j * d[1])
                      /\ p[1] + j * d[1] \in Int /\ p[2] + j * d[2] \in Int
  <2>1. \A j \in 1..6, i \in -1..1 : j * (0 - i) = 0 - (j * i) /\ j * i \in Int
    OBVIOUS
  <2> QED
    BY <1>1, <2>1
<1> DEFINE x(k) == p[1] + k * d[1]
           y(k) == p[2] + k * d[2]
           u(k) == q[1] + k * e[1]
           w(k) == q[2] + k * e[2]
<1>3. /\ DOMAIN Straight(p, d) = {k \in 1..6 : \A j \in 1..k : OnRing(<<x(j), y(j)>>)}
      /\ DOMAIN Straight(q, e) = {k \in 1..6 : \A j \in 1..k : OnRing(<<u(j), w(j)>>)}
      /\ \A k \in DOMAIN Straight(p, d) : Straight(p, d)[k] = <<x(k), y(k)>>
      /\ \A k \in DOMAIN Straight(q, e) : Straight(q, e)[k] = <<u(k), w(k)>>
  BY <1>1, StraightFacts
<1> HIDE DEF x, y, u, w
<1>4. DOMAIN Straight(q, e) = DOMAIN Straight(p, d) /\ DOMAIN Straight(p, d) \subseteq 1..6
  <2>1. \A j \in 1..6 : OnRing(<<u(j), w(j)>>) <=> OnRing(<<x(j), y(j)>>)
    BY <1>2, QuarterOnRing DEF x, y, u, w
  <2>2. \A k \in 1..6 : \A j \in 1..k : j \in 1..6
    OBVIOUS
  <2> QED
    BY <1>3, <2>1, <2>2
<1>5. \A k \in DOMAIN Straight(p, d) : Straight(q, e)[k] = Quarter(Straight(p, d)[k])
  <2>1. \A k \in 1..6 : Quarter(<<x(k), y(k)>>) = <<u(k), w(k)>>
    BY <1>2 DEF Quarter, x, y, u, w
  <2> QED
    BY <1>3, <1>4, <2>1
<1>6. \E n \in Nat : Straight(q, e) = [k \in 1..n |-> Straight(q, e)[k]]
  <2>1. Straight(q, e) \in Seq(RingPoints)
    BY <1>1, StraightFacts
  <2> QED
    BY <2>1
<1> QED
  BY <1>4, <1>5, <1>6 DEF QuarterRay, q, e

(* A ray that starts with a step to the board has that point first. *)
LEMMA StraightFirst ==
  ASSUME NEW p \in RingPoints, NEW d \in Step
  PROVE  /\ OnRing(Plus(p, d)) => Straight(p, d) # <<>> /\ Straight(p, d)[1] = Plus(p, d)
         /\ ~OnRing(Plus(p, d)) => Straight(p, d) = <<>>
         /\ Plus(p, d) \in Int \X Int
<1>1. p[1] \in Int /\ p[2] \in Int /\ d[1] \in Int /\ d[2] \in Int
  BY RingCoordinates
<1>2. Plus(p, d) = <<p[1] + 1 * d[1], p[2] + 1 * d[2]>> /\ Plus(p, d) \in Int \X Int
  BY <1>1 DEF Plus
<1>3. 1 \in DOMAIN Straight(p, d) <=> OnRing(Plus(p, d))
  <2>1. \A j \in 1..1 : j = 1
    OBVIOUS
  <2> DEFINE x(j) == p[1] + j * d[1]
             y(j) == p[2] + j * d[2]
  <2>2. DOMAIN Straight(p, d) = {k \in 1..6 : \A j \in 1..k : OnRing(<<x(j), y(j)>>)}
    BY StraightFacts
  <2>3. Plus(p, d) = <<x(1), y(1)>>
    BY <1>2
  <2> HIDE DEF x, y
  <2> QED
    BY <2>1, <2>2, <2>3
<1>4. Straight(p, d) \in Seq(RingPoints)
  BY StraightFacts
<1>5. 1 \in DOMAIN Straight(p, d) => Straight(p, d)[1] = Plus(p, d)
  BY <1>2, StraightFacts
<1>6. \A s \in Seq(RingPoints) : 1 \in DOMAIN s <=> s # <<>>
  BY EmptySeq
<1> QED
  BY <1>2, <1>3, <1>4, <1>5, <1>6

(* The last point of a ray. *)
LEMMA LastPoint ==
  ASSUME NEW s \in Seq(RingPoints), s # <<>>
  PROVE  Len(s) \in Nat /\ Len(s) > 0 /\ s[1] \in RingPoints /\ s[Len(s)] \in RingPoints
BY EmptySeq

LEMMA QuarterRook ==
  ASSUME NEW p \in RingPoints, NEW d \in Orthogonal
  PROVE  /\ RookRay(Quarter(p), QuarterStep(d)) = QuarterRay(RookRay(p, d))
         /\ RookRay(p, d) \in Seq(RingPoints)
<1> DEFINE q == Quarter(p)
           e == QuarterStep(d)
           s == Straight(p, d)
           t == Straight(q, e)
           n == Len(s)
<1>1. d \in Step /\ e \in Step /\ q \in RingPoints
  BY QuarterSteps, QuarterPoints
<1>2. s \in Seq(RingPoints) /\ t = QuarterRay(s)
  BY <1>1, StraightFacts, QuarterStraight
<1>3. t \in Seq(RingPoints) /\ Len(t) = n
  BY <1>2, QuarterRays
<1>4. /\ Forward(p) \in Step /\ Forward(q) = QuarterStep(Forward(p))
  BY QuarterForward, QuarterSteps
<1>5. e = Forward(q) <=> d = Forward(p)
  BY <1>1, <1>4, QuarterSteps
<1>6. RookRay(p, d) =
        CASE n = 0 -> <<>>
          [] n > 0 /\ d = Forward(p) /\ s[n] \in Corner -> s \o Straight(s[n], Forward(s[n]))
          [] n > 0 /\ d = Forward(p) /\ s[n] \notin Corner -> s
          [] n > 0 /\ d # Forward(p) /\ d = Forward(s[1]) -> s
          [] OTHER -> <<s[1]>>
  BY DEF RookRay
<1>7. RookRay(q, e) =
        CASE n = 0 -> <<>>
          [] n > 0 /\ e = Forward(q) /\ t[n] \in Corner -> t \o Straight(t[n], Forward(t[n]))
          [] n > 0 /\ e = Forward(q) /\ t[n] \notin Corner -> t
          [] n > 0 /\ e # Forward(q) /\ e = Forward(t[1]) -> t
          [] OTHER -> <<t[1]>>
  BY <1>3 DEF RookRay
<1> HIDE DEF q, e, s, t, n
<1>8. n \in Nat /\ n = Len(s)
  BY <1>2, LenProperties DEF n
<1>9. CASE n = 0
  <2>1. RookRay(p, d) = <<>> /\ RookRay(q, e) = <<>>
    BY <1>6, <1>7, <1>9
  <2> QED
    BY <1>2, <2>1, QuarterRays, EmptySeq DEF q, e
<1>10. CASE n > 0
  <2>1. /\ s # <<>> /\ 1 \in 1..n /\ n \in 1..n /\ n # 0
    BY <1>2, <1>8, <1>10, EmptySeq
  <2>2. /\ s[1] \in RingPoints /\ s[n] \in RingPoints
        /\ t[1] = Quarter(s[1]) /\ t[n] = Quarter(s[n])
    BY <1>2, <1>8, <2>1, LastPoint, QuarterRays
  <2>3. /\ t[n] \in Corner <=> s[n] \in Corner
        /\ Forward(t[n]) = QuarterStep(Forward(s[n])) /\ Forward(s[n]) \in Step
        /\ Forward(t[1]) = QuarterStep(Forward(s[1])) /\ Forward(s[1]) \in Step
    BY <2>2, QuarterForward, QuarterSteps
  <2>4. e = Forward(t[1]) <=> d = Forward(s[1])
    BY <1>1, <2>3, QuarterSteps DEF e
  <2>5. CASE d = Forward(p) /\ s[n] \in Corner
    <3> DEFINE a == Straight(s[n], Forward(s[n]))
    <3>1. RookRay(p, d) = s \o a
      BY <1>6, <1>10, <2>1, <2>5
    <3>2. RookRay(q, e) = t \o Straight(t[n], Forward(t[n]))
      BY <1>5, <1>7, <1>10, <2>1, <2>3, <2>5
    <3>3. a \in Seq(RingPoints) /\ Straight(t[n], Forward(t[n])) = QuarterRay(a)
      BY <2>2, <2>3, StraightFacts, QuarterStraight
    <3> HIDE DEF a
    <3>4. s \o a \in Seq(RingPoints) /\ QuarterRay(s \o a) = QuarterRay(s) \o QuarterRay(a)
      BY <1>2, <3>3, QuarterRays, ConcatProperties
    <3> QED
      BY <1>2, <3>1, <3>2, <3>3, <3>4 DEF q, e
  <2>6. CASE d = Forward(p) /\ s[n] \notin Corner
    <3>1. RookRay(p, d) = s /\ RookRay(q, e) = t
      BY <1>5, <1>6, <1>7, <1>10, <2>1, <2>3, <2>6
    <3> QED
      BY <1>2, <3>1 DEF q, e
  <2>7. CASE d # Forward(p) /\ d = Forward(s[1])
    <3>1. RookRay(p, d) = s
      BY <1>6, <1>10, <2>1, <2>7
    <3>2. RookRay(q, e) = t
      BY <1>5, <1>7, <1>10, <2>1, <2>4, <2>7
    <3> QED
      BY <1>2, <3>1, <3>2 DEF q, e
  <2>8. CASE d # Forward(p) /\ d # Forward(s[1])
    <3>1. RookRay(p, d) = <<s[1]>>
      BY <1>6, <1>10, <2>1, <2>8
    <3>2. RookRay(q, e) = <<t[1]>>
      BY <1>5, <1>7, <1>10, <2>1, <2>4, <2>8
    <3>3. <<s[1]>> \in Seq(RingPoints) /\ QuarterRay(<<s[1]>>) = <<Quarter(s[1])>>
      BY <1>2, <2>2, QuarterRays
    <3> QED
      BY <2>2, <3>1, <3>2, <3>3 DEF q, e
  <2> QED
    BY <2>5, <2>6, <2>7, <2>8
<1> QED
  BY <1>8, <1>9, <1>10

LEMMA QuarterWalk ==
  ASSUME NEW p \in RingPoints, NEW d \in Diagonal
  PROVE  /\ Walk(Quarter(p), QuarterStep(d)) = QuarterRay(Walk(p, d))
         /\ Walk(p, d) \in Seq(RingPoints)
<1> DEFINE q == Quarter(p)
           e == QuarterStep(d)
           s == Straight(p, d)
           t == Straight(q, e)
           last == IF s = <<>> THEN p ELSE s[Len(s)]
           turned == IF t = <<>> THEN q ELSE t[Len(t)]
           across == OnRing(<<last[1] + d[1], last[2]>>)
           along == OnRing(<<last[1], last[2] + d[2]>>)
           acrossT == OnRing(<<turned[1] + e[1], turned[2]>>)
           alongT == OnRing(<<turned[1], turned[2] + e[2]>>)
<1>1. d \in Step /\ e \in Step /\ q \in RingPoints
  BY QuarterSteps, QuarterPoints
<1>2. s \in Seq(RingPoints) /\ t = QuarterRay(s)
  BY <1>1, StraightFacts, QuarterStraight
<1>3. t \in Seq(RingPoints) /\ Len(t) = Len(s) /\ (t = <<>> <=> s = <<>>)
  BY <1>2, QuarterRays
<1>4. Walk(p, d) = CASE across /\ ~along -> s \o Straight(last, <<d[1], -d[2]>>)
                     [] along /\ ~across -> s \o Straight(last, <<-d[1], d[2]>>)
                     [] OTHER            -> s
  BY DEF Walk
<1>5. Walk(q, e) = CASE acrossT /\ ~alongT -> t \o Straight(turned, <<e[1], -e[2]>>)
                     [] alongT /\ ~acrossT -> t \o Straight(turned, <<-e[1], e[2]>>)
                     [] OTHER              -> t
  BY DEF Walk
<1> HIDE DEF q, e, s, t
<1>6. last \in RingPoints /\ turned = Quarter(last)
  <2>1. CASE s = <<>>
    BY <1>3, <2>1 DEF q
  <2>2. CASE s # <<>>
    <3>1. Len(s) \in 1..Len(s) /\ s[Len(s)] \in RingPoints
      BY <1>2, <2>2, LastPoint
    <3>2. t[Len(s)] = Quarter(s[Len(s)])
      BY <1>2, <3>1, QuarterRays
    <3> QED
      BY <1>3, <2>2, <3>1, <3>2
  <2> QED
    BY <2>1, <2>2
<1> HIDE DEF last, turned
<1>7. /\ last[1] \in Int /\ last[2] \in Int /\ d[1] \in -1..1 /\ d[2] \in -1..1
      /\ turned[1] = last[2] /\ turned[2] = 6 - last[1]
      /\ e[1] = d[2] /\ e[2] = 0 - d[1]
  BY <1>1, <1>6, RingCoordinates, QuarterPoints, QuarterSteps DEF e
<1>8. acrossT <=> along
  <2>1. OnRing(<<last[2] + d[2], 6 - last[1]>>) <=> OnRing(<<last[1], last[2] + d[2]>>)
    BY <1>7, QuarterOnRing
  <2> QED
    BY <1>7, <2>1
<1>9. alongT <=> across
  <2>1. OnRing(<<last[2], 6 - (last[1] + d[1])>>) <=> OnRing(<<last[1] + d[1], last[2]>>)
    BY <1>7, QuarterOnRing
  <2>2. turned[2] + e[2] = 6 - (last[1] + d[1])
    BY <1>7
  <2> QED
    BY <1>7, <2>1, <2>2
<1>10. /\ <<d[1], -d[2]>> \in Step /\ <<-d[1], d[2]>> \in Step
       /\ QuarterStep(<<d[1], -d[2]>>) = <<-e[1], e[2]>>
       /\ QuarterStep(<<-d[1], d[2]>>) = <<e[1], -e[2]>>
  <2>1. -d[1] = 0 - d[1] /\ -d[2] = 0 - d[2] /\ -e[1] = 0 - e[1] /\ -e[2] = 0 - e[2]
    BY <1>7
  <2>2. 0 - d[1] \in -1..1 /\ 0 - d[2] \in -1..1
    BY <1>7
  <2>3. \A i, j \in -1..1 : <<i, j>> \in Step /\ QuarterStep(<<i, j>>) = <<j, 0 - i>>
    BY DEF Step, QuarterStep
  <2>4. 0 - (0 - d[1]) = d[1]
    BY <1>7
  <2> QED
    BY <1>7, <2>1, <2>2, <2>3, <2>4
<1> HIDE DEF across, along, acrossT, alongT
<1>11. CASE across /\ ~along
  <2> DEFINE a == Straight(last, <<d[1], -d[2]>>)
  <2>1. Walk(p, d) = s \o a
    BY <1>4, <1>11
  <2>2. Walk(q, e) = t \o Straight(turned, <<-e[1], e[2]>>)
    BY <1>5, <1>8, <1>9, <1>11
  <2>3. a \in Seq(RingPoints) /\ Straight(turned, <<-e[1], e[2]>>) = QuarterRay(a)
    BY <1>6, <1>10, StraightFacts, QuarterStraight
  <2> HIDE DEF a
  <2>4. s \o a \in Seq(RingPoints) /\ QuarterRay(s \o a) = QuarterRay(s) \o QuarterRay(a)
    BY <1>2, <2>3, QuarterRays, ConcatProperties
  <2> QED
    BY <1>2, <2>1, <2>2, <2>3, <2>4 DEF q, e
<1>12. CASE along /\ ~across
  <2> DEFINE a == Straight(last, <<-d[1], d[2]>>)
  <2>1. Walk(p, d) = s \o a
    BY <1>4, <1>12
  <2>2. Walk(q, e) = t \o Straight(turned, <<e[1], -e[2]>>)
    BY <1>5, <1>8, <1>9, <1>12
  <2>3. a \in Seq(RingPoints) /\ Straight(turned, <<e[1], -e[2]>>) = QuarterRay(a)
    BY <1>6, <1>10, StraightFacts, QuarterStraight
  <2> HIDE DEF a
  <2>4. s \o a \in Seq(RingPoints) /\ QuarterRay(s \o a) = QuarterRay(s) \o QuarterRay(a)
    BY <1>2, <2>3, QuarterRays, ConcatProperties
  <2> QED
    BY <1>2, <2>1, <2>2, <2>3, <2>4 DEF q, e
<1>13. CASE ~(across /\ ~along) /\ ~(along /\ ~across)
  <2>1. Walk(p, d) = s /\ Walk(q, e) = t
    BY <1>4, <1>5, <1>8, <1>9, <1>13
  <2> QED
    BY <1>2, <2>1 DEF q, e
<1> QED
  BY <1>11, <1>12, <1>13

LEMMA QuarterBishop ==
  ASSUME NEW p \in RingPoints, NEW d \in Diagonal
  PROVE  /\ BishopRay(Quarter(p), QuarterStep(d)) = QuarterRay(BishopRay(p, d))
         /\ BishopRay(p, d) \in Seq(RingPoints)
<1> DEFINE q == Quarter(p)
           e == QuarterStep(d)
<1>1. /\ d \in Step /\ e \in Step /\ q \in RingPoints
      /\ Forward(p) \in Step /\ Forward(q) = QuarterStep(Forward(p))
  BY QuarterSteps, QuarterPoints, QuarterForward
<1>2. Dot(e, Forward(q)) = Dot(d, Forward(p))
  BY <1>1, QuarterSteps
<1>3. /\ OnRing(Plus(p, d)) <=> Plus(p, d) \in RingPoints
      /\ OnRing(Plus(q, e)) <=> OnRing(Plus(p, d))
      /\ Plus(q, e) = Quarter(Plus(p, d))
  <2>1. /\ p[1] \in Int /\ p[2] \in Int /\ d[1] \in Int /\ d[2] \in Int
        /\ q[1] = p[2] /\ q[2] = 6 - p[1] /\ e[1] = d[2] /\ e[2] = 0 - d[1]
    BY <1>1, RingCoordinates, QuarterPoints, QuarterSteps
  <2> HIDE DEF q, e
  <2>2. /\ Plus(p, d) = <<p[1] + d[1], p[2] + d[2]>>
        /\ Plus(q, e) = <<p[2] + d[2], 6 - (p[1] + d[1])>>
    BY <2>1 DEF Plus
  <2>3. \A x, y : Quarter(<<x, y>>) = <<y, 6 - x>>
    BY DEF Quarter
  <2>4. p[1] + d[1] \in Int /\ p[2] + d[2] \in Int
    BY <2>1
  <2> QED
    BY <2>2, <2>3, <2>4, RingCoordinates, QuarterOnRing
<1> HIDE DEF q, e
<1>4. CASE Dot(d, Forward(p)) > 0
  <2>1. BishopRay(p, d) = Walk(p, d) /\ BishopRay(q, e) = Walk(q, e)
    BY <1>2, <1>4 DEF BishopRay
  <2> QED
    BY <2>1, QuarterWalk DEF q, e
<1>5. CASE ~(Dot(d, Forward(p)) > 0) /\ OnRing(Plus(p, d))
  <2>1. BishopRay(p, d) = <<Plus(p, d)>> /\ BishopRay(q, e) = <<Plus(q, e)>>
    BY <1>2, <1>3, <1>5 DEF BishopRay
  <2>2. <<Plus(p, d)>> \in Seq(RingPoints)
    BY <1>3, <1>5
  <2> QED
    BY <1>3, <1>5, <2>1, <2>2, QuarterRays DEF q, e
<1>6. CASE ~(Dot(d, Forward(p)) > 0) /\ ~OnRing(Plus(p, d))
  <2>1. BishopRay(p, d) = <<>> /\ BishopRay(q, e) = <<>>
    BY <1>2, <1>3, <1>6 DEF BishopRay
  <2> QED
    BY <2>1, QuarterRays, EmptySeq DEF q, e
<1> QED
  BY <1>4, <1>5, <1>6

(* What a turned ray reaches. *)
LEMMA QuarterReached ==
  ASSUME NEW ray \in Seq(RingPoints),
         NEW ours \in SUBSET RingPoints, NEW theirs \in SUBSET RingPoints
  PROVE  /\ Reached(QuarterRay(ray), QuarterSet(ours), QuarterSet(theirs)) =
              QuarterSet(Reached(ray, ours, theirs))
         /\ Reached(ray, ours, theirs) \subseteq RingPoints
<1> DEFINE turned == QuarterRay(ray)
           men == ours \cup theirs
           menT == QuarterSet(ours) \cup QuarterSet(theirs)
           K == {k \in DOMAIN ray :
                   ray[k] \notin ours /\ \A j \in DOMAIN ray : j < k => ray[j] \notin men}
           KT == {k \in DOMAIN turned :
                    /\ turned[k] \notin QuarterSet(ours)
                    /\ \A j \in DOMAIN turned : j < k => turned[j] \notin menT}
<1>1. /\ DOMAIN turned = DOMAIN ray /\ \A k \in DOMAIN ray : ray[k] \in RingPoints
      /\ \A k \in DOMAIN ray : turned[k] = Quarter(ray[k])
  BY DEF QuarterRay
<1>2. \A S \in SUBSET RingPoints : \A p \in RingPoints : Quarter(p) \in QuarterSet(S) <=> p \in S
  BY QuarterPoints DEF QuarterSet
<1> HIDE DEF turned
<1>3. \A k \in DOMAIN ray : /\ turned[k] \in QuarterSet(ours) <=> ray[k] \in ours
                            /\ turned[k] \in menT <=> ray[k] \in men
  BY <1>1, <1>2
<1>4. KT = K
  BY <1>1, <1>3
<1>5. Reached(ray, ours, theirs) = {ray[k] : k \in K}
  BY DEF Reached
<1>6. Reached(turned, QuarterSet(ours), QuarterSet(theirs)) = {turned[k] : k \in KT}
  BY DEF Reached
<1>7. K \subseteq DOMAIN ray
  OBVIOUS
<1> HIDE DEF K, KT
<1>8. {turned[k] : k \in KT} = QuarterSet({ray[k] : k \in K})
  BY <1>1, <1>4, <1>7 DEF QuarterSet
<1> QED
  BY <1>1, <1>5, <1>6, <1>7, <1>8 DEF turned

LEMMA QuarterKing ==
  ASSUME NEW p \in RingPoints
  PROVE  /\ KingSteps(Quarter(p)) = QuarterSet(KingSteps(p))
         /\ PawnSteps(Quarter(p)) = QuarterSet(PawnSteps(p))
         /\ KingSteps(p) \subseteq RingPoints /\ PawnSteps(p) \subseteq RingPoints
<1> DEFINE near(a, b) == b # a /\ b[1] - a[1] \in -1..1 /\ b[2] - a[2] \in -1..1
           ahead(a, b) == Dot(<<b[1] - a[1], b[2] - a[2]>>, Forward(a)) = 1
<1>1. ASSUME NEW b \in RingPoints
      PROVE  /\ near(Quarter(p), Quarter(b)) <=> near(p, b)
             /\ near(p, b) => (ahead(Quarter(p), Quarter(b)) <=> ahead(p, b))
  <2>1. /\ p[1] \in 0..6 /\ p[2] \in 0..6 /\ b[1] \in 0..6 /\ b[2] \in 0..6
        /\ Quarter(p)[1] = p[2] /\ Quarter(p)[2] = 6 - p[1]
        /\ Quarter(b)[1] = b[2] /\ Quarter(b)[2] = 6 - b[1]
        /\ Quarter(p) = Quarter(b) <=> p = b
    BY RingCoordinates, QuarterPoints
  <2>2. near(Quarter(p), Quarter(b)) <=> near(p, b)
    BY <2>1
  <2>3. ASSUME near(p, b) PROVE ahead(Quarter(p), Quarter(b)) <=> ahead(p, b)
    <3> DEFINE d == <<b[1] - p[1], b[2] - p[2]>>
    <3>1. d \in Step
      BY <2>3 DEF Step
    <3>2. QuarterStep(d) = <<Quarter(b)[1] - Quarter(p)[1], Quarter(b)[2] - Quarter(p)[2]>>
      <4>1. QuarterStep(d) = <<d[2], 0 - d[1]>>
        BY <3>1, QuarterSteps, RingCoordinates
      <4>2. 0 - (b[1] - p[1]) = (6 - b[1]) - (6 - p[1])
        BY <2>1
      <4> QED
        BY <2>1, <4>1, <4>2
    <3>3. Forward(p) \in Step /\ Forward(Quarter(p)) = QuarterStep(Forward(p))
      BY QuarterForward, QuarterSteps
    <3>4. Dot(QuarterStep(d), QuarterStep(Forward(p))) = Dot(d, Forward(p))
      BY <3>1, <3>3, QuarterSteps
    <3> QED
      BY <3>2, <3>3, <3>4
  <2> QED
    BY <2>2, <2>3
<1>2. ASSUME NEW a \in RingPoints
      PROVE  /\ KingSteps(a) = {b \in RingPoints : near(a, b)}
             /\ PawnSteps(a) = {b \in RingPoints : near(a, b) /\ ahead(a, b)}
  BY DEF KingSteps, PawnSteps
<1>3. \A r \in RingPoints : \E b \in RingPoints : r = Quarter(b)
  BY QuarterPoints
<1>4. Quarter(p) \in RingPoints /\ \A b \in RingPoints : Quarter(b) \in RingPoints
  BY QuarterPoints
<1> HIDE DEF near, ahead
<1>5. KingSteps(Quarter(p)) = QuarterSet(KingSteps(p))
  BY <1>1, <1>2, <1>3, <1>4 DEF QuarterSet
<1>6. PawnSteps(Quarter(p)) = QuarterSet(PawnSteps(p))
  BY <1>1, <1>2, <1>3, <1>4 DEF QuarterSet
<1> QED
  BY <1>2, <1>5, <1>6

(* The moves of a man turn with it and the other men.                      *)
LEMMA QuarterDestinations ==
  ASSUME NEW type \in PieceType, NEW p \in RingPoints,
         NEW ours \in SUBSET RingPoints, NEW theirs \in SUBSET RingPoints
  PROVE  /\ Destinations(type, Quarter(p), QuarterSet(ours), QuarterSet(theirs)) =
              QuarterSet(Destinations(type, p, ours, theirs))
         /\ Destinations(type, p, ours, theirs) \subseteq RingPoints
<1> DEFINE q == Quarter(p)
           o == QuarterSet(ours)
           t == QuarterSet(theirs)
<1>1. \A S \in SUBSET RingPoints : QuarterSet(S) \ o = QuarterSet(S \ ours)
  BY QuarterPoints DEF QuarterSet
<1>2. CASE type = "KING"
  <2>1. /\ Destinations(type, q, o, t) = KingSteps(q) \ o
        /\ Destinations(type, p, ours, theirs) = KingSteps(p) \ ours
    BY <1>2 DEF Destinations
  <2> QED
    BY <1>1, <2>1, QuarterKing
<1>3. CASE type = "PAWN"
  <2>1. /\ Destinations(type, q, o, t) = PawnSteps(q) \ o
        /\ Destinations(type, p, ours, theirs) = PawnSteps(p) \ ours
    BY <1>3 DEF Destinations
  <2> QED
    BY <1>1, <2>1, QuarterKing
<1>4. CASE type = "ROOK"
  <2> DEFINE from(d) == Reached(RookRay(p, d), ours, theirs)
             fromT(e) == Reached(RookRay(q, e), o, t)
  <2>1. /\ Destinations(type, q, o, t) = UNION {fromT(e) : e \in Orthogonal}
        /\ Destinations(type, p, ours, theirs) = UNION {from(d) : d \in Orthogonal}
    BY <1>4 DEF Destinations
  <2>2. \A d \in Orthogonal : fromT(QuarterStep(d)) = QuarterSet(from(d)) /\ from(d) \subseteq RingPoints
    BY QuarterRook, QuarterReached
  <2>3. {QuarterStep(d) : d \in Orthogonal} = Orthogonal
    BY QuarterSteps
  <2> HIDE DEF from, fromT
  <2>4. UNION {fromT(e) : e \in Orthogonal} = QuarterSet(UNION {from(d) : d \in Orthogonal})
    BY <2>2, <2>3 DEF QuarterSet
  <2> QED
    BY <2>1, <2>2, <2>4
<1>5. CASE type = "BISHOP"
  <2> DEFINE from(d) == Reached(BishopRay(p, d), ours, theirs)
             fromT(e) == Reached(BishopRay(q, e), o, t)
  <2>1. /\ Destinations(type, q, o, t) = UNION {fromT(e) : e \in Diagonal}
        /\ Destinations(type, p, ours, theirs) = UNION {from(d) : d \in Diagonal}
    BY <1>5 DEF Destinations
  <2>2. \A d \in Diagonal : fromT(QuarterStep(d)) = QuarterSet(from(d)) /\ from(d) \subseteq RingPoints
    BY QuarterBishop, QuarterReached
  <2>3. {QuarterStep(d) : d \in Diagonal} = Diagonal
    BY QuarterSteps
  <2> HIDE DEF from, fromT
  <2>4. UNION {fromT(e) : e \in Diagonal} = QuarterSet(UNION {from(d) : d \in Diagonal})
    BY <2>2, <2>3 DEF QuarterSet
  <2> QED
    BY <2>1, <2>2, <2>4
<1> QED
  BY <1>2, <1>3, <1>4, <1>5 DEF PieceType

(***************************************************************************)
(* The orientations are the board turned by quarters (QuarterAssumption).  *)
(***************************************************************************)
Turn(v, p) ==
  CASE v = 0   -> p
    [] v = 90  -> Quarter(p)
    [] v = 180 -> Quarter(Quarter(p))
    [] OTHER   -> Quarter(Quarter(Quarter(p)))

TurnSet(v, points) == {Turn(v, p) : p \in points}

LEMMA TurnPoints ==
  ASSUME NEW v \in View
  PROVE  /\ \A p \in RingPoints : Turn(v, p) \in RingPoints
         /\ \A p, r \in RingPoints : Turn(v, p) = Turn(v, r) => p = r
         /\ \A q \in Track : Point(Rot[v][q]) = Turn(v, Point(q))
<1>1. v \in {0, 90, 180, 270}
  BY MoveGenAssumption DEF Orientation
<1>2. \A q \in Track : Point(Rot[v][q]) = Turn(v, Point(q))
  BY <1>1, QuarterAssumption, PointFacts DEF Turn
<1>3. \A p \in RingPoints : Turn(v, p) \in RingPoints
  BY QuarterPoints DEF Turn
<1>4. ASSUME NEW p \in RingPoints, NEW r \in RingPoints, Turn(v, p) = Turn(v, r)
      PROVE  p = r
  <2>1. /\ Quarter(p) \in RingPoints /\ Quarter(Quarter(p)) \in RingPoints
        /\ Quarter(r) \in RingPoints /\ Quarter(Quarter(r)) \in RingPoints
    BY QuarterPoints
  <2>2. /\ Quarter(p) = Quarter(r) => p = r
        /\ Quarter(Quarter(p)) = Quarter(Quarter(r)) => Quarter(p) = Quarter(r)
        /\ Quarter(Quarter(Quarter(p))) = Quarter(Quarter(Quarter(r)))
             => Quarter(Quarter(p)) = Quarter(Quarter(r))
    BY <2>1, QuarterPoints
  <2> QED
    BY <1>4, <2>2 DEF Turn
<1> QED
  BY <1>2, <1>3, <1>4

LEMMA TurnDestinations ==
  ASSUME NEW v \in View, NEW type \in PieceType, NEW p \in RingPoints,
         NEW ours \in SUBSET RingPoints, NEW theirs \in SUBSET RingPoints
  PROVE  Destinations(type, Turn(v, p), TurnSet(v, ours), TurnSet(v, theirs)) =
           TurnSet(v, Destinations(type, p, ours, theirs))
<1> DEFINE D(r, S, T) == Destinations(type, r, S, T)
           Q(S) == QuarterSet(S)
<1>1. \A r \in RingPoints : \A S, T \in SUBSET RingPoints :
        /\ D(Quarter(r), Q(S), Q(T)) = Q(D(r, S, T))
        /\ Quarter(r) \in RingPoints
        /\ Q(S) \in SUBSET RingPoints
  BY QuarterDestinations, QuarterPoints DEF QuarterSet
<1>2. \A S : /\ Q(S) = {Quarter(r) : r \in S}
             /\ Q(Q(S)) = {Quarter(Quarter(r)) : r \in S}
             /\ Q(Q(Q(S))) = {Quarter(Quarter(Quarter(r))) : r \in S}
  BY DEF QuarterSet
<1> HIDE DEF D, Q
<1>3. /\ Quarter(p) \in RingPoints /\ Q(ours) \in SUBSET RingPoints /\ Q(theirs) \in SUBSET RingPoints
      /\ D(Quarter(p), Q(ours), Q(theirs)) = Q(D(p, ours, theirs))
  BY <1>1
<1>4. /\ Quarter(Quarter(p)) \in RingPoints
      /\ Q(Q(ours)) \in SUBSET RingPoints /\ Q(Q(theirs)) \in SUBSET RingPoints
      /\ D(Quarter(Quarter(p)), Q(Q(ours)), Q(Q(theirs))) = Q(Q(D(p, ours, theirs)))
  BY <1>1, <1>3
<1>5. D(Quarter(Quarter(Quarter(p))), Q(Q(Q(ours))), Q(Q(Q(theirs)))) =
        Q(Q(Q(D(p, ours, theirs))))
  BY <1>1, <1>4
<1>6. CASE v = 0
  <2>1. \A S : TurnSet(v, S) = S
    BY <1>6 DEF TurnSet, Turn
  <2> QED
    BY <1>6, <2>1 DEF Turn
<1>7. CASE v = 90
  <2>1. Turn(v, p) = Quarter(p) /\ \A S : TurnSet(v, S) = Q(S)
    BY <1>2, <1>7 DEF TurnSet, Turn
  <2> QED
    BY <1>3, <2>1 DEF D
<1>8. CASE v = 180
  <2>1. Turn(v, p) = Quarter(Quarter(p)) /\ \A S : TurnSet(v, S) = Q(Q(S))
    BY <1>2, <1>8 DEF TurnSet, Turn
  <2> QED
    BY <1>4, <2>1 DEF D
<1>9. CASE v \notin {0, 90, 180}
  <2>1. /\ Turn(v, p) = Quarter(Quarter(Quarter(p)))
        /\ \A S : TurnSet(v, S) = Q(Q(Q(S)))
    BY <1>2, <1>9 DEF TurnSet, Turn
  <2> QED
    BY <1>5, <2>1 DEF D
<1> QED
  BY <1>6, <1>7, <1>8, <1>9

(***************************************************************************)
(* The bottom side: what the generator reads of an array is what the rules *)
(* read of the points where the men stand.                                 *)
(***************************************************************************)
Shows(arr, c, ours, theirs) ==
  \A t \in Track : /\ Point(t) \in ours <=> {c} \cap arr[t] # {}
                   /\ Point(t) \notin ours \cup theirs <=> arr[t] = EMPTY

PointsOf(squares) == {Point(t) : t \in squares}
PointRay(ray) == [k \in DOMAIN ray |-> Point(ray[k])]

(* FreeOf. *)
LEMMA FreePoints ==
  ASSUME NEW arr, NEW c, NEW ours, NEW theirs, Shows(arr, c, ours, theirs),
         NEW squares \in SUBSET Track
  PROVE  PointsOf(FreeOf({c}, arr, squares)) = PointsOf(squares) \ ours
BY DEF PointsOf, FreeOf, Shows

(* Sweep. *)
LEMMA SweepPoints ==
  ASSUME NEW arr, NEW c, NEW ours, NEW theirs, Shows(arr, c, ours, theirs),
         NEW ray, IsRay(ray)
  PROVE  PointsOf(Sweep({c}, arr, ray)) = Reached(PointRay(ray), ours, theirs)
<1> DEFINE K == {k \in DOMAIN ray : /\ \A j \in 1..(k - 1) : arr[ray[j]] = EMPTY
                                    /\ {c} \cap arr[ray[k]] = {}}
           g == PointRay(ray)
           L == {k \in DOMAIN g :
                   g[k] \notin ours /\ \A j \in DOMAIN g : j < k => g[j] \notin ours \cup theirs}
<1>1. DOMAIN g = DOMAIN ray /\ \A k \in DOMAIN ray : g[k] = Point(ray[k])
  BY DEF PointRay
<1> HIDE DEF g
<1>2. PICK n \in Nat : DOMAIN ray = 1..n
  BY DEF IsRay
<1>3. \A k \in DOMAIN ray : ray[k] \in Track
  BY DEF IsRay
<1>4. \A k \in DOMAIN ray : /\ g[k] \in ours <=> {c} \cap arr[ray[k]] # {}
                            /\ g[k] \notin ours \cup theirs <=> arr[ray[k]] = EMPTY
  BY <1>1, <1>3 DEF Shows
<1>5. \A k \in DOMAIN ray : \A j : j \in 1..(k - 1) <=> j \in DOMAIN ray /\ j < k
  BY <1>2
<1>6. K = L
  BY <1>1, <1>4, <1>5
<1>7. K \subseteq DOMAIN ray
  OBVIOUS
<1>8. Sweep({c}, arr, ray) = {ray[k] : k \in K}
  BY DEF Sweep
<1>9. Reached(g, ours, theirs) = {g[k] : k \in L}
  BY DEF Reached
<1> HIDE DEF K, L
<1>10. PointsOf({ray[k] : k \in K}) = {g[k] : k \in L}
  BY <1>1, <1>6, <1>7 DEF PointsOf
<1> QED
  BY <1>8, <1>9, <1>10 DEF g

(* What short rays reach. *)
LEMMA ReachedShort ==
  ASSUME NEW ours, NEW theirs
  PROVE  /\ Reached(<<>>, ours, theirs) = {}
         /\ \A p : Reached(<<p>>, ours, theirs) = {p} \ ours
BY DEF Reached

(* A longer ray reaches all its beginning reaches. *)
LEMMA ReachedPrefix ==
  ASSUME NEW ours, NEW theirs, NEW s \in Seq(RingPoints), NEW t \in Seq(RingPoints)
  PROVE  Reached(s, ours, theirs) \subseteq Reached(s \o t, ours, theirs)
<1> DEFINE u == s \o t
<1>1. /\ Len(s) \in Nat /\ Len(t) \in Nat /\ DOMAIN s = 1..Len(s)
      /\ u \in Seq(RingPoints) /\ Len(u) = Len(s) + Len(t) /\ DOMAIN u = 1..Len(u)
      /\ \A k \in 1..Len(s) + Len(t) : u[k] = IF k <= Len(s) THEN s[k] ELSE t[k - Len(s)]
  BY ConcatProperties, LenProperties
<1> HIDE DEF u
<1>2. \A k \in DOMAIN s : /\ k \in DOMAIN u /\ u[k] = s[k]
                          /\ \A j \in DOMAIN u : j < k => j \in DOMAIN s /\ u[j] = s[j]
  BY <1>1
<1>3. Reached(s, ours, theirs) \subseteq Reached(u, ours, theirs)
  BY <1>2 DEF Reached
<1> QED
  BY <1>3 DEF u

(* A point that comes twice in a row changes nothing (left_rook_reflect    *)
(* starts with the corner the rook has come to).                           *)
LEMMA ReachedRepeated ==
  ASSUME NEW ours, NEW theirs, NEW n \in Nat, NEW m \in 1..n, NEW h, NEW g,
         DOMAIN h = 1..n, DOMAIN g = 1..(n + 1),
         \A k \in 1..m : g[k] = h[k],
         \A k \in (m + 1)..(n + 1) : g[k] = h[k - 1]
  PROVE  Reached(g, ours, theirs) = Reached(h, ours, theirs)
<1> DEFINE Goes(f, k) == /\ k \in DOMAIN f /\ f[k] \notin ours
                         /\ \A j \in DOMAIN f : j < k => f[j] \notin ours \cup theirs
<1>1. \A f : Reached(f, ours, theirs) = {f[k] : k \in {k \in DOMAIN f : Goes(f, k)}}
  BY DEF Reached
<1>2. \A k \in 1..m : Goes(g, k) <=> Goes(h, k)
  <2>1. \A k \in 1..m : k \in DOMAIN g /\ k \in DOMAIN h /\ g[k] = h[k]
    OBVIOUS
  <2>2. \A k \in 1..m : \A j : /\ j \in DOMAIN g /\ j < k <=> j \in 1..m /\ j < k
                               /\ j \in DOMAIN h /\ j < k <=> j \in 1..m /\ j < k
    OBVIOUS
  <2> QED
    BY <2>1, <2>2
<1>3. \A k \in (m + 1)..n : Goes(g, k + 1) <=> Goes(h, k)
  <2> SUFFICES ASSUME NEW k \in (m + 1)..n PROVE Goes(g, k + 1) <=> Goes(h, k)
    OBVIOUS
  <2>1. k + 1 \in DOMAIN g /\ k \in DOMAIN h /\ g[k + 1] = h[k]
    OBVIOUS
  <2>2. ASSUME \A j \in DOMAIN h : j < k => h[j] \notin ours \cup theirs,
               NEW j \in DOMAIN g, j < k + 1
        PROVE  g[j] \notin ours \cup theirs
    <3>1. CASE j <= m
      BY <2>2, <3>1
    <3>2. CASE j > m
      <4>1. g[j] = h[j - 1] /\ j - 1 \in DOMAIN h /\ j - 1 < k
        BY <2>2, <3>2
      <4> QED
        BY <2>2, <4>1
    <3> QED
      BY <3>1, <3>2
  <2>3. ASSUME \A j \in DOMAIN g : j < k + 1 => g[j] \notin ours \cup theirs,
               NEW j \in DOMAIN h, j < k
        PROVE  h[j] \notin ours \cup theirs
    <3>1. g[j + 1] = h[j] \/ g[j] = h[j]
      OBVIOUS
    <3>2. j + 1 \in DOMAIN g /\ j + 1 < k + 1 /\ j \in DOMAIN g /\ j < k + 1
      BY <2>3
    <3> QED
      BY <2>3, <3>1, <3>2
  <2> QED
    BY <2>1, <2>2, <2>3
<1>4. ASSUME Goes(g, m + 1) PROVE Goes(g, m) /\ g[m + 1] = g[m]
  <2>1. m + 1 \in DOMAIN g /\ m \in DOMAIN g /\ g[m + 1] = h[m] /\ g[m] = h[m]
    OBVIOUS
  <2>2. \A j \in DOMAIN g : j < m => j < m + 1
    OBVIOUS
  <2> QED
    BY <1>4, <2>1, <2>2
<1> HIDE DEF Goes
<1>5. ASSUME NEW k \in DOMAIN g, Goes(g, k)
      PROVE  \E j \in DOMAIN h : Goes(h, j) /\ g[k] = h[j]
  <2>1. CASE k <= m
    BY <1>2, <1>5, <2>1
  <2>2. CASE k = m + 1
    BY <1>2, <1>4, <1>5, <2>2
  <2>3. CASE k > m + 1
    <3>1. k - 1 \in (m + 1)..n /\ (k - 1) + 1 = k /\ g[k] = h[k - 1]
      BY <2>3
    <3> QED
      BY <1>3, <1>5, <3>1
  <2> QED
    BY <2>1, <2>2, <2>3
<1>6. ASSUME NEW k \in DOMAIN h, Goes(h, k)
      PROVE  \E j \in DOMAIN g : Goes(g, j) /\ h[k] = g[j]
  <2>1. CASE k <= m
    BY <1>2, <1>6, <2>1
  <2>2. CASE k > m
    <3>1. k \in (m + 1)..n /\ k + 1 \in DOMAIN g /\ g[k + 1] = h[k]
      BY <2>2
    <3> QED
      BY <1>3, <1>6, <3>1
  <2> QED
    BY <2>1, <2>2
<1>7. \A f : \A x : x \in Reached(f, ours, theirs) <=> \E k \in DOMAIN f : Goes(f, k) /\ x = f[k]
  BY <1>1
<1>8. \A x : x \in Reached(g, ours, theirs) <=> x \in Reached(h, ours, theirs)
  BY <1>5, <1>6, <1>7
<1> QED
  BY <1>8

(* The squares of the bottom side by their coordinates. *)
LEMMA BottomPoints ==
  ASSUME NEW q \in bottom
  PROVE  /\ getx(q) \in 1..6 /\ gety(q) \in 0..1 /\ q = 8 * gety(q) + getx(q)
         /\ gety(q) = 1 => getx(q) \in 2..5
         /\ Point(q) = <<getx(q), gety(q)>> /\ Point(q) \in RingPoints
         /\ Forward(Point(q)) = <<-1, 0>>
<1>1. /\ q % 8 \in 1..6 /\ q \div 8 \in 0..1 /\ q = 8 * (q \div 8) + (q % 8)
      /\ q \div 8 = 1 => q % 8 \in 2..5
  BY DEF bottom
<1>2. Point(q) = <<getx(q), gety(q)>> /\ Point(q) \in RingPoints
  BY PointFacts DEF Point, Track
<1>3. Forward(Point(q)) = <<-1, 0>>
  <2> DEFINE x == getx(q)
             y == gety(q)
  <2>1. (y = 0 /\ x > 0) \/ (y = 1 /\ x \in 2..5)
    BY <1>1 DEF getx, gety
  <2> HIDE DEF x, y
  <2>2. Forward(<<x, y>>) = <<-1, 0>>
    BY <2>1 DEF Forward
  <2> QED
    BY <1>2, <2>2 DEF x, y
<1> QED
  BY <1>1, <1>2, <1>3 DEF getx, gety

(* A point is among those of some squares if its index is one of them. *)
LEMMA PointsOfFacts ==
  ASSUME NEW squares \in SUBSET Track
  PROVE  /\ PointsOf(squares) \subseteq RingPoints
         /\ \A a, b \in 0..6 : <<a, b>> \in RingPoints =>
              (<<a, b>> \in PointsOf(squares) <=> 8 * b + a \in squares)
<1>1. \A p \in RingPoints : p \in PointsOf(squares) <=> Index(p) \in squares
  BY PointFacts DEF PointsOf
<1>2. PointsOf(squares) \subseteq RingPoints
  BY PointFacts DEF PointsOf
<1>3. \A a, b \in 0..6 : Index(<<a, b>>) = 8 * b + a
  BY DEF Index, pos
<1> QED
  BY <1>1, <1>2, <1>3

(* The king. *)
KingSquares(q) ==
  LET x == getx(q)
  IN  {pos(x - 1, 0), pos(x - 1, 1), pos(x, 1 - gety(q))}
        \cup {p \in {pos(x - 1, 2)} : q = 10}
        \cup {p \in {pos(x + 1, 0), pos(x + 1, 1)} : q # 6}
        \cup {p \in {pos(x + 1, 2)} : q >= 12}
        \cup {p \in {pos(x, 2)} : q = 13}

LEMMA KingPoints ==
  ASSUME NEW q \in bottom
  PROVE  KingSquares(q) \subseteq Track /\ PointsOf(KingSquares(q)) = KingSteps(Point(q))
<1> DEFINE x == getx(q)
           y == gety(q)
<1>1. /\ x \in 1..6 /\ y \in 0..1 /\ q = 8 * y + x /\ (y = 1 => x \in 2..5)
      /\ Point(q) = <<x, y>>
  BY BottomPoints
<1>2. KingSquares(q) \subseteq Track
  BY DEF KingSquares, pos, getx, gety, bottom, Track, left, right
<1> DEFINE S == {x - 1, 8 + (x - 1), 8 * (1 - y) + x}
                  \cup {p \in {16 + (x - 1)} : q = 10}
                  \cup {p \in {x + 1, 8 + (x + 1)} : q # 6}
                  \cup {p \in {16 + (x + 1)} : q >= 12}
                  \cup {p \in {16 + x} : q = 13}
<1>3. KingSquares(q) = S
  <2>1. \A i : pos(i, 0) = 8 * 0 + i /\ pos(i, 1) = 8 * 1 + i /\ pos(i, 2) = 8 * 2 + i
    BY DEF pos
  <2>2. pos(x, 1 - y) = 8 * (1 - y) + x
    BY DEF pos
  <2> HIDE DEF x, y
  <2>3. /\ pos(x - 1, 0) = x - 1 /\ pos(x - 1, 1) = 8 + (x - 1) /\ pos(x - 1, 2) = 16 + (x - 1)
        /\ pos(x + 1, 0) = x + 1 /\ pos(x + 1, 1) = 8 + (x + 1) /\ pos(x + 1, 2) = 16 + (x + 1)
        /\ pos(x, 2) = 16 + x
    BY <1>1, <2>1
  <2> QED
    BY <2>2, <2>3 DEF KingSquares, x, y
<1> HIDE DEF x, y
<1>4. ASSUME NEW a \in 0..6, NEW b \in 0..6, ~(a \in 2..4 /\ b \in 2..4)
      PROVE  8 * b + a \in S <=> (a # x \/ b # y) /\ a - x \in -1..1 /\ b - y \in -1..1
  <2>1. CASE y = 0
    <3>1. 8 * b + a \in S <=> \/ 8 * b + a \in {x - 1, x + 7, x + 8}
                              \/ x # 6 /\ 8 * b + a \in {x + 1, x + 9}
      BY <1>1, <2>1
    <3> QED
      BY <1>1, <2>1, <3>1
  <2>2. CASE y = 1
    <3>1. q = 8 + x /\ x \in 2..5
      BY <1>1, <2>2
    <3>2. 8 * b + a \in S <=> \/ 8 * b + a \in {x - 1, x + 7, x, x + 1, x + 9}
                              \/ x = 2 /\ 8 * b + a = x + 15
                              \/ x >= 4 /\ 8 * b + a = x + 17
                              \/ x = 5 /\ 8 * b + a = x + 16
      BY <2>2, <3>1
    <3>3. CASE b = 0
      BY <2>2, <3>1, <3>2, <3>3
    <3>4. CASE b = 1
      BY <2>2, <3>1, <3>2, <3>4
    <3>5. CASE b = 2
      BY <1>4, <2>2, <3>1, <3>2, <3>5
    <3>6. CASE b > 2
      BY <2>2, <3>1, <3>2, <3>6
    <3> QED
      BY <3>3, <3>4, <3>5, <3>6
  <2> QED
    BY <1>1, <2>1, <2>2
<1> HIDE DEF S
<1>5. \A a, b \in 0..6 : <<a, b>> \in RingPoints =>
        (<<a, b>> \in KingSteps(<<x, y>>) <=>
          (a # x \/ b # y) /\ a - x \in -1..1 /\ b - y \in -1..1)
  BY DEF KingSteps
<1>6. \A p \in RingPoints : /\ p = <<p[1], p[2]>> /\ p[1] \in 0..6 /\ p[2] \in 0..6
                            /\ ~(p[1] \in 2..4 /\ p[2] \in 2..4)
  BY RingCoordinates DEF RingPoints, OnRing, Inner
<1>7. ASSUME NEW p \in RingPoints PROVE p \in PointsOf(S) <=> p \in KingSteps(<<x, y>>)
  <2>1. PICK a \in 0..6, b \in 0..6 : p = <<a, b>> /\ ~(a \in 2..4 /\ b \in 2..4)
    BY <1>6
  <2>2. <<a, b>> \in PointsOf(S) <=> 8 * b + a \in S
    BY <1>2, <1>3, <2>1, PointsOfFacts
  <2> QED
    BY <1>4, <1>5, <2>1, <2>2
<1>8. PointsOf(S) \subseteq RingPoints /\ KingSteps(<<x, y>>) \subseteq RingPoints
  BY <1>2, <1>3, PointsOfFacts DEF KingSteps
<1> QED
  BY <1>1, <1>2, <1>3, <1>7, <1>8

(* The pawn. *)
PawnSquares(q) ==
  {pos(getx(q) - 1, 0), pos(getx(q) - 1, 1)} \cup {p \in {17} : q = 10}

LEMMA PawnPoints ==
  ASSUME NEW q \in bottom
  PROVE  PawnSquares(q) \subseteq Track /\ PointsOf(PawnSquares(q)) = PawnSteps(Point(q))
<1> DEFINE x == getx(q)
           y == gety(q)
           S == {x - 1, 8 + (x - 1)} \cup {p \in {17} : q = 10}
<1>1. /\ x \in 1..6 /\ y \in 0..1 /\ q = 8 * y + x /\ (y = 1 => x \in 2..5)
      /\ Point(q) = <<x, y>> /\ Forward(Point(q)) = <<-1, 0>>
  BY BottomPoints
<1>2. PawnSquares(q) \subseteq Track
  BY DEF PawnSquares, pos, getx, bottom, Track, left
<1>3. PawnSquares(q) = S
  <2>1. \A i : pos(i, 0) = 8 * 0 + i /\ pos(i, 1) = 8 * 1 + i
    BY DEF pos
  <2> HIDE DEF x, y
  <2>2. pos(x - 1, 0) = x - 1 /\ pos(x - 1, 1) = 8 + (x - 1)
    BY <1>1, <2>1
  <2> QED
    BY <2>2 DEF PawnSquares, x
<1> HIDE DEF x, y
<1>4. ASSUME NEW a \in 0..6, NEW b \in 0..6, ~(a \in 2..4 /\ b \in 2..4)
      PROVE  8 * b + a \in S <=> a - x = -1 /\ b - y \in -1..1
  <2>1. CASE y = 0
    BY <1>1, <2>1
  <2>2. CASE y = 1
    <3>1. q = 8 + x /\ x \in 2..5
      BY <1>1, <2>2
    <3>2. 8 * b + a \in S <=> 8 * b + a \in {x - 1, x + 7} \/ (x = 2 /\ 8 * b + a = 17)
      <4>1. (q = 10 <=> x = 2) /\ 8 + (x - 1) = x + 7
        BY <3>1
      <4>2. \A k : k \in S <=> k = x - 1 \/ k = 8 + (x - 1) \/ (q = 10 /\ k = 17)
        OBVIOUS
      <4> HIDE DEF S
      <4> QED
        BY <4>1, <4>2
    <3>3. CASE b = 0
      BY <2>2, <3>1, <3>2, <3>3
    <3>4. CASE b = 1
      BY <2>2, <3>1, <3>2, <3>4
    <3>5. CASE b = 2
      BY <1>4, <2>2, <3>1, <3>2, <3>5
    <3>6. CASE b > 2
      BY <2>2, <3>1, <3>2, <3>6
    <3> QED
      BY <3>3, <3>4, <3>5, <3>6
  <2> QED
    BY <1>1, <2>1, <2>2
<1> HIDE DEF S
<1>5. ASSUME NEW a \in 0..6, NEW b \in 0..6, <<a, b>> \in RingPoints
      PROVE  <<a, b>> \in PawnSteps(<<x, y>>) <=> a - x = -1 /\ b - y \in -1..1
  <2>1. <<a, b>> \in KingSteps(<<x, y>>) <=>
          (a # x \/ b # y) /\ a - x \in -1..1 /\ b - y \in -1..1
    BY <1>5 DEF KingSteps
  <2>2. Dot(<<a - x, b - y>>, <<-1, 0>>) = (a - x) * (-1) + (b - y) * 0
    BY DEF Dot
  <2>3. a - x \in Int /\ b - y \in Int
    BY <1>1
  <2>4. (a - x) * (-1) + (b - y) * 0 = 1 <=> a - x = -1
    BY <2>3
  <2>5. <<a, b>> \in PawnSteps(<<x, y>>) <=>
          <<a, b>> \in KingSteps(<<x, y>>) /\ Dot(<<a - x, b - y>>, <<-1, 0>>) = 1
    BY <1>1 DEF PawnSteps
  <2> QED
    BY <1>1, <2>1, <2>2, <2>4, <2>5
<1>6. \A p \in RingPoints : /\ p = <<p[1], p[2]>> /\ p[1] \in 0..6 /\ p[2] \in 0..6
                            /\ ~(p[1] \in 2..4 /\ p[2] \in 2..4)
  BY RingCoordinates DEF RingPoints, OnRing, Inner
<1>7. ASSUME NEW p \in RingPoints PROVE p \in PointsOf(S) <=> p \in PawnSteps(<<x, y>>)
  <2>1. PICK a \in 0..6, b \in 0..6 : p = <<a, b>> /\ ~(a \in 2..4 /\ b \in 2..4)
    BY <1>6
  <2>2. <<a, b>> \in PointsOf(S) <=> 8 * b + a \in S
    BY <1>2, <1>3, <2>1, PointsOfFacts
  <2> QED
    BY <1>4, <1>5, <2>1, <2>2
<1>8. PointsOf(S) \subseteq RingPoints /\ PawnSteps(<<x, y>>) \subseteq RingPoints
  BY <1>2, <1>3, PointsOfFacts DEF PawnSteps, KingSteps
<1> QED
  BY <1>1, <1>2, <1>3, <1>7, <1>8

(* A straight ray by its length. *)
Lane(x, y, i, j, n) == [k \in 1..n |-> <<x + k * i, y + k * j>>]
LaneEnds(x, y, i, j, n) ==
  /\ x \in Int /\ y \in Int /\ i \in Int /\ j \in Int /\ n \in 0..6
  /\ \A k \in 1..n : OnRing(<<x + k * i, y + k * j>>)
  /\ n < 6 => ~OnRing(<<x + (n + 1) * i, y + (n + 1) * j>>)

LEMMA StraightIs ==
  ASSUME NEW x, NEW y, NEW i, NEW j, NEW n, LaneEnds(x, y, i, j, n)
  PROVE  Straight(<<x, y>>, <<i, j>>) = Lane(x, y, i, j, n)
<1> DEFINE at(k) == <<x + k * i, y + k * j>>
           reach == {k \in 1..6 : \A m \in 1..k : OnRing(at(m))}
<1>1. Straight(<<x, y>>, <<i, j>>) = [k \in reach |-> at(k)]
  BY DEF Straight
<1>2. n \in 0..6 /\ (\A k \in 1..n : OnRing(at(k))) /\ (n < 6 => ~OnRing(at(n + 1)))
  BY DEF LaneEnds
<1> HIDE DEF at
<1>3. reach = 1..n
  <2>1. ASSUME NEW k \in reach PROVE k \in 1..n
    <3>1. n < 6 => ~(n + 1 \in 1..k)
      BY <1>2
    <3> QED
      BY <1>2, <3>1
  <2>2. ASSUME NEW k \in 1..n PROVE k \in reach
    <3>1. \A m \in 1..k : m \in 1..n
      BY <1>2
    <3> QED
      BY <1>2, <3>1
  <2> QED
    BY <2>1, <2>2
<1> QED
  BY <1>1, <1>3 DEF at, Lane

(* Along a lane to the left edge, and up an edge of the board. *)
LEMMA StraightLanes ==
  /\ \A x \in 1..6, y \in 0..1 :
       Straight(<<x, y>>, <<-1, 0>>) = [k \in 1..x |-> <<x - k, y>>]
  /\ \A x \in 0..1 : Straight(<<x, 0>>, <<0, 1>>) = [k \in 1..6 |-> <<x, k>>]
<1>1. ASSUME NEW x \in 1..6, NEW y \in 0..1
      PROVE  Straight(<<x, y>>, <<-1, 0>>) = [k \in 1..x |-> <<x - k, y>>]
  <2> DEFINE i == -1
             j == 0
  <2>1. i \in Int /\ j \in Int /\ \A k \in 1..7 : x + k * i = x - k /\ y + k * j = y
    OBVIOUS
  <2> HIDE DEF i, j
  <2>2. \A k \in 1..x : OnRing(<<x + k * i, y + k * j>>)
    BY <2>1 DEF OnRing, Coord, Inner
  <2>3. ~OnRing(<<x + (x + 1) * i, y + (x + 1) * j>>)
    <3>1. x + (x + 1) * i = -1
      BY <2>1
    <3> QED
      BY <3>1 DEF OnRing, Coord
  <2>4. Straight(<<x, y>>, <<i, j>>) = Lane(x, y, i, j, x)
    <3>1. LaneEnds(x, y, i, j, x)
      BY SMTT(30), <2>1, <2>2, <2>3 DEF LaneEnds
    <3> QED
      BY <3>1, StraightIs
  <2>5. \A k \in 1..x : <<x + k * i, y + k * j>> = <<x - k, y>>
    BY <2>1
  <2>6. Straight(<<x, y>>, <<i, j>>) = [k \in 1..x |-> <<x - k, y>>]
    BY <2>4, <2>5 DEF Lane
  <2> QED
    BY <2>6 DEF i, j
<1>2. ASSUME NEW x \in 0..1
      PROVE  Straight(<<x, 0>>, <<0, 1>>) = [k \in 1..6 |-> <<x, k>>]
  <2> DEFINE i == 0
             j == 1
             y == 0
  <2>1. /\ i \in Int /\ j \in Int /\ y \in Int
        /\ \A k \in 1..7 : x + k * i = x /\ y + k * j = k
    OBVIOUS
  <2> HIDE DEF i, j, y
  <2>2. \A k \in 1..6 : OnRing(<<x + k * i, y + k * j>>)
    BY <2>1 DEF OnRing, Coord, Inner
  <2>3. Straight(<<x, y>>, <<i, j>>) = Lane(x, y, i, j, 6)
    <3>1. LaneEnds(x, y, i, j, 6)
      BY <2>1, <2>2 DEF LaneEnds
    <3> QED
      BY <3>1, StraightIs
  <2>4. \A k \in 1..6 : <<x + k * i, y + k * j>> = <<x, k>>
    BY <2>1
  <2>5. Straight(<<x, y>>, <<i, j>>) = [k \in 1..6 |-> <<x, k>>]
    BY <2>3, <2>4 DEF Lane
  <2> QED
    BY <2>5 DEF i, j, y
<1> QED
  BY <1>1, <1>2

(* Where a man goes on around the bottom side. *)
LEMMA ForwardNear ==
  /\ \A x \in 1..6 : Forward(<<x, 0>>) = <<-1, 0>>
  /\ \A x \in 2..5 : Forward(<<x, 1>>) = <<-1, 0>>
  /\ Forward(<<6, 1>>) = <<0, -1>> /\ Forward(<<5, 2>>) = <<0, -1>>
  /\ Forward(<<1, 1>>) = <<0, 1>> /\ Forward(<<0, 0>>) = <<0, 1>>
BY DEF Forward

(* The step in a direction, if it stays on the board. *)
StepTo(p, d) == {r \in {Plus(p, d)} : OnRing(r)}

(* Sideways and backwards a rook makes one step. *)
LEMMA RookStep ==
  ASSUME NEW p \in RingPoints, NEW d \in Orthogonal, d # Forward(p),
         OnRing(Plus(p, d)) => Forward(Plus(p, d)) # d,
         NEW ours, NEW theirs
  PROVE  Reached(RookRay(p, d), ours, theirs) = StepTo(p, d) \ ours
<1> DEFINE s == Straight(p, d)
<1>1. d \in Step
  BY QuarterSteps
<1>2. s \in Seq(RingPoints) /\ Len(s) \in Nat /\ (Len(s) = 0 <=> s = <<>>)
  BY <1>1, StraightFacts, EmptySeq, LenProperties
<1>3. RookRay(p, d) =
        CASE Len(s) = 0 -> <<>>
          [] Len(s) > 0 /\ d = Forward(p) /\ s[Len(s)] \in Corner
               -> s \o Straight(s[Len(s)], Forward(s[Len(s)]))
          [] Len(s) > 0 /\ d = Forward(p) /\ s[Len(s)] \notin Corner -> s
          [] Len(s) > 0 /\ d # Forward(p) /\ d = Forward(s[1]) -> s
          [] OTHER -> <<s[1]>>
  BY DEF RookRay
<1>4. /\ OnRing(Plus(p, d)) => s # <<>> /\ s[1] = Plus(p, d)
      /\ ~OnRing(Plus(p, d)) => s = <<>>
  BY <1>1, StraightFirst
<1> HIDE DEF s
<1>5. CASE OnRing(Plus(p, d))
  <2>1. RookRay(p, d) = <<Plus(p, d)>>
    BY <1>2, <1>3, <1>4, <1>5
  <2>2. Reached(<<Plus(p, d)>>, ours, theirs) = {Plus(p, d)} \ ours
    BY ReachedShort
  <2>3. StepTo(p, d) = {Plus(p, d)}
    BY <1>5 DEF StepTo
  <2> QED
    BY <2>1, <2>2, <2>3
<1>6. CASE ~OnRing(Plus(p, d))
  <2>1. RookRay(p, d) = <<>>
    BY <1>2, <1>3, <1>4, <1>6
  <2> QED
    BY <1>6, <2>1, ReachedShort DEF StepTo
<1> QED
  BY <1>5, <1>6

(* The rook's single steps: no lane leads that way. *)
RookSteps(q) ==
  {p \in {q + 8, q - 8, q + 1} : \/ p = q + 8 /\ (q < 8 \/ q = 13)
                                 \/ p = q - 8 /\ q >= 8
                                 \/ p = q + 1 /\ q # 6}

LEMMA RookStepPoints ==
  ASSUME NEW q \in bottom
  PROVE  /\ RookSteps(q) \subseteq Track
         /\ PointsOf(RookSteps(q)) = StepTo(Point(q), <<0, 1>>) \cup StepTo(Point(q), <<0, -1>>)
                                       \cup StepTo(Point(q), <<1, 0>>)
<1> DEFINE x == getx(q)
           y == gety(q)
<1>1. /\ x \in 1..6 /\ y \in 0..1 /\ q = 8 * y + x /\ (y = 1 => x \in 2..5)
      /\ Point(q) = <<x, y>>
  BY BottomPoints
<1>2. RookSteps(q) \subseteq Track
  BY DEF RookSteps, bottom, Track, left, right
<1> HIDE DEF x, y
<1>3. /\ Plus(Point(q), <<0, 1>>) = <<x, y + 1>> /\ Plus(Point(q), <<0, -1>>) = <<x, y - 1>>
      /\ Plus(Point(q), <<1, 0>>) = <<x + 1, y>>
  BY <1>1 DEF Plus
<1>4. /\ OnRing(<<x, y + 1>>) <=> (q < 8 \/ q = 13)
      /\ OnRing(<<x, y - 1>>) <=> q >= 8
      /\ OnRing(<<x + 1, y>>) <=> q # 6
  BY <1>1 DEF OnRing, Coord, Inner
<1>5. /\ Index(<<x, y + 1>>) = q + 8 /\ Index(<<x, y - 1>>) = q - 8
      /\ Index(<<x + 1, y>>) = q + 1
  BY <1>1 DEF Index, pos
<1>6. \A p \in RingPoints : p \in PointsOf(RookSteps(q)) <=> Index(p) \in RookSteps(q)
  BY <1>2, PointFacts DEF PointsOf
<1>7. /\ OnRing(<<x, y + 1>>) <=> <<x, y + 1>> \in RingPoints
      /\ OnRing(<<x, y - 1>>) <=> <<x, y - 1>> \in RingPoints
      /\ OnRing(<<x + 1, y>>) <=> <<x + 1, y>> \in RingPoints
  <2>1. x \in Int /\ y \in Int /\ y + 1 \in Int /\ y - 1 \in Int /\ x + 1 \in Int
    BY <1>1
  <2> QED
    BY <2>1, RingCoordinates
<1>8. \A p, r \in RingPoints : Index(p) = Index(r) => p = r
  BY PointFacts
<1>9. ASSUME NEW p \in RingPoints
      PROVE  Index(p) \in RookSteps(q) <=>
               \/ p = <<x, y + 1>>
               \/ p = <<x, y - 1>>
               \/ p = <<x + 1, y>>
  <2>1. Index(p) \in RookSteps(q) <=>
          \/ Index(p) = q + 8 /\ OnRing(<<x, y + 1>>)
          \/ Index(p) = q - 8 /\ OnRing(<<x, y - 1>>)
          \/ Index(p) = q + 1 /\ OnRing(<<x + 1, y>>)
    BY <1>4 DEF RookSteps
  <2> QED
    BY <1>5, <1>7, <1>8, <2>1
<1>10. PointsOf(RookSteps(q)) \subseteq RingPoints
  BY <1>2, PointsOfFacts
<1> QED
  BY <1>2, <1>3, <1>6, <1>7, <1>9, <1>10 DEF StepTo

(* A sequence is as long as its domain. *)
LEMMA LengthIs ==
  ASSUME NEW S, NEW s \in Seq(S), NEW n \in Nat, DOMAIN s = 1..n
  PROVE  Len(s) = n
<1>1. Len(s) \in Nat /\ 1..Len(s) = 1..n
  BY LenProperties
<1>2. \A k \in Nat : k \in 1..Len(s) <=> k \in 1..n
  BY <1>1
<1>3. Len(s) <= n
  BY <1>1, <1>2
<1>4. n <= Len(s)
  BY <1>1, <1>2
<1> QED
  BY <1>1, <1>3, <1>4

(* Two sequences one after the other. *)
Joined(u, s, t, m, n) ==
  /\ DOMAIN u = 1..(m + n)
  /\ \A k \in 1..(m + n) : u[k] = IF k <= m THEN s[k] ELSE t[k - m]

LEMMA JoinIs ==
  ASSUME NEW S, NEW s \in Seq(S), NEW t \in Seq(S), NEW m, NEW n, m = Len(s), n = Len(t)
  PROVE  s \o t \in Seq(S) /\ Joined(s \o t, s, t, m, n)
<1>1. /\ s \o t \in Seq(S) /\ Len(s \o t) = m + n
      /\ \A k \in 1..(m + n) : (s \o t)[k] = IF k <= m THEN s[k] ELSE t[k - m]
  BY ConcatProperties
<1> DEFINE u == s \o t
<1>2. u \in Seq(S) /\ Len(u) = m + n
  BY <1>1
<1> HIDE DEF u
<1>3. DOMAIN u = 1..(m + n)
  BY <1>2, LenProperties
<1> QED
  BY <1>1, <1>3 DEF u, Joined

(* The lane the rook goes forward along, around the corner from the outer  *)
(* lane (LeftRay).                                                         *)
LEMMA RookForward ==
  ASSUME NEW q \in bottom, NEW ours, NEW theirs
  PROVE  Reached(PointRay(LeftRay(q)), ours, theirs) =
           Reached(RookRay(Point(q), <<-1, 0>>), ours, theirs)
<1> DEFINE x == getx(q)
           y == gety(q)
           d == <<-1, 0>>
           s == Straight(Point(q), d)
           back == [k \in 1..x |-> q - k]
           ray == LeftRay(q)
<1>1. /\ x \in 1..6 /\ y \in 0..1 /\ q = 8 * y + x /\ (y = 1 => x \in 2..5)
      /\ Point(q) = <<x, y>> /\ Point(q) \in RingPoints /\ d = Forward(Point(q))
  BY BottomPoints
<1>2. s = [k \in 1..x |-> <<x - k, y>>]
  BY <1>1, StraightLanes
<1>3. s \in Seq(RingPoints)
  <2>1. d \in Step
    BY DEF Step
  <2> QED
    BY <1>1, <2>1, StraightFacts
<1>4. ray = back \o (IF q < 8 THEN left_rook_reflect ELSE <<>>)
  BY DEF LeftRay
<1>5. back \in Seq(Nat) /\ Len(back) = x /\ \A k \in 1..x : back[k] = q - k
  BY SMTT(30), <1>1
<1>6. RookRay(Point(q), d) =
        CASE Len(s) = 0 -> <<>>
          [] Len(s) > 0 /\ d = Forward(Point(q)) /\ s[Len(s)] \in Corner
               -> s \o Straight(s[Len(s)], Forward(s[Len(s)]))
          [] Len(s) > 0 /\ d = Forward(Point(q)) /\ s[Len(s)] \notin Corner -> s
          [] Len(s) > 0 /\ d # Forward(Point(q)) /\ d = Forward(s[1]) -> s
          [] OTHER -> <<s[1]>>
  BY DEF RookRay
<1>7. \A a, b \in 0..6 : Point(8 * b + a) = <<a, b>>
  BY DEF Point, getx, gety
<1> HIDE DEF x, y, d, s, back, ray
<1>8. Len(s) = x /\ s[x] = <<0, y>> /\ DOMAIN s = 1..x /\ \A k \in 1..x : s[k] = <<x - k, y>>
  <2>1. DOMAIN s = 1..x /\ \A k \in 1..x : s[k] = <<x - k, y>>
    BY <1>2
  <2>2. x \in Nat /\ x \in 1..x /\ x - x = 0
    BY <1>1
  <2>3. Len(s) = x
    BY <1>3, <2>1, <2>2, LengthIs
  <2> QED
    BY <2>1, <2>2, <2>3
<1>9. CASE y = 1
  <2>1. RookRay(Point(q), d) = s
    <3>1. <<0, 1>> \notin Corner
      BY DEF Corner
    <3> QED
      BY <1>1, <1>6, <1>8, <1>9, <3>1
  <2>2. ray = back
    BY <1>1, <1>4, <1>5, <1>9
  <2>3. DOMAIN ray = 1..x /\ \A k \in 1..x : Point(ray[k]) = <<x - k, y>>
    <3>1. \A k \in 1..x : q - k = 8 * y + (x - k) /\ x - k \in 0..6
      BY <1>1
    <3>2. DOMAIN ray = 1..x /\ \A k \in 1..x : ray[k] = 8 * y + (x - k)
      BY <1>5, <2>2, <3>1
    <3>3. y \in 0..6
      BY <1>1
    <3>4. \A k \in 1..x : Point(8 * y + (x - k)) = <<x - k, y>>
      BY <1>7, <3>1, <3>3
    <3> QED
      BY <3>2, <3>4
  <2>4. PointRay(ray) = [k \in 1..x |-> <<x - k, y>>]
    BY <2>3 DEF PointRay
  <2> QED
    BY <1>2, <2>1, <2>4 DEF ray, d
<1>10. CASE y = 0
  <2> DEFINE t == Straight(<<0, 0>>, <<0, 1>>)
             h == s \o t
             g == PointRay(ray)
  <2>1. t = [k \in 1..6 |-> <<0, k>>] /\ t \in Seq(RingPoints) /\ Len(t) = 6
    <3>1. t = [k \in 1..6 |-> <<0, k>>]
      BY StraightLanes
    <3>2. <<0, 0>> \in RingPoints /\ <<0, 1>> \in Step
      BY RingCoordinates DEF Step, OnRing, Coord, Inner
    <3>3. t \in Seq(RingPoints)
      BY <3>2, StraightFacts
    <3>4. DOMAIN t = 1..6
      BY <3>1
    <3> HIDE DEF t
    <3>5. Len(t) = 6
      BY <3>3, <3>4, LengthIs
    <3> QED
      BY <3>1, <3>3, <3>5
  <2>2. RookRay(Point(q), d) = h
    <3>1. Len(s) > 0 /\ s[Len(s)] = <<0, 0>>
      BY <1>1, <1>8, <1>10
    <3>2. <<0, 0>> \in Corner /\ Forward(<<0, 0>>) = <<0, 1>>
      BY ForwardNear DEF Corner
    <3>3. d = Forward(Point(q))
      BY <1>1
    <3>4. RookRay(Point(q), d) = s \o Straight(s[Len(s)], Forward(s[Len(s)]))
      BY <1>6, <3>1, <3>2, <3>3
    <3> QED
      BY <3>1, <3>2, <3>4
  <2>3. DOMAIN h = 1..(x + 6) /\ \A k \in 1..(x + 6) : h[k] = IF k <= x THEN <<x - k, 0>>
                                                              ELSE <<0, k - x>>
    <3>1. /\ DOMAIN h = 1..(x + 6)
          /\ \A k \in 1..(x + 6) : h[k] = IF k <= x THEN s[k] ELSE t[k - x]
      <4>1. s \in Seq(RingPoints) /\ t \in Seq(RingPoints) /\ x = Len(s) /\ 6 = Len(t)
        BY <1>3, <1>8, <2>1
      <4> HIDE DEF t, h
      <4>2. Joined(s \o t, s, t, x, 6)
        BY <4>1, JoinIs
      <4> QED
        BY <4>2 DEF h, Joined
    <3>2. \A k \in 1..6 : t[k] = <<0, k>>
      BY <2>1
    <3>3. \A k \in 1..(x + 6) : k <= x => s[k] = <<x - k, 0>>
      BY <1>1, <1>8, <1>10
    <3>4. \A k \in 1..(x + 6) : ~(k <= x) => k - x \in 1..6
      BY <1>1
    <3> HIDE DEF h, t
    <3> QED
      BY <3>1, <3>2, <3>3, <3>4
  <2>4. /\ DOMAIN ray = 1..(x + 7)
        /\ \A k \in 1..(x + 7) : ray[k] = IF k <= x THEN x - k ELSE 8 * (k - x - 1)
    <3>1. ray = back \o left_rook_reflect
      BY <1>1, <1>4, <1>10
    <3>2. left_rook_reflect \in Seq(Nat) /\ 7 = Len(left_rook_reflect)
      BY DEF left_rook_reflect
    <3>3. \A k \in 1..7 : left_rook_reflect[k] = 8 * (k - 1)
      BY DEF left_rook_reflect
    <3>4. /\ DOMAIN ray = 1..(x + 7)
          /\ \A k \in 1..(x + 7) : ray[k] = IF k <= x THEN back[k] ELSE left_rook_reflect[k - x]
      <4>1. back \in Seq(Nat) /\ x = Len(back)
        BY <1>5
      <4>2. Joined(back \o left_rook_reflect, back, left_rook_reflect, x, 7)
        BY <3>2, <4>1, JoinIs
      <4> QED
        BY <3>1, <4>2 DEF Joined
    <3>5. \A k \in 1..(x + 7) : k <= x => back[k] = x - k
      BY <1>1, <1>5, <1>10
    <3>6. \A k \in 1..(x + 7) : ~(k <= x) => k - x \in 1..7
      BY <1>1
    <3> QED
      BY <3>3, <3>4, <3>5, <3>6
  <2>5. \A k \in 1..(x + 7) : Point(ray[k]) = IF k <= x THEN <<x - k, 0>> ELSE <<0, k - x - 1>>
    <3>1. \A k \in 1..(x + 7) : k <= x => Point(ray[k]) = <<x - k, 0>>
      <4>1. \A k \in 1..(x + 7) : k <= x => x - k \in 0..6 /\ ray[k] = x - k
        BY <1>1, <2>4
      <4>2. \A a \in 0..6 : Point(a) = <<a, 0>>
        BY DEF Point, getx, gety
      <4> QED
        BY <4>1, <4>2
    <3>2. \A k \in 1..(x + 7) : ~(k <= x) => Point(ray[k]) = <<0, k - x - 1>>
      <4>1. \A k \in 1..(x + 7) : ~(k <= x) => /\ k - x - 1 \in 0..6
                                               /\ ray[k] = 8 * (k - x - 1)
        BY <1>1, <2>4
      <4>2. \A b \in 0..6 : Point(8 * b) = <<0, b>>
        BY DEF Point, getx, gety
      <4> QED
        BY <4>1, <4>2
    <3> QED
      BY <3>1, <3>2
  <2>6. DOMAIN g = 1..(x + 7) /\ \A k \in 1..(x + 7) : g[k] = Point(ray[k])
    BY <2>4 DEF PointRay
  <2> HIDE DEF g, h
  <2> DEFINE n == x + 6
  <2>7. n \in Nat /\ x \in 1..n /\ n + 1 = x + 7 /\ DOMAIN h = 1..n
    BY <1>1, <2>3
  <2>8. \A k \in 1..x : g[k] = h[k]
    <3>1. \A k \in 1..x : k \in 1..(x + 7) /\ k \in 1..(x + 6) /\ k <= x
      BY <1>1
    <3> QED
      BY <2>3, <2>5, <2>6, <3>1
  <2>9. \A k \in (x + 1)..(n + 1) : g[k] = h[k - 1]
    <3>1. \A k \in (x + 1)..(n + 1) : k \in 1..(x + 7) /\ ~(k <= x) /\ k - 1 \in 1..(x + 6)
      BY <1>1
    <3>2. \A k \in (x + 1)..(n + 1) : g[k] = <<0, k - x - 1>>
      BY <2>5, <2>6, <3>1
    <3>3. \A k \in (x + 1)..(n + 1) : h[k - 1] = <<0, k - x - 1>>
      <4>1. \A k \in (x + 1)..(n + 1) : k - 1 <= x => <<x - (k - 1), 0>> = <<0, k - x - 1>>
        BY <1>1
      <4>2. \A k \in (x + 1)..(n + 1) : <<0, (k - 1) - x>> = <<0, k - x - 1>>
        BY <1>1
      <4> QED
        BY <2>3, <3>1, <4>1, <4>2
    <3> QED
      BY <3>2, <3>3
  <2>10. DOMAIN g = 1..(n + 1)
    BY <2>6, <2>7
  <2> HIDE DEF n
  <2>11. Reached(g, ours, theirs) = Reached(h, ours, theirs)
    BY ZenonT(40), <2>7, <2>8, <2>9, <2>10, ReachedRepeated
  <2> QED
    BY <2>2, <2>11 DEF g, ray, d
<1> QED
  BY <1>1, <1>9, <1>10

(* Up the left side from square 1, the only lane that leads off upwards.   *)
UpRay == [y \in 1..6 |-> pos(1, y)]

LEMMA RookUp ==
  ASSUME NEW ours, NEW theirs
  PROVE  /\ Reached(RookRay(Point(1), <<0, 1>>), ours, theirs) =
              Reached(PointRay(UpRay), ours, theirs)
         /\ StepTo(Point(1), <<0, 1>>) \ ours \subseteq Reached(PointRay(UpRay), ours, theirs)
<1> DEFINE s == Straight(<<1, 0>>, <<0, 1>>)
           d == <<0, 1>>
           p == <<1, 0>>
<1>1. Point(1) = p
  BY DEF Point, getx, gety
<1>2. s = [k \in 1..6 |-> <<1, k>>]
  BY StraightLanes
<1>3. s = PointRay(UpRay)
  <2>1. \A k \in 1..6 : Point(pos(1, k)) = <<1, k>>
    BY DEF Point, pos, getx, gety
  <2> QED
    BY <1>2, <2>1 DEF PointRay, UpRay
<1>4. s \in Seq(RingPoints)
  <2>1. d \in Step /\ p \in RingPoints
    BY RingCoordinates DEF Step, OnRing, Coord, Inner
  <2> QED
    BY <2>1, StraightFacts
<1>5. RookRay(p, d) =
        CASE Len(s) = 0 -> <<>>
          [] Len(s) > 0 /\ d = Forward(p) /\ s[Len(s)] \in Corner
               -> s \o Straight(s[Len(s)], Forward(s[Len(s)]))
          [] Len(s) > 0 /\ d = Forward(p) /\ s[Len(s)] \notin Corner -> s
          [] Len(s) > 0 /\ d # Forward(p) /\ d = Forward(s[1]) -> s
          [] OTHER -> <<s[1]>>
  BY DEF RookRay
<1>6. DOMAIN s = 1..6 /\ s[1] = <<1, 1>>
  BY <1>2
<1> HIDE DEF s
<1>7. Len(s) = 6
  BY <1>4, <1>6, LengthIs
<1>8. RookRay(p, d) = s
  <2>1. d # Forward(p) /\ d = Forward(s[1])
    BY <1>6, ForwardNear
  <2> QED
    BY <1>5, <1>7, <2>1
<1>9. StepTo(p, d) \subseteq {<<1, 1>>}
  BY DEF StepTo, Plus
<1>10. <<1, 1>> \notin ours => <<1, 1>> \in Reached(s, ours, theirs)
  <2>1. 1 \in DOMAIN s /\ \A j \in DOMAIN s : ~(j < 1)
    BY <1>6
  <2> QED
    BY <1>6, <2>1 DEF Reached
<1> QED
  BY <1>1, <1>3, <1>8, <1>9, <1>10

(* The other directions are single steps. *)
LEMMA RookOthers ==
  ASSUME NEW q \in bottom, NEW ours, NEW theirs
  PROVE  /\ q # 1 => Reached(RookRay(Point(q), <<0, 1>>), ours, theirs) =
                       StepTo(Point(q), <<0, 1>>) \ ours
         /\ Reached(RookRay(Point(q), <<0, -1>>), ours, theirs) =
              StepTo(Point(q), <<0, -1>>) \ ours
         /\ Reached(RookRay(Point(q), <<1, 0>>), ours, theirs) =
              StepTo(Point(q), <<1, 0>>) \ ours
<1> DEFINE x == getx(q)
           y == gety(q)
           p == Point(q)
<1>1. /\ x \in 1..6 /\ y \in 0..1 /\ q = 8 * y + x /\ (y = 1 => x \in 2..5)
      /\ p = <<x, y>> /\ p \in RingPoints /\ Forward(p) = <<-1, 0>>
  BY BottomPoints
<1> HIDE DEF x, y, p
<1>2. /\ Plus(p, <<0, 1>>) = <<x, y + 1>> /\ Plus(p, <<0, -1>>) = <<x, y - 1>>
      /\ Plus(p, <<1, 0>>) = <<x + 1, y>>
  BY <1>1 DEF Plus
<1>3. /\ <<0, 1>> \in Orthogonal /\ <<0, -1>> \in Orthogonal /\ <<1, 0>> \in Orthogonal
      /\ <<0, 1>> # <<-1, 0>> /\ <<0, -1>> # <<-1, 0>> /\ <<1, 0>> # <<-1, 0>>
      /\ <<0, -1>> # <<0, 1>> /\ <<0, -1>> # <<1, 0>>
  BY DEF Orthogonal
<1>4. ASSUME q # 1, OnRing(<<x, y + 1>>) PROVE Forward(<<x, y + 1>>) # <<0, 1>>
  <2>1. \/ y + 1 = 1 /\ x \in 2..5
        \/ y + 1 = 1 /\ x = 6
        \/ y + 1 = 2 /\ x = 5
    BY <1>1, <1>4 DEF OnRing, Coord, Inner
  <2> QED
    BY <1>3, <2>1, ForwardNear
<1>5. ASSUME OnRing(<<x, y - 1>>) PROVE Forward(<<x, y - 1>>) # <<0, -1>>
  <2>1. y - 1 = 0
    BY <1>1, <1>5 DEF OnRing, Coord
  <2> QED
    BY <1>1, <1>3, <2>1, ForwardNear
<1>6. ASSUME OnRing(<<x + 1, y>>) PROVE Forward(<<x + 1, y>>) # <<1, 0>>
  <2>1. \/ y = 0 /\ x + 1 \in 1..6
        \/ y = 1 /\ x + 1 \in 2..5
        \/ y = 1 /\ x + 1 = 6
    BY <1>1, <1>6 DEF OnRing, Coord
  <2> QED
    BY <1>3, <2>1, ForwardNear
<1>7. q # 1 => Reached(RookRay(p, <<0, 1>>), ours, theirs) = StepTo(p, <<0, 1>>) \ ours
  BY <1>1, <1>2, <1>3, <1>4, RookStep
<1>8. Reached(RookRay(p, <<0, -1>>), ours, theirs) = StepTo(p, <<0, -1>>) \ ours
  BY <1>1, <1>2, <1>3, <1>5, RookStep
<1>9. Reached(RookRay(p, <<1, 0>>), ours, theirs) = StepTo(p, <<1, 0>>) \ ours
  BY <1>1, <1>2, <1>3, <1>6, RookStep
<1> QED
  BY <1>7, <1>8, <1>9 DEF p

(* Points of joined sets. *)
LEMMA PointsJoin ==
  /\ \A s, t : PointsOf(s \cup t) = PointsOf(s) \cup PointsOf(t)
  /\ PointsOf({}) = {}
BY DEF PointsOf

(* The rook. *)
LEMMA RookPoints ==
  ASSUME NEW q \in bottom, NEW arr, NEW c, NEW ours, NEW theirs,
         Shows(arr, c, ours, theirs), color(arr[q]) = {c}
  PROVE  PointsOf(construct_bottom_rook_moves_with_board(q, arr)) =
           Destinations("ROOK", Point(q), ours, theirs)
<1> DEFINE p == Point(q)
           steps == FreeOf({c}, arr, RookSteps(q))
           up == Sweep({c}, arr, IF q = 1 THEN UpRay ELSE <<>>)
           along == Sweep({c}, arr, LeftRay(q))
           R(d) == Reached(RookRay(p, d), ours, theirs)
<1>1. construct_bottom_rook_moves_with_board(q, arr) = steps \cup up \cup along
  BY DEF construct_bottom_rook_moves_with_board, RookSteps, UpRay
<1>2. PointsOf(steps) = (StepTo(p, <<0, 1>>) \cup StepTo(p, <<0, -1>>)
                           \cup StepTo(p, <<1, 0>>)) \ ours
  BY RookStepPoints, FreePoints
<1>3. PointsOf(along) = R(<<-1, 0>>)
  <2>1. IsRay(LeftRay(q))
    BY RookRays
  <2> QED
    BY <2>1, SweepPoints, RookForward
<1>4. q = 1 => PointsOf(up) = R(<<0, 1>>) /\ StepTo(p, <<0, 1>>) \ ours \subseteq R(<<0, 1>>)
  <2>1. IsRay(UpRay)
    BY RookRays DEF UpRay
  <2> QED
    BY <2>1, SweepPoints, RookUp
<1>5. q # 1 => PointsOf(up) = {} /\ R(<<0, 1>>) = StepTo(p, <<0, 1>>) \ ours
  <2>1. Sweep({c}, arr, <<>>) = {}
    BY DEF Sweep
  <2> QED
    BY <2>1, PointsJoin, RookOthers
<1>6. /\ R(<<0, -1>>) = StepTo(p, <<0, -1>>) \ ours
      /\ R(<<1, 0>>) = StepTo(p, <<1, 0>>) \ ours
  BY RookOthers
<1>7. Destinations("ROOK", p, ours, theirs) =
        R(<<1, 0>>) \cup R(<<-1, 0>>) \cup R(<<0, 1>>) \cup R(<<0, -1>>)
  <2> HIDE DEF R
  <2>1. UNION {R(d) : d \in Orthogonal} =
          R(<<1, 0>>) \cup R(<<-1, 0>>) \cup R(<<0, 1>>) \cup R(<<0, -1>>)
    BY DEF Orthogonal
  <2>2. Destinations("ROOK", p, ours, theirs) = UNION {R(d) : d \in Orthogonal}
    BY DEF Destinations, R
  <2> QED
    BY <2>1, <2>2
<1> HIDE DEF steps, up, along, R, p
<1>8. PointsOf(steps \cup up \cup along) = PointsOf(steps) \cup PointsOf(up) \cup PointsOf(along)
  BY DEF PointsOf
<1>9. CASE q = 1
  BY SMTT(30), <1>1, <1>2, <1>3, <1>4, <1>6, <1>7, <1>8, <1>9 DEF p
<1>10. CASE q # 1
  BY <1>1, <1>2, <1>3, <1>5, <1>6, <1>7, <1>8, <1>10 DEF p
<1> QED
  BY <1>9, <1>10

(* A sequence of known length, written out. *)
LEMMA WrittenOut ==
  ASSUME NEW S, NEW u \in Seq(S)
  PROVE  /\ DOMAIN u = 1..2 => u = <<u[1], u[2]>>
         /\ DOMAIN u = 1..3 => u = <<u[1], u[2], u[3]>>
         /\ DOMAIN u = 1..4 => u = <<u[1], u[2], u[3], u[4]>>
         /\ DOMAIN u = 1..5 => u = <<u[1], u[2], u[3], u[4], u[5]>>
         /\ DOMAIN u = 1..6 => u = <<u[1], u[2], u[3], u[4], u[5], u[6]>>
<1>1. u = [k \in DOMAIN u |-> u[k]]
  OBVIOUS
<1>2. DOMAIN u = 1..2 => u = <<u[1], u[2]>>
  BY <1>1
<1>3. DOMAIN u = 1..3 => u = <<u[1], u[2], u[3]>>
  BY <1>1
<1>4. DOMAIN u = 1..4 => u = <<u[1], u[2], u[3], u[4]>>
  BY <1>1
<1>5. DOMAIN u = 1..5 => u = <<u[1], u[2], u[3], u[4], u[5]>>
  BY <1>1
<1>6. DOMAIN u = 1..6 => u = <<u[1], u[2], u[3], u[4], u[5], u[6]>>
  BY <1>1
<1> QED
  BY <1>2, <1>3, <1>4, <1>5, <1>6

(* Two short rays one after the other, written out. *)
LEMMA Appends ==
  /\ \A a, b : <<a>> \o <<b>> = <<a, b>>
  /\ \A a, b, c : <<a>> \o <<b, c>> = <<a, b, c>>
  /\ \A a, b, c, d : <<a>> \o <<b, c, d>> = <<a, b, c, d>>
  /\ \A a, b, c : <<a, b>> \o <<c>> = <<a, b, c>>
  /\ \A a, b, c, d, e : <<a, b>> \o <<c, d, e>> = <<a, b, c, d, e>>
  /\ \A a, b, c, d, e, f : <<a, b, c>> \o <<d, e, f>> = <<a, b, c, d, e, f>>
<1>1. ASSUME NEW a, NEW b PROVE <<a>> \o <<b>> = <<a, b>>
  <2> DEFINE S == {a, b}
             s == <<a>>
             t == <<b>>
             u == s \o t
  <2>1. s \in Seq(S) /\ t \in Seq(S) /\ 1 = Len(s) /\ 1 = Len(t)
    OBVIOUS
  <2>2. s[1] = a /\ t[1] = b
    OBVIOUS
  <2> HIDE DEF s, t, S
  <2>3. u \in Seq(S) /\ Joined(u, s, t, 1, 1)
    BY <2>1, JoinIs
  <2> HIDE DEF u
  <2>4. /\ DOMAIN u = 1..2 /\ u[1] = s[1]
        /\ u[2] = t[1]
    BY <2>3 DEF Joined
  <2>5. u = <<u[1], u[2]>>
    BY <2>3, <2>4, WrittenOut
  <2> QED
    BY <2>2, <2>4, <2>5 DEF s, t, u
<1>2. ASSUME NEW a, NEW b, NEW c PROVE <<a>> \o <<b, c>> = <<a, b, c>>
  <2> DEFINE S == {a, b, c}
             s == <<a>>
             t == <<b, c>>
             u == s \o t
  <2>1. s \in Seq(S) /\ t \in Seq(S) /\ 1 = Len(s) /\ 2 = Len(t)
    OBVIOUS
  <2>2. s[1] = a /\ t[1] = b /\ t[2] = c
    OBVIOUS
  <2> HIDE DEF s, t, S
  <2>3. u \in Seq(S) /\ Joined(u, s, t, 1, 2)
    BY <2>1, JoinIs
  <2> HIDE DEF u
  <2>4. /\ DOMAIN u = 1..3 /\ u[1] = s[1]
        /\ u[2] = t[1] /\ u[3] = t[2]
    BY <2>3 DEF Joined
  <2>5. u = <<u[1], u[2], u[3]>>
    BY <2>3, <2>4, WrittenOut
  <2> QED
    BY <2>2, <2>4, <2>5 DEF s, t, u
<1>3. ASSUME NEW a, NEW b, NEW c, NEW d PROVE <<a>> \o <<b, c, d>> = <<a, b, c, d>>
  <2> DEFINE S == {a, b, c, d}
             s == <<a>>
             t == <<b, c, d>>
             u == s \o t
  <2>1. s \in Seq(S) /\ t \in Seq(S) /\ 1 = Len(s) /\ 3 = Len(t)
    OBVIOUS
  <2>2. s[1] = a /\ t[1] = b /\ t[2] = c /\ t[3] = d
    OBVIOUS
  <2> HIDE DEF s, t, S
  <2>3. u \in Seq(S) /\ Joined(u, s, t, 1, 3)
    BY <2>1, JoinIs
  <2> HIDE DEF u
  <2>4. /\ DOMAIN u = 1..4 /\ u[1] = s[1]
        /\ u[2] = t[1] /\ u[3] = t[2] /\ u[4] = t[3]
    BY <2>3 DEF Joined
  <2>5. u = <<u[1], u[2], u[3], u[4]>>
    BY <2>3, <2>4, WrittenOut
  <2> QED
    BY <2>2, <2>4, <2>5 DEF s, t, u
<1>4. ASSUME NEW a, NEW b, NEW c PROVE <<a, b>> \o <<c>> = <<a, b, c>>
  <2> DEFINE S == {a, b, c}
             s == <<a, b>>
             t == <<c>>
             u == s \o t
  <2>1. s \in Seq(S) /\ t \in Seq(S) /\ 2 = Len(s) /\ 1 = Len(t)
    OBVIOUS
  <2>2. s[1] = a /\ s[2] = b /\ t[1] = c
    OBVIOUS
  <2> HIDE DEF s, t, S
  <2>3. u \in Seq(S) /\ Joined(u, s, t, 2, 1)
    BY <2>1, JoinIs
  <2> HIDE DEF u
  <2>4. /\ DOMAIN u = 1..3 /\ u[1] = s[1] /\ u[2] = s[2]
        /\ u[3] = t[1]
    BY <2>3 DEF Joined
  <2>5. u = <<u[1], u[2], u[3]>>
    BY <2>3, <2>4, WrittenOut
  <2> QED
    BY <2>2, <2>4, <2>5 DEF s, t, u
<1>5. ASSUME NEW a, NEW b, NEW c, NEW d, NEW e PROVE <<a, b>> \o <<c, d, e>> = <<a, b, c, d, e>>
  <2> DEFINE S == {a, b, c, d, e}
             s == <<a, b>>
             t == <<c, d, e>>
             u == s \o t
  <2>1. s \in Seq(S) /\ t \in Seq(S) /\ 2 = Len(s) /\ 3 = Len(t)
    OBVIOUS
  <2>2. s[1] = a /\ s[2] = b /\ t[1] = c /\ t[2] = d /\ t[3] = e
    OBVIOUS
  <2> HIDE DEF s, t, S
  <2>3. u \in Seq(S) /\ Joined(u, s, t, 2, 3)
    BY <2>1, JoinIs
  <2> HIDE DEF u
  <2>4. /\ DOMAIN u = 1..5 /\ u[1] = s[1] /\ u[2] = s[2]
        /\ u[3] = t[1] /\ u[4] = t[2] /\ u[5] = t[3]
    BY <2>3 DEF Joined
  <2>5. u = <<u[1], u[2], u[3], u[4], u[5]>>
    BY <2>3, <2>4, WrittenOut
  <2> QED
    BY <2>2, <2>4, <2>5 DEF s, t, u
<1>6. ASSUME NEW a, NEW b, NEW c, NEW d, NEW e, NEW f PROVE <<a, b, c>> \o <<d, e, f>> = <<a, b, c, d, e, f>>
  <2> DEFINE S == {a, b, c, d, e, f}
             s == <<a, b, c>>
             t == <<d, e, f>>
             u == s \o t
  <2>1. s \in Seq(S) /\ t \in Seq(S) /\ 3 = Len(s) /\ 3 = Len(t)
    OBVIOUS
  <2>2. s[1] = a /\ s[2] = b /\ s[3] = c /\ t[1] = d /\ t[2] = e /\ t[3] = f
    OBVIOUS
  <2> HIDE DEF s, t, S
  <2>3. u \in Seq(S) /\ Joined(u, s, t, 3, 3)
    BY <2>1, JoinIs
  <2> HIDE DEF u
  <2>4. /\ DOMAIN u = 1..6 /\ u[1] = s[1] /\ u[2] = s[2] /\ u[3] = s[3]
        /\ u[4] = t[1] /\ u[5] = t[2] /\ u[6] = t[3]
    BY <2>3 DEF Joined
  <2>5. u = <<u[1], u[2], u[3], u[4], u[5], u[6]>>
    BY <2>3, <2>4, WrittenOut
  <2> QED
    BY <2>2, <2>4, <2>5 DEF s, t, u
<1> QED
  BY <1>1, <1>2, <1>3, <1>4, <1>5, <1>6

(* A short lane, written out. *)
LEMMA LaneShort ==
  ASSUME NEW x \in Int, NEW y \in Int, NEW i \in Int, NEW j \in Int
  PROVE  /\ Lane(x, y, i, j, 0) = <<>>
         /\ Lane(x, y, i, j, 1) = <<<<x + i, y + j>>>>
         /\ Lane(x, y, i, j, 2) = <<<<x + i, y + j>>, <<x + 2 * i, y + 2 * j>>>>
         /\ Lane(x, y, i, j, 3) =
              <<<<x + i, y + j>>, <<x + 2 * i, y + 2 * j>>, <<x + 3 * i, y + 3 * j>>>>
<1>1. Lane(x, y, i, j, 0) = <<>>
  BY DEF Lane
<1>2. Lane(x, y, i, j, 1) = <<<<x + i, y + j>>>>
  BY DEF Lane
<1>3. Lane(x, y, i, j, 2) = <<<<x + i, y + j>>, <<x + 2 * i, y + 2 * j>>>>
  BY DEF Lane
<1>4. Lane(x, y, i, j, 3) =
        <<<<x + i, y + j>>, <<x + 2 * i, y + 2 * j>>, <<x + 3 * i, y + 3 * j>>>>
  BY DEF Lane
<1> QED
  BY <1>1, <1>2, <1>3, <1>4

(* A diagonal that leaves the board within four steps. *)
LEMMA ShortDiagonal ==
  ASSUME NEW x \in 0..6, NEW y \in 0..6, NEW i \in Int, NEW j \in Int
  PROVE  /\ ~OnRing(<<x + i, y + j>>) => Straight(<<x, y>>, <<i, j>>) = <<>>
         /\ OnRing(<<x + i, y + j>>) /\ ~OnRing(<<x + 2 * i, y + 2 * j>>) =>
              Straight(<<x, y>>, <<i, j>>) = <<<<x + i, y + j>>>>
         /\ /\ OnRing(<<x + i, y + j>>) /\ OnRing(<<x + 2 * i, y + 2 * j>>)
            /\ ~OnRing(<<x + 3 * i, y + 3 * j>>)
            => Straight(<<x, y>>, <<i, j>>) =
                 <<<<x + i, y + j>>, <<x + 2 * i, y + 2 * j>>>>
         /\ /\ OnRing(<<x + i, y + j>>) /\ OnRing(<<x + 2 * i, y + 2 * j>>)
            /\ OnRing(<<x + 3 * i, y + 3 * j>>) /\ ~OnRing(<<x + 4 * i, y + 4 * j>>)
            => Straight(<<x, y>>, <<i, j>>) =
                 <<<<x + i, y + j>>, <<x + 2 * i, y + 2 * j>>, <<x + 3 * i, y + 3 * j>>>>
<1> DEFINE at(k) == <<x + k * i, y + k * j>>
<1>1. /\ at(1) = <<x + i, y + j>> /\ at(2) = <<x + 2 * i, y + 2 * j>>
      /\ at(3) = <<x + 3 * i, y + 3 * j>> /\ at(4) = <<x + 4 * i, y + 4 * j>>
  OBVIOUS
<1>2. ASSUME NEW n \in 0..3, \A k \in 1..n : OnRing(at(k)), ~OnRing(at(n + 1))
      PROVE  Straight(<<x, y>>, <<i, j>>) = Lane(x, y, i, j, n)
  <2>1. n \in 0..6 /\ x \in Int /\ y \in Int
    BY <1>2
  <2>2. LaneEnds(x, y, i, j, n)
    BY <1>2, <2>1, Zenon DEF LaneEnds
  <2> QED
    BY <2>2, StraightIs
<1> HIDE DEF at
<1>3. ~OnRing(at(1)) => Straight(<<x, y>>, <<i, j>>) = Lane(x, y, i, j, 0)
  <2>1. 0 \in 0..3 /\ 1..0 = {} /\ 0 + 1 = 1
    OBVIOUS
  <2> QED
    BY <1>2, <2>1
<1>4. OnRing(at(1)) /\ ~OnRing(at(2)) => Straight(<<x, y>>, <<i, j>>) = Lane(x, y, i, j, 1)
  <2>1. 1 \in 0..3 /\ 1..1 = {1} /\ 1 + 1 = 2
    OBVIOUS
  <2> QED
    BY <1>2, <2>1
<1>5. OnRing(at(1)) /\ OnRing(at(2)) /\ ~OnRing(at(3)) =>
        Straight(<<x, y>>, <<i, j>>) = Lane(x, y, i, j, 2)
  <2>1. 2 \in 0..3 /\ 1..2 = {1, 2} /\ 2 + 1 = 3
    OBVIOUS
  <2> QED
    BY <1>2, <2>1
<1>6. OnRing(at(1)) /\ OnRing(at(2)) /\ OnRing(at(3)) /\ ~OnRing(at(4)) =>
        Straight(<<x, y>>, <<i, j>>) = Lane(x, y, i, j, 3)
  <2>1. 3 \in 0..3 /\ 1..3 = {1, 2, 3} /\ 3 + 1 = 4
    OBVIOUS
  <2> QED
    BY <1>2, <2>1
<1>7. x \in Int /\ y \in Int
  OBVIOUS
<1>8. /\ Lane(x, y, i, j, 0) = <<>>
      /\ Lane(x, y, i, j, 1) = <<at(1)>>
      /\ Lane(x, y, i, j, 2) = <<at(1), at(2)>>
      /\ Lane(x, y, i, j, 3) = <<at(1), at(2), at(3)>>
  <2>1. /\ Lane(x, y, i, j, 0) = <<>>
        /\ Lane(x, y, i, j, 1) = <<<<x + i, y + j>>>>
        /\ Lane(x, y, i, j, 2) = <<<<x + i, y + j>>, <<x + 2 * i, y + 2 * j>>>>
        /\ Lane(x, y, i, j, 3) =
             <<<<x + i, y + j>>, <<x + 2 * i, y + 2 * j>>, <<x + 3 * i, y + 3 * j>>>>
    BY <1>7, LaneShort
  <2> QED
    BY <1>1, <2>1
<1> QED
  BY <1>1, <1>3, <1>4, <1>5, <1>6, <1>8


(* Up and to the left. *)
LEMMA UpLeft ==
  /\ Straight(<<1, 0>>, <<-1, 1>>) = <<<<0, 1>>>>
  /\ Straight(<<2, 0>>, <<-1, 1>>) = <<<<1, 1>>, <<0, 2>>>>
  /\ Straight(<<3, 0>>, <<-1, 1>>) = <<<<2, 1>>, <<1, 2>>, <<0, 3>>>>
  /\ Straight(<<4, 0>>, <<-1, 1>>) = <<<<3, 1>>>>
  /\ Straight(<<5, 0>>, <<-1, 1>>) = <<<<4, 1>>>>
  /\ Straight(<<6, 0>>, <<-1, 1>>) = <<<<5, 1>>>>
  /\ Straight(<<2, 1>>, <<-1, 1>>) = <<<<1, 2>>, <<0, 3>>>>
  /\ Straight(<<3, 1>>, <<-1, 1>>) = <<>>
  /\ Straight(<<4, 1>>, <<-1, 1>>) = <<>>
  /\ Straight(<<5, 1>>, <<-1, 1>>) = <<>>
<1> DEFINE i == -1
           j == 1
<1>1. /\ i \in Int /\ j \in Int
      /\ \A k \in 0..6, n \in 1..4 : k + n * i = k - n /\ k + n * j = k + n
  OBVIOUS
<1> HIDE DEF i, j
<1>2. Straight(<<1, 0>>, <<i, j>>) = <<<<0, 1>>>>
  <2>1. OnRing(<<0, 1>>) /\ ~OnRing(<<-1, 2>>)
    BY DEF OnRing, Coord, Inner
  <2>2. /\ 1 + i = 0 /\ 0 + j = 1
        /\ 1 + 2 * i = -1 /\ 0 + 2 * j = 2
    BY <1>1
  <2>3. 1 \in 0..6 /\ 0 \in 0..6
    OBVIOUS
  <2>4. /\ OnRing(<<1 + i, 0 + j>>)
        /\ ~OnRing(<<1 + 2 * i, 0 + 2 * j>>)
        => Straight(<<1, 0>>, <<i, j>>) = <<<<1 + i, 0 + j>>>>
    BY <1>1, <2>3, ShortDiagonal
  <2> QED
    BY <2>1, <2>2, <2>4
<1>3. Straight(<<2, 0>>, <<i, j>>) = <<<<1, 1>>, <<0, 2>>>>
  <2>1. OnRing(<<1, 1>>) /\ OnRing(<<0, 2>>) /\ ~OnRing(<<-1, 3>>)
    BY DEF OnRing, Coord, Inner
  <2>2. /\ 2 + i = 1 /\ 0 + j = 1
        /\ 2 + 2 * i = 0 /\ 0 + 2 * j = 2
        /\ 2 + 3 * i = -1 /\ 0 + 3 * j = 3
    BY <1>1
  <2>3. 2 \in 0..6 /\ 0 \in 0..6
    OBVIOUS
  <2>4. /\ OnRing(<<2 + i, 0 + j>>)
        /\ OnRing(<<2 + 2 * i, 0 + 2 * j>>)
        /\ ~OnRing(<<2 + 3 * i, 0 + 3 * j>>)
        => Straight(<<2, 0>>, <<i, j>>) = <<<<2 + i, 0 + j>>, <<2 + 2 * i, 0 + 2 * j>>>>
    BY <1>1, <2>3, ShortDiagonal
  <2> QED
    BY <2>1, <2>2, <2>4
<1>4. Straight(<<3, 0>>, <<i, j>>) = <<<<2, 1>>, <<1, 2>>, <<0, 3>>>>
  <2>1. OnRing(<<2, 1>>) /\ OnRing(<<1, 2>>) /\ OnRing(<<0, 3>>) /\ ~OnRing(<<-1, 4>>)
    BY DEF OnRing, Coord, Inner
  <2>2. /\ 3 + i = 2 /\ 0 + j = 1
        /\ 3 + 2 * i = 1 /\ 0 + 2 * j = 2
        /\ 3 + 3 * i = 0 /\ 0 + 3 * j = 3
        /\ 3 + 4 * i = -1 /\ 0 + 4 * j = 4
    BY <1>1
  <2>3. 3 \in 0..6 /\ 0 \in 0..6
    OBVIOUS
  <2>4. /\ OnRing(<<3 + i, 0 + j>>)
        /\ OnRing(<<3 + 2 * i, 0 + 2 * j>>)
        /\ OnRing(<<3 + 3 * i, 0 + 3 * j>>)
        /\ ~OnRing(<<3 + 4 * i, 0 + 4 * j>>)
        => Straight(<<3, 0>>, <<i, j>>) = <<<<3 + i, 0 + j>>, <<3 + 2 * i, 0 + 2 * j>>, <<3 + 3 * i, 0 + 3 * j>>>>
    BY <1>1, <2>3, ShortDiagonal
  <2> QED
    BY <2>1, <2>2, <2>4
<1>5. Straight(<<4, 0>>, <<i, j>>) = <<<<3, 1>>>>
  <2>1. OnRing(<<3, 1>>) /\ ~OnRing(<<2, 2>>)
    BY DEF OnRing, Coord, Inner
  <2>2. /\ 4 + i = 3 /\ 0 + j = 1
        /\ 4 + 2 * i = 2 /\ 0 + 2 * j = 2
    BY <1>1
  <2>3. 4 \in 0..6 /\ 0 \in 0..6
    OBVIOUS
  <2>4. /\ OnRing(<<4 + i, 0 + j>>)
        /\ ~OnRing(<<4 + 2 * i, 0 + 2 * j>>)
        => Straight(<<4, 0>>, <<i, j>>) = <<<<4 + i, 0 + j>>>>
    BY <1>1, <2>3, ShortDiagonal
  <2> QED
    BY <2>1, <2>2, <2>4
<1>6. Straight(<<5, 0>>, <<i, j>>) = <<<<4, 1>>>>
  <2>1. OnRing(<<4, 1>>) /\ ~OnRing(<<3, 2>>)
    BY DEF OnRing, Coord, Inner
  <2>2. /\ 5 + i = 4 /\ 0 + j = 1
        /\ 5 + 2 * i = 3 /\ 0 + 2 * j = 2
    BY <1>1
  <2>3. 5 \in 0..6 /\ 0 \in 0..6
    OBVIOUS
  <2>4. /\ OnRing(<<5 + i, 0 + j>>)
        /\ ~OnRing(<<5 + 2 * i, 0 + 2 * j>>)
        => Straight(<<5, 0>>, <<i, j>>) = <<<<5 + i, 0 + j>>>>
    BY <1>1, <2>3, ShortDiagonal
  <2> QED
    BY <2>1, <2>2, <2>4
<1>7. Straight(<<6, 0>>, <<i, j>>) = <<<<5, 1>>>>
  <2>1. OnRing(<<5, 1>>) /\ ~OnRing(<<4, 2>>)
    BY DEF OnRing, Coord, Inner
  <2>2. /\ 6 + i = 5 /\ 0 + j = 1
        /\ 6 + 2 * i = 4 /\ 0 + 2 * j = 2
    BY <1>1
  <2>3. 6 \in 0..6 /\ 0 \in 0..6
    OBVIOUS
  <2>4. /\ OnRing(<<6 + i, 0 + j>>)
        /\ ~OnRing(<<6 + 2 * i, 0 + 2 * j>>)
        => Straight(<<6, 0>>, <<i, j>>) = <<<<6 + i, 0 + j>>>>
    BY <1>1, <2>3, ShortDiagonal
  <2> QED
    BY <2>1, <2>2, <2>4
<1>8. Straight(<<2, 1>>, <<i, j>>) = <<<<1, 2>>, <<0, 3>>>>
  <2>1. OnRing(<<1, 2>>) /\ OnRing(<<0, 3>>) /\ ~OnRing(<<-1, 4>>)
    BY DEF OnRing, Coord, Inner
  <2>2. /\ 2 + i = 1 /\ 1 + j = 2
        /\ 2 + 2 * i = 0 /\ 1 + 2 * j = 3
        /\ 2 + 3 * i = -1 /\ 1 + 3 * j = 4
    BY <1>1
  <2>3. 2 \in 0..6 /\ 1 \in 0..6
    OBVIOUS
  <2>4. /\ OnRing(<<2 + i, 1 + j>>)
        /\ OnRing(<<2 + 2 * i, 1 + 2 * j>>)
        /\ ~OnRing(<<2 + 3 * i, 1 + 3 * j>>)
        => Straight(<<2, 1>>, <<i, j>>) = <<<<2 + i, 1 + j>>, <<2 + 2 * i, 1 + 2 * j>>>>
    BY <1>1, <2>3, ShortDiagonal
  <2> QED
    BY <2>1, <2>2, <2>4
<1>9. Straight(<<3, 1>>, <<i, j>>) = <<>>
  <2>1. ~OnRing(<<2, 2>>)
    BY DEF OnRing, Coord, Inner
  <2>2. /\ 3 + i = 2 /\ 1 + j = 2
    BY <1>1
  <2>3. 3 \in 0..6 /\ 1 \in 0..6
    OBVIOUS
  <2>4. ~OnRing(<<3 + i, 1 + j>>) => Straight(<<3, 1>>, <<i, j>>) = <<>>
    BY <1>1, <2>3, ShortDiagonal
  <2> QED
    BY <2>1, <2>2, <2>4
<1>10. Straight(<<4, 1>>, <<i, j>>) = <<>>
  <2>1. ~OnRing(<<3, 2>>)
    BY DEF OnRing, Coord, Inner
  <2>2. /\ 4 + i = 3 /\ 1 + j = 2
    BY <1>1
  <2>3. 4 \in 0..6 /\ 1 \in 0..6
    OBVIOUS
  <2>4. ~OnRing(<<4 + i, 1 + j>>) => Straight(<<4, 1>>, <<i, j>>) = <<>>
    BY <1>1, <2>3, ShortDiagonal
  <2> QED
    BY <2>1, <2>2, <2>4
<1>11. Straight(<<5, 1>>, <<i, j>>) = <<>>
  <2>1. ~OnRing(<<4, 2>>)
    BY DEF OnRing, Coord, Inner
  <2>2. /\ 5 + i = 4 /\ 1 + j = 2
    BY <1>1
  <2>3. 5 \in 0..6 /\ 1 \in 0..6
    OBVIOUS
  <2>4. ~OnRing(<<5 + i, 1 + j>>) => Straight(<<5, 1>>, <<i, j>>) = <<>>
    BY <1>1, <2>3, ShortDiagonal
  <2> QED
    BY <2>1, <2>2, <2>4
<1> QED
  BY <1>2, <1>3, <1>4, <1>5, <1>6, <1>7, <1>8, <1>9, <1>10, <1>11 DEF i, j

(* Down and to the left. *)
LEMMA DownLeft ==
  /\ Straight(<<1, 0>>, <<-1, -1>>) = <<>>
  /\ Straight(<<2, 0>>, <<-1, -1>>) = <<>>
  /\ Straight(<<3, 0>>, <<-1, -1>>) = <<>>
  /\ Straight(<<4, 0>>, <<-1, -1>>) = <<>>
  /\ Straight(<<5, 0>>, <<-1, -1>>) = <<>>
  /\ Straight(<<6, 0>>, <<-1, -1>>) = <<>>
  /\ Straight(<<2, 1>>, <<-1, -1>>) = <<<<1, 0>>>>
  /\ Straight(<<3, 1>>, <<-1, -1>>) = <<<<2, 0>>>>
  /\ Straight(<<4, 1>>, <<-1, -1>>) = <<<<3, 0>>>>
  /\ Straight(<<5, 1>>, <<-1, -1>>) = <<<<4, 0>>>>
<1> DEFINE i == -1
           j == -1
<1>1. /\ i \in Int /\ j \in Int
      /\ \A k \in 0..6, n \in 1..4 : k + n * i = k - n /\ k + n * j = k - n
  OBVIOUS
<1> HIDE DEF i, j
<1>2. Straight(<<1, 0>>, <<i, j>>) = <<>>
  <2>1. ~OnRing(<<0, -1>>)
    BY DEF OnRing, Coord, Inner
  <2>2. /\ 1 + i = 0 /\ 0 + j = -1
    BY <1>1
  <2>3. 1 \in 0..6 /\ 0 \in 0..6
    OBVIOUS
  <2>4. ~OnRing(<<1 + i, 0 + j>>) => Straight(<<1, 0>>, <<i, j>>) = <<>>
    BY <1>1, <2>3, ShortDiagonal
  <2> QED
    BY <2>1, <2>2, <2>4
<1>3. Straight(<<2, 0>>, <<i, j>>) = <<>>
  <2>1. ~OnRing(<<1, -1>>)
    BY DEF OnRing, Coord, Inner
  <2>2. /\ 2 + i = 1 /\ 0 + j = -1
    BY <1>1
  <2>3. 2 \in 0..6 /\ 0 \in 0..6
    OBVIOUS
  <2>4. ~OnRing(<<2 + i, 0 + j>>) => Straight(<<2, 0>>, <<i, j>>) = <<>>
    BY <1>1, <2>3, ShortDiagonal
  <2> QED
    BY <2>1, <2>2, <2>4
<1>4. Straight(<<3, 0>>, <<i, j>>) = <<>>
  <2>1. ~OnRing(<<2, -1>>)
    BY DEF OnRing, Coord, Inner
  <2>2. /\ 3 + i = 2 /\ 0 + j = -1
    BY <1>1
  <2>3. 3 \in 0..6 /\ 0 \in 0..6
    OBVIOUS
  <2>4. ~OnRing(<<3 + i, 0 + j>>) => Straight(<<3, 0>>, <<i, j>>) = <<>>
    BY <1>1, <2>3, ShortDiagonal
  <2> QED
    BY <2>1, <2>2, <2>4
<1>5. Straight(<<4, 0>>, <<i, j>>) = <<>>
  <2>1. ~OnRing(<<3, -1>>)
    BY DEF OnRing, Coord, Inner
  <2>2. /\ 4 + i = 3 /\ 0 + j = -1
    BY <1>1
  <2>3. 4 \in 0..6 /\ 0 \in 0..6
    OBVIOUS
  <2>4. ~OnRing(<<4 + i, 0 + j>>) => Straight(<<4, 0>>, <<i, j>>) = <<>>
    BY <1>1, <2>3, ShortDiagonal
  <2> QED
    BY <2>1, <2>2, <2>4
<1>6. Straight(<<5, 0>>, <<i, j>>) = <<>>
  <2>1. ~OnRing(<<4, -1>>)
    BY DEF OnRing, Coord, Inner
  <2>2. /\ 5 + i = 4 /\ 0 + j = -1
    BY <1>1
  <2>3. 5 \in 0..6 /\ 0 \in 0..6
    OBVIOUS
  <2>4. ~OnRing(<<5 + i, 0 + j>>) => Straight(<<5, 0>>, <<i, j>>) = <<>>
    BY <1>1, <2>3, ShortDiagonal
  <2> QED
    BY <2>1, <2>2, <2>4
<1>7. Straight(<<6, 0>>, <<i, j>>) = <<>>
  <2>1. ~OnRing(<<5, -1>>)
    BY DEF OnRing, Coord, Inner
  <2>2. /\ 6 + i = 5 /\ 0 + j = -1
    BY <1>1
  <2>3. 6 \in 0..6 /\ 0 \in 0..6
    OBVIOUS
  <2>4. ~OnRing(<<6 + i, 0 + j>>) => Straight(<<6, 0>>, <<i, j>>) = <<>>
    BY <1>1, <2>3, ShortDiagonal
  <2> QED
    BY <2>1, <2>2, <2>4
<1>8. Straight(<<2, 1>>, <<i, j>>) = <<<<1, 0>>>>
  <2>1. OnRing(<<1, 0>>) /\ ~OnRing(<<0, -1>>)
    BY DEF OnRing, Coord, Inner
  <2>2. /\ 2 + i = 1 /\ 1 + j = 0
        /\ 2 + 2 * i = 0 /\ 1 + 2 * j = -1
    BY <1>1
  <2>3. 2 \in 0..6 /\ 1 \in 0..6
    OBVIOUS
  <2>4. /\ OnRing(<<2 + i, 1 + j>>)
        /\ ~OnRing(<<2 + 2 * i, 1 + 2 * j>>)
        => Straight(<<2, 1>>, <<i, j>>) = <<<<2 + i, 1 + j>>>>
    BY <1>1, <2>3, ShortDiagonal
  <2> QED
    BY <2>1, <2>2, <2>4
<1>9. Straight(<<3, 1>>, <<i, j>>) = <<<<2, 0>>>>
  <2>1. OnRing(<<2, 0>>) /\ ~OnRing(<<1, -1>>)
    BY DEF OnRing, Coord, Inner
  <2>2. /\ 3 + i = 2 /\ 1 + j = 0
        /\ 3 + 2 * i = 1 /\ 1 + 2 * j = -1
    BY <1>1
  <2>3. 3 \in 0..6 /\ 1 \in 0..6
    OBVIOUS
  <2>4. /\ OnRing(<<3 + i, 1 + j>>)
        /\ ~OnRing(<<3 + 2 * i, 1 + 2 * j>>)
        => Straight(<<3, 1>>, <<i, j>>) = <<<<3 + i, 1 + j>>>>
    BY <1>1, <2>3, ShortDiagonal
  <2> QED
    BY <2>1, <2>2, <2>4
<1>10. Straight(<<4, 1>>, <<i, j>>) = <<<<3, 0>>>>
  <2>1. OnRing(<<3, 0>>) /\ ~OnRing(<<2, -1>>)
    BY DEF OnRing, Coord, Inner
  <2>2. /\ 4 + i = 3 /\ 1 + j = 0
        /\ 4 + 2 * i = 2 /\ 1 + 2 * j = -1
    BY <1>1
  <2>3. 4 \in 0..6 /\ 1 \in 0..6
    OBVIOUS
  <2>4. /\ OnRing(<<4 + i, 1 + j>>)
        /\ ~OnRing(<<4 + 2 * i, 1 + 2 * j>>)
        => Straight(<<4, 1>>, <<i, j>>) = <<<<4 + i, 1 + j>>>>
    BY <1>1, <2>3, ShortDiagonal
  <2> QED
    BY <2>1, <2>2, <2>4
<1>11. Straight(<<5, 1>>, <<i, j>>) = <<<<4, 0>>>>
  <2>1. OnRing(<<4, 0>>) /\ ~OnRing(<<3, -1>>)
    BY DEF OnRing, Coord, Inner
  <2>2. /\ 5 + i = 4 /\ 1 + j = 0
        /\ 5 + 2 * i = 3 /\ 1 + 2 * j = -1
    BY <1>1
  <2>3. 5 \in 0..6 /\ 1 \in 0..6
    OBVIOUS
  <2>4. /\ OnRing(<<5 + i, 1 + j>>)
        /\ ~OnRing(<<5 + 2 * i, 1 + 2 * j>>)
        => Straight(<<5, 1>>, <<i, j>>) = <<<<5 + i, 1 + j>>>>
    BY <1>1, <2>3, ShortDiagonal
  <2> QED
    BY <2>1, <2>2, <2>4
<1> QED
  BY <1>2, <1>3, <1>4, <1>5, <1>6, <1>7, <1>8, <1>9, <1>10, <1>11 DEF i, j

(* Up and to the right, from the left edge. *)
LEMMA UpRight ==
  /\ Straight(<<0, 1>>, <<1, 1>>) = <<<<1, 2>>>>
  /\ Straight(<<0, 2>>, <<1, 1>>) = <<<<1, 3>>>>
  /\ Straight(<<0, 3>>, <<1, 1>>) = <<<<1, 4>>, <<2, 5>>, <<3, 6>>>>
<1> DEFINE i == 1
           j == 1
<1>1. /\ i \in Int /\ j \in Int
      /\ \A k \in 0..6, n \in 1..4 : k + n * i = k + n /\ k + n * j = k + n
  OBVIOUS
<1> HIDE DEF i, j
<1>2. Straight(<<0, 1>>, <<i, j>>) = <<<<1, 2>>>>
  <2>1. OnRing(<<1, 2>>) /\ ~OnRing(<<2, 3>>)
    BY DEF OnRing, Coord, Inner
  <2>2. /\ 0 + i = 1 /\ 1 + j = 2
        /\ 0 + 2 * i = 2 /\ 1 + 2 * j = 3
    BY <1>1
  <2>3. 0 \in 0..6 /\ 1 \in 0..6
    OBVIOUS
  <2>4. /\ OnRing(<<0 + i, 1 + j>>)
        /\ ~OnRing(<<0 + 2 * i, 1 + 2 * j>>)
        => Straight(<<0, 1>>, <<i, j>>) = <<<<0 + i, 1 + j>>>>
    BY <1>1, <2>3, ShortDiagonal
  <2> QED
    BY <2>1, <2>2, <2>4
<1>3. Straight(<<0, 2>>, <<i, j>>) = <<<<1, 3>>>>
  <2>1. OnRing(<<1, 3>>) /\ ~OnRing(<<2, 4>>)
    BY DEF OnRing, Coord, Inner
  <2>2. /\ 0 + i = 1 /\ 2 + j = 3
        /\ 0 + 2 * i = 2 /\ 2 + 2 * j = 4
    BY <1>1
  <2>3. 0 \in 0..6 /\ 2 \in 0..6
    OBVIOUS
  <2>4. /\ OnRing(<<0 + i, 2 + j>>)
        /\ ~OnRing(<<0 + 2 * i, 2 + 2 * j>>)
        => Straight(<<0, 2>>, <<i, j>>) = <<<<0 + i, 2 + j>>>>
    BY <1>1, <2>3, ShortDiagonal
  <2> QED
    BY <2>1, <2>2, <2>4
<1>4. Straight(<<0, 3>>, <<i, j>>) = <<<<1, 4>>, <<2, 5>>, <<3, 6>>>>
  <2>1. OnRing(<<1, 4>>) /\ OnRing(<<2, 5>>) /\ OnRing(<<3, 6>>) /\ ~OnRing(<<4, 7>>)
    BY DEF OnRing, Coord, Inner
  <2>2. /\ 0 + i = 1 /\ 3 + j = 4
        /\ 0 + 2 * i = 2 /\ 3 + 2 * j = 5
        /\ 0 + 3 * i = 3 /\ 3 + 3 * j = 6
        /\ 0 + 4 * i = 4 /\ 3 + 4 * j = 7
    BY <1>1
  <2>3. 0 \in 0..6 /\ 3 \in 0..6
    OBVIOUS
  <2>4. /\ OnRing(<<0 + i, 3 + j>>)
        /\ OnRing(<<0 + 2 * i, 3 + 2 * j>>)
        /\ OnRing(<<0 + 3 * i, 3 + 3 * j>>)
        /\ ~OnRing(<<0 + 4 * i, 3 + 4 * j>>)
        => Straight(<<0, 3>>, <<i, j>>) = <<<<0 + i, 3 + j>>, <<0 + 2 * i, 3 + 2 * j>>, <<0 + 3 * i, 3 + 3 * j>>>>
    BY <1>1, <2>3, ShortDiagonal
  <2> QED
    BY <2>1, <2>2, <2>4
<1> QED
  BY <1>2, <1>3, <1>4 DEF i, j

(* The square where a diagonal from p ends. *)
Ends(s, p, last) == last = (IF s = <<>> THEN p ELSE s[Len(s)])

LEMMA LastOf ==
  ASSUME NEW a, NEW b, NEW c, NEW p
  PROVE  /\ Ends(<<>>, p, p) /\ Ends(<<a>>, p, a)
         /\ Ends(<<a, b>>, p, b) /\ Ends(<<a, b, c>>, p, c)
BY DEF Ends

(* A bishop's walk by its first diagonal s: it bounces off a wall on one   *)
(* side of the square where the diagonal ends.                             *)
LEMMA Bounce ==
  ASSUME NEW p, NEW i \in Int, NEW j \in Int, NEW s, NEW u \in Int, NEW v \in Int,
         Straight(p, <<i, j>>) = s, Ends(s, p, <<u, v>>)
  PROVE  \A a, b \in Int : a = u + i /\ b = v + j =>
           /\ OnRing(<<a, v>>) /\ ~OnRing(<<u, b>>) =>
                Walk(p, <<i, j>>) = s \o Straight(<<u, v>>, <<i, -j>>)
           /\ ~OnRing(<<a, v>>) /\ OnRing(<<u, b>>) =>
                Walk(p, <<i, j>>) = s \o Straight(<<u, v>>, <<-i, j>>)
           /\ OnRing(<<a, v>>) /\ OnRing(<<u, b>>) => Walk(p, <<i, j>>) = s
<1> DEFINE d == <<i, j>>
           last == <<u, v>>
           across == OnRing(<<last[1] + d[1], last[2]>>)
           along == OnRing(<<last[1], last[2] + d[2]>>)
<1>1. Walk(p, d) = CASE across /\ ~along -> s \o Straight(last, <<d[1], -d[2]>>)
                     [] along /\ ~across -> s \o Straight(last, <<-d[1], d[2]>>)
                     [] OTHER            -> s
  BY DEF Walk, Ends
<1>2. across = OnRing(<<u + i, v>>) /\ along = OnRing(<<u, v + j>>)
  OBVIOUS
<1> QED
  BY <1>1, <1>2

(* The negations of the directions of a diagonal. *)
LEMMA Negations == -1 \in Int /\ 1 \in Int /\ -(-1) = 1
<1> DEFINE i == -1
<1>1. i \in Int /\ i + 1 = 0
  OBVIOUS
<1> HIDE DEF i
<1>2. i \in Int /\ -i = 1
  BY <1>1
<1> QED
  BY <1>2 DEF i

(* Walks that start up and to the left. *)
LEMMA UpLeftWalks ==
  /\ Walk(<<1, 0>>, <<-1, 1>>) = <<<<0, 1>>, <<1, 2>>>>
  /\ Walk(<<2, 0>>, <<-1, 1>>) = <<<<1, 1>>, <<0, 2>>, <<1, 3>>>>
  /\ Walk(<<3, 0>>, <<-1, 1>>) = <<<<2, 1>>, <<1, 2>>, <<0, 3>>, <<1, 4>>, <<2, 5>>, <<3, 6>>>>
  /\ Walk(<<4, 0>>, <<-1, 1>>) = <<<<3, 1>>, <<2, 0>>>>
  /\ Walk(<<5, 0>>, <<-1, 1>>) = <<<<4, 1>>, <<3, 0>>>>
  /\ Walk(<<6, 0>>, <<-1, 1>>) = <<<<5, 1>>>>
  /\ Walk(<<2, 1>>, <<-1, 1>>) = <<<<1, 2>>, <<0, 3>>, <<1, 4>>, <<2, 5>>, <<3, 6>>>>
  /\ Walk(<<5, 1>>, <<-1, 1>>) = <<>>
<1>1. Walk(<<1, 0>>, <<-1, 1>>) = <<<<0, 1>>, <<1, 2>>>>
  <2>1. /\ 0 \in Int /\ 1 \in Int /\ -1 = 0 + (-1) /\ 2 = 1 + 1
        /\ -1 \in Int /\ 2 \in Int
        /\ ~OnRing(<<-1, 1>>) /\ OnRing(<<0, 2>>)
    BY DEF OnRing, Coord, Inner
  <2>2. /\ Straight(<<1, 0>>, <<-1, 1>>) = <<<<0, 1>>>>
        /\ Straight(<<0, 1>>, <<1, 1>>) = <<<<1, 2>>>>
    BY UpLeft, UpRight
  <2>3. Ends(<<<<0, 1>>>>, <<1, 0>>, <<0, 1>>)
    BY LastOf
  <2>4. Walk(<<1, 0>>, <<-1, 1>>) = <<<<0, 1>>>> \o <<<<1, 2>>>>
    BY <2>1, <2>2, <2>3, Negations, Bounce
  <2>5. <<<<0, 1>>>> \o <<<<1, 2>>>> = <<<<0, 1>>, <<1, 2>>>>
    BY Appends
  <2> QED
    BY <2>4, <2>5
<1>2. Walk(<<2, 0>>, <<-1, 1>>) = <<<<1, 1>>, <<0, 2>>, <<1, 3>>>>
  <2>1. /\ 0 \in Int /\ 2 \in Int /\ -1 = 0 + (-1) /\ 3 = 2 + 1
        /\ -1 \in Int /\ 3 \in Int
        /\ ~OnRing(<<-1, 2>>) /\ OnRing(<<0, 3>>)
    BY DEF OnRing, Coord, Inner
  <2>2. /\ Straight(<<2, 0>>, <<-1, 1>>) = <<<<1, 1>>, <<0, 2>>>>
        /\ Straight(<<0, 2>>, <<1, 1>>) = <<<<1, 3>>>>
    BY UpLeft, UpRight
  <2>3. Ends(<<<<1, 1>>, <<0, 2>>>>, <<2, 0>>, <<0, 2>>)
    BY LastOf
  <2>4. Walk(<<2, 0>>, <<-1, 1>>) = <<<<1, 1>>, <<0, 2>>>> \o <<<<1, 3>>>>
    BY <2>1, <2>2, <2>3, Negations, Bounce
  <2>5. <<<<1, 1>>, <<0, 2>>>> \o <<<<1, 3>>>> = <<<<1, 1>>, <<0, 2>>, <<1, 3>>>>
    BY Appends
  <2> QED
    BY <2>4, <2>5
<1>3. Walk(<<3, 0>>, <<-1, 1>>) = <<<<2, 1>>, <<1, 2>>, <<0, 3>>, <<1, 4>>, <<2, 5>>, <<3, 6>>>>
  <2>1. /\ 0 \in Int /\ 3 \in Int /\ -1 = 0 + (-1) /\ 4 = 3 + 1
        /\ -1 \in Int /\ 4 \in Int
        /\ ~OnRing(<<-1, 3>>) /\ OnRing(<<0, 4>>)
    BY DEF OnRing, Coord, Inner
  <2>2. /\ Straight(<<3, 0>>, <<-1, 1>>) = <<<<2, 1>>, <<1, 2>>, <<0, 3>>>>
        /\ Straight(<<0, 3>>, <<1, 1>>) = <<<<1, 4>>, <<2, 5>>, <<3, 6>>>>
    BY UpLeft, UpRight
  <2>3. Ends(<<<<2, 1>>, <<1, 2>>, <<0, 3>>>>, <<3, 0>>, <<0, 3>>)
    BY LastOf
  <2>4. Walk(<<3, 0>>, <<-1, 1>>) = <<<<2, 1>>, <<1, 2>>, <<0, 3>>>> \o <<<<1, 4>>, <<2, 5>>, <<3, 6>>>>
    BY <2>1, <2>2, <2>3, Negations, Bounce
  <2>5. <<<<2, 1>>, <<1, 2>>, <<0, 3>>>> \o <<<<1, 4>>, <<2, 5>>, <<3, 6>>>> = <<<<2, 1>>, <<1, 2>>, <<0, 3>>, <<1, 4>>, <<2, 5>>, <<3, 6>>>>
    BY Appends
  <2> QED
    BY <2>4, <2>5
<1>4. Walk(<<4, 0>>, <<-1, 1>>) = <<<<3, 1>>, <<2, 0>>>>
  <2>1. /\ 3 \in Int /\ 1 \in Int /\ 2 = 3 + (-1) /\ 2 = 1 + 1
        /\ 2 \in Int /\ 2 \in Int
        /\ OnRing(<<2, 1>>) /\ ~OnRing(<<3, 2>>)
    BY DEF OnRing, Coord, Inner
  <2>2. /\ Straight(<<4, 0>>, <<-1, 1>>) = <<<<3, 1>>>>
        /\ Straight(<<3, 1>>, <<-1, -1>>) = <<<<2, 0>>>>
    BY UpLeft, DownLeft
  <2>3. Ends(<<<<3, 1>>>>, <<4, 0>>, <<3, 1>>)
    BY LastOf
  <2>4. Walk(<<4, 0>>, <<-1, 1>>) = <<<<3, 1>>>> \o <<<<2, 0>>>>
    BY <2>1, <2>2, <2>3, Negations, Bounce
  <2>5. <<<<3, 1>>>> \o <<<<2, 0>>>> = <<<<3, 1>>, <<2, 0>>>>
    BY Appends
  <2> QED
    BY <2>4, <2>5
<1>5. Walk(<<5, 0>>, <<-1, 1>>) = <<<<4, 1>>, <<3, 0>>>>
  <2>1. /\ 4 \in Int /\ 1 \in Int /\ 3 = 4 + (-1) /\ 2 = 1 + 1
        /\ 3 \in Int /\ 2 \in Int
        /\ OnRing(<<3, 1>>) /\ ~OnRing(<<4, 2>>)
    BY DEF OnRing, Coord, Inner
  <2>2. /\ Straight(<<5, 0>>, <<-1, 1>>) = <<<<4, 1>>>>
        /\ Straight(<<4, 1>>, <<-1, -1>>) = <<<<3, 0>>>>
    BY UpLeft, DownLeft
  <2>3. Ends(<<<<4, 1>>>>, <<5, 0>>, <<4, 1>>)
    BY LastOf
  <2>4. Walk(<<5, 0>>, <<-1, 1>>) = <<<<4, 1>>>> \o <<<<3, 0>>>>
    BY <2>1, <2>2, <2>3, Negations, Bounce
  <2>5. <<<<4, 1>>>> \o <<<<3, 0>>>> = <<<<4, 1>>, <<3, 0>>>>
    BY Appends
  <2> QED
    BY <2>4, <2>5
<1>6. Walk(<<6, 0>>, <<-1, 1>>) = <<<<5, 1>>>>
  <2>1. /\ 5 \in Int /\ 1 \in Int /\ 4 = 5 + (-1) /\ 2 = 1 + 1
        /\ 4 \in Int /\ 2 \in Int
        /\ OnRing(<<4, 1>>) /\ OnRing(<<5, 2>>)
    BY DEF OnRing, Coord, Inner
  <2>2. Straight(<<6, 0>>, <<-1, 1>>) = <<<<5, 1>>>>
    BY UpLeft
  <2>3. Ends(<<<<5, 1>>>>, <<6, 0>>, <<5, 1>>)
    BY LastOf
  <2> QED
    BY <2>1, <2>2, <2>3, Negations, Bounce
<1>7. Walk(<<2, 1>>, <<-1, 1>>) = <<<<1, 2>>, <<0, 3>>, <<1, 4>>, <<2, 5>>, <<3, 6>>>>
  <2>1. /\ 0 \in Int /\ 3 \in Int /\ -1 = 0 + (-1) /\ 4 = 3 + 1
        /\ -1 \in Int /\ 4 \in Int
        /\ ~OnRing(<<-1, 3>>) /\ OnRing(<<0, 4>>)
    BY DEF OnRing, Coord, Inner
  <2>2. /\ Straight(<<2, 1>>, <<-1, 1>>) = <<<<1, 2>>, <<0, 3>>>>
        /\ Straight(<<0, 3>>, <<1, 1>>) = <<<<1, 4>>, <<2, 5>>, <<3, 6>>>>
    BY UpLeft, UpRight
  <2>3. Ends(<<<<1, 2>>, <<0, 3>>>>, <<2, 1>>, <<0, 3>>)
    BY LastOf
  <2>4. Walk(<<2, 1>>, <<-1, 1>>) = <<<<1, 2>>, <<0, 3>>>> \o <<<<1, 4>>, <<2, 5>>, <<3, 6>>>>
    BY <2>1, <2>2, <2>3, Negations, Bounce
  <2>5. <<<<1, 2>>, <<0, 3>>>> \o <<<<1, 4>>, <<2, 5>>, <<3, 6>>>> = <<<<1, 2>>, <<0, 3>>, <<1, 4>>, <<2, 5>>, <<3, 6>>>>
    BY Appends
  <2> QED
    BY <2>4, <2>5
<1>8. Walk(<<5, 1>>, <<-1, 1>>) = <<>>
  <2>1. /\ 5 \in Int /\ 1 \in Int /\ 4 = 5 + (-1) /\ 2 = 1 + 1
        /\ 4 \in Int /\ 2 \in Int
        /\ OnRing(<<4, 1>>) /\ OnRing(<<5, 2>>)
    BY DEF OnRing, Coord, Inner
  <2>2. Straight(<<5, 1>>, <<-1, 1>>) = <<>>
    BY UpLeft
  <2>3. Ends(<<>>, <<5, 1>>, <<5, 1>>)
    BY LastOf
  <2> QED
    BY <2>1, <2>2, <2>3, Negations, Bounce
<1> QED
  BY <1>1, <1>2, <1>3, <1>4, <1>5, <1>6, <1>7, <1>8

(* Walks that start down and to the left. *)
LEMMA DownLeftWalks ==
  /\ Walk(<<2, 1>>, <<-1, -1>>) = <<<<1, 0>>, <<0, 1>>>>
  /\ Walk(<<3, 1>>, <<-1, -1>>) = <<<<2, 0>>, <<1, 1>>, <<0, 2>>>>
  /\ Walk(<<4, 1>>, <<-1, -1>>) = <<<<3, 0>>, <<2, 1>>, <<1, 2>>, <<0, 3>>>>
  /\ Walk(<<5, 1>>, <<-1, -1>>) = <<<<4, 0>>, <<3, 1>>>>
<1>1. Walk(<<2, 1>>, <<-1, -1>>) = <<<<1, 0>>, <<0, 1>>>>
  <2>1. /\ 1 \in Int /\ 0 \in Int /\ 0 = 1 + (-1) /\ -1 = 0 + (-1)
        /\ 0 \in Int /\ -1 \in Int
        /\ OnRing(<<0, 0>>) /\ ~OnRing(<<1, -1>>)
    BY DEF OnRing, Coord, Inner
  <2>2. /\ Straight(<<2, 1>>, <<-1, -1>>) = <<<<1, 0>>>>
        /\ Straight(<<1, 0>>, <<-1, 1>>) = <<<<0, 1>>>>
    BY DownLeft, UpLeft
  <2>3. Ends(<<<<1, 0>>>>, <<2, 1>>, <<1, 0>>)
    BY LastOf
  <2>4. Walk(<<2, 1>>, <<-1, -1>>) = <<<<1, 0>>>> \o <<<<0, 1>>>>
    BY <2>1, <2>2, <2>3, Negations, Bounce
  <2>5. <<<<1, 0>>>> \o <<<<0, 1>>>> = <<<<1, 0>>, <<0, 1>>>>
    BY Appends
  <2> QED
    BY <2>4, <2>5
<1>2. Walk(<<3, 1>>, <<-1, -1>>) = <<<<2, 0>>, <<1, 1>>, <<0, 2>>>>
  <2>1. /\ 2 \in Int /\ 0 \in Int /\ 1 = 2 + (-1) /\ -1 = 0 + (-1)
        /\ 1 \in Int /\ -1 \in Int
        /\ OnRing(<<1, 0>>) /\ ~OnRing(<<2, -1>>)
    BY DEF OnRing, Coord, Inner
  <2>2. /\ Straight(<<3, 1>>, <<-1, -1>>) = <<<<2, 0>>>>
        /\ Straight(<<2, 0>>, <<-1, 1>>) = <<<<1, 1>>, <<0, 2>>>>
    BY DownLeft, UpLeft
  <2>3. Ends(<<<<2, 0>>>>, <<3, 1>>, <<2, 0>>)
    BY LastOf
  <2>4. Walk(<<3, 1>>, <<-1, -1>>) = <<<<2, 0>>>> \o <<<<1, 1>>, <<0, 2>>>>
    BY <2>1, <2>2, <2>3, Negations, Bounce
  <2>5. <<<<2, 0>>>> \o <<<<1, 1>>, <<0, 2>>>> = <<<<2, 0>>, <<1, 1>>, <<0, 2>>>>
    BY Appends
  <2> QED
    BY <2>4, <2>5
<1>3. Walk(<<4, 1>>, <<-1, -1>>) = <<<<3, 0>>, <<2, 1>>, <<1, 2>>, <<0, 3>>>>
  <2>1. /\ 3 \in Int /\ 0 \in Int /\ 2 = 3 + (-1) /\ -1 = 0 + (-1)
        /\ 2 \in Int /\ -1 \in Int
        /\ OnRing(<<2, 0>>) /\ ~OnRing(<<3, -1>>)
    BY DEF OnRing, Coord, Inner
  <2>2. /\ Straight(<<4, 1>>, <<-1, -1>>) = <<<<3, 0>>>>
        /\ Straight(<<3, 0>>, <<-1, 1>>) = <<<<2, 1>>, <<1, 2>>, <<0, 3>>>>
    BY DownLeft, UpLeft
  <2>3. Ends(<<<<3, 0>>>>, <<4, 1>>, <<3, 0>>)
    BY LastOf
  <2>4. Walk(<<4, 1>>, <<-1, -1>>) = <<<<3, 0>>>> \o <<<<2, 1>>, <<1, 2>>, <<0, 3>>>>
    BY <2>1, <2>2, <2>3, Negations, Bounce
  <2>5. <<<<3, 0>>>> \o <<<<2, 1>>, <<1, 2>>, <<0, 3>>>> = <<<<3, 0>>, <<2, 1>>, <<1, 2>>, <<0, 3>>>>
    BY Appends
  <2> QED
    BY <2>4, <2>5
<1>4. Walk(<<5, 1>>, <<-1, -1>>) = <<<<4, 0>>, <<3, 1>>>>
  <2>1. /\ 4 \in Int /\ 0 \in Int /\ 3 = 4 + (-1) /\ -1 = 0 + (-1)
        /\ 3 \in Int /\ -1 \in Int
        /\ OnRing(<<3, 0>>) /\ ~OnRing(<<4, -1>>)
    BY DEF OnRing, Coord, Inner
  <2>2. /\ Straight(<<5, 1>>, <<-1, -1>>) = <<<<4, 0>>>>
        /\ Straight(<<4, 0>>, <<-1, 1>>) = <<<<3, 1>>>>
    BY DownLeft, UpLeft
  <2>3. Ends(<<<<4, 0>>>>, <<5, 1>>, <<4, 0>>)
    BY LastOf
  <2>4. Walk(<<5, 1>>, <<-1, -1>>) = <<<<4, 0>>>> \o <<<<3, 1>>>>
    BY <2>1, <2>2, <2>3, Negations, Bounce
  <2>5. <<<<4, 0>>>> \o <<<<3, 1>>>> = <<<<4, 0>>, <<3, 1>>>>
    BY Appends
  <2> QED
    BY <2>4, <2>5
<1> QED
  BY <1>1, <1>2, <1>3, <1>4

(* A walk goes on where its first diagonal ends. *)
LEMMA WalkExtends ==
  ASSUME NEW p \in RingPoints, NEW d \in Diagonal, NEW ours, NEW theirs
  PROVE  Reached(Straight(p, d), ours, theirs) \subseteq Reached(Walk(p, d), ours, theirs)
<1> DEFINE s == Straight(p, d)
           last == IF s = <<>> THEN p ELSE s[Len(s)]
           across == OnRing(<<last[1] + d[1], last[2]>>)
           along == OnRing(<<last[1], last[2] + d[2]>>)
<1>1. Walk(p, d) = CASE across /\ ~along -> s \o Straight(last, <<d[1], -d[2]>>)
                     [] along /\ ~across -> s \o Straight(last, <<-d[1], d[2]>>)
                     [] OTHER            -> s
  BY DEF Walk
<1>2. d \in Step /\ <<d[1], -d[2]>> \in Step /\ <<-d[1], d[2]>> \in Step
  BY QuarterSteps DEF Step, Diagonal
<1>3. s \in Seq(RingPoints)
  BY <1>2, StraightFacts
<1>4. last \in RingPoints
  BY <1>3, LastPoint
<1>5. /\ Straight(last, <<d[1], -d[2]>>) \in Seq(RingPoints)
      /\ Straight(last, <<-d[1], d[2]>>) \in Seq(RingPoints)
  BY <1>2, <1>4, StraightFacts
<1> HIDE DEF s, last, across, along
<1>6. \A t \in Seq(RingPoints) : Reached(s, ours, theirs) \subseteq Reached(s \o t, ours, theirs)
  BY <1>3, ReachedPrefix
<1>7. Reached(s, ours, theirs) \subseteq Reached(Walk(p, d), ours, theirs)
  BY <1>1, <1>5, <1>6
<1> QED
  BY <1>7 DEF s

(* Where a walk starts with a bounce, it is the other walk's beginning. *)
LEMMA WalksBounced ==
  /\ Walk(<<1, 0>>, <<-1, -1>>) = Straight(<<1, 0>>, <<-1, 1>>)
  /\ Walk(<<2, 0>>, <<-1, -1>>) = Straight(<<2, 0>>, <<-1, 1>>)
  /\ Walk(<<3, 0>>, <<-1, -1>>) = Straight(<<3, 0>>, <<-1, 1>>)
  /\ Walk(<<4, 0>>, <<-1, -1>>) = Straight(<<4, 0>>, <<-1, 1>>)
  /\ Walk(<<5, 0>>, <<-1, -1>>) = Straight(<<5, 0>>, <<-1, 1>>)
  /\ Walk(<<6, 0>>, <<-1, -1>>) = Straight(<<6, 0>>, <<-1, 1>>)
  /\ Walk(<<3, 1>>, <<-1, 1>>) = Straight(<<3, 1>>, <<-1, -1>>)
  /\ Walk(<<4, 1>>, <<-1, 1>>) = Straight(<<4, 1>>, <<-1, -1>>)
<1>1. Walk(<<1, 0>>, <<-1, -1>>) = Straight(<<1, 0>>, <<-1, 1>>)
  <2>1. /\ 1 \in Int /\ 0 \in Int /\ 0 = 1 + (-1) /\ -1 = 0 + (-1)
        /\ 0 \in Int /\ -1 \in Int
        /\ OnRing(<<0, 0>>) /\ ~OnRing(<<1, -1>>)
    BY DEF OnRing, Coord, Inner
  <2>2. Straight(<<1, 0>>, <<-1, -1>>) = <<>> /\ Ends(<<>>, <<1, 0>>, <<1, 0>>)
    BY DownLeft, LastOf
  <2>3. Walk(<<1, 0>>, <<-1, -1>>) = <<>> \o Straight(<<1, 0>>, <<-1, 1>>)
    BY <2>1, <2>2, Negations, Bounce
  <2>4. <<>> \o Straight(<<1, 0>>, <<-1, 1>>) = Straight(<<1, 0>>, <<-1, 1>>)
    BY Appends, UpLeft
  <2> QED
    BY <2>3, <2>4
<1>2. Walk(<<2, 0>>, <<-1, -1>>) = Straight(<<2, 0>>, <<-1, 1>>)
  <2>1. /\ 2 \in Int /\ 0 \in Int /\ 1 = 2 + (-1) /\ -1 = 0 + (-1)
        /\ 1 \in Int /\ -1 \in Int
        /\ OnRing(<<1, 0>>) /\ ~OnRing(<<2, -1>>)
    BY DEF OnRing, Coord, Inner
  <2>2. Straight(<<2, 0>>, <<-1, -1>>) = <<>> /\ Ends(<<>>, <<2, 0>>, <<2, 0>>)
    BY DownLeft, LastOf
  <2>3. Walk(<<2, 0>>, <<-1, -1>>) = <<>> \o Straight(<<2, 0>>, <<-1, 1>>)
    BY <2>1, <2>2, Negations, Bounce
  <2>4. <<>> \o Straight(<<2, 0>>, <<-1, 1>>) = Straight(<<2, 0>>, <<-1, 1>>)
    BY Appends, UpLeft
  <2> QED
    BY <2>3, <2>4
<1>3. Walk(<<3, 0>>, <<-1, -1>>) = Straight(<<3, 0>>, <<-1, 1>>)
  <2>1. /\ 3 \in Int /\ 0 \in Int /\ 2 = 3 + (-1) /\ -1 = 0 + (-1)
        /\ 2 \in Int /\ -1 \in Int
        /\ OnRing(<<2, 0>>) /\ ~OnRing(<<3, -1>>)
    BY DEF OnRing, Coord, Inner
  <2>2. Straight(<<3, 0>>, <<-1, -1>>) = <<>> /\ Ends(<<>>, <<3, 0>>, <<3, 0>>)
    BY DownLeft, LastOf
  <2>3. Walk(<<3, 0>>, <<-1, -1>>) = <<>> \o Straight(<<3, 0>>, <<-1, 1>>)
    BY <2>1, <2>2, Negations, Bounce
  <2>4. <<>> \o Straight(<<3, 0>>, <<-1, 1>>) = Straight(<<3, 0>>, <<-1, 1>>)
    BY Appends, UpLeft
  <2> QED
    BY <2>3, <2>4
<1>4. Walk(<<4, 0>>, <<-1, -1>>) = Straight(<<4, 0>>, <<-1, 1>>)
  <2>1. /\ 4 \in Int /\ 0 \in Int /\ 3 = 4 + (-1) /\ -1 = 0 + (-1)
        /\ 3 \in Int /\ -1 \in Int
        /\ OnRing(<<3, 0>>) /\ ~OnRing(<<4, -1>>)
    BY DEF OnRing, Coord, Inner
  <2>2. Straight(<<4, 0>>, <<-1, -1>>) = <<>> /\ Ends(<<>>, <<4, 0>>, <<4, 0>>)
    BY DownLeft, LastOf
  <2>3. Walk(<<4, 0>>, <<-1, -1>>) = <<>> \o Straight(<<4, 0>>, <<-1, 1>>)
    BY <2>1, <2>2, Negations, Bounce
  <2>4. <<>> \o Straight(<<4, 0>>, <<-1, 1>>) = Straight(<<4, 0>>, <<-1, 1>>)
    BY Appends, UpLeft
  <2> QED
    BY <2>3, <2>4
<1>5. Walk(<<5, 0>>, <<-1, -1>>) = Straight(<<5, 0>>, <<-1, 1>>)
  <2>1. /\ 5 \in Int /\ 0 \in Int /\ 4 = 5 + (-1) /\ -1 = 0 + (-1)
        /\ 4 \in Int /\ -1 \in Int
        /\ OnRing(<<4, 0>>) /\ ~OnRing(<<5, -1>>)
    BY DEF OnRing, Coord, Inner
  <2>2. Straight(<<5, 0>>, <<-1, -1>>) = <<>> /\ Ends(<<>>, <<5, 0>>, <<5, 0>>)
    BY DownLeft, LastOf
  <2>3. Walk(<<5, 0>>, <<-1, -1>>) = <<>> \o Straight(<<5, 0>>, <<-1, 1>>)
    BY <2>1, <2>2, Negations, Bounce
  <2>4. <<>> \o Straight(<<5, 0>>, <<-1, 1>>) = Straight(<<5, 0>>, <<-1, 1>>)
    BY Appends, UpLeft
  <2> QED
    BY <2>3, <2>4
<1>6. Walk(<<6, 0>>, <<-1, -1>>) = Straight(<<6, 0>>, <<-1, 1>>)
  <2>1. /\ 6 \in Int /\ 0 \in Int /\ 5 = 6 + (-1) /\ -1 = 0 + (-1)
        /\ 5 \in Int /\ -1 \in Int
        /\ OnRing(<<5, 0>>) /\ ~OnRing(<<6, -1>>)
    BY DEF OnRing, Coord, Inner
  <2>2. Straight(<<6, 0>>, <<-1, -1>>) = <<>> /\ Ends(<<>>, <<6, 0>>, <<6, 0>>)
    BY DownLeft, LastOf
  <2>3. Walk(<<6, 0>>, <<-1, -1>>) = <<>> \o Straight(<<6, 0>>, <<-1, 1>>)
    BY <2>1, <2>2, Negations, Bounce
  <2>4. <<>> \o Straight(<<6, 0>>, <<-1, 1>>) = Straight(<<6, 0>>, <<-1, 1>>)
    BY Appends, UpLeft
  <2> QED
    BY <2>3, <2>4
<1>7. Walk(<<3, 1>>, <<-1, 1>>) = Straight(<<3, 1>>, <<-1, -1>>)
  <2>1. /\ 3 \in Int /\ 1 \in Int /\ 2 = 3 + (-1) /\ 2 = 1 + 1
        /\ 2 \in Int /\ 2 \in Int
        /\ OnRing(<<2, 1>>) /\ ~OnRing(<<3, 2>>)
    BY DEF OnRing, Coord, Inner
  <2>2. Straight(<<3, 1>>, <<-1, 1>>) = <<>> /\ Ends(<<>>, <<3, 1>>, <<3, 1>>)
    BY UpLeft, LastOf
  <2>3. Walk(<<3, 1>>, <<-1, 1>>) = <<>> \o Straight(<<3, 1>>, <<-1, -1>>)
    BY <2>1, <2>2, Negations, Bounce
  <2>4. <<>> \o Straight(<<3, 1>>, <<-1, -1>>) = Straight(<<3, 1>>, <<-1, -1>>)
    BY Appends, DownLeft
  <2> QED
    BY <2>3, <2>4
<1>8. Walk(<<4, 1>>, <<-1, 1>>) = Straight(<<4, 1>>, <<-1, -1>>)
  <2>1. /\ 4 \in Int /\ 1 \in Int /\ 3 = 4 + (-1) /\ 2 = 1 + 1
        /\ 3 \in Int /\ 2 \in Int
        /\ OnRing(<<3, 1>>) /\ ~OnRing(<<4, 2>>)
    BY DEF OnRing, Coord, Inner
  <2>2. Straight(<<4, 1>>, <<-1, 1>>) = <<>> /\ Ends(<<>>, <<4, 1>>, <<4, 1>>)
    BY UpLeft, LastOf
  <2>3. Walk(<<4, 1>>, <<-1, 1>>) = <<>> \o Straight(<<4, 1>>, <<-1, -1>>)
    BY <2>1, <2>2, Negations, Bounce
  <2>4. <<>> \o Straight(<<4, 1>>, <<-1, -1>>) = Straight(<<4, 1>>, <<-1, -1>>)
    BY Appends, DownLeft
  <2> QED
    BY <2>3, <2>4
<1> QED
  BY <1>1, <1>2, <1>3, <1>4, <1>5, <1>6, <1>7, <1>8

(* The rays of the bishop's table are the walks of the bishop. *)
LEMMA PointRays ==
  /\ \A a : PointRay(<<a>>) = <<Point(a)>>
  /\ \A a, b : PointRay(<<a, b>>) = <<Point(a), Point(b)>>
  /\ \A a, b, c : PointRay(<<a, b, c>>) = <<Point(a), Point(b), Point(c)>>
  /\ \A a, b, c, d : PointRay(<<a, b, c, d>>) = <<Point(a), Point(b), Point(c), Point(d)>>
  /\ \A a, b, c, d, e : PointRay(<<a, b, c, d, e>>) =
       <<Point(a), Point(b), Point(c), Point(d), Point(e)>>
  /\ \A a, b, c, d, e, f : PointRay(<<a, b, c, d, e, f>>) =
       <<Point(a), Point(b), Point(c), Point(d), Point(e), Point(f)>>
<1>1. \A a : PointRay(<<a>>) = <<Point(a)>>
  BY DEF PointRay
<1>2. \A a, b : PointRay(<<a, b>>) = <<Point(a), Point(b)>>
  BY DEF PointRay
<1>3. \A a, b, c : PointRay(<<a, b, c>>) = <<Point(a), Point(b), Point(c)>>
  BY DEF PointRay
<1>4. \A a, b, c, d : PointRay(<<a, b, c, d>>) = <<Point(a), Point(b), Point(c), Point(d)>>
  BY DEF PointRay
<1>5. \A a, b, c, d, e : PointRay(<<a, b, c, d, e>>) =
        <<Point(a), Point(b), Point(c), Point(d), Point(e)>>
  BY DEF PointRay
<1>6. \A a, b, c, d, e, f : PointRay(<<a, b, c, d, e, f>>) =
        <<Point(a), Point(b), Point(c), Point(d), Point(e), Point(f)>>
  BY DEF PointRay
<1> QED
  BY <1>1, <1>2, <1>3, <1>4, <1>5, <1>6

LEMMA TablePoints ==
  /\ Point(1) = <<1, 0>> /\ Point(2) = <<2, 0>> /\ Point(3) = <<3, 0>>
  /\ Point(4) = <<4, 0>> /\ Point(5) = <<5, 0>> /\ Point(6) = <<6, 0>>
  /\ Point(8) = <<0, 1>> /\ Point(9) = <<1, 1>> /\ Point(10) = <<2, 1>>
  /\ Point(11) = <<3, 1>> /\ Point(12) = <<4, 1>> /\ Point(13) = <<5, 1>>
  /\ Point(16) = <<0, 2>> /\ Point(17) = <<1, 2>> /\ Point(24) = <<0, 3>>
  /\ Point(25) = <<1, 3>> /\ Point(33) = <<1, 4>> /\ Point(42) = <<2, 5>>
  /\ Point(51) = <<3, 6>>
BY DEF Point, getx, gety

LEMMA TableWalks ==
  /\ {PointRay(ray) : ray \in BishopRays(1)} = {Walk(Point(1), <<-1, 1>>)}
  /\ {PointRay(ray) : ray \in BishopRays(2)} = {Walk(Point(2), <<-1, 1>>)}
  /\ {PointRay(ray) : ray \in BishopRays(3)} = {Walk(Point(3), <<-1, 1>>)}
  /\ {PointRay(ray) : ray \in BishopRays(4)} = {Walk(Point(4), <<-1, 1>>)}
  /\ {PointRay(ray) : ray \in BishopRays(5)} = {Walk(Point(5), <<-1, 1>>)}
  /\ {PointRay(ray) : ray \in BishopRays(6)} = {Walk(Point(6), <<-1, 1>>)}
  /\ {PointRay(ray) : ray \in BishopRays(10)} = {Walk(Point(10), <<-1, 1>>), Walk(Point(10), <<-1, -1>>)}
  /\ {PointRay(ray) : ray \in BishopRays(11)} = {Walk(Point(11), <<-1, -1>>)}
  /\ {PointRay(ray) : ray \in BishopRays(12)} = {Walk(Point(12), <<-1, -1>>)}
  /\ {PointRay(ray) : ray \in BishopRays(13)} = {Walk(Point(13), <<-1, -1>>)}
<1>1. {PointRay(ray) : ray \in BishopRays(1)} = {Walk(Point(1), <<-1, 1>>)}
  <2>1. BishopRays(1) = {<<8, 17>>}
    BY DEF BishopRays, pos
  <2>2. PointRay(<<8, 17>>) = Walk(Point(1), <<-1, 1>>)
    <3>1. PointRay(<<8, 17>>) =
            <<Point(8), Point(17)>>
      BY PointRays
    <3> QED
      BY <3>1, TablePoints, UpLeftWalks
  <2> QED
    BY <2>1, <2>2
<1>2. {PointRay(ray) : ray \in BishopRays(2)} = {Walk(Point(2), <<-1, 1>>)}
  <2>1. BishopRays(2) = {<<9, 16, 25>>}
    BY DEF BishopRays, pos
  <2>2. PointRay(<<9, 16, 25>>) = Walk(Point(2), <<-1, 1>>)
    <3>1. PointRay(<<9, 16, 25>>) =
            <<Point(9), Point(16), Point(25)>>
      BY PointRays
    <3> QED
      BY <3>1, TablePoints, UpLeftWalks
  <2> QED
    BY <2>1, <2>2
<1>3. {PointRay(ray) : ray \in BishopRays(3)} = {Walk(Point(3), <<-1, 1>>)}
  <2>1. BishopRays(3) = {<<10, 17, 24, 33, 42, 51>>}
    BY DEF BishopRays, pos
  <2>2. PointRay(<<10, 17, 24, 33, 42, 51>>) = Walk(Point(3), <<-1, 1>>)
    <3>1. PointRay(<<10, 17, 24, 33, 42, 51>>) =
            <<Point(10), Point(17), Point(24), Point(33), Point(42), Point(51)>>
      BY PointRays
    <3> QED
      BY <3>1, TablePoints, UpLeftWalks
  <2> QED
    BY <2>1, <2>2
<1>4. {PointRay(ray) : ray \in BishopRays(4)} = {Walk(Point(4), <<-1, 1>>)}
  <2>1. BishopRays(4) = {<<11, 2>>}
    BY DEF BishopRays, pos
  <2>2. PointRay(<<11, 2>>) = Walk(Point(4), <<-1, 1>>)
    <3>1. PointRay(<<11, 2>>) =
            <<Point(11), Point(2)>>
      BY PointRays
    <3> QED
      BY <3>1, TablePoints, UpLeftWalks
  <2> QED
    BY <2>1, <2>2
<1>5. {PointRay(ray) : ray \in BishopRays(5)} = {Walk(Point(5), <<-1, 1>>)}
  <2>1. BishopRays(5) = {<<12, 3>>}
    BY DEF BishopRays, pos
  <2>2. PointRay(<<12, 3>>) = Walk(Point(5), <<-1, 1>>)
    <3>1. PointRay(<<12, 3>>) =
            <<Point(12), Point(3)>>
      BY PointRays
    <3> QED
      BY <3>1, TablePoints, UpLeftWalks
  <2> QED
    BY <2>1, <2>2
<1>6. {PointRay(ray) : ray \in BishopRays(6)} = {Walk(Point(6), <<-1, 1>>)}
  <2>1. BishopRays(6) = {<<13>>}
    BY DEF BishopRays, pos
  <2>2. PointRay(<<13>>) = Walk(Point(6), <<-1, 1>>)
    <3>1. PointRay(<<13>>) =
            <<Point(13)>>
      BY PointRays
    <3> QED
      BY <3>1, TablePoints, UpLeftWalks
  <2> QED
    BY <2>1, <2>2
<1>7. {PointRay(ray) : ray \in BishopRays(10)} = {Walk(Point(10), <<-1, 1>>), Walk(Point(10), <<-1, -1>>)}
  <2>1. BishopRays(10) = {<<17, 24, 33, 42, 51>>, <<1, 8>>}
    BY DEF BishopRays, pos
  <2>2. PointRay(<<17, 24, 33, 42, 51>>) = Walk(Point(10), <<-1, 1>>)
    <3>1. PointRay(<<17, 24, 33, 42, 51>>) =
            <<Point(17), Point(24), Point(33), Point(42), Point(51)>>
      BY PointRays
    <3> QED
      BY <3>1, TablePoints, UpLeftWalks
  <2>3. PointRay(<<1, 8>>) = Walk(Point(10), <<-1, -1>>)
    <3>1. PointRay(<<1, 8>>) =
            <<Point(1), Point(8)>>
      BY PointRays
    <3> QED
      BY <3>1, TablePoints, DownLeftWalks
  <2> QED
    BY <2>1, <2>2, <2>3
<1>8. {PointRay(ray) : ray \in BishopRays(11)} = {Walk(Point(11), <<-1, -1>>)}
  <2>1. BishopRays(11) = {<<2, 9, 16>>}
    BY DEF BishopRays, pos
  <2>2. PointRay(<<2, 9, 16>>) = Walk(Point(11), <<-1, -1>>)
    <3>1. PointRay(<<2, 9, 16>>) =
            <<Point(2), Point(9), Point(16)>>
      BY PointRays
    <3> QED
      BY <3>1, TablePoints, DownLeftWalks
  <2> QED
    BY <2>1, <2>2
<1>9. {PointRay(ray) : ray \in BishopRays(12)} = {Walk(Point(12), <<-1, -1>>)}
  <2>1. BishopRays(12) = {<<3, 10, 17, 24>>}
    BY DEF BishopRays, pos
  <2>2. PointRay(<<3, 10, 17, 24>>) = Walk(Point(12), <<-1, -1>>)
    <3>1. PointRay(<<3, 10, 17, 24>>) =
            <<Point(3), Point(10), Point(17), Point(24)>>
      BY PointRays
    <3> QED
      BY <3>1, TablePoints, DownLeftWalks
  <2> QED
    BY <2>1, <2>2
<1>10. {PointRay(ray) : ray \in BishopRays(13)} = {Walk(Point(13), <<-1, -1>>)}
  <2>1. BishopRays(13) = {<<4, 11>>}
    BY DEF BishopRays, pos
  <2>2. PointRay(<<4, 11>>) = Walk(Point(13), <<-1, -1>>)
    <3>1. PointRay(<<4, 11>>) =
            <<Point(4), Point(11)>>
      BY PointRays
    <3> QED
      BY <3>1, TablePoints, DownLeftWalks
  <2> QED
    BY <2>1, <2>2
<1> QED
  BY <1>1, <1>2, <1>3, <1>4, <1>5, <1>6, <1>7, <1>8, <1>9, <1>10

(* Forward along the rays of the table. *)
LEMMA BishopForward ==
  ASSUME NEW q \in bottom, NEW ours, NEW theirs
  PROVE  UNION {Reached(g, ours, theirs) : g \in {PointRay(ray) : ray \in BishopRays(q)}} =
           Reached(Walk(Point(q), <<-1, 1>>), ours, theirs)
             \cup Reached(Walk(Point(q), <<-1, -1>>), ours, theirs)
<1> DEFINE p == Point(q)
           U == Walk(p, <<-1, 1>>)
           D == Walk(p, <<-1, -1>>)
           R(g) == Reached(g, ours, theirs)
           rays == {PointRay(ray) : ray \in BishopRays(q)}
<1>1. p \in RingPoints /\ <<-1, 1>> \in Diagonal /\ <<-1, -1>> \in Diagonal
  BY BottomPoints DEF Diagonal
<1>2. R(Straight(p, <<-1, 1>>)) \subseteq R(U) /\ R(Straight(p, <<-1, -1>>)) \subseteq R(D)
  BY <1>1, WalkExtends
<1>3. q \in {1, 2, 3, 4, 5, 6} => rays = {U} /\ D = Straight(p, <<-1, 1>>)
  <2>1. q \in {1, 2, 3, 4, 5, 6} => rays = {U}
    BY TableWalks
  <2>2. q \in {1, 2, 3, 4, 5, 6} => D = Straight(p, <<-1, 1>>)
    BY TablePoints, WalksBounced
  <2> QED
    BY <2>1, <2>2
<1>4. q = 10 => rays = {U, D}
  BY TableWalks
<1>5. q \in {11, 12} => rays = {D} /\ U = Straight(p, <<-1, -1>>)
  BY TableWalks, TablePoints, WalksBounced
<1>6. q = 13 => rays = {D} /\ U = <<>>
  BY TableWalks, TablePoints, UpLeftWalks
<1>7. R(<<>>) = {}
  BY ReachedShort
<1>8. q \in {1, 2, 3, 4, 5, 6} \/ q = 10 \/ q \in {11, 12} \/ q = 13
  BY DEF bottom
<1> HIDE DEF p, U, D, R, rays
<1>9. UNION {R(g) : g \in rays} = R(U) \cup R(D)
  <2>1. CASE q \in {1, 2, 3, 4, 5, 6}
    BY <1>2, <1>3, <2>1
  <2>2. CASE q = 10
    BY <1>4, <2>2
  <2>3. CASE q \in {11, 12}
    BY <1>2, <1>5, <2>3
  <2>4. CASE q = 13
    BY <1>6, <1>7, <2>4
  <2> QED
    BY <1>8, <2>1, <2>2, <2>3, <2>4
<1> QED
  BY <1>9 DEF p, U, D, R, rays

(* Backwards a bishop makes one step. *)
BishopSteps(q) ==
  {p \in {q + 9, q - 7} : \/ p = q + 9 /\ (q < 6 \/ q >= 12)
                          \/ p = q - 7 /\ q > 6}

LEMMA BishopStepPoints ==
  ASSUME NEW q \in bottom
  PROVE  /\ BishopSteps(q) \subseteq Track
         /\ PointsOf(BishopSteps(q)) = StepTo(Point(q), <<1, 1>>) \cup StepTo(Point(q), <<1, -1>>)
<1> DEFINE x == getx(q)
           y == gety(q)
<1>1. /\ x \in 1..6 /\ y \in 0..1 /\ q = 8 * y + x /\ (y = 1 => x \in 2..5)
      /\ Point(q) = <<x, y>>
  BY BottomPoints
<1>2. BishopSteps(q) \subseteq Track
  BY DEF BishopSteps, bottom, Track, left, right
<1> HIDE DEF x, y
<1>3. /\ Plus(Point(q), <<1, 1>>) = <<x + 1, y + 1>>
      /\ Plus(Point(q), <<1, -1>>) = <<x + 1, y - 1>>
  BY <1>1 DEF Plus
<1>4. /\ OnRing(<<x + 1, y + 1>>) <=> (q < 6 \/ q >= 12)
      /\ OnRing(<<x + 1, y - 1>>) <=> q > 6
  BY <1>1 DEF OnRing, Coord, Inner
<1>5. Index(<<x + 1, y + 1>>) = q + 9 /\ Index(<<x + 1, y - 1>>) = q - 7
  BY <1>1 DEF Index, pos
<1>6. \A p \in RingPoints : p \in PointsOf(BishopSteps(q)) <=> Index(p) \in BishopSteps(q)
  BY <1>2, PointFacts DEF PointsOf
<1>7. /\ OnRing(<<x + 1, y + 1>>) <=> <<x + 1, y + 1>> \in RingPoints
      /\ OnRing(<<x + 1, y - 1>>) <=> <<x + 1, y - 1>> \in RingPoints
  <2>1. y + 1 \in Int /\ y - 1 \in Int /\ x + 1 \in Int
    BY <1>1
  <2> QED
    BY <2>1, RingCoordinates
<1>8. \A p, r \in RingPoints : Index(p) = Index(r) => p = r
  BY PointFacts
<1>9. ASSUME NEW p \in RingPoints
      PROVE  Index(p) \in BishopSteps(q) <=> p = <<x + 1, y + 1>> \/ p = <<x + 1, y - 1>>
  <2>1. Index(p) \in BishopSteps(q) <=>
          \/ Index(p) = q + 9 /\ OnRing(<<x + 1, y + 1>>)
          \/ Index(p) = q - 7 /\ OnRing(<<x + 1, y - 1>>)
    BY <1>4 DEF BishopSteps
  <2> QED
    BY <1>5, <1>7, <1>8, <2>1
<1>10. PointsOf(BishopSteps(q)) \subseteq RingPoints
  BY <1>2, PointsOfFacts
<1> QED
  BY <1>2, <1>3, <1>6, <1>7, <1>9, <1>10 DEF StepTo

(* The rays of a bishop on the bottom side. *)
LEMMA BishopDirections ==
  ASSUME NEW q \in bottom, NEW ours, NEW theirs
  PROVE  /\ BishopRay(Point(q), <<-1, 1>>) = Walk(Point(q), <<-1, 1>>)
         /\ BishopRay(Point(q), <<-1, -1>>) = Walk(Point(q), <<-1, -1>>)
         /\ Reached(BishopRay(Point(q), <<1, 1>>), ours, theirs) =
              StepTo(Point(q), <<1, 1>>) \ ours
         /\ Reached(BishopRay(Point(q), <<1, -1>>), ours, theirs) =
              StepTo(Point(q), <<1, -1>>) \ ours
<1> DEFINE p == Point(q)
<1>1. Forward(p) = <<-1, 0>>
  BY BottomPoints
<1> HIDE DEF p
<1>2. /\ Dot(<<-1, 1>>, <<-1, 0>>) > 0 /\ Dot(<<-1, -1>>, <<-1, 0>>) > 0
      /\ ~(Dot(<<1, 1>>, <<-1, 0>>) > 0) /\ ~(Dot(<<1, -1>>, <<-1, 0>>) > 0)
  <2>1. \A i, j \in Int : Dot(<<i, j>>, <<-1, 0>>) = 0 - i
    BY DEF Dot
  <2>2. -1 \in Int /\ 0 - (-1) > 0 /\ 1 \in Int /\ ~(0 - 1 > 0)
    OBVIOUS
  <2> QED
    BY <2>1, <2>2
<1>3. \A d : ~(Dot(d, Forward(p)) > 0) =>
        Reached(BishopRay(p, d), ours, theirs) = StepTo(p, d) \ ours
  <2> SUFFICES ASSUME NEW d, ~(Dot(d, Forward(p)) > 0)
               PROVE  Reached(BishopRay(p, d), ours, theirs) = StepTo(p, d) \ ours
    OBVIOUS
  <2>1. BishopRay(p, d) = IF OnRing(Plus(p, d)) THEN <<Plus(p, d)>> ELSE <<>>
    BY DEF BishopRay
  <2>2. StepTo(p, d) = IF OnRing(Plus(p, d)) THEN {Plus(p, d)} ELSE {}
    BY DEF StepTo
  <2>3. CASE OnRing(Plus(p, d))
    <3>1. Reached(<<Plus(p, d)>>, ours, theirs) = {Plus(p, d)} \ ours
      BY ReachedShort
    <3> QED
      BY <2>1, <2>2, <2>3, <3>1
  <2>4. CASE ~OnRing(Plus(p, d))
    <3>1. Reached(<<>>, ours, theirs) = {}
      BY ReachedShort
    <3> QED
      BY <2>1, <2>2, <2>4, <3>1
  <2> QED
    BY <2>3, <2>4
<1>4. BishopRay(p, <<-1, 1>>) = Walk(p, <<-1, 1>>)
      /\ BishopRay(p, <<-1, -1>>) = Walk(p, <<-1, -1>>)
  BY <1>1, <1>2 DEF BishopRay
<1> QED
  BY <1>1, <1>2, <1>3, <1>4 DEF p

(* The bishop. *)
LEMMA BishopPoints ==
  ASSUME NEW q \in bottom, NEW arr, NEW c, NEW ours, NEW theirs,
         Shows(arr, c, ours, theirs), color(arr[q]) = {c}
  PROVE  PointsOf(construct_bottom_bishop_moves_with_board(q, arr)) =
           Destinations("BISHOP", Point(q), ours, theirs)
<1> DEFINE p == Point(q)
           back == FreeOf({c}, arr, BishopSteps(q))
           along == UNION {Sweep({c}, arr, ray) : ray \in BishopRays(q)}
           R(d) == Reached(BishopRay(p, d), ours, theirs)
<1>1. construct_bottom_bishop_moves_with_board(q, arr) = back \cup along
  BY DEF construct_bottom_bishop_moves_with_board, BishopSteps
<1>2. PointsOf(back) = (StepTo(p, <<1, 1>>) \cup StepTo(p, <<1, -1>>)) \ ours
  BY BishopStepPoints, FreePoints
<1>3. PointsOf(along) = R(<<-1, 1>>) \cup R(<<-1, -1>>)
  <2>1. \A ray \in BishopRays(q) :
          PointsOf(Sweep({c}, arr, ray)) = Reached(PointRay(ray), ours, theirs)
    BY BishopRaysFacts, SweepPoints
  <2>2. PointsOf(along) = UNION {PointsOf(Sweep({c}, arr, ray)) : ray \in BishopRays(q)}
    BY DEF PointsOf
  <2>3. PointsOf(along) =
          UNION {Reached(g, ours, theirs) : g \in {PointRay(ray) : ray \in BishopRays(q)}}
    BY <2>1, <2>2
  <2>4. R(<<-1, 1>>) = Reached(Walk(p, <<-1, 1>>), ours, theirs)
        /\ R(<<-1, -1>>) = Reached(Walk(p, <<-1, -1>>), ours, theirs)
    BY BishopDirections
  <2> HIDE DEF R, along
  <2> QED
    BY <2>3, <2>4, BishopForward
<1>4. R(<<1, 1>>) = StepTo(p, <<1, 1>>) \ ours /\ R(<<1, -1>>) = StepTo(p, <<1, -1>>) \ ours
  BY BishopDirections
<1>5. Destinations("BISHOP", p, ours, theirs) =
        R(<<1, 1>>) \cup R(<<1, -1>>) \cup R(<<-1, 1>>) \cup R(<<-1, -1>>)
  <2> HIDE DEF R
  <2>1. Diagonal = {<<1, 1>>, <<1, -1>>, <<-1, 1>>, <<-1, -1>>}
    BY DEF Diagonal
  <2>2. UNION {R(d) : d \in Diagonal} =
          R(<<1, 1>>) \cup R(<<1, -1>>) \cup R(<<-1, 1>>) \cup R(<<-1, -1>>)
    BY <2>1
  <2>3. Destinations("BISHOP", p, ours, theirs) = UNION {R(d) : d \in Diagonal}
    BY DEF Destinations, R
  <2> QED
    BY <2>2, <2>3
<1> HIDE DEF back, along, R, p
<1>6. PointsOf(back \cup along) = PointsOf(back) \cup PointsOf(along)
  BY PointsJoin
<1>7. PointsOf(back \cup along) = Destinations("BISHOP", p, ours, theirs)
  BY <1>2, <1>3, <1>4, <1>5, <1>6
<1> QED
  BY <1>1, <1>7 DEF p

(* The king and the pawn. *)
LEMMA StepPoints ==
  ASSUME NEW q \in bottom, NEW arr, NEW c, NEW ours, NEW theirs,
         Shows(arr, c, ours, theirs), color(arr[q]) = {c}
  PROVE  /\ PointsOf(construct_bottom_king_moves_with_board(q, arr)) =
              Destinations("KING", Point(q), ours, theirs)
         /\ PointsOf(construct_bottom_pawn_moves_with_board(q, arr)) =
              Destinations("PAWN", Point(q), ours, theirs)
<1>1. construct_bottom_king_moves_with_board(q, arr) = FreeOf({c}, arr, KingSquares(q))
  BY DEF construct_bottom_king_moves_with_board, KingSquares
<1>2. construct_bottom_pawn_moves_with_board(q, arr) = FreeOf({c}, arr, PawnSquares(q))
  BY DEF construct_bottom_pawn_moves_with_board, PawnSquares
<1>3. /\ Destinations("KING", Point(q), ours, theirs) = KingSteps(Point(q)) \ ours
      /\ Destinations("PAWN", Point(q), ours, theirs) = PawnSteps(Point(q)) \ ours
  BY DEF Destinations
<1>4. /\ PointsOf(FreeOf({c}, arr, KingSquares(q))) = KingSteps(Point(q)) \ ours
      /\ PointsOf(FreeOf({c}, arr, PawnSquares(q))) = PawnSteps(Point(q)) \ ours
  BY FreePoints, KingPoints, PawnPoints
<1> QED
  BY <1>1, <1>2, <1>3, <1>4

(***************************************************************************)
(* All sides of the board.                                                 *)
(***************************************************************************)

(* What is written for the bottom side (the chain of tests in              *)
(* _get_pseudolegal_moves_for_piece).                                      *)
BottomTargets(code, q, arr) ==
  IF "PAWN" \in code THEN construct_bottom_pawn_moves_with_board(q, arr)
  ELSE IF "ROOK" \in code THEN construct_bottom_rook_moves_with_board(q, arr)
  ELSE IF "BISHOP" \in code THEN construct_bottom_bishop_moves_with_board(q, arr)
  ELSE IF "KING" \in code THEN construct_bottom_king_moves_with_board(q, arr)
  ELSE {}

(* The type that is tested first is the one that Norm leaves. *)
LEMMA NormTests ==
  ASSUME NEW code, NEW type \in PieceType, NEW c \in Side, Norm(code) = {type, c}
  PROVE  /\ color(code) = {c}
         /\ "PAWN" \in code <=> type = "PAWN"
         /\ "PAWN" \notin code => code = {type, c}
<1>1. type \in {"PAWN", "ROOK", "KING", "BISHOP"} /\ c \in {"WHITE", "BLACK"}
  BY DEF PieceType, Side
<1>2. CASE "PAWN" \in code
  <2>1. code \ {"ROOK", "BISHOP"} = {type, c}
    BY <1>2 DEF Norm
  <2>2. \A f : f \in code /\ f \notin {"ROOK", "BISHOP"} <=> f = type \/ f = c
    BY <2>1
  <2>3. "PAWN" = type
    BY <1>1, <1>2, <2>2
  <2>4. \A f \in {"WHITE", "BLACK"} : f \in code <=> f = c
    BY <1>1, <2>2
  <2> QED
    BY <1>1, <1>2, <2>3, <2>4 DEF color, Side
<1>3. CASE "PAWN" \notin code
  <2>1. code = {type, c}
    BY <1>3 DEF Norm
  <2> QED
    BY <1>1, <1>3, <2>1 DEF color, Side
<1> QED
  BY <1>2, <1>3

LEMMA BottomDestinations ==
  ASSUME NEW q \in bottom, NEW arr, NEW type \in PieceType, NEW c \in Side,
         Norm(arr[q]) = {type, c}, NEW ours, NEW theirs, Shows(arr, c, ours, theirs)
  PROVE  /\ BottomTargets(arr[q], q, arr) \subseteq Track
         /\ PointsOf(BottomTargets(arr[q], q, arr)) =
              Destinations(type, Point(q), ours, theirs)
<1>1. color(arr[q]) = {c}
  BY NormTests
<1>2. /\ construct_bottom_pawn_moves_with_board(q, arr) \subseteq Track
      /\ construct_bottom_king_moves_with_board(q, arr) \subseteq Track
      /\ construct_bottom_bishop_moves_with_board(q, arr) \subseteq Track
      /\ construct_bottom_rook_moves_with_board(q, arr) \subseteq Track
  <2>1. Alike(color(arr[q]), arr, color(arr[q]), arr)
    BY DEF Alike
  <2> QED
    BY <2>1, BottomFacts DEF SameTargets
<1>3. /\ PointsOf(construct_bottom_pawn_moves_with_board(q, arr)) =
           Destinations("PAWN", Point(q), ours, theirs)
      /\ PointsOf(construct_bottom_king_moves_with_board(q, arr)) =
           Destinations("KING", Point(q), ours, theirs)
      /\ PointsOf(construct_bottom_bishop_moves_with_board(q, arr)) =
           Destinations("BISHOP", Point(q), ours, theirs)
      /\ PointsOf(construct_bottom_rook_moves_with_board(q, arr)) =
           Destinations("ROOK", Point(q), ours, theirs)
  BY <1>1, StepPoints, BishopPoints, RookPoints
<1>4. type \in {"PAWN", "ROOK", "BISHOP", "KING"} /\ c \notin {"PAWN", "ROOK", "BISHOP", "KING"}
  BY DEF PieceType, Side
<1>5. /\ "PAWN" \in arr[q] <=> type = "PAWN"
      /\ "PAWN" \notin arr[q] => arr[q] = {type, c}
  BY NormTests
<1>6. /\ type = "PAWN" => BottomTargets(arr[q], q, arr) =
                            construct_bottom_pawn_moves_with_board(q, arr)
      /\ type = "ROOK" => BottomTargets(arr[q], q, arr) =
                            construct_bottom_rook_moves_with_board(q, arr)
      /\ type = "BISHOP" => BottomTargets(arr[q], q, arr) =
                              construct_bottom_bishop_moves_with_board(q, arr)
      /\ type = "KING" => BottomTargets(arr[q], q, arr) =
                            construct_bottom_king_moves_with_board(q, arr)
  <2>1. type # "PAWN" => \A t \in {"PAWN", "ROOK", "BISHOP", "KING"} : t \in arr[q] <=> t = type
    BY <1>4, <1>5
  <2> QED
    BY <1>4, <1>5, <2>1 DEF BottomTargets
<1> QED
  BY <1>2, <1>3, <1>4, <1>6

(* No square has something on it that is of neither colour. *)
Coloured(a) ==
  \A t \in Track : board_0(a)[t] # EMPTY => \E d \in Side : d \in board_0(a)[t]

(* The points of the men of one colour, and all men's, on the board and in *)
(* the array of any side (rotate_board).                                   *)
LEMMA MenShown ==
  ASSUME NEW a, Coloured(a), NEW c \in Side
  PROVE  /\ MenOf(a, c) \in SUBSET RingPoints
         /\ Shows(board_0(a), c, MenOf(a, c), MenOf(a, Opponent(c)))
<1>1. \A d \in Side : MenOf(a, d) \subseteq RingPoints
  BY PointFacts DEF MenOf
<1>2. \A d, t : t \in Track => (Point(t) \in MenOf(a, d) <=> d \in board_0(a)[t])
  BY PointFacts, PointInjective DEF MenOf
<1>3. \A t \in Track : board_0(a)[t] # EMPTY =>
                         c \in board_0(a)[t] \/ Opponent(c) \in board_0(a)[t]
  <2>1. \A d \in Side : d = c \/ d = Opponent(c)
    BY DEF Side, Opponent
  <2> QED
    BY <2>1 DEF Coloured
<1>4. \A t \in Track : Point(t) \in MenOf(a, c) <=> {c} \cap board_0(a)[t] # {}
  BY <1>2
<1>5. \A t \in Track : Point(t) \notin MenOf(a, c) \cup MenOf(a, Opponent(c)) <=>
                         board_0(a)[t] = EMPTY
  <2>1. EMPTY = {}
    BY DEF EMPTY
  <2> QED
    BY <1>2, <1>3, <2>1
<1> QED
  BY <1>1, <1>4, <1>5 DEF Shows

LEMMA TurnShown ==
  ASSUME NEW v \in View, NEW arr, NEW arr0, NEW c,
         NEW ours \in SUBSET RingPoints, NEW theirs \in SUBSET RingPoints,
         Shows(arr0, c, ours, theirs),
         \A s \in Track : \E t \in Track : Rot[v][t] = s /\ arr[s] = arr0[t]
  PROVE  Shows(arr, c, TurnSet(v, ours), TurnSet(v, theirs))
<1>1. \A S \in SUBSET RingPoints, p \in RingPoints : Turn(v, p) \in TurnSet(v, S) <=> p \in S
  BY TurnPoints DEF TurnSet
<1>2. ASSUME NEW s \in Track
      PROVE  /\ Point(s) \in TurnSet(v, ours) <=> {c} \cap arr[s] # {}
             /\ Point(s) \notin TurnSet(v, ours) \cup TurnSet(v, theirs) <=> arr[s] = EMPTY
  <2>1. PICK t \in Track : Rot[v][t] = s /\ arr[s] = arr0[t]
    OBVIOUS
  <2>2. Point(s) = Turn(v, Point(t)) /\ Point(t) \in RingPoints
    BY <2>1, TurnPoints, PointFacts
  <2>3. /\ Point(s) \in TurnSet(v, ours) <=> Point(t) \in ours
        /\ Point(s) \in TurnSet(v, theirs) <=> Point(t) \in theirs
    BY <1>1, <2>2
  <2>4. /\ Point(t) \in ours <=> {c} \cap arr0[t] # {}
        /\ Point(t) \notin ours \cup theirs <=> arr0[t] = EMPTY
    BY DEF Shows
  <2> QED
    BY <2>1, <2>3, <2>4
<1> QED
  BY <1>2 DEF Shows

(* Wherever a man stands and whatever else stands on the board, it goes to *)
(* the geometric destinations.                                             *)
THEOREM GeneratorRules ==
  ASSUME NEW a \in BoardData, ViewsAgree(a), Coloured(a),
         NEW p \in Track, NEW type \in PieceType, NEW c \in Side,
         Norm(board_0(a)[p]) = {type, c}
  PROVE  FollowsRules(a, p)
<1> DEFINE v == ViewOf(p)
           q == Rot[v][p]
           arr == a.board[v]
           code == board_0(a)[p]
           ours == MenOf(a, c)
           theirs == MenOf(a, Opponent(c))
           M == _get_pseudolegal_moves_for_piece(a, p)
           T == BottomTargets(code, q, arr)
           D == Destinations(type, Point(p), ours, theirs)
<1>1. p \in Square /\ Opponent(c) \in Side
  BY TrackFacts DEF Side, Opponent
<1>2. /\ v \in View /\ q \in bottom /\ bottom \subseteq Track
      /\ \A t \in Track : \E r \in Track : Rot[v][r] = t /\ Rot[Back(v)][t] = r
  BY ViewFacts
<1>3. \A r \in Track : arr[Rot[v][r]] = board_0(a)[r]
  BY <1>2, TrackFacts DEF ViewsAgree
<1>4. ours \in SUBSET RingPoints /\ theirs \in SUBSET RingPoints
  BY <1>1, MenShown
<1>5. M = {[p0 |-> p, p1 |-> Rot[Back(v)][t], promo |-> pr] :
             t \in BottomTargets(code, q, arr),
             pr \in IF "PAWN" \in code /\ \E d \in color(code) : p \in PromotesAt(d)
                      THEN {{"ROOK"}, {"BISHOP"}} ELSE {{}}}
  BY DEF _get_pseudolegal_moves_for_piece, BottomTargets
<1> HIDE DEF v, q, arr, code, M, T, D
<1>6. {m.p1 : m \in M} = {Rot[Back(v)][t] : t \in T}
  <2> DEFINE P == IF "PAWN" \in code /\ \E d \in color(code) : p \in PromotesAt(d)
                    THEN {{"ROOK"}, {"BISHOP"}} ELSE {{}}
  <2>1. \E pr : pr \in P
    OBVIOUS
  <2>2. M = {[p0 |-> p, p1 |-> Rot[Back(v)][t], promo |-> pr] : t \in T, pr \in P}
    BY <1>5 DEF T
  <2> HIDE DEF P
  <2>3. ASSUME NEW m \in M PROVE \E t \in T : m.p1 = Rot[Back(v)][t]
    <3>1. PICK t \in T, pr \in P : m = [p0 |-> p, p1 |-> Rot[Back(v)][t], promo |-> pr]
      BY <2>2
    <3> QED
      BY <3>1
  <2>4. ASSUME NEW t \in T PROVE \E m \in M : m.p1 = Rot[Back(v)][t]
    <3>1. PICK pr \in P : TRUE
      BY <2>1
    <3>2. [p0 |-> p, p1 |-> Rot[Back(v)][t], promo |-> pr] \in M
      BY <2>2
    <3> QED
      BY <3>2
  <2> QED
    BY <2>3, <2>4
<1>7. T \subseteq Track /\ PointsOf(T) = Destinations(type, Point(q), TurnSet(v, ours), TurnSet(v, theirs))
  <2>1. \A s \in Track : \E t \in Track : Rot[v][t] = s /\ arr[s] = board_0(a)[t]
    BY <1>2, <1>3
  <2>2. Shows(board_0(a), c, ours, theirs)
    BY <1>1, MenShown
  <2>3. Shows(arr, c, TurnSet(v, ours), TurnSet(v, theirs))
    <3> DEFINE arr0 == board_0(a)
    <3>1. /\ v \in View /\ Shows(arr0, c, ours, theirs)
          /\ ours \in SUBSET RingPoints /\ theirs \in SUBSET RingPoints
          /\ \A s \in Track : \E t \in Track : Rot[v][t] = s /\ arr[s] = arr0[t]
      BY <1>2, <1>4, <2>1, <2>2
    <3> HIDE DEF arr0, ours, theirs
    <3> QED
      BY <3>1, TurnShown
  <2>4. arr[q] = code /\ Norm(arr[q]) = {type, c}
    BY <1>3 DEF q, code
  <2> QED
    BY <1>1, <1>2, <2>3, <2>4, BottomDestinations DEF T
<1>8. PointsOf(T) = TurnSet(v, D)
  <2>1. Point(q) = Turn(v, Point(p)) /\ Point(p) \in RingPoints
    BY <1>1, <1>2, TurnPoints, PointFacts DEF q
  <2> QED
    BY <1>1, <1>2, <1>4, <1>7, <2>1, TurnDestinations DEF D
<1>9. D \subseteq RingPoints
  BY <1>1, <1>4, PointFacts, QuarterDestinations DEF D
<1>10. \A t \in T : /\ Point(Rot[Back(v)][t]) \in RingPoints
                    /\ Turn(v, Point(Rot[Back(v)][t])) = Point(t)
  <2> SUFFICES ASSUME NEW t \in T
               PROVE  /\ Point(Rot[Back(v)][t]) \in RingPoints
                      /\ Turn(v, Point(Rot[Back(v)][t])) = Point(t)
    OBVIOUS
  <2>1. PICK r \in Track : Rot[v][r] = t /\ Rot[Back(v)][t] = r
    BY <1>2, <1>7
  <2> QED
    BY <1>2, <2>1, TurnPoints, PointFacts
<1>11. {Point(m.p1) : m \in M} = D
  <2> DEFINE G == {Point(m.p1) : m \in M}
  <2>1. G = {Point(Rot[Back(v)][t]) : t \in T}
    <3>1. G = {Point(r) : r \in {m.p1 : m \in M}}
      OBVIOUS
    <3> QED
      BY <1>6, <3>1
  <2>2. G \subseteq RingPoints
    BY <1>10, <2>1
  <2>3. \A x : x \in PointsOf(T) <=> \E t \in T : x = Point(t)
    BY DEF PointsOf
  <2>4. \A x \in RingPoints : x \in G <=> Turn(v, x) \in PointsOf(T)
    <3> HIDE DEF G
    <3>1. ASSUME NEW x \in G PROVE Turn(v, x) \in PointsOf(T)
      BY <1>10, <2>1, <2>3, <3>1
    <3>2. ASSUME NEW x \in RingPoints, Turn(v, x) \in PointsOf(T) PROVE x \in G
      <4>1. PICK t \in T : Turn(v, x) = Point(t)
        BY <2>3, <3>2
      <4>2. x = Point(Rot[Back(v)][t])
        BY <1>2, <1>10, <4>1, TurnPoints
      <4> QED
        BY <2>1, <4>2
    <3> QED
      BY <3>1, <3>2
  <2>5. \A x \in RingPoints : Turn(v, x) \in TurnSet(v, D) <=> x \in D
    BY <1>2, <1>9, TurnPoints DEF TurnSet
  <2> HIDE DEF G
  <2>6. G = D
    BY <1>8, <1>9, <2>2, <2>4, <2>5
  <2> QED
    BY <2>6 DEF G
<1>12. /\ Norm(board_0(a)[p]) = {type, c}
       /\ {Point(m.p1) : m \in _get_pseudolegal_moves_for_piece(a, p)} =
            Destinations(type, Point(p), MenOf(a, c), MenOf(a, Opponent(c)))
  BY <1>11 DEF M, D
<1> QED
  BY <1>12 DEF FollowsRules
=============================================================================
