------------------------------ MODULE MoveGen ------------------------------
(***************************************************************************)
(* The move generator of src/board.cpp.  Moves are written for the bottom  *)
(* side of the board only: a piece on another side is looked up in the     *)
(* array in which its side is the bottom one, and the moves found there    *)
(* are turned back.  The squares are pos(x, y) = 8 * y + x; the board has  *)
(* 7 files and 7 rows, without the 3 x 3 squares in the middle.            *)
(***************************************************************************)
EXTENDS Board, Sequences, FiniteSetsExt

ArrayIndex == 0..63
pos(x, y) == 8 * y + x
getx(p) == p % 8
gety(p) == p \div 8
DEAD == pos(7, 7)

(***************************************************************************)
(* Tables of board.cpp (TLA+ sequences start at 1).                        *)
(***************************************************************************)
Table(rows) == [p \in ArrayIndex |-> rows[p + 1]]

cw_90 == Table(<<
  48, 40, 32, 24, 16,  8,  0,  7,
  49, 41, 33, 25, 17,  9,  1, 15,
  50, 42, 18, 19, 20, 10,  2, 23,
  51, 43, 26, 27, 28, 11,  3, 31,
  52, 44, 34, 35, 36, 12,  4, 39,
  53, 45, 37, 29, 21, 13,  5, 47,
  54, 46, 38, 30, 22, 14,  6, 55,
  56, 57, 58, 59, 60, 61, 62, 63>>)

acw_90 == Table(<<
   6, 14, 22, 30, 38, 46, 54,  7,
   5, 13, 21, 29, 37, 45, 53, 15,
   4, 12, 18, 19, 20, 44, 52, 23,
   3, 11, 26, 27, 28, 43, 51, 31,
   2, 10, 34, 35, 36, 42, 50, 39,
   1,  9, 17, 25, 33, 41, 49, 47,
   0,  8, 16, 24, 32, 40, 48, 55,
  56, 57, 58, 59, 60, 61, 62, 63>>)

cw_180 == Table(<<
  54, 53, 52, 51, 50, 49, 48,  7,
  46, 45, 44, 43, 42, 41, 40, 15,
  38, 37, 18, 19, 20, 33, 32, 23,
  30, 29, 26, 27, 28, 25, 24, 31,
  22, 21, 34, 35, 36, 17, 16, 39,
  14, 13, 12, 11, 10,  9,  8, 47,
   6,  5,  4,  3,  2,  1,  0, 55,
  56, 57, 58, 59, 60, 61, 62, 63>>)

id == [p \in ArrayIndex |-> p]

Orientation == {0, 90, 180, 270}
RotTables == [v \in Orientation |-> CASE v = 0   -> id     [] v = 90  -> cw_90
                                      [] v = 180 -> cw_180 [] v = 270 -> acw_90]

(* BoardData and Board::Board: places 0 to 5 of the list are black. *)
PieceIndex == 0..11
StartSquares ==
  LET squares == <<pos(2,5), pos(2,6), pos(3,5), pos(3,6), pos(4,5), pos(4,6),
                   pos(4,1), pos(4,0), pos(3,1), pos(3,0), pos(2,1), pos(2,0)>>
  IN  [i \in PieceIndex |-> squares[i + 1]]
StartCodes ==
  LET men == <<"ROOK", "ROOK", "KING", "BISHOP", "PAWN", "PAWN">>
  IN  [i \in PieceIndex |-> {IF i < 6 THEN "BLACK" ELSE "WHITE", men[(i % 6) + 1]}]
KingIdx(c) == IF c = "BLACK" THEN 2 ELSE 8

(***************************************************************************)
(* The bottom side.  arr is the array, own the colour of the piece on p0;  *)
(* each operator is the set of squares p0 can go to.                       *)
(***************************************************************************)
(* Mutant: a man steps onto one of its own side. *)
FreeOf_OntoOwn(own, arr, squares) == squares
FreeOf(own, arr, squares) == {p \in squares : own \cap arr[p] = {}}

(* Along a ray: up to the first piece, and onto it if it is not ours. *)
Sweep(own, arr, ray) ==
  {ray[k] : k \in {k \in DOMAIN ray : /\ \A j \in 1..(k - 1) : arr[ray[j]] = EMPTY
                                      /\ own \cap arr[ray[k]] = {}}}

(* To the left edge; from the outer lane on, up that edge, if still free. *)
left_rook_reflect == <<0, 8, 16, 24, 32, 40, 48>>
(* Mutant: the rook does not turn the corner. *)
LeftRay_NoCorner(p0) == [k \in 1..getx(p0) |-> p0 - k]
LeftRay(p0) ==
  [k \in 1..getx(p0) |-> p0 - k] \o (IF p0 < 8 THEN left_rook_reflect ELSE <<>>)

construct_bottom_rook_moves_with_board(p0, arr) ==
  LET own   == color(arr[p0])
      steps == {p \in {p0 + 8, p0 - 8, p0 + 1} :
                  \/ p = p0 + 8 /\ (p0 < 8 \/ p0 = 13)
                  \/ p = p0 - 8 /\ p0 >= 8
                  \/ p = p0 + 1 /\ p0 # 6}
      up    == IF p0 = 1 THEN [y \in 1..6 |-> pos(1, y)] ELSE <<>>
  IN  FreeOf(own, arr, steps) \cup Sweep(own, arr, up) \cup Sweep(own, arr, LeftRay(p0))

BishopRays(p0) ==
  CASE p0 = 1  -> {<<pos(0,1), pos(1,2)>>}
    [] p0 = 2  -> {<<pos(1,1), pos(0,2), pos(1,3)>>}
    [] p0 = 3  -> {<<pos(2,1), pos(1,2), pos(0,3), pos(1,4), pos(2,5), pos(3,6)>>}
    [] p0 \in {4, 5} -> {<<p0 + 7, p0 - 2>>}
    [] p0 = 6  -> {<<pos(5,1)>>}
    [] p0 = 10 -> {<<pos(1,2), pos(0,3), pos(1,4), pos(2,5), pos(3,6)>>,
                   <<pos(1,0), pos(0,1)>>}
    [] p0 = 11 -> {<<pos(2,0), pos(1,1), pos(0,2)>>}
    [] p0 = 12 -> {<<pos(3,0), pos(2,1), pos(1,2), pos(0,3)>>}
    [] p0 = 13 -> {<<pos(4,0), pos(3,1)>>}

construct_bottom_bishop_moves_with_board(p0, arr) ==
  LET own  == color(arr[p0])
      back == {p \in {p0 + 9, p0 - 7} : \/ p = p0 + 9 /\ (p0 < 6 \/ p0 >= 12)
                                        \/ p = p0 - 7 /\ p0 > 6}
  IN  FreeOf(own, arr, back) \cup UNION {Sweep(own, arr, ray) : ray \in BishopRays(p0)}

construct_bottom_pawn_moves_with_board(p0, arr) ==
  FreeOf(color(arr[p0]), arr,
         {pos(getx(p0) - 1, 0), pos(getx(p0) - 1, 1)} \cup {p \in {17} : p0 = 10})

construct_bottom_king_moves_with_board(p0, arr) ==
  LET x == getx(p0)
  IN  FreeOf(color(arr[p0]), arr,
             {pos(x - 1, 0), pos(x - 1, 1), pos(x, 1 - gety(p0))}
               \cup {p \in {pos(x - 1, 2)} : p0 = 10}
               \cup {p \in {pos(x + 1, 0), pos(x + 1, 1)} : p0 # 6}
               \cup {p \in {pos(x + 1, 2)} : p0 >= 12}
               \cup {p \in {pos(x, 2)} : p0 = 13})

(***************************************************************************)
(* All sides.                                                              *)
(***************************************************************************)
bottom == {1, 2, 3, 4, 5, 6, 10, 11, 12, 13}
left   == {0, 8, 16, 24, 32, 40, 9, 17, 25, 33}
top    == {48, 49, 50, 51, 52, 53, 41, 42, 43, 44}
right  == {54, 46, 38, 30, 22, 14, 45, 37, 29, 21}

(* The squares of the board: the indices between the files and in the      *)
(* middle belong to no side.                                               *)
Track == bottom \cup left \cup top \cup right

(* The orientation in which a square is at the bottom, and its inverse. *)
ViewOf(p) == CASE p \in left -> 270 [] p \in top -> 180 [] p \in right -> 90 [] OTHER -> 0
Back(v) == CASE v = 270 -> 90 [] v = 90 -> 270 [] OTHER -> v

(* What the generator takes for granted of the tables and of the list of   *)
(* pieces: a rotation leaves no square of the board, it can be turned      *)
(* back, and it brings every side to the bottom.                           *)
ASSUME MoveGenAssumption ==
  /\ Square = ArrayIndex
  /\ Dead = DEAD
  /\ View = Orientation
  /\ \A v \in View, q \in Track : Rot[v][q] \in Track /\ Rot[Back(v)][Rot[v][q]] = q
  /\ \A q \in Track : Rot[ViewOf(q)][q] \in bottom
  /\ \A i \in Piece : Start[i] \in Track
  /\ \A c \in Side : KingIdx(c) \in Piece /\ Owner[KingIdx(c)] = c

(* Mutant: one of black's squares is wrong. *)
PromotesAt_OffByOne(c) == IF c = "WHITE" THEN {51, 43} ELSE {11, 4}
PromotesAt(c) == IF c = "WHITE" THEN {51, 43} ELSE {11, 3}

(* A pawn is looked for first: the flag a promotion leaves behind on it    *)
(* does not change how it moves.  A promoting pawn has two moves to each   *)
(* of its squares.                                                         *)
_get_pseudolegal_moves_for_piece(b, p) ==
  LET code == board_0(b)[p]
      v    == ViewOf(p)
      arr  == b.board[v]
      q    == Rot[v][p]
      promotes == "PAWN" \in code /\ \E c \in color(code) : p \in PromotesAt(c)
      targets == IF "PAWN" \in code THEN construct_bottom_pawn_moves_with_board(q, arr)
            ELSE IF "ROOK" \in code THEN construct_bottom_rook_moves_with_board(q, arr)
            ELSE IF "BISHOP" \in code THEN construct_bottom_bishop_moves_with_board(q, arr)
            ELSE IF "KING" \in code THEN construct_bottom_king_moves_with_board(q, arr)
            ELSE {}
  IN  {[p0 |-> p, p1 |-> Rot[Back(v)][t], promo |-> pr] :
         t \in targets,
         pr \in IF promotes THEN {{"ROOK"}, {"BISHOP"}} ELSE {{}}}

Live(b, c) == {b.piece[i] : i \in {i \in Piece : Owner[i] = c}} \ {DEAD}

_get_pseudolegal_moves_for_side(b, c) ==
  UNION {_get_pseudolegal_moves_for_piece(b, p) : p \in Live(b, c)}

_get_pseudolegal_moves(b) == _get_pseudolegal_moves_for_side(b, b.player_to_play)

_under_threat(b, p) ==
  \E m \in _get_pseudolegal_moves_for_side(b, Opponent(b.player_to_play)) : m.p1 = p

in_check(b) == _under_threat(b, b.piece[KingIdx(b.player_to_play)])

(* TLC puts off the evaluation of a function and repeats it at every use;  *)
(* comparing a board with itself makes TLC evaluate it, once.              *)
Evaluated(b) == IF b = b THEN b ELSE b

(* Mutant: every move is legal. *)
TryMove_Unchecked(acc, m) == [c |-> acc.c, legal |-> acc.legal \cup {m}]

(* One turn of the loop of get_legal_moves: acc.c is the copy on which all *)
(* moves are done and undone in place, in the order of a hash set.         *)
TryMove(acc, m) ==
  LET done == Evaluated(_do_move(acc.c, m))
  IN  [c |-> Evaluated(_undo_last_move(done, m)),
       legal |-> acc.legal \cup {n \in {m} : ~in_check(done)}]

get_legal_moves(b) ==
  FoldSet(LAMBDA m, acc : TryMove(acc, m),
          [c |-> b, legal |-> {}], _get_pseudolegal_moves(b)).legal
(***************************************************************************)
(* The board after half a turn, for the other colour: what properties      *)
(* compare it with.                                                        *)
(***************************************************************************)
Recoloured(code) == {IF f \in Side THEN Opponent(f) ELSE f : f \in code}
HalfTurned(arrays) ==
  [v \in View |-> [q \in Square |-> Recoloured(arrays[v][cw_180[q]])]]
TurnedMove(m) == [p0 |-> cw_180[m.p0], p1 |-> cw_180[m.p1], promo |-> m.promo]
Opposite(v) == (v + 180) % 360

(* Half a turn is the same from every side, and leads to the opposite one. *)
ASSUME HalfTurnAssumption ==
  \A v \in View, q \in Square :
    /\ Rot[v][cw_180[q]] = cw_180[Rot[v][q]]
    /\ Rot[Opposite(v)][q] = cw_180[Rot[v][q]]
=============================================================================
