----------------------------- MODULE Evaluation -----------------------------
(***************************************************************************)
(* The evaluation of src/engine.cpp: prepare_features and the weighted sum *)
(* WSum with the weights it is built with, which is the evaluator that     *)
(* find_best_move uses.  It is read here on the boards that games and      *)
(* searches produce (Rollerball.tla).                                      *)
(*                                                                         *)
(* The sum is exact, in fiftieths: linear + num / den, where the fraction  *)
(* is what the two ratios contribute.  The feature connected_pawns is      *)
(* computed, partly from a variable without a value, and then not used.    *)
(***************************************************************************)
EXTENDS Rollerball

abs(x) == IF x < 0 THEN -x ELSE x

(* The piece of the other side in the same place of the list. *)
Counterpart(i) == (i + 6) % 12

(* Places of the list of pieces: the two rooks, king, bishop, two pawns,   *)
(* black's before white's.                                                 *)
ASSUME EvaluationAssumption ==
  /\ Piece = PieceIndex
  /\ \A i \in Piece : Owner[i] = IF i < 6 THEN "BLACK" ELSE "WHITE"
  /\ \A i \in Piece : StartCode[Counterpart(i)] = Recoloured(StartCode[i])

Men(c) == {i \in Piece : Owner[i] = c}
First(c) == CHOOSE i \in Men(c) : \A j \in Men(c) : i <= j
Rooks(c) == {First(c), First(c) + 1}
Bishop(c) == First(c) + 3
Pawns(c) == {First(c) + 4, First(c) + 5}

sign_alive(board, i, type) ==
  board.piece[i] # DEAD /\ type \in board_0(board)[board.piece[i]]

Count(board, places, type) == Cardinality({i \in places : sign_alive(board, i, type)})

(* Mutant: black's goal is white's. *)
Goal_Same(c) == {<<4, 5>>, <<4, 6>>}
Goal(c) == IF c = "BLACK" THEN {<<2, 0>>, <<2, 1>>} ELSE {<<4, 5>>, <<4, 6>>}

manhattan_to_promotion(board, i, c) ==
  IF ~sign_alive(board, i, "PAWN") THEN 0
  ELSE LET p == board.piece[i]
           to(g) == abs(getx(p) - g[1]) + abs(gety(p) - g[2])
           d == CHOOSE d \in {to(g) : g \in Goal(c)} : \A g \in Goal(c) : d <= to(g)
       IN  7 - d

promotion(board, c) ==
  LET near(i) == manhattan_to_promotion(board, i, c)
  IN  near(First(c) + 4) + near(First(c) + 5)

(* Mutant: a mate counts for the mated. *)
CheckFeature_Sign(checked, moves, c) ==
  LET mine == IF c = "WHITE" THEN 1 ELSE -1
  IN  IF ~checked THEN 0 ELSE IF moves = 0 THEN 100000 * mine ELSE mine
(* A check counts for the side that is in check, a mate against it. *)
CheckFeature(checked, moves, c) ==
  LET mine == IF c = "WHITE" THEN 1 ELSE -1
  IN  IF ~checked THEN 0 ELSE IF moves = 0 THEN -100000 * mine ELSE mine

prepare_features(board, moves) ==
  LET pawns(c)   == Count(board, Pawns(c), "PAWN")
      rooks(c)   == Count(board, Rooks(c) \cup Pawns(c), "ROOK")
      bishops(c) == Count(board, {Bishop(c)} \cup Pawns(c), "BISHOP")
      pieces(c)  == 1 + pawns(c) + 5 * rooks(c) + 3 * bishops(c)
  IN  [pawns     |-> pawns("WHITE") - pawns("BLACK"),
       rooks     |-> rooks("WHITE") - rooks("BLACK"),
       bishops   |-> bishops("WHITE") - bishops("BLACK"),
       white     |-> pieces("WHITE"),
       black     |-> pieces("BLACK"),
       promotion |-> promotion(board, "WHITE") - promotion(board, "BLACK"),
       check     |-> CheckFeature(in_check(board), moves, board.player_to_play)]

(* WSum::evaluate with the weights 1, 10, 3, 0.5, -0.5, 0.02 and 0.8. *)
evaluate(f) ==
  [linear |-> 50 * f.pawns + 500 * f.rooks + 150 * f.bishops + f.promotion + 40 * f.check,
   num    |-> 25 * (f.white * f.white - f.black * f.black),
   den    |-> f.white * f.black]

(* The value of the position a move leads to (Order_Children). *)
Value(board) == evaluate(prepare_features(board, Cardinality(get_legal_moves(board))))

(***************************************************************************)
(* Properties.                                                             *)
(***************************************************************************)

(* x >= y.  The ratios are below 1200; TLC has integers of 32 bits only.   *)
AtLeast(x, y) ==
  LET d == x.linear - y.linear
  IN  \/ d > 2400
      \/ d >= -2400 /\ d * x.den * y.den >= y.num * x.den - x.num * y.den

(* After half a turn of the board, for the other colour. *)
Turned(board) ==
  [board EXCEPT
     !.piece = [i \in Piece |-> cw_180[@[Counterpart(i)]]],
     !.board = HalfTurned(@),
     !.player_to_play = Opponent(@)]

(* The evaluation favours neither colour: a position with colours changed  *)
(* and the board turned is worth the opposite, on every board a game or a  *)
(* search comes to.                                                        *)
Antisymmetric ==
  LET x == Value(InUse)
      y == Value(Evaluated(Turned(InUse)))
  IN  x.linear = -y.linear /\ x.num = -y.num /\ x.den = y.den

(* A move that mates is worth more to its player than any that does not    *)
(* (or as much), so Order_Children can put it first, whatever material the *)
(* others win.                                                             *)
MateIsBest ==
  LET after(m) == Evaluated(do_move(InUse, m))
      mates(m) == LET d == after(m) IN in_check(d) /\ get_legal_moves(d) = {}
      legal == get_legal_moves(InUse)
  IN  \A m \in legal : mates(m) => \A n \in legal :
        \/ mates(n)
        \/ IF InUse.player_to_play = "WHITE" THEN AtLeast(Value(after(m)), Value(after(n)))
                                             ELSE AtLeast(Value(after(n)), Value(after(m)))

(* The features the search evaluates in a position of its line are those   *)
(* of the game played to that position, but for the flags undone           *)
(* promotions left behind.                                                 *)
FeaturesOf(board) == prepare_features(board, Cardinality(get_legal_moves(board)))
WithoutFlags(board) == [board EXCEPT !.board = [v \in View |-> [q \in Square |-> Norm(@[v][q])]]]

EvaluatesTheGame ==
  s # NoBoard =>
    FeaturesOf(Evaluated(WithoutFlags(s))) = FeaturesOf(Evaluated(Replay(root, line)))
=============================================================================
