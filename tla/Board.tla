------------------------------- MODULE Board -------------------------------
(***************************************************************************)
(* The board of src/board.hpp and src/board.cpp: a list of piece squares   *)
(* and the same position stored four times, once for every orientation in  *)
(* which the move generator reads it.  This module has the data and the    *)
(* operations that change it (doing and undoing a move); MoveGen.tla has   *)
(* the moves.  Nothing here depends on the geometry of the board, which is *)
(* a parameter: the proofs in GameProofs.tla hold for every geometry, and  *)
(* MCRollerball gives the constants the values of the source.              *)
(***************************************************************************)
EXTENDS Integers, FiniteSets

CONSTANTS
  Square,     \* indices of a board array
  Dead,       \* the index written for a captured piece
  View,       \* the stored orientations
  Home,       \* the orientation of board_0
  Rot,        \* Rot[v][q]: where square q is found in orientation v
  Piece,      \* positions in the list of piece squares
  Start,      \* the square of each piece in a new game
  StartCode   \* what stands there

(* A U8 of the board is the set of the flags that are on; 0 is the empty set. *)
Side == {"WHITE", "BLACK"}
PieceType == {"PAWN", "ROOK", "KING", "BISHOP"}
Code == SUBSET (Side \cup PieceType)
EMPTY == {}

(* The flag a promotion sets; {} is a move without promotion. *)
Promotion == {{}, {"ROOK"}, {"BISHOP"}}

Playable == Square \ {Dead}
Move == [p0 : Playable, p1 : Playable, promo : Promotion]

NoIdx == -1

Owner == [i \in Piece |-> CHOOSE c \in Side : c \in StartCode[i]]
Opponent(c) == CHOOSE d \in Side : d # c

ASSUME BoardAssumption ==
  /\ Dead \in Square
  /\ Home \in View
  /\ Rot \in [View -> [Square -> Square]]
  /\ \A v \in View : \A p, q \in Square : Rot[v][p] = Rot[v][q] => p = q
  /\ \A v \in View : \A q \in Square : \E p \in Square : Rot[v][p] = q
  /\ \A q \in Square : Rot[Home][q] = q
  /\ Piece \subseteq Nat
  /\ IsFiniteSet(Piece)
  /\ Start \in [Piece -> Playable]
  /\ \A i, j \in Piece : Start[i] = Start[j] => i = j
  /\ StartCode \in [Piece -> {{c, t} : c \in Side, t \in PieceType}]

(***************************************************************************)
(* The data.                                                               *)
(***************************************************************************)
Arrays == [View -> [Square -> Code]]

BoardData == [piece : [Piece -> Square],
              board : Arrays,
              player_to_play : Side,
              last_killed_piece : Code,
              last_killed_piece_idx : Piece \cup {NoIdx}]

color(code) == code \cap Side

board_0(b) == b.board[Home]

(* rotate_board: the array tgt with tgt[transform[i]] = src[i]. *)
rotate_board(src, transform) ==
  [q \in Square |-> LET i == CHOOSE i \in Square : transform[i] = q IN src[i]]

InitialBoard ==
  LET placed == [q \in Square |->
                   IF \E i \in Piece : Start[i] = q
                   THEN StartCode[CHOOSE i \in Piece : Start[i] = q]
                   ELSE EMPTY]
  IN  [piece                 |-> Start,
       board                 |-> [v \in View |-> rotate_board(placed, Rot[v])],
       player_to_play        |-> "WHITE",
       last_killed_piece     |-> EMPTY,
       last_killed_piece_idx |-> NoIdx]

(***************************************************************************)
(* Doing a move.                                                           *)
(***************************************************************************)

(* One square is written in all four arrays, each at its own index. *)
Write(boards, q, code) ==
  [v \in View |-> [boards[v] EXCEPT ![Rot[v][q]] = code]]

(* Mutant: the promoted piece is still a pawn as well. *)
Promote_KeepsPawn(code, promo) == IF promo = {} THEN code ELSE code \cup promo
Promote(code, promo) == IF promo = {} THEN code ELSE color(code) \cup promo

_flip_player(b) == [b EXCEPT !.player_to_play = Opponent(@)]

(* Mutant: the captured piece stays on the list. *)
_do_move_KeepsCaptured(b, m) ==
  [piece |-> [i \in Piece |-> IF b.piece[i] = m.p0 THEN m.p1 ELSE b.piece[i]],
   board |-> Write(Write(b.board, m.p1, Promote(board_0(b)[m.p0], m.promo)), m.p0, EMPTY),
   player_to_play |-> b.player_to_play,
   last_killed_piece |-> board_0(b)[m.p1],
   last_killed_piece_idx |-> NoIdx]

_do_move(b, m) ==
  LET killed == {i \in Piece : b.piece[i] = m.p1}
      code   == Promote(board_0(b)[m.p0], m.promo)
  IN  [piece |-> [i \in Piece |-> IF i \in killed THEN Dead
                                  ELSE IF b.piece[i] = m.p0 THEN m.p1
                                  ELSE b.piece[i]],
       board |-> Write(Write(b.board, m.p1, code), m.p0, EMPTY),
       player_to_play |-> b.player_to_play,
       last_killed_piece |-> IF killed = {} THEN EMPTY ELSE board_0(b)[m.p1],
       last_killed_piece_idx |->
         IF killed = {} THEN NoIdx
         ELSE CHOOSE i \in killed : \A j \in killed : j <= i]

do_move(b, m) == _flip_player(_do_move(b, m))

(***************************************************************************)
(* Undoing it.  The piece type that comes back from a promotion is         *)
(* ((piecetype & (WHITE | BLACK)) ^ ROOK) | PAWN: the exclusive or was     *)
(* meant to remove the flag, but the mask has just removed it, so the pawn *)
(* comes back with the flag of the piece it had become.  Norm removes this *)
(* flag, and Similar compares two boards without it.                       *)
(***************************************************************************)
(* Mutant: the piece stays what the pawn was promoted to. *)
Demote_KeepsPiece(code, promo) == code
Demote(code, promo) ==
  IF promo = {} THEN code ELSE (color(code) \cup promo) \cup {"PAWN"}

(* Mutant: the captured piece does not come back to the arrays.            *)
_undo_last_move_LosesCaptured(b, m) ==
  [piece |-> [i \in Piece |-> IF i = b.last_killed_piece_idx THEN m.p1
                              ELSE IF b.piece[i] = m.p1 THEN m.p0
                              ELSE b.piece[i]],
   board |-> Write(Write(b.board, m.p0, Demote(board_0(b)[m.p1], m.promo)), m.p1, EMPTY),
   player_to_play |-> b.player_to_play,
   last_killed_piece |-> EMPTY,
   last_killed_piece_idx |-> NoIdx]
_undo_last_move(b, m) ==
  LET moved == {i \in Piece : b.piece[i] = m.p1}
      first == {i \in moved : \A j \in moved : i <= j}
      code  == Demote(board_0(b)[m.p1], m.promo)
  IN  [piece |-> [i \in Piece |-> IF i = b.last_killed_piece_idx THEN m.p1
                                  ELSE IF i \in first THEN m.p0
                                  ELSE b.piece[i]],
       board |-> Write(Write(b.board, m.p0, code), m.p1, b.last_killed_piece),
       player_to_play |-> b.player_to_play,
       last_killed_piece |-> EMPTY,
       last_killed_piece_idx |-> NoIdx]

(* The copy of it in engine.cpp, which gives the turn back as well. *)
(* Mutant: the turn is not given back. *)
undo_last_move_KeepsTurn(b, m) == _undo_last_move(b, m)
undo_last_move(b, m) == _flip_player(_undo_last_move(b, m))

Norm(code) == IF "PAWN" \in code THEN code \ {"ROOK", "BISHOP"} ELSE code

Similar(a, b) ==
  /\ a.piece = b.piece
  /\ a.player_to_play = b.player_to_play
  /\ \A q \in Square : Norm(board_0(a)[q]) = Norm(board_0(b)[q])

(***************************************************************************)
(* What every move the generator returns has in common (MoveGen.tla).      *)
(***************************************************************************)
IsCandidate(b, m) ==
  /\ m \in Move
  /\ m.p0 # m.p1
  /\ \E i \in Piece : b.piece[i] = m.p0 /\ Owner[i] = b.player_to_play
  /\ b.player_to_play \notin board_0(b)[m.p1]
  /\ m.promo # {} => "PAWN" \in board_0(b)[m.p0]

CandidateMoves(b) ==
  LET own == {b.piece[i] : i \in {i \in Piece : Owner[i] = b.player_to_play}} \ {Dead}
      free == {q \in Playable : b.player_to_play \notin board_0(b)[q]}
  IN  UNION {[p0 : {p}, p1 : free,
              promo : IF "PAWN" \in board_0(b)[p] THEN Promotion ELSE {{}}] : p \in own}

(***************************************************************************)
(* What the rest of the program takes for granted of a board.              *)
(***************************************************************************)

(* No two pieces of the list stand on one square. *)
OnePerSquare(b) ==
  \A i, j \in Piece : b.piece[i] = b.piece[j] /\ b.piece[i] # Dead => i = j

(* A square of the array holds something exactly if the list says so. *)
ListedIffOccupied(b) ==
  \A q \in Square : board_0(b)[q] # EMPTY
                      <=> q # Dead /\ \E i \in Piece : b.piece[i] = q

(* What can stand on the square of piece i: the man it started as, or what *)
(* a pawn becomes.  in_check finds the kings by their place in the list.   *)
Forms(i) ==
  {StartCode[i]} \cup
    (IF "PAWN" \in StartCode[i] THEN {{Owner[i], "ROOK"}, {Owner[i], "BISHOP"}} ELSE {})

SameMan(b) ==
  \A i \in Piece : b.piece[i] # Dead => Norm(board_0(b)[b.piece[i]]) \in Forms(i)

(* The four arrays show one position. *)
ViewsAgree(b) ==
  \A v \in View, q \in Square : b.board[v][Rot[v][q]] = board_0(b)[q]

Consistent(b) ==
  OnePerSquare(b) /\ ListedIffOccupied(b) /\ SameMan(b) /\ ViewsAgree(b)

(* No pawn carries the flag of a piece it was promoted to and back. *)
Clean(b) == \A q \in Square : board_0(b)[q] = Norm(board_0(b)[q])
=============================================================================
