--------------------------- MODULE MoveGenInputs ---------------------------
(***************************************************************************)
(* Inputs for _get_pseudolegal_moves_for_piece: one man anywhere on the    *)
(* board, then up to MaxBlockers others of either colour, each put where   *)
(* the man could have gone (elsewhere they change nothing).                *)
(***************************************************************************)
EXTENDS MoveRules

CONSTANT MaxBlockers

VARIABLES
  man,      \* [type, colour, at]
  board,    \* the board
  blockers  \* how many men were added

vars == <<man, board, blockers>>

EmptyBoard == [InitialBoard EXCEPT
  !.board = [v \in View |-> [q \in Square |-> EMPTY]]]

Put(b, q, code) == [b EXCEPT !.board = Write(@, q, code)]

Init ==
  /\ man \in [type : PieceType, colour : Side, at : Ring]
  /\ board = Put(EmptyBoard, man.at, {man.type, man.colour})
  /\ blockers = 0

Moves == _get_pseudolegal_moves_for_piece(board, man.at)
Targets == {m.p1 : m \in Moves}

Block(q, c) ==
  /\ blockers < MaxBlockers
  /\ board_0(board)[q] = EMPTY
  /\ board' = Put(board, q, {"PAWN", c})
  /\ blockers' = blockers + 1
  /\ UNCHANGED man

Next == \E q \in Targets \cap Square, c \in Side : Block(q, c)

Spec == Init /\ [][Next]_vars

(* The tables, region tests and ray lists of the generator produce exactly *)
(* the geometric moves, on every side of the board and around its corners. *)
MatchesRules == FollowsRules(board, man.at)

(* The board reads the same after half a turn, for the other colour: no    *)
(* side of the board has a move the opposite side lacks (this includes the *)
(* squares on which a pawn is promoted).                                   *)
HalfTurn ==
  _get_pseudolegal_moves_for_piece([board EXCEPT !.board = HalfTurned(@)], cw_180[man.at]) =
    {TurnedMove(m) : m \in Moves}
=============================================================================
