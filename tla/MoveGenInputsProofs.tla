------------------------ MODULE MoveGenInputsProofs ------------------------
(***************************************************************************)
(* The inputs of MoveGenInputs with any number of blockers: the generator  *)
(* favours neither colour and finds the geometric moves of MoveRules.      *)
(***************************************************************************)
EXTENDS MoveGenInputs, MoveGenProofs

(***************************************************************************)
(* The inputs.                                                             *)
(***************************************************************************)

(* A man alone on its square. *)
OneMan(code) == \E c \in Side, t \in PieceType : code = {c, t}

(* The man to be moved stands on its square, and the four arrays show one  *)
(* position, in which no square holds more than a man.                     *)
InputsInv ==
  /\ man \in [type : PieceType, colour : Side, at : Ring]
  /\ board \in BoardData
  /\ ViewsAgree(board)
  /\ \A q \in Square : board_0(board)[q] # EMPTY => OneMan(board_0(board)[q])
  /\ board_0(board)[man.at] = {man.type, man.colour}

(* A man is put on a square (Write). *)
LEMMA PutFacts ==
  ASSUME NEW b \in BoardData, ViewsAgree(b), NEW q \in Square, NEW code \in Code
  PROVE  /\ Put(b, q, code) \in BoardData
         /\ ViewsAgree(Put(b, q, code))
         /\ \A r \in Square : board_0(Put(b, q, code))[r] =
                                IF r = q THEN code ELSE board_0(b)[r]
<1> DEFINE w == Write(b.board, q, code)
           p == Put(b, q, code)
<1>1. b.board \in Arrays
  BY BoardTypes
<1>2. /\ w \in Arrays
      /\ \A v \in View, r \in Square :
           w[v][Rot[v][r]] = IF r = q THEN code ELSE b.board[v][Rot[v][r]]
  BY <1>1, WriteFacts
<1> HIDE DEF w
<1>3. p \in BoardData /\ p.board = w
  BY <1>2 DEF Put, BoardData, w
<1>4. Home \in View /\ \A r \in Square : Rot[Home][r] = r
  BY BoardAssumption
<1>5. \A r \in Square : board_0(p)[r] = IF r = q THEN code ELSE board_0(b)[r]
  BY <1>2, <1>3, <1>4 DEF board_0
<1>6. ViewsAgree(p)
  BY <1>2, <1>3, <1>5 DEF ViewsAgree
<1> QED
  BY <1>3, <1>5, <1>6

(* A colour and a type are a code, of that colour only. *)
LEMMA ManCode ==
  ASSUME NEW c \in Side, NEW t \in PieceType
  PROVE  {t, c} \in Code /\ {t, c} # EMPTY /\ color({t, c}) = {c} /\ OneMan({t, c})
<1>1. t \notin Side
  BY DEF Side, PieceType
<1>2. {t, c} = {c, t}
  OBVIOUS
<1> QED
  BY <1>1, <1>2 DEF Code, EMPTY, color, OneMan

(* The empty board. *)
LEMMA EmptyBoardFacts ==
  /\ EmptyBoard \in BoardData
  /\ ViewsAgree(EmptyBoard)
  /\ \A q \in Square : board_0(EmptyBoard)[q] = EMPTY
<1> DEFINE none == [v \in View |-> [q \in Square |-> EMPTY]]
<1>1. none \in Arrays
  BY DEF Arrays, Code, EMPTY
<1>2. EmptyBoard \in BoardData /\ EmptyBoard.board = none
  <2> HIDE DEF none
  <2>1. EmptyBoard = [InitialBoard EXCEPT !.board = none]
    BY DEF EmptyBoard, none
  <2> QED
    BY <1>1, <2>1, InitialBoardFacts DEF BoardData
<1>3. \A v \in View, q \in Square : none[v][q] = EMPTY
  OBVIOUS
<1> HIDE DEF none
<1>4. \A q \in Square : board_0(EmptyBoard)[q] = EMPTY
  BY <1>2, <1>3, BoardAssumption DEF board_0
<1>5. \A v \in View, q \in Square : Rot[v][q] \in Square
  BY BoardAssumption
<1> QED
  BY <1>2, <1>3, <1>4, <1>5 DEF ViewsAgree

(* A man is put on the empty board, then one more on a free square.        *)
LEMMA InitInputs == Init => InputsInv
<1> SUFFICES ASSUME Init PROVE InputsInv
  OBVIOUS
<1>1. man \in [type : PieceType, colour : Side, at : Ring] /\ man.at \in Square
  BY PointFacts, TrackFacts DEF Init
<1>2. {man.type, man.colour} \in Code /\ OneMan({man.type, man.colour})
  BY <1>1, ManCode
<1> QED
  <2> DEFINE b == Put(EmptyBoard, man.at, {man.type, man.colour})
  <2>0. board = b
    BY DEF Init
  <2>1. /\ b \in BoardData /\ ViewsAgree(b)
        /\ \A r \in Square : board_0(b)[r] = IF r = man.at THEN {man.type, man.colour}
                                              ELSE board_0(EmptyBoard)[r]
    BY ZenonT(40), <1>1, <1>2, EmptyBoardFacts, PutFacts
  <2> HIDE DEF b
  <2> QED
    BY <1>1, <1>2, <2>0, <2>1, EmptyBoardFacts DEF InputsInv

LEMMA BlockInputs ==
  ASSUME InputsInv, NEW q \in Square, NEW c \in Side, Block(q, c)
  PROVE  InputsInv'
<1>1. man.at \in Square /\ man \in [type : PieceType, colour : Side, at : Ring]
  BY PointFacts, TrackFacts DEF InputsInv
<1>2. {"PAWN", c} \in Code /\ OneMan({"PAWN", c})
  BY ManCode DEF PieceType
<1>3. man.at # q
  BY <1>1, ManCode DEF Block, InputsInv
<1>4. /\ board' \in BoardData /\ ViewsAgree(board')
      /\ \A r \in Square : board_0(board')[r] = IF r = q THEN {"PAWN", c} ELSE board_0(board)[r]
  <2> DEFINE code == {"PAWN", c}
             b == Put(board, q, code)
  <2>1. board' = b
    BY DEF Block
  <2>2. board \in BoardData /\ ViewsAgree(board) /\ code \in Code
    BY <1>2 DEF InputsInv
  <2> HIDE DEF code
  <2>3. /\ b \in BoardData /\ ViewsAgree(b)
        /\ \A r \in Square : board_0(b)[r] = IF r = q THEN code ELSE board_0(board)[r]
    BY <2>2, PutFacts
  <2> QED
    BY <2>1, <2>3 DEF code
<1>5. man' = man
  BY DEF Block
<1> QED
  BY <1>1, <1>2, <1>3, <1>4, <1>5 DEF InputsInv

(* The inductive invariant of the inputs, for any number of blockers.      *)
THEOREM InputsInductive == Spec => []InputsInv
<1>1. InputsInv /\ [Next]_vars => InputsInv'
  <2> SUFFICES ASSUME InputsInv, [Next]_vars PROVE InputsInv'
    OBVIOUS
  <2>1. CASE Next
    BY <2>1, BlockInputs DEF Next
  <2>2. CASE UNCHANGED vars
    BY <2>2 DEF vars, InputsInv
  <2> QED
    BY <2>1, <2>2
<1> QED
  BY <1>1, InitInputs, PTL DEF Spec

(* After half a turn of the board and with the colours changed every man   *)
(* has the turned moves, however many men are in its way                   *)
(* (_get_pseudolegal_moves_for_piece on all four sides).                   *)
THEOREM NeitherSideFavoured == Spec => []HalfTurn
<1>1. InputsInv => HalfTurn
  <2> SUFFICES ASSUME InputsInv PROVE HalfTurn
    OBVIOUS
  <2> DEFINE t == [board EXCEPT !.board = HalfTurned(@)]
  <2>1. board \in BoardData /\ ViewsAgree(board) /\ man.at \in Track
    BY PointFacts DEF InputsInv
  <2>2. t.board = HalfTurned(board.board)
    BY <2>1 DEF BoardData
  <2> HIDE DEF t
  <2>3. _get_pseudolegal_moves_for_piece(t, cw_180[man.at]) =
          {TurnedMove(m) : m \in _get_pseudolegal_moves_for_piece(board, man.at)}
    BY <2>1, <2>2, TurnedPieceMoves
  <2> QED
    BY <2>3 DEF HalfTurn, Moves, t
<1> QED
  BY <1>1, InputsInductive, PTL

(* The generator's tables, region tests and ray lists produce the moves of *)
(* Rollerball's geometry for every man on every square, however many men   *)
(* are in its way (_get_pseudolegal_moves_for_piece).                      *)
THEOREM GeneratorMatchesRules == Spec => []MatchesRules
<1>1. InputsInv => MatchesRules
  <2> SUFFICES ASSUME InputsInv PROVE MatchesRules
    OBVIOUS
  <2>1. /\ board \in BoardData /\ ViewsAgree(board) /\ man.at \in Track
        /\ man.type \in PieceType /\ man.colour \in Side
        /\ board_0(board)[man.at] = {man.type, man.colour}
    BY PointFacts DEF InputsInv
  <2>2. Coloured(board)
    BY TrackFacts DEF InputsInv, Coloured, OneMan
  <2>3. Norm({man.type, man.colour}) = {man.type, man.colour}
    BY <2>1 DEF Norm, PieceType, Side
  <2> QED
    BY <2>1, <2>2, <2>3, GeneratorRules DEF MatchesRules
<1> QED
  BY <1>1, InputsInductive, PTL
=============================================================================
