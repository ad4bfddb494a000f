---------------------------- MODULE BoardProofs ----------------------------
(***************************************************************************)
(* What doing and undoing a move does to a board, for every geometry.      *)
(***************************************************************************)
EXTENDS Board, TLAPS

(***************************************************************************)
(* Codes.                                                                  *)
(***************************************************************************)

(* A piece has one of the two colours. *)
LEMMA OwnerType ==
  ASSUME NEW i \in Piece
  PROVE  /\ Owner[i] \in Side
         /\ \E t \in PieceType : StartCode[i] = {Owner[i], t}
         /\ Opponent(Owner[i]) \in Side
<1>1. PICK c \in Side, t \in PieceType : StartCode[i] = {c, t}
  BY BoardAssumption
<1>2. \A d \in Side : d \in {c, t} => d = c
  BY DEF Side, PieceType
<1>3. Owner[i] = c
  BY <1>1, <1>2 DEF Owner
<1> QED
  BY <1>1, <1>3 DEF Opponent, Side

(* Opponent exchanges the two colours. *)
LEMMA OpponentInvolution ==
  ASSUME NEW c \in Side
  PROVE  Opponent(c) \in Side /\ Opponent(c) # c /\ Opponent(Opponent(c)) = c
BY DEF Side, Opponent

(* Promotion (_do_move) and its undoing (_undo_last_move) yield codes. *)
LEMMA CodeTypes ==
  ASSUME NEW code \in Code, NEW promo \in Promotion
  PROVE  Promote(code, promo) \in Code /\ Demote(code, promo) \in Code
BY DEF Promote, Demote, Code, Promotion, PieceType, color

(* The flags Norm removes are neither a man's colour nor all it has. *)
LEMMA NormFacts ==
  ASSUME NEW code \in Code
  PROVE  /\ Norm(code) = EMPTY <=> code = EMPTY
         /\ color(Norm(code)) = color(code)
         /\ "PAWN" \in Norm(code) <=> "PAWN" \in code
         /\ \A c \in Side : c \in Norm(code) <=> c \in code
         /\ Norm(Norm(code)) = Norm(code)
BY DEF Norm, EMPTY, color, Side, Code

(* A square that holds a form of piece i is not empty and has its colour. *)
LEMMA FormFacts ==
  ASSUME NEW i \in Piece, NEW code \in Code, Norm(code) \in Forms(i)
  PROVE  /\ code # EMPTY
         /\ color(code) = {Owner[i]}
         /\ "PAWN" \in code => /\ Norm(code) = {Owner[i], "PAWN"}
                               /\ StartCode[i] = {Owner[i], "PAWN"}
<1>1. PICK t \in PieceType : StartCode[i] = {Owner[i], t}
  BY OwnerType
<1>2. Owner[i] \in Side
  BY OwnerType
<1>3. PICK u \in PieceType : /\ Norm(code) = {Owner[i], u}
                             /\ u = "PAWN" => StartCode[i] = {Owner[i], "PAWN"}
  BY <1>1, <1>2 DEF Forms, PieceType
<1>4. color(Norm(code)) = {Owner[i]}
  BY <1>2, <1>3 DEF color, Side, PieceType
<1>5. "PAWN" \in Norm(code) => u = "PAWN"
  BY <1>2, <1>3 DEF Side
<1> QED
  BY <1>3, <1>4, <1>5, NormFacts DEF EMPTY

(* Promoting a pawn gives a form of the same piece. *)
LEMMA PromoteForm ==
  ASSUME NEW i \in Piece, NEW code \in Code, Norm(code) \in Forms(i),
         NEW promo \in Promotion, promo # {} => "PAWN" \in code
  PROVE  Norm(Promote(code, promo)) \in Forms(i)
<1>1. CASE promo = {}
  BY <1>1 DEF Promote
<1>2. CASE promo # {}
  <2>1. color(code) = {Owner[i]} /\ StartCode[i] = {Owner[i], "PAWN"}
    BY <1>2, FormFacts
  <2>2. Owner[i] \in Side
    BY OwnerType
  <2>3. PICK t \in {"ROOK", "BISHOP"} : promo = {t}
    BY <1>2 DEF Promotion
  <2>4. Promote(code, promo) = {Owner[i], t}
    BY <1>2, <2>1, <2>3 DEF Promote
  <2>5. Norm({Owner[i], t}) = {Owner[i], t}
    BY <2>2 DEF Norm, Side
  <2> QED
    BY <2>1, <2>3, <2>4, <2>5 DEF Forms
<1> QED
  BY <1>1, <1>2

(* Undoing a move gives a man back that is the old one up to Norm. *)
LEMMA DemoteNorm ==
  ASSUME NEW i \in Piece, NEW code \in Code, Norm(code) \in Forms(i),
         NEW promo \in Promotion, promo # {} => "PAWN" \in code,
         NEW now \in Code, Norm(now) = Norm(Promote(code, promo))
  PROVE  Norm(Demote(now, promo)) = Norm(code)
<1>1. CASE promo = {}
  BY <1>1 DEF Promote, Demote
<1>2. CASE promo # {}
  <2>1. color(code) = {Owner[i]} /\ Norm(code) = {Owner[i], "PAWN"}
    BY <1>2, FormFacts
  <2>2. color(now) = {Owner[i]}
    <3>1. Norm(now) \in Forms(i)
      BY PromoteForm
    <3> QED
      BY <3>1, FormFacts
  <2>3. Owner[i] \in Side
    BY OwnerType
  <2>4. PICK t \in {"ROOK", "BISHOP"} : promo = {t}
    BY <1>2 DEF Promotion
  <2>5. Demote(now, promo) = {Owner[i], t, "PAWN"}
    BY <1>2, <2>2, <2>4 DEF Demote
  <2>6. Norm({Owner[i], t, "PAWN"}) = {Owner[i], "PAWN"}
    BY <2>3 DEF Norm, Side
  <2> QED
    BY <2>1, <2>5, <2>6
<1> QED
  BY <1>1, <1>2

(***************************************************************************)
(* The four arrays.                                                        *)
(***************************************************************************)

(* A write at the four indices of a square changes that square in all      *)
(* orientations and no other.                                              *)
LEMMA WriteFacts ==
  ASSUME NEW boards \in Arrays,
         NEW sq \in Square, NEW code \in Code
  PROVE  /\ Write(boards, sq, code) \in Arrays
         /\ \A v \in View, q \in Square :
              Write(boards, sq, code)[v][Rot[v][q]] =
                IF q = sq THEN code ELSE boards[v][Rot[v][q]]
<1>1. \A v \in View, q \in Square : Rot[v][q] \in Square /\ (Rot[v][q] = Rot[v][sq] => q = sq)
  BY BoardAssumption
<1> QED
  BY <1>1 DEF Write, Arrays

(* Two writes, as every move makes them: in the array as it is stored, and *)
(* as they read from any of the four.                                      *)
Written(boards, sq1, code1, sq2, code2) == Write(Write(boards, sq1, code1), sq2, code2)

AsRead(array, sq1, code1, sq2, code2) ==
  [q \in Square |-> IF q = sq2 THEN code2 ELSE IF q = sq1 THEN code1 ELSE array[q]]

ArraysAgree(boards) ==
  \A v \in View, q \in Square : boards[v][Rot[v][q]] = boards[Home][q]

(* Both writes reach all four arrays alike. *)
LEMMA WrittenFacts ==
  ASSUME NEW boards \in Arrays,
         NEW sq1 \in Square, NEW code1 \in Code,
         NEW sq2 \in Square, NEW code2 \in Code,
         ArraysAgree(boards)
  PROVE  /\ Written(boards, sq1, code1, sq2, code2) \in Arrays
         /\ Written(boards, sq1, code1, sq2, code2)[Home] =
              AsRead(boards[Home], sq1, code1, sq2, code2)
         /\ ArraysAgree(Written(boards, sq1, code1, sq2, code2))
<1> DEFINE w1 == Write(boards, sq1, code1)
           w  == Write(w1, sq2, code2)
<1>1. /\ w1 \in Arrays
      /\ \A v \in View, q \in Square :
           w1[v][Rot[v][q]] = IF q = sq1 THEN code1 ELSE boards[v][Rot[v][q]]
  BY WriteFacts
<1>2. /\ w \in Arrays
      /\ \A v \in View, q \in Square :
           w[v][Rot[v][q]] = IF q = sq2 THEN code2 ELSE w1[v][Rot[v][q]]
  <2> HIDE DEF w1
  <2> QED
    BY <1>1, WriteFacts
<1>3. Home \in View /\ \A q \in Square : Rot[Home][q] = q
  BY BoardAssumption
<1> HIDE DEF w1, w
<1>4. \A v \in View, q \in Square :
        w[v][Rot[v][q]] = IF q = sq2 THEN code2
                          ELSE IF q = sq1 THEN code1 ELSE boards[Home][q]
  BY <1>1, <1>2 DEF ArraysAgree
<1>5. \A q \in Square : w[Home][q] = w[Home][Rot[Home][q]]
  BY <1>3
<1>6. w = Written(boards, sq1, code1, sq2, code2)
  BY DEF w, w1, Written
<1> QED
  <2>1. w[Home] \in [Square -> Code]
    BY <1>2, <1>3 DEF Arrays
  <2>2. \A q \in Square : w[Home][q] = IF q = sq2 THEN code2
                                       ELSE IF q = sq1 THEN code1 ELSE boards[Home][q]
    BY <1>3, <1>4, <1>5
  <2>3. w[Home] = AsRead(boards[Home], sq1, code1, sq2, code2)
    BY <2>1, <2>2 DEF AsRead
  <2>4. ArraysAgree(w)
    BY <1>4, <2>2 DEF ArraysAgree
  <2> QED
    BY <1>2, <1>6, <2>3, <2>4

(***************************************************************************)
(* Boards.                                                                 *)
(***************************************************************************)

(* The fields of a board have their types. *)
LEMMA BoardTypes ==
  ASSUME NEW a \in BoardData
  PROVE  /\ a.piece \in [Piece -> Square]
         /\ a.board \in Arrays
         /\ board_0(a) \in [Square -> Code]
         /\ a.player_to_play \in Side
         /\ a.last_killed_piece \in Code
         /\ a.last_killed_piece_idx \in Piece \cup {NoIdx}
BY BoardAssumption DEF BoardData, Arrays, board_0

(* A move's squares and the man that moves. *)
LEMMA CandidateFacts ==
  ASSUME NEW a \in BoardData, Consistent(a), NEW m, IsCandidate(a, m)
  PROVE  /\ m.p0 \in Square /\ m.p1 \in Square /\ m.promo \in Promotion
         /\ m.p0 # Dead /\ m.p1 # Dead /\ m.p0 # m.p1
         /\ \E i \in Piece : /\ a.piece[i] = m.p0
                             /\ \A j \in Piece : a.piece[j] = m.p0 => j = i
                             /\ Norm(board_0(a)[m.p0]) \in Forms(i)
                             /\ m.promo # {} => "PAWN" \in board_0(a)[m.p0]
BY DEF IsCandidate, Move, Playable, Consistent, OnePerSquare, SameMan

(* Similar is an equivalence. *)
LEMMA SimilarEquivalence ==
  ASSUME NEW x, NEW y, NEW z
  PROVE  /\ Similar(x, x)
         /\ Similar(x, y) => Similar(y, x)
         /\ Similar(x, y) /\ Similar(y, z) => Similar(x, z)
BY DEF Similar

(* A board like a consistent one is consistent if its arrays agree.        *)
LEMMA SimilarConsistent ==
  ASSUME NEW a \in BoardData, NEW x \in BoardData,
         Consistent(a), Similar(x, a), ViewsAgree(x)
  PROVE  Consistent(x)
<1>1. \A q \in Square : Norm(board_0(x)[q]) = Norm(board_0(a)[q])
  BY DEF Similar
<1>2. x.piece = a.piece /\ a.piece \in [Piece -> Square]
  BY BoardTypes DEF Similar
<1>3. \A q \in Square : board_0(x)[q] = EMPTY <=> board_0(a)[q] = EMPTY
  BY <1>1, NormFacts, BoardTypes
<1>4. OnePerSquare(x)
  BY <1>2 DEF Consistent, OnePerSquare
<1>5. ListedIffOccupied(x)
  BY <1>2, <1>3 DEF Consistent, ListedIffOccupied
<1>6. SameMan(x)
  BY <1>1, <1>2 DEF Consistent, SameMan
<1> QED
  BY <1>4, <1>5, <1>6 DEF Consistent

(* What do_move does to each field. *)
LEMMA DoMoveFacts ==
  ASSUME NEW a \in BoardData, Consistent(a), NEW m, IsCandidate(a, m)
  PROVE  LET d == do_move(a, m)
         IN  /\ d \in BoardData
             /\ d.player_to_play = Opponent(a.player_to_play)
             /\ \A i \in Piece : d.piece[i] = IF a.piece[i] = m.p1 THEN Dead
                                              ELSE IF a.piece[i] = m.p0 THEN m.p1
                                              ELSE a.piece[i]
             /\ \A q \in Square : board_0(d)[q] =
                                    IF q = m.p0 THEN EMPTY
                                    ELSE IF q = m.p1 THEN Promote(board_0(a)[m.p0], m.promo)
                                    ELSE board_0(a)[q]
             /\ ViewsAgree(d)
             /\ d.last_killed_piece = board_0(a)[m.p1]
             /\ \A i \in Piece : d.last_killed_piece_idx = i <=> a.piece[i] = m.p1
<1> DEFINE d == do_move(a, m)
           code == Promote(board_0(a)[m.p0], m.promo)
           killed == {i \in Piece : a.piece[i] = m.p1}
           list == [i \in Piece |-> IF i \in killed THEN Dead
                                    ELSE IF a.piece[i] = m.p0 THEN m.p1
                                    ELSE a.piece[i]]
           idx == IF killed = {} THEN NoIdx
                  ELSE CHOOSE i \in killed : \A j \in killed : j <= i
           arrays == Written(a.board, m.p1, code, m.p0, EMPTY)
           taken == IF killed = {} THEN EMPTY ELSE board_0(a)[m.p1]
<1>1. /\ m.p0 \in Square /\ m.p1 \in Square /\ m.promo \in Promotion
      /\ m.p0 # Dead /\ m.p1 # Dead /\ m.p0 # m.p1
  BY CandidateFacts
<1>2. /\ a.piece \in [Piece -> Square] /\ a.board \in Arrays
      /\ board_0(a) \in [Square -> Code] /\ a.player_to_play \in Side
  BY BoardTypes
<1>3. /\ d.piece = list /\ d.board = arrays
      /\ d.player_to_play = Opponent(a.player_to_play)
      /\ d.last_killed_piece = taken /\ d.last_killed_piece_idx = idx
      /\ d = [piece |-> list, board |-> arrays,
              player_to_play |-> Opponent(a.player_to_play),
              last_killed_piece |-> taken, last_killed_piece_idx |-> idx]
  <2>1. _do_move(a, m) = [piece |-> list, board |-> arrays, player_to_play |-> a.player_to_play,
                          last_killed_piece |-> taken, last_killed_piece_idx |-> idx]
    BY DEF _do_move, Written
  <2> HIDE DEF list, arrays, taken, idx
  <2> QED
    BY <2>1 DEF do_move, _flip_player
<1>4. list \in [Piece -> Square]
  BY <1>1, <1>2, BoardAssumption
<1>5. code \in Code /\ EMPTY \in Code
  BY <1>1, <1>2, CodeTypes DEF Code, EMPTY
<1>6. /\ arrays \in Arrays
      /\ arrays[Home] = AsRead(a.board[Home], m.p1, code, m.p0, EMPTY)
      /\ ArraysAgree(arrays)
  <2>1. ArraysAgree(a.board)
    BY DEF Consistent, ViewsAgree, board_0, ArraysAgree
  <2> HIDE DEF code
  <2> QED
    BY <1>1, <1>2, <1>5, <2>1, WrittenFacts
<1>7. taken = board_0(a)[m.p1]
  BY <1>1 DEF Consistent, ListedIffOccupied
<1>8. idx \in Piece \cup {NoIdx} /\ \A i \in Piece : idx = i <=> a.piece[i] = m.p1
  <2>1. CASE killed = {}
    BY <2>1, BoardAssumption DEF NoIdx
  <2>2. CASE killed # {}
    <3>1. PICK k \in killed : killed = {k}
      BY <1>1, <2>2 DEF Consistent, OnePerSquare
    <3>2. k \in Nat
      BY BoardAssumption
    <3>3. idx = k
      BY <2>2, <3>1, <3>2
    <3> QED
      BY <3>1, <3>3
  <2> QED
    BY <2>1, <2>2
<1>9. Opponent(a.player_to_play) \in Side
  BY <1>2, OpponentInvolution
<1>10. d \in BoardData
  <2>1. taken \in Code
    BY <1>1, <1>2, <1>7
  <2> HIDE DEF d, list, arrays, taken, idx
  <2> QED
    BY <1>3, <1>4, <1>6, <1>8, <1>9, <2>1 DEF BoardData
<1>11. \A i \in Piece : d.piece[i] = IF a.piece[i] = m.p1 THEN Dead
                                     ELSE IF a.piece[i] = m.p0 THEN m.p1
                                     ELSE a.piece[i]
  BY <1>3
<1> HIDE DEF d, list, arrays, taken, idx, code
<1>12. /\ ViewsAgree(d)
       /\ \A q \in Square : board_0(d)[q] = IF q = m.p0 THEN EMPTY
                                            ELSE IF q = m.p1 THEN code
                                            ELSE board_0(a)[q]
  BY <1>3, <1>6 DEF ViewsAgree, board_0, ArraysAgree, AsRead
<1> QED
  BY <1>3, <1>7, <1>8, <1>10, <1>11, <1>12 DEF d, code

(* A candidate move keeps a board consistent (_do_move). *)
LEMMA DoMoveConsistent ==
  ASSUME NEW a \in BoardData, Consistent(a), NEW m, IsCandidate(a, m)
  PROVE  Consistent(do_move(a, m))
<1> DEFINE d == do_move(a, m)
<1>1. /\ d \in BoardData
      /\ \A i \in Piece : d.piece[i] = IF a.piece[i] = m.p1 THEN Dead
                                       ELSE IF a.piece[i] = m.p0 THEN m.p1
                                       ELSE a.piece[i]
      /\ \A q \in Square : board_0(d)[q] =
                             IF q = m.p0 THEN EMPTY
                             ELSE IF q = m.p1 THEN Promote(board_0(a)[m.p0], m.promo)
                             ELSE board_0(a)[q]
      /\ ViewsAgree(d)
  BY DoMoveFacts
<1>2. /\ m.p0 \in Square /\ m.p1 \in Square /\ m.promo \in Promotion
      /\ m.p0 # Dead /\ m.p1 # Dead /\ m.p0 # m.p1
  BY CandidateFacts
<1>3. PICK mover \in Piece :
        /\ a.piece[mover] = m.p0
        /\ \A j \in Piece : a.piece[j] = m.p0 => j = mover
        /\ Norm(board_0(a)[m.p0]) \in Forms(mover)
        /\ m.promo # {} => "PAWN" \in board_0(a)[m.p0]
  BY CandidateFacts
<1>4. /\ Norm(Promote(board_0(a)[m.p0], m.promo)) \in Forms(mover)
      /\ Promote(board_0(a)[m.p0], m.promo) # EMPTY
  <2>1. board_0(a)[m.p0] \in Code
    BY <1>2, BoardTypes
  <2>2. Norm(Promote(board_0(a)[m.p0], m.promo)) \in Forms(mover)
    BY <1>2, <1>3, <2>1, PromoteForm
  <2> QED
    BY <1>2, <2>1, <2>2, CodeTypes, FormFacts
<1> HIDE DEF d
<1>5. OnePerSquare(d)
  <2> SUFFICES ASSUME NEW i \in Piece, NEW j \in Piece,
                      d.piece[i] = d.piece[j], d.piece[i] # Dead
               PROVE  i = j
    BY DEF OnePerSquare
  <2>1. a.piece[i] # m.p1 /\ a.piece[j] # m.p1
    BY <1>1
  <2>2. CASE a.piece[i] = m.p0
    BY <1>1, <1>2, <1>3, <2>1, <2>2
  <2>3. CASE a.piece[j] = m.p0
    BY <1>1, <1>2, <1>3, <2>1, <2>3
  <2>4. CASE a.piece[i] # m.p0 /\ a.piece[j] # m.p0
    BY <1>1, <2>1, <2>4 DEF Consistent, OnePerSquare
  <2> QED
    BY <2>2, <2>3, <2>4
<1>6. ListedIffOccupied(d)
  <2> SUFFICES ASSUME NEW q \in Square
               PROVE  board_0(d)[q] # EMPTY <=> q # Dead /\ \E i \in Piece : d.piece[i] = q
    BY DEF ListedIffOccupied
  <2>1. CASE q = m.p0
    BY <1>1, <1>2, <2>1
  <2>2. CASE q = m.p1
    BY <1>1, <1>2, <1>3, <1>4, <2>2
  <2>3. CASE q # m.p0 /\ q # m.p1
    <3>1. board_0(a)[q] # EMPTY <=> q # Dead /\ \E i \in Piece : a.piece[i] = q
      BY DEF Consistent, ListedIffOccupied
    <3>2. board_0(d)[q] = board_0(a)[q]
      BY <1>1, <2>3
    <3>3. q # Dead => \A i \in Piece : d.piece[i] = q <=> a.piece[i] = q
      BY <1>1, <2>3
    <3> QED
      BY <3>1, <3>2, <3>3
  <2> QED
    BY <2>1, <2>2, <2>3
<1>7. SameMan(d)
  <2> SUFFICES ASSUME NEW i \in Piece, d.piece[i] # Dead
               PROVE  Norm(board_0(d)[d.piece[i]]) \in Forms(i)
    BY DEF SameMan
  <2>1. a.piece[i] # m.p1
    BY <1>1
  <2>2. CASE a.piece[i] = m.p0
    BY <1>1, <1>2, <1>3, <1>4, <2>1, <2>2
  <2>3. CASE a.piece[i] # m.p0
    <3>1. d.piece[i] = a.piece[i] /\ a.piece[i] \in Square
      BY <1>1, <2>1, <2>3, BoardTypes
    <3>2. board_0(d)[a.piece[i]] = board_0(a)[a.piece[i]]
      BY <1>1, <2>1, <2>3, <3>1
    <3> QED
      BY <3>1, <3>2 DEF Consistent, SameMan
  <2> QED
    BY <2>2, <2>3
<1> QED
  BY <1>1, <1>5, <1>6, <1>7 DEF Consistent, d

(* undo_last_move gives a board again. *)
LEMMA UndoType ==
  ASSUME NEW x \in BoardData, NEW m, ViewsAgree(x),
         m.p0 \in Square, m.p1 \in Square, m.promo \in Promotion
  PROVE  /\ undo_last_move(x, m) \in BoardData
         /\ ViewsAgree(undo_last_move(x, m))
         /\ \A q \in Square : board_0(undo_last_move(x, m))[q] =
              IF q = m.p1 THEN x.last_killed_piece
              ELSE IF q = m.p0 THEN Demote(board_0(x)[m.p1], m.promo)
              ELSE board_0(x)[q]
<1> DEFINE u == undo_last_move(x, m)
           code == Demote(board_0(x)[m.p1], m.promo)
           moved == {i \in Piece : x.piece[i] = m.p1}
           first == {i \in moved : \A j \in moved : i <= j}
           list == [i \in Piece |-> IF i = x.last_killed_piece_idx THEN m.p1
                                    ELSE IF i \in first THEN m.p0
                                    ELSE x.piece[i]]
           arrays == Written(x.board, m.p0, code, m.p1, x.last_killed_piece)
<1>1. /\ x.piece \in [Piece -> Square] /\ x.board \in Arrays
      /\ board_0(x) \in [Square -> Code] /\ x.player_to_play \in Side
      /\ x.last_killed_piece \in Code
  BY BoardTypes
<1>2. _undo_last_move(x, m) = [piece |-> list, board |-> arrays,
                               player_to_play |-> x.player_to_play,
                               last_killed_piece |-> EMPTY,
                               last_killed_piece_idx |-> NoIdx]
  BY DEF _undo_last_move, Written
<1>3. code \in Code /\ EMPTY \in Code
  BY <1>1, CodeTypes DEF Code, EMPTY
<1>4. list \in [Piece -> Square]
  BY <1>1
<1>5. /\ arrays \in Arrays /\ ArraysAgree(arrays)
      /\ arrays[Home] = AsRead(x.board[Home], m.p0, code, m.p1, x.last_killed_piece)
  <2>1. ArraysAgree(x.board)
    BY DEF ViewsAgree, board_0, ArraysAgree
  <2>2. x.board \in Arrays /\ x.last_killed_piece \in Code /\ code \in Code
    BY <1>1, <1>3
  <2> HIDE DEF code, list, u
  <2> QED
    BY <2>1, <2>2, WrittenFacts
<1>6. Opponent(x.player_to_play) \in Side
  BY <1>1, OpponentInvolution
<1> HIDE DEF list, arrays, code
<1>7. u = [piece |-> list, board |-> arrays,
           player_to_play |-> Opponent(x.player_to_play),
           last_killed_piece |-> EMPTY, last_killed_piece_idx |-> NoIdx]
  BY <1>2 DEF undo_last_move, _flip_player
<1> HIDE DEF u
<1>8. u \in BoardData
  BY <1>3, <1>4, <1>5, <1>6, <1>7 DEF BoardData
<1>9. ViewsAgree(u) /\ \A q \in Square : board_0(u)[q] = arrays[Home][q]
  BY <1>5, <1>7 DEF ViewsAgree, board_0, ArraysAgree
<1>10. x.board[Home] = board_0(x)
  BY DEF board_0
<1>11. \A q \in Square : board_0(u)[q] = IF q = m.p1 THEN x.last_killed_piece
                                         ELSE IF q = m.p0 THEN code
                                         ELSE board_0(x)[q]
  BY <1>5, <1>9, <1>10 DEF AsRead
<1> QED
  BY <1>8, <1>9, <1>11 DEF u, code

(* The heart of the search: when the board remembers the piece the move    *)
(* took, taking the move back leads to the board before it, up to Norm.    *)
LEMMA UndoInverts ==
  ASSUME NEW a \in BoardData, Consistent(a), NEW m, IsCandidate(a, m),
         NEW x \in BoardData, ViewsAgree(x), Similar(x, do_move(a, m)),
         x.last_killed_piece = do_move(a, m).last_killed_piece,
         x.last_killed_piece_idx = do_move(a, m).last_killed_piece_idx
  PROVE  /\ undo_last_move(x, m) \in BoardData
         /\ Similar(undo_last_move(x, m), a)
         /\ Consistent(undo_last_move(x, m))
<1> DEFINE d == do_move(a, m)
           u == undo_last_move(x, m)
<1>1. /\ m.p0 \in Square /\ m.p1 \in Square /\ m.promo \in Promotion
      /\ m.p0 # Dead /\ m.p1 # Dead /\ m.p0 # m.p1
  BY CandidateFacts
<1>2. PICK mover \in Piece :
        /\ a.piece[mover] = m.p0
        /\ \A j \in Piece : a.piece[j] = m.p0 => j = mover
        /\ Norm(board_0(a)[m.p0]) \in Forms(mover)
        /\ m.promo # {} => "PAWN" \in board_0(a)[m.p0]
  BY CandidateFacts
<1>3. /\ d \in BoardData
      /\ d.player_to_play = Opponent(a.player_to_play)
      /\ \A i \in Piece : d.piece[i] = IF a.piece[i] = m.p1 THEN Dead
                                       ELSE IF a.piece[i] = m.p0 THEN m.p1
                                       ELSE a.piece[i]
      /\ \A q \in Square : board_0(d)[q] =
                             IF q = m.p0 THEN EMPTY
                             ELSE IF q = m.p1 THEN Promote(board_0(a)[m.p0], m.promo)
                             ELSE board_0(a)[q]
      /\ d.last_killed_piece = board_0(a)[m.p1]
      /\ \A i \in Piece : d.last_killed_piece_idx = i <=> a.piece[i] = m.p1
  BY DoMoveFacts
<1>4. /\ u \in BoardData
      /\ ViewsAgree(u)
      /\ \A q \in Square : board_0(u)[q] =
           IF q = m.p1 THEN x.last_killed_piece
           ELSE IF q = m.p0 THEN Demote(board_0(x)[m.p1], m.promo)
           ELSE board_0(x)[q]
  BY <1>1, UndoType
<1>5. /\ x.piece = d.piece /\ x.player_to_play = d.player_to_play
      /\ \A q \in Square : Norm(board_0(x)[q]) = Norm(board_0(d)[q])
  BY DEF Similar
<1>6. u.player_to_play = a.player_to_play
  <2>1. u.player_to_play = Opponent(x.player_to_play)
    BY DEF undo_last_move, _flip_player, _undo_last_move
  <2> QED
    BY <1>3, <1>5, <2>1, BoardTypes, OpponentInvolution
<1>7. u.piece = a.piece
  <2>1. u.piece \in [Piece -> Square] /\ a.piece \in [Piece -> Square]
    BY <1>4, BoardTypes
  <2> DEFINE moved == {i \in Piece : x.piece[i] = m.p1}
             first == {i \in moved : \A j \in moved : i <= j}
  <2>2. u.piece = [i \in Piece |-> IF i = x.last_killed_piece_idx THEN m.p1
                                   ELSE IF i \in first THEN m.p0
                                   ELSE x.piece[i]]
    BY DEF undo_last_move, _flip_player, _undo_last_move
  <2>3. \A i \in Piece : x.piece[i] = m.p1 <=> i = mover
    BY <1>1, <1>2, <1>3, <1>5
  <2>4. \A i \in Piece : i \in first <=> i = mover
    <3>1. mover <= mover
      BY BoardAssumption
    <3> QED
      BY <2>3, <3>1
  <2> HIDE DEF first
  <2>5. \A i \in Piece : i = x.last_killed_piece_idx <=> a.piece[i] = m.p1
    BY <1>3
  <2>6. ASSUME NEW i \in Piece PROVE u.piece[i] = a.piece[i]
    <3>1. u.piece[i] = IF a.piece[i] = m.p1 THEN m.p1
                       ELSE IF i = mover THEN m.p0 ELSE x.piece[i]
      BY <2>2, <2>4, <2>5
    <3>2. a.piece[i] # m.p1 /\ i # mover => x.piece[i] = a.piece[i]
      BY <1>2, <1>3, <1>5
    <3> QED
      BY <1>2, <3>1, <3>2
  <2> QED
    BY <2>1, <2>6
<1>8. ASSUME NEW q \in Square
      PROVE  Norm(board_0(u)[q]) = Norm(board_0(a)[q])
  <2>1. CASE q = m.p1
    BY <1>3, <1>4, <2>1
  <2>2. CASE q = m.p0
    <3>1. board_0(a)[m.p0] \in Code /\ board_0(x)[m.p1] \in Code
      BY <1>1, BoardTypes
    <3>2. Norm(board_0(x)[m.p1]) = Norm(Promote(board_0(a)[m.p0], m.promo))
      BY <1>1, <1>3, <1>5
    <3>3. Norm(Demote(board_0(x)[m.p1], m.promo)) = Norm(board_0(a)[m.p0])
      BY <1>1, <1>2, <3>1, <3>2, DemoteNorm
    <3> QED
      BY <1>1, <1>4, <2>2, <3>3
  <2>3. CASE q # m.p0 /\ q # m.p1
    BY <1>3, <1>4, <1>5, <2>3
  <2> QED
    BY <2>1, <2>2, <2>3
<1>9. Similar(u, a)
  BY <1>6, <1>7, <1>8 DEF Similar
<1> QED
  BY <1>4, <1>9, SimilarConsistent

(* Order_Children does not change the board but for the flags of Norm. *)
LEMMA ProbeFacts ==
  ASSUME NEW a \in BoardData, Consistent(a), NEW m, IsCandidate(a, m)
  PROVE  LET x == undo_last_move(do_move(a, m), m)
         IN  x \in BoardData /\ Consistent(x) /\ Similar(x, a)
<1>1. do_move(a, m) \in BoardData /\ ViewsAgree(do_move(a, m))
  BY DoMoveFacts
<1>2. Similar(do_move(a, m), do_move(a, m))
  BY SimilarEquivalence
<1> QED
  BY <1>1, <1>2, UndoInverts

(* A new game is consistent and clean (Board::Board). *)
LEMMA InitialBoardFacts ==
  InitialBoard \in BoardData /\ Consistent(InitialBoard) /\ Clean(InitialBoard)
<1> DEFINE placed == [q \in Square |->
                        IF \E i \in Piece : Start[i] = q
                        THEN StartCode[CHOOSE i \in Piece : Start[i] = q]
                        ELSE EMPTY]
           turned(v) == rotate_board(placed, Rot[v])
           B == InitialBoard
<1>1. \A i \in Piece : /\ Start[i] \in Square /\ Start[i] # Dead
                       /\ placed[Start[i]] = StartCode[i]
  BY BoardAssumption DEF Playable
<1>2. \A q \in Square : placed[q] # EMPTY => \E i \in Piece : Start[i] = q
  OBVIOUS
<1>3. ASSUME NEW i \in Piece PROVE StartCode[i] \in Code /\ StartCode[i] # EMPTY
  BY OwnerType DEF Code, EMPTY
<1>4. placed \in [Square -> Code]
  <2>1. EMPTY \in Code
    BY DEF EMPTY, Code
  <2>2. ASSUME NEW q \in Square PROVE placed[q] \in Code
    <3>1. CASE \E i \in Piece : Start[i] = q
      BY <1>1, <1>3, <3>1
    <3>2. CASE ~ \E i \in Piece : Start[i] = q
      BY <2>1, <3>2
    <3> QED
      BY <3>1, <3>2
  <2>3. \A q \in Square : placed[q] \in Code
    BY <2>2
  <2> QED
    BY <2>3
<1> HIDE DEF placed
<1>5. ASSUME NEW v \in View
      PROVE  /\ turned(v) \in [Square -> Code]
             /\ \A q \in Square : turned(v)[Rot[v][q]] = placed[q]
  <2>1. /\ \A p \in Square : Rot[v][p] \in Square
        /\ \A p, q \in Square : Rot[v][p] = Rot[v][q] => p = q
        /\ \A q \in Square : \E p \in Square : Rot[v][p] = q
    BY BoardAssumption
  <2>2. turned(v) = [q \in Square |-> placed[CHOOSE i \in Square : Rot[v][i] = q]]
    BY DEF rotate_board
  <2>3. \A q \in Square : (CHOOSE i \in Square : Rot[v][i] = q) \in Square
    BY <2>1
  <2>4. \A q \in Square : (CHOOSE i \in Square : Rot[v][i] = Rot[v][q]) = q
    BY <2>1
  <2>5. turned(v) \in [Square -> Code]
    BY <1>4, <2>2, <2>3
  <2>6. \A q \in Square : turned(v)[Rot[v][q]] = placed[q]
    BY <2>1, <2>2, <2>4
  <2> QED
    BY <2>5, <2>6
<1>6. B = [piece |-> Start, board |-> [v \in View |-> turned(v)],
           player_to_play |-> "WHITE", last_killed_piece |-> EMPTY,
           last_killed_piece_idx |-> NoIdx]
  BY DEF InitialBoard, placed
<1> HIDE DEF turned, B
<1>7. B.board \in Arrays /\ B.piece \in [Piece -> Square] /\ B.piece = Start
  BY <1>5, <1>6, BoardAssumption DEF Arrays, Playable
<1>8. B \in BoardData
  BY <1>6, <1>7 DEF BoardData, Side, Code, EMPTY
<1>9. Home \in View /\ \A q \in Square : Rot[Home][q] = q
  BY BoardAssumption
<1>10. \A q \in Square : board_0(B)[q] = placed[q]
  BY <1>5, <1>6, <1>9 DEF board_0
<1>11. ViewsAgree(B)
  BY <1>5, <1>6, <1>10 DEF ViewsAgree
<1>12. OnePerSquare(B)
  BY <1>7, BoardAssumption DEF OnePerSquare
<1>13. ListedIffOccupied(B)
  BY <1>1, <1>2, <1>3, <1>7, <1>10 DEF ListedIffOccupied
<1>14. ASSUME NEW i \in Piece PROVE Norm(StartCode[i]) = StartCode[i]
  <2>1. PICK t \in PieceType : StartCode[i] = {Owner[i], t}
    BY OwnerType
  <2>2. Owner[i] \in Side
    BY OwnerType
  <2> QED
    BY <2>1, <2>2 DEF Norm, Side, PieceType
<1>15. SameMan(B)
  BY <1>1, <1>7, <1>10, <1>14 DEF SameMan, Forms
<1>16. Clean(B)
  <2>1. Norm(EMPTY) = EMPTY
    BY DEF Norm, EMPTY
  <2> QED
    BY <1>1, <1>2, <1>10, <1>14, <2>1 DEF Clean
<1> QED
  BY <1>8, <1>11, <1>12, <1>13, <1>15, <1>16 DEF Consistent, B

(* A board that is clean stays so under do_move. *)
LEMMA DoMoveClean ==
  ASSUME NEW a \in BoardData, Consistent(a), Clean(a), NEW m, IsCandidate(a, m)
  PROVE  Clean(do_move(a, m))
<1> DEFINE d == do_move(a, m)
<1>1. /\ m.p0 \in Square /\ m.p1 \in Square /\ m.promo \in Promotion
  BY CandidateFacts
<1>2. \A q \in Square : board_0(d)[q] =
                          IF q = m.p0 THEN EMPTY
                          ELSE IF q = m.p1 THEN Promote(board_0(a)[m.p0], m.promo)
                          ELSE board_0(a)[q]
  BY DoMoveFacts
<1>3. Norm(EMPTY) = EMPTY
  BY DEF Norm, EMPTY
<1>4. LET code == Promote(board_0(a)[m.p0], m.promo) IN Norm(code) = code
  <2>1. CASE m.promo = {}
    BY <1>1, <2>1 DEF Clean, Promote
  <2>2. CASE m.promo # {}
    <3>1. "PAWN" \notin Promote(board_0(a)[m.p0], m.promo)
      BY <1>1, <2>2 DEF Promote, Promotion, color, Side
    <3> QED
      BY <3>1 DEF Norm
  <2> QED
    BY <2>1, <2>2
<1> QED
  BY <1>1, <1>2, <1>3, <1>4 DEF Clean
=============================================================================
