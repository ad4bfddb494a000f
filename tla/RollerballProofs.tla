-------------------------- MODULE RollerballProofs --------------------------
(***************************************************************************)
(* Games and searches with generated moves, and the evaluation of their    *)
(* boards, for every set of tables and every list of pieces that the       *)
(* assumptions of MoveGen, Evaluation and Board allow, every script and    *)
(* every depth of the search.                                              *)
(***************************************************************************)
EXTENDS Evaluation, GameProofs, MoveGenProofs

(* The legal moves are those the comment at get_legal_moves promises.      *)
LEMMA LegalExact ==
  ASSUME NEW a \in BoardData, Consistent(a), OnTrack(a)
  PROVE  get_legal_moves(a) = LegalMoves(a)
<1> DEFINE P == _get_pseudolegal_moves(a)
           base == [c |-> a, legal |-> {}]
           f == CHOOSE f : Turns(base, SUBSET P, f)
<1>1. get_legal_moves(a) = f[P].legal
  <2> HIDE DEF P
  <2> QED
    BY DEF get_legal_moves, FoldSet, MapThenFoldSet, Turns, Pick, P
<1>2. IsFiniteSet(P)
  <2>1. P \in SUBSET Move
    BY GeneratedCandidate DEF IsCandidate
  <2> HIDE DEF P
  <2> QED
    BY <2>1, MovesFinite, FS_Subset
<1> HIDE DEF base
<1>3. \E g : Turns(base, SUBSET P, g)
  <2> HIDE DEF P
  <2>1. Cardinality(P) \in Nat
    BY <1>2, FS_CardinalityType
  <2>2. \A X \in SUBSET P : Cardinality(X) <= Cardinality(P)
    BY <1>2, FS_Subset
  <2>3. Layer(P, Cardinality(P)) = SUBSET P
    BY <2>2 DEF Layer
  <2>4. \E g : Turns(base, Layer(P, Cardinality(P)), g)
    BY <1>2, <2>1, TurnsExist
  <2> QED
    BY <2>3, <2>4
<1>4. Turns(base, SUBSET P, f)
  BY <1>3
<1> HIDE DEF f
<1>5. f[P].legal = Found(a, P)
  <2>1. \A X \in SUBSET P : f[X].legal = Found(a, X)
    BY <1>2, <1>4, LoopFacts DEF base
  <2> HIDE DEF P
  <2> QED
    BY <2>1
<1> QED
  BY <1>1, <1>5 DEF LegalMoves, Found, Evaluated

(* Legal moves are candidates that stay on the board and do not leave the  *)
(* king in check.                                                          *)
LEMMA LegalFacts ==
  ASSUME NEW a \in BoardData, Consistent(a), OnTrack(a), NEW m \in get_legal_moves(a)
  PROVE  /\ m \in _get_pseudolegal_moves(a) /\ IsCandidate(a, m) /\ m.p1 \in Track
         /\ m \in CandidateMoves(a) /\ ~in_check(_do_move(a, m))
<1>1. m \in _get_pseudolegal_moves(a) /\ ~in_check(_do_move(a, m))
  BY LegalExact DEF LegalMoves, Evaluated
<1>2. IsCandidate(a, m) /\ m.p1 \in Track
  BY <1>1, GeneratedCandidate
<1>3. m \in CandidateMoves(a)
  <2>1. /\ m \in Move /\ m.p0 \in Playable /\ m.p1 \in Playable /\ m.promo \in Promotion
        /\ m = [p0 |-> m.p0, p1 |-> m.p1, promo |-> m.promo]
    BY <1>2 DEF IsCandidate, Move
  <2>2. /\ m.p0 \in {a.piece[i] : i \in {i \in Piece : Owner[i] = a.player_to_play}} \ {Dead}
        /\ m.p1 \in {q \in Playable : a.player_to_play \notin board_0(a)[q]}
        /\ m.promo \in IF "PAWN" \in board_0(a)[m.p0] THEN Promotion ELSE {{}}
    BY <1>2, <2>1 DEF IsCandidate, Playable
  <2> QED
    BY <2>1, <2>2 DEF CandidateMoves
<1> QED
  BY <1>1, <1>2, <1>3

(* Like boards have the same legal moves, whichever of them they are tried *)
(* on.                                                                     *)
LEMMA SameLegal ==
  ASSUME NEW a \in BoardData, Consistent(a), OnTrack(a), NEW x \in BoardData, Consistent(x),
         Similar(a, x)
  PROVE  /\ LegalMoves(a) = LegalMoves(x) /\ get_legal_moves(a) = get_legal_moves(x)
         /\ in_check(a) = in_check(x) /\ OnTrack(x)
<1>1. SameMen(a, x) /\ a.player_to_play = x.player_to_play /\ OnTrack(x)
  BY SimilarMen DEF Consistent, Similar
<1>2. a.player_to_play \in Side
  BY BoardTypes
<1>3. _get_pseudolegal_moves(a) = _get_pseudolegal_moves(x)
  BY <1>1, <1>2, SideMoves DEF _get_pseudolegal_moves
<1>4. \A m \in _get_pseudolegal_moves(a) : in_check(_do_move(a, m)) = in_check(_do_move(x, m))
  BY GeneratedCandidate, SameTrial
<1>5. LegalMoves(a) = LegalMoves(x)
  BY <1>3, <1>4 DEF LegalMoves, Evaluated
<1>6. in_check(a) = in_check(x)
  BY <1>1, SameChecks
<1> QED
  BY <1>1, <1>5, <1>6, LegalExact

(***************************************************************************)
(* Games of legal moves.                                                   *)
(***************************************************************************)

(* All men on the board, both kings among them, and the side that has just *)
(* moved not in check.                                                     *)
Proper(a) ==
  /\ OnTrack(a)
  /\ \A d \in Side : a.piece[KingIdx(d)] # DEAD
  /\ ~in_check(_flip_player(a))

(* A board read with the other side to move has the same men on it. *)
LEMMA FlipMen ==
  ASSUME NEW a \in BoardData, ViewsAgree(a)
  PROVE  /\ _flip_player(a) \in BoardData /\ ViewsAgree(_flip_player(a))
         /\ SameMen(a, _flip_player(a)) /\ SameMen(_flip_player(a), a)
<1>1. /\ _flip_player(a) \in BoardData /\ _flip_player(a).piece = a.piece
      /\ _flip_player(a).board = a.board
  BY FlipFacts
<1> HIDE DEF _flip_player
<1> QED
  BY <1>1 DEF SameMen, ViewsAgree, board_0

(* A new game (Board::Board). *)
LEMMA ProperStart == Proper(InitialBoard)
<1>1. InitialBoard.piece = Start
  BY DEF InitialBoard
<1>2. \A i \in Piece : InitialBoard.piece[i] \in Track
  BY <1>1, MoveGenAssumption
<1> QED
  BY <1>2, TrackFacts, StartAssumption, MoveGenAssumption DEF Proper, OnTrack

(* A legal move takes no king: one's own is of one's own colour, and if it *)
(* were the other one, the player before would have left it in check.      *)
LEMMA KingsSpared ==
  ASSUME NEW a \in BoardData, Consistent(a), Proper(a), NEW m \in _get_pseudolegal_moves(a),
         NEW d \in Side
  PROVE  a.piece[KingIdx(d)] # m.p1
<1>1. /\ OnTrack(a) /\ ~in_check(_flip_player(a)) /\ a.player_to_play \in Side
      /\ ViewsAgree(a) /\ KingIdx(d) \in Piece /\ Owner[KingIdx(d)] = d
      /\ a.piece[KingIdx(d)] \in Square
  BY BoardTypes, MoveGenAssumption DEF Proper, Consistent
<1>2. IsCandidate(a, m) /\ m.p1 \in Track
  BY <1>1, GeneratedCandidate
<1> SUFFICES ASSUME a.piece[KingIdx(d)] = m.p1 PROVE FALSE
  OBVIOUS
<1>3. CASE d = a.player_to_play
  <2>1. m.p1 # Dead /\ board_0(a)[m.p1] \in Code
    BY <1>1, CandidateFacts, <1>2, BoardTypes
  <2>2. Norm(board_0(a)[m.p1]) \in Forms(KingIdx(d))
    BY <1>1, <2>1 DEF Consistent, SameMan
  <2>3. color(board_0(a)[m.p1]) = {d}
    BY <1>1, <2>1, <2>2, FormFacts
  <2> QED
    BY <1>2, <1>3, <2>3 DEF IsCandidate, color
<1>4. CASE d # a.player_to_play
  <2> DEFINE f == _flip_player(a)
  <2>1. f.player_to_play = Opponent(a.player_to_play) /\ f.piece = a.piece
    BY FlipFacts
  <2>2. /\ Opponent(a.player_to_play) = d /\ Opponent(d) = a.player_to_play
    BY <1>1, <1>4, OpponentInvolution DEF Side
  <2>3. SameMen(a, f)
    BY <1>1, FlipMen
  <2> HIDE DEF f
  <2>4. _get_pseudolegal_moves_for_side(a, a.player_to_play) =
          _get_pseudolegal_moves_for_side(f, a.player_to_play)
    BY <1>1, <2>3, SideMoves
  <2>5. in_check(f)
    BY <2>1, <2>2, <2>4 DEF in_check, _under_threat, _get_pseudolegal_moves
  <2> QED
    BY <1>1, <2>5 DEF f
<1> QED
  BY <1>3, <1>4

(* A legal move leads from a proper board to a proper one. *)
LEMMA ProperMove ==
  ASSUME NEW a \in BoardData, Consistent(a), Proper(a), NEW m \in get_legal_moves(a)
  PROVE  Proper(do_move(a, m))
<1>1. /\ m \in _get_pseudolegal_moves(a) /\ IsCandidate(a, m) /\ m.p1 \in Track
      /\ ~in_check(_do_move(a, m)) /\ OnTrack(a)
  BY LegalFacts DEF Proper
<1>2. OnTrack(do_move(a, m))
  BY <1>1, DoOnTrack
<1>3. \A d \in Side : do_move(a, m).piece[KingIdx(d)] # DEAD
  <2> TAKE d \in Side
  <2>1. KingIdx(d) \in Piece /\ a.piece[KingIdx(d)] # m.p1
    BY <1>1, KingsSpared, MoveGenAssumption
  <2>2. do_move(a, m).piece[KingIdx(d)] =
          IF a.piece[KingIdx(d)] = m.p0 THEN m.p1 ELSE a.piece[KingIdx(d)]
    BY <1>1, <2>1, DoMoveFacts
  <2> QED
    BY <1>1, <2>2, TrackFacts DEF Proper
<1>4. _flip_player(do_move(a, m)) = _do_move(a, m)
  BY <1>1, TryFacts
<1> QED
  BY <1>1, <1>2, <1>3, <1>4 DEF Proper

(* A board like a proper one is proper. *)
LEMMA ProperSimilar ==
  ASSUME NEW a \in BoardData, Consistent(a), Proper(a), NEW x \in BoardData, Consistent(x),
         Similar(a, x)
  PROVE  Proper(x)
<1>1. /\ ViewsAgree(a) /\ ViewsAgree(x) /\ a.piece = x.piece
      /\ a.player_to_play = x.player_to_play /\ OnTrack(a)
      /\ \A q \in Square : Norm(board_0(a)[q]) = Norm(board_0(x)[q])
  BY DEF Consistent, Similar, Proper
<1>2. OnTrack(x)
  BY <1>1 DEF OnTrack
<1> DEFINE f == _flip_player(a)
           g == _flip_player(x)
<1>3. /\ f \in BoardData /\ g \in BoardData /\ ViewsAgree(f) /\ ViewsAgree(g)
      /\ f.piece = a.piece /\ g.piece = x.piece /\ f.board = a.board /\ g.board = x.board
      /\ f.player_to_play = g.player_to_play
  BY <1>1, FlipFacts, FlipMen
<1> HIDE DEF f, g
<1>4. SameMen(f, g) /\ OnTrack(f)
  BY <1>1, <1>3 DEF SameMen, OnTrack, board_0
<1>5. in_check(f) = in_check(g)
  BY <1>3, <1>4, SameChecks
<1> QED
  BY <1>1, <1>2, <1>5 DEF Proper, f, g

(***************************************************************************)
(* The steps of a game of legal moves.  RInv is inductive together with    *)
(* the invariant of Game.                                                  *)
(***************************************************************************)
RInv ==
  /\ Proper(b)
  /\ s # NoBoard => Proper(s)
  /\ \A k \in 1..Len(line) : Proper(line[k].before)
  /\ s # NoBoard => Consistent(root) /\ Clean(root)

(* What the invariant of Game says of the two boards. *)
LEMMA BoardsInUse ==
  ASSUME IInv
  PROVE  /\ b \in BoardData /\ Consistent(b)
         /\ s # NoBoard => s \in BoardData /\ Consistent(s)
         /\ line \in Seq(Frame) /\ Len(line) \in Nat
         /\ s = NoBoard => line = <<>>
BY LenProperties DEF IInv, TypeOK, ServerBoardConsistent, SearchBoardConsistent

(* A legal move is one that Game allows (uciws.cpp: on_position, on_stop;  *)
(* engine.cpp: move_and_eval, Order_Children).                             *)
LEMMA StepRefines ==
  ASSUME IInv, RInv, [RNext]_rvars
  PROVE  [Next]_vars
<1>1. CASE RPlay
  <2>1. PICK m \in get_legal_moves(b) : PlayMove(m)
    BY <1>1 DEF RPlay
  <2>2. m \in CandidateMoves(b) /\ IsCandidate(b, m)
    BY BoardsInUse, LegalFacts DEF RInv, Proper
  <2> QED
    BY <2>1, <2>2 DEF Next, Play
<1>2. CASE RSearch
  <2>1. s # NoBoard
    BY <1>2 DEF RSearch
  <2>2. PICK m \in get_legal_moves(s) : DescendMove(m) \/ ProbeMove(m)
    BY <1>2 DEF RSearch
  <2>3. m \in CandidateMoves(s) /\ IsCandidate(s, m)
    BY <2>1, BoardsInUse, LegalFacts DEF RInv, Proper
  <2> QED
    BY <2>1, <2>2, <2>3 DEF Next, Descend, Probe
<1>3. CASE RNewGame \/ RStartSearch \/ Backtrack \/ EndSearch
  BY <1>3 DEF RNewGame, RStartSearch, Next
<1>4. CASE UNCHANGED rvars
  BY <1>4 DEF rvars
<1> QED
  BY <1>1, <1>2, <1>3, <1>4 DEF RNext

(* A move is played on the server's board. *)
LEMMA RPlayRInv ==
  ASSUME IInv, RInv, RPlay
  PROVE  RInv'
<1>1. PICK m \in get_legal_moves(b) : PlayMove(m)
  BY DEF RPlay
<1>2. b' = do_move(b, m) /\ UNCHANGED <<s, line, root>>
  BY <1>1 DEF PlayMove
<1>3. Proper(do_move(b, m))
  BY BoardsInUse, ProperMove DEF RInv
<1> QED
  BY <1>2, <1>3 DEF RInv

(* The search goes one move deeper. *)
LEMMA RDescendRInv ==
  ASSUME IInv, RInv, s # NoBoard, NEW m \in get_legal_moves(s), DescendMove(m)
  PROVE  RInv'
<1> DEFINE done == do_move(s, m)
           f == [move |-> m,
                 last_killed_piece_temp |-> done.last_killed_piece,
                 last_killed_piece_idx_temp |-> done.last_killed_piece_idx,
                 before |-> s]
<1>1. s \in BoardData /\ Consistent(s) /\ Proper(s) /\ line \in Seq(Frame)
  BY BoardsInUse DEF RInv
<1>2. s' = done /\ line' = <<f>> \o line /\ b' = b /\ root' = root
  BY DEF DescendMove
<1>3. m \in Move /\ done \in BoardData
  BY <1>1, LegalFacts, DoMoveFacts DEF Proper, IsCandidate
<1>4. Proper(done)
  BY <1>1, ProperMove
<1> HIDE DEF done
<1>5. f \in Frame
  BY <1>1, <1>3, BoardTypes DEF Frame
<1>6. f.before = s
  OBVIOUS
<1> HIDE DEF f
<1>7. /\ Len(line') = Len(line) + 1 /\ Len(line) \in Nat
      /\ line'[1] = f /\ \A k \in 2..(Len(line) + 1) : line'[k] = line[k - 1]
  BY <1>1, <1>2, <1>5, PushFacts, LenProperties
<1>8. ASSUME NEW k \in 1..Len(line')
      PROVE  Proper(line'[k].before)
  <2>1. CASE k = 1
    BY <1>1, <1>6, <1>7, <2>1
  <2>2. CASE k # 1
    <3>1. k \in 2..(Len(line) + 1) /\ k - 1 \in 1..Len(line)
      BY <1>7, <2>2
    <3> QED
      BY <1>7, <3>1 DEF RInv
  <2> QED
    BY <2>1, <2>2
<1> QED
  BY <1>2, <1>4, <1>8 DEF RInv

(* It tries a move. *)
LEMMA RProbeRInv ==
  ASSUME IInv, RInv, s # NoBoard, NEW m \in get_legal_moves(s), ProbeMove(m)
  PROVE  RInv'
<1>1. s \in BoardData /\ Consistent(s) /\ Proper(s)
  BY BoardsInUse DEF RInv
<1>2. s' = undo_last_move(do_move(s, m), m) /\ UNCHANGED <<b, line, root>>
  BY DEF ProbeMove
<1>3. IsCandidate(s, m)
  BY <1>1, LegalFacts DEF Proper
<1>4. s' \in BoardData /\ Consistent(s') /\ Similar(s, s')
  BY <1>1, <1>2, <1>3, ProbeFacts, SimilarEquivalence
<1>5. Proper(s')
  BY <1>1, <1>4, ProperSimilar
<1> QED
  BY <1>2, <1>5 DEF RInv

(* It takes a move back. *)
LEMMA RBacktrackRInv ==
  ASSUME IInv, RInv, Backtrack
  PROVE  RInv'
<1>1. /\ line # <<>> /\ line \in Seq(Frame) /\ line' = Tail(line) /\ b' = b /\ root' = root
      /\ s # NoBoard
  BY BoardsInUse DEF Backtrack
<1>2. /\ Len(line) \in Nat \ {0} /\ Head(line) = line[1] /\ line[1] \in Frame
      /\ Len(line') = Len(line) - 1
      /\ \A k \in 1..(Len(line) - 1) : line'[k] = line[k + 1]
  BY <1>1, PopFacts
<1>3. Similar(s', line[1].before) /\ IInv'
  BY <1>2, BacktrackIInv
<1>4. s' # NoBoard /\ s' \in BoardData /\ Consistent(s')
  <2>1. s # NoBoard
    BY <1>1 DEF IInv, TypeOK
  <2>2. s \in BoardData /\ Consistent(s) /\ ViewsAgree(s)
    BY <2>1, BoardsInUse DEF Consistent
  <2>3. FrameOK(line[1], s)
    BY <1>2 DEF IInv, LineOK, After
  <2>4. s' = undo_last_move(RestoreKilled(s, line[1]), line[1].move)
    BY <1>2 DEF Backtrack
  <2>5. s' \in BoardData /\ Consistent(s')
    BY <1>2, <2>2, <2>3, <2>4, BacktrackFacts
  <2> QED
    BY <2>5, NoBoardAssumption
<1>5. 1 \in 1..Len(line) /\ line[1].before \in BoardData /\ Consistent(line[1].before)
  <2>1. 1 \in 1..Len(line) /\ FrameOK(line[1], After(1))
    BY <1>2 DEF IInv, LineOK
  <2> QED
    BY <1>2, <2>1, FrameTypes DEF FrameOK
<1>6. Proper(s')
  <2>1. Proper(line[1].before) /\ Similar(line[1].before, s')
    BY <1>3, <1>5, SimilarEquivalence DEF RInv
  <2> QED
    BY <1>4, <1>5, <2>1, ProperSimilar
<1>7. ASSUME NEW k \in 1..Len(line')
      PROVE  Proper(line'[k].before)
  <2>1. k \in 1..(Len(line) - 1) /\ k + 1 \in 1..Len(line)
    BY <1>2
  <2> QED
    BY <1>2, <2>1 DEF RInv
<1> QED
  BY <1>1, <1>6, <1>7 DEF RInv

(* Every step preserves the invariant. *)
LEMMA StepRInv ==
  ASSUME IInv, RInv, [RNext]_rvars
  PROVE  IInv' /\ RInv'
<1>1. IInv'
  BY StepRefines, StepIInv
<1> SUFFICES RInv'
  BY <1>1
<1>2. CASE RPlay
  BY <1>2, RPlayRInv
<1>3. CASE RSearch
  <2>1. s # NoBoard
    BY <1>3 DEF RSearch
  <2>2. PICK m \in get_legal_moves(s) : DescendMove(m) \/ ProbeMove(m)
    BY <1>3 DEF RSearch
  <2> QED
    BY <2>1, <2>2, RDescendRInv, RProbeRInv
<1>4. CASE Backtrack
  BY <1>4, RBacktrackRInv
<1>5. CASE RNewGame
  <2>1. b' = InitialBoard /\ UNCHANGED <<s, line, root>>
    BY <1>5 DEF RNewGame, NewGame
  <2> QED
    BY <2>1, ProperStart DEF RInv
<1>6. CASE RStartSearch
  <2>1. s' = b /\ root' = b /\ UNCHANGED <<b, line>>
    BY <1>6 DEF RStartSearch, StartSearch
  <2>2. Consistent(b) /\ Clean(b)
    BY DEF IInv, ServerBoardConsistent, ServerBoardClean
  <2> QED
    BY <2>1, <2>2 DEF RInv
<1>7. CASE EndSearch
  BY <1>7 DEF EndSearch, RInv
<1>8. CASE UNCHANGED rvars
  BY <1>8 DEF rvars, vars, RInv
<1> QED
  BY <1>1, <1>2, <1>3, <1>4, <1>5, <1>6, <1>7, <1>8 DEF RNext

(* Only legal moves are played, all men stay on the board, both kings live *)
(* and nobody leaves their king in check: on both boards and at every      *)
(* board the search's line goes back to.                                   *)
THEOREM RInductive == RSpec => [](IInv /\ RInv)
<1>1. RInit => IInv /\ RInv
  <2>1. Init => IInv
    BY InitIInv
  <2>2. Init => b = InitialBoard /\ s = NoBoard /\ line = <<>>
    BY DEF Init
  <2>3. b = InitialBoard /\ s = NoBoard /\ line = <<>> => RInv
    BY ProperStart DEF RInv
  <2> QED
    BY <2>1, <2>2, <2>3 DEF RInit
<1>2. IInv /\ RInv /\ [RNext]_rvars => IInv' /\ RInv'
  BY StepRInv
<1> QED
  BY <1>1, <1>2, PTL DEF RSpec

(* The source's games of legal moves implement Game: everything proved of  *)
(* Game's candidate moves holds of them (get_legal_moves).                 *)
THEOREM RefinesGame == RSpec => Spec
<1>1. RInit => Init
  BY DEF RInit
<1>2. IInv /\ RInv /\ [RNext]_rvars => [Next]_vars
  BY StepRefines
<1> QED
  BY <1>1, <1>2, RInductive, PTL DEF RSpec, Spec

(* The board in use is one all facts about boards apply to. *)
LEMMA InUseFacts ==
  ASSUME IInv, RInv
  PROVE  InUse \in BoardData /\ Consistent(InUse) /\ Proper(InUse) /\ OnTrack(InUse)
BY BoardsInUse DEF InUse, RInv, Proper

(* Both kings stay on the board, in the game and in the search. *)
THEOREM KingsStay == RSpec => []KingsLive
<1>1. IInv /\ RInv => KingsLive
  BY InUseFacts DEF KingsLive, Proper
<1> QED
  BY <1>1, RInductive, PTL

(* The side that has just moved is not in check. *)
THEOREM NobodyLeftInCheck == RSpec => []NotLeftInCheck
<1>1. IInv /\ RInv => NotLeftInCheck
  BY InUseFacts DEF NotLeftInCheck, Proper
<1> QED
  BY <1>1, RInductive, PTL

(* Every man of both sides has the moves of the geometric rules, in a game *)
(* and in a search, whatever flags undone promotions have left on it       *)
(* (_get_pseudolegal_moves_for_piece).                                     *)
THEOREM EveryManFollowsRules == RSpec => []MenFollowRules
<1>1. ASSUME IInv, RInv, NEW c \in Side, NEW p \in Live(InUse, c)
      PROVE  FollowsRules(InUse, p)
  <2> DEFINE a == InUse
             arr == board_0(InUse)
  <2>1. a \in BoardData /\ Consistent(a) /\ OnTrack(a)
    BY <1>1, InUseFacts
  <2>2. PICK i \in Piece : a.piece[i] = p /\ p \in Track /\ p # Dead
    <3>1. \A q : q \in Live(a, c) => \E i \in Piece : a.piece[i] = q /\ q # DEAD
      BY DEF Live
    <3> QED
      BY <1>1, <2>1, <3>1, MoveGenAssumption DEF OnTrack
  <2>3. PICK d \in Side, t \in PieceType : Norm(arr[p]) = {t, d}
    <3>1. Norm(arr[p]) \in Forms(i)
      BY <2>1, <2>2 DEF Consistent, SameMan
    <3> QED
      BY <3>1, OwnerType DEF Forms, PieceType
  <2>4. Coloured(a)
    <3> SUFFICES ASSUME NEW q \in Track, arr[q] # EMPTY
                 PROVE  \E e \in Side : e \in arr[q]
      BY DEF Coloured
    <3>1. q \in Square /\ arr[q] \in Code
      BY <2>1, TrackFacts, BoardTypes
    <3>2. PICK j \in Piece : a.piece[j] = q /\ a.piece[j] # Dead
      BY <2>1, <3>1 DEF Consistent, ListedIffOccupied
    <3>3. Norm(arr[q]) \in Forms(j)
      BY <2>1, <3>2 DEF Consistent, SameMan
    <3>4. color(arr[q]) = {Owner[j]}
      BY <3>1, <3>3, FormFacts
    <3> QED
      BY <3>4, OwnerType DEF color
  <2> QED
    BY <2>1, <2>2, <2>3, <2>4, GeneratorRules DEF Consistent
<1>2. IInv /\ RInv => MenFollowRules
  BY <1>1 DEF MenFollowRules
<1> QED
  BY <1>2, RInductive, PTL

(* get_legal_moves, which tries all moves on one board, finds the moves    *)
(* its comment promises, in any order.                                     *)
THEOREM LegalMovesAreExact == RSpec => []LegalMovesExact
<1>1. IInv /\ RInv => LegalMovesExact
  BY InUseFacts, LegalExact DEF LegalMovesExact
<1> QED
  BY <1>1, RInductive, PTL

(***************************************************************************)
(* The line of the search, played on a fresh board.                        *)
(***************************************************************************)

(* The boards Replay reaches, as its recursive function has them.          *)
BoardsReached(board, frames, total, n, f) ==
  f = [k \in 0..n |->
        IF k = 0 THEN board ELSE do_move(f[k - 1], frames[total + 1 - k].move)]

LEMMA ReachedExists ==
  ASSUME NEW board, NEW frames, NEW total
  PROVE  \A n \in Nat : \E f : BoardsReached(board, frames, total, n, f)
<1> DEFINE T == {n \in Nat : ~ \E f : BoardsReached(board, frames, total, n, f)}
           M(k) == frames[total + 1 - k].move
<1> SUFFICES ASSUME T # {} PROVE FALSE
  OBVIOUS
<1>1. PICK n \in T : \A k \in T : n <= k
  <2>1. T \subseteq Nat
    OBVIOUS
  <2> HIDE DEF T
  <2> QED
    BY <2>1, LeastNumber
<1>2. n \in Nat /\ n # 0 /\ ~ \E f : BoardsReached(board, frames, total, n, f)
  <2>1. BoardsReached(board, frames, total, 0, [k \in 0..0 |-> board])
    BY DEF BoardsReached
  <2> QED
    BY <1>1, <2>1
<1>3. PICK f : BoardsReached(board, frames, total, n - 1, f)
  <2>1. n - 1 \in Nat /\ ~(n <= n - 1)
    BY <1>2
  <2> QED
    BY <1>1, <2>1
<1> DEFINE g == [k \in 0..n |-> IF k \in 0..(n - 1) THEN f[k] ELSE do_move(f[k - 1], M(k))]
<1>4. f = [k \in 0..(n - 1) |-> IF k = 0 THEN board ELSE do_move(f[k - 1], M(k))]
  BY <1>3 DEF BoardsReached
<1> HIDE DEF M
<1>5. \A k \in 0..(n - 1) : f[k] = IF k = 0 THEN board ELSE do_move(f[k - 1], M(k))
  BY <1>4
<1>6. \A k \in 0..n : k # 0 => k - 1 \in 0..(n - 1) /\ k - 1 \in 0..n
  BY <1>2
<1>7. 0 \in 0..(n - 1) /\ \A k \in 0..(n - 1) : k \in 0..n
  BY <1>2
<1>8. \A k \in 0..(n - 1) : g[k] = f[k]
  BY <1>7
<1>9. ASSUME NEW k \in 0..n
      PROVE  g[k] = IF k = 0 THEN board ELSE do_move(g[k - 1], M(k))
  <2>1. CASE k = 0
    BY <1>5, <1>7, <1>8, <2>1
  <2>2. CASE k # 0
    <3>1. g[k - 1] = f[k - 1]
      BY <1>6, <1>8, <2>2
    <3>2. g[k] = do_move(f[k - 1], M(k))
      BY <1>5, <2>2
    <3> HIDE DEF g
    <3> QED
      BY <2>2, <3>1, <3>2
  <2> QED
    BY <2>1, <2>2
<1>10. g = [k \in 0..n |-> g[k]]
  OBVIOUS
<1> HIDE DEF g
<1>11. g = [k \in 0..n |-> IF k = 0 THEN board ELSE do_move(g[k - 1], M(k))]
  BY <1>9, <1>10
<1>12. BoardsReached(board, frames, total, n, g)
  BY <1>11 DEF BoardsReached, M
<1> QED
  BY <1>2, <1>12

(* The fresh board on which the line is played ends up like the search's   *)
(* own, but without the flags of undone promotions.                        *)
LEMMA ReplayFacts ==
  ASSUME IInv, RInv, s # NoBoard
  PROVE  LET fresh == Replay(root, line)
         IN  fresh \in BoardData /\ Consistent(fresh) /\ Clean(fresh) /\ Similar(s, fresh)
<1> DEFINE n == Len(line)
           f == CHOOSE f : BoardsReached(root, line, n, n, f)
           Good(k) == /\ f[k] \in BoardData /\ Consistent(f[k]) /\ Clean(f[k])
                      /\ Similar(After(n + 1 - k), f[k])
           T == {k \in 0..n : ~Good(k)}
<1>1. n \in Nat /\ line \in Seq(Frame) /\ root \in BoardData /\ Consistent(root) /\ Clean(root)
  BY BoardsInUse DEF IInv, TypeOK, RInv
<1>2. Replay(root, line) = f[n]
  BY DEF Replay, BoardsReached
<1>3. BoardsReached(root, line, n, n, f)
  <2>1. \E g : BoardsReached(root, line, n, n, g)
    BY <1>1, ReachedExists
  <2> QED
    BY <2>1
<1> HIDE DEF f
<1>4. f = [k \in 0..n |-> IF k = 0 THEN root ELSE do_move(f[k - 1], line[n + 1 - k].move)]
  BY <1>3 DEF BoardsReached
<1> HIDE DEF n
<1>5. \A k \in 0..n : f[k] = IF k = 0 THEN root ELSE do_move(f[k - 1], line[n + 1 - k].move)
  BY <1>4
<1>6. Good(0)
  <2>1. f[0] = root
    BY <1>1, <1>5
  <2>2. After(n + 1) = Outermost
    <3>1. CASE line = <<>>
      <4>1. n = 0
        BY <3>1 DEF n
      <4> QED
        BY <3>1, <4>1 DEF After, Outermost
    <3>2. CASE line # <<>>
      <4>1. n \in Nat \ {0}
        BY <1>1, <3>2, EmptySeq DEF n
      <4> QED
        BY <3>2, <4>1 DEF After, Outermost, n
    <3> QED
      BY <3>1, <3>2
  <2>3. Similar(Outermost, root)
    BY DEF IInv, SearchRestoresRoot
  <2>4. n + 1 - 0 = n + 1
    BY <1>1
  <2> QED
    BY <1>1, <2>1, <2>2, <2>3, <2>4
<1>7. ASSUME NEW k \in 1..n, Good(k - 1)
      PROVE  Good(k)
  <2> DEFINE j == n + 1 - k
             x == f[k - 1]
             m == line[j].move
             a == line[j].before
  <2>1. j \in 1..n /\ n + 1 - (k - 1) = j + 1 /\ j + 1 # 1 /\ (j + 1) - 1 = j /\ k \in 0..n /\ k # 0
    BY <1>1
  <2>2. f[k] = do_move(x, m)
    BY <1>5, <2>1
  <2>3. After(n + 1 - (k - 1)) = a
    BY <2>1 DEF After
  <2>4. FrameOK(line[j], After(j)) /\ line[j] \in Frame
    <3>1. line[j] \in Frame
      BY <1>1, <2>1, ElementOfSeq DEF n
    <3> QED
      BY <2>1, <3>1 DEF IInv, LineOK, n
  <2>5. x \in BoardData /\ Consistent(x) /\ Clean(x) /\ Similar(a, x)
    BY <1>7, <2>3
  <2> HIDE DEF j, x
  <2>6. /\ IsCandidate(a, m) /\ Consistent(a) /\ a \in BoardData
        /\ Similar(After(j), do_move(a, m))
    BY <2>4, FrameTypes DEF FrameOK
  <2> HIDE DEF a, m
  <2>7. IsCandidate(x, m) /\ Similar(do_move(a, m), do_move(x, m))
    BY <2>5, <2>6, DoSimilar
  <2>8. do_move(x, m) \in BoardData /\ Consistent(do_move(x, m)) /\ Clean(do_move(x, m))
    BY <2>5, <2>7, DoMoveFacts, DoMoveConsistent, DoMoveClean
  <2>9. Similar(After(j), do_move(x, m))
    BY <2>6, <2>7, SimilarEquivalence
  <2> QED
    BY <2>2, <2>8, <2>9 DEF j
<1> HIDE DEF Good
<1>8. T = {}
  <2> SUFFICES ASSUME T # {} PROVE FALSE
    OBVIOUS
  <2>1. PICK k \in T : \A i \in T : k <= i
    <3>1. T \subseteq Nat
      BY <1>1
    <3> HIDE DEF T
    <3> QED
      BY <3>1, LeastNumber
  <2>2. k \in 0..n /\ ~Good(k)
    BY <2>1
  <2>3. k \in 1..n /\ ~Good(k - 1)
    BY <1>1, <1>6, <1>7, <2>2
  <2>4. k - 1 \in T /\ ~(k <= k - 1)
    BY <1>1, <2>3
  <2> QED
    BY <2>1, <2>4
<1>9. Good(n)
  BY <1>1, <1>8
<1>10. n + 1 - n = 1 /\ After(1) = s
  BY <1>1 DEF After
<1> QED
  BY <1>2, <1>9, <1>10 DEF Good

(* However many moves were taken back on the way, the search has the moves *)
(* and the checks of the position it is in.                                *)
THEOREM SearchSeesThePosition == RSpec => []SearchSeesTheGame
<1>1. ASSUME IInv, RInv, s # NoBoard
      PROVE  LET fresh == Evaluated(Replay(root, line))
             IN  get_legal_moves(s) = LegalMoves(fresh) /\ in_check(s) = in_check(fresh)
  <2> DEFINE fresh == Replay(root, line)
  <2>1. fresh \in BoardData /\ Consistent(fresh) /\ Similar(s, fresh)
    BY <1>1, ReplayFacts
  <2>2. s \in BoardData /\ Consistent(s) /\ OnTrack(s)
    BY <1>1, BoardsInUse DEF RInv, Proper
  <2>3. Evaluated(fresh) = fresh
    BY DEF Evaluated
  <2> HIDE DEF fresh
  <2>4. get_legal_moves(s) = LegalMoves(s)
    BY <2>2, LegalExact
  <2>5. LegalMoves(s) = LegalMoves(fresh) /\ in_check(s) = in_check(fresh)
    BY <2>1, <2>2, SameLegal
  <2> QED
    BY <2>3, <2>4, <2>5 DEF fresh
<1>2. IInv /\ RInv => SearchSeesTheGame
  BY <1>1 DEF SearchSeesTheGame
<1> QED
  BY <1>2, RInductive, PTL

(***************************************************************************)
(* The evaluation.                                                         *)
(***************************************************************************)

(* The features are read off the list of pieces, board_0, the turn, the    *)
(* check and the number of moves (prepare_features).                       *)
LEMMA SameFeatures ==
  ASSUME NEW a \in BoardData, NEW x \in BoardData, Consistent(a), Consistent(x), OnTrack(a),
         Similar(a, x), board_0(a) = board_0(x)
  PROVE  FeaturesOf(a) = FeaturesOf(x)
<1>1. /\ a.piece = x.piece /\ a.player_to_play = x.player_to_play
      /\ in_check(a) = in_check(x) /\ get_legal_moves(a) = get_legal_moves(x)
  BY SameLegal DEF Similar
<1>2. \A i, type : sign_alive(a, i, type) <=> sign_alive(x, i, type)
  BY <1>1 DEF sign_alive
<1>3. \A places, type : Count(a, places, type) = Count(x, places, type)
  BY <1>2 DEF Count
<1>4. \A i, c : manhattan_to_promotion(a, i, c) = manhattan_to_promotion(x, i, c)
  BY <1>1, <1>2 DEF manhattan_to_promotion
<1>5. \A c : promotion(a, c) = promotion(x, c)
  BY <1>4 DEF promotion
<1>6. \A moves : prepare_features(a, moves) = prepare_features(x, moves)
  BY <1>1, <1>3, <1>5 DEF prepare_features
<1> QED
  BY <1>1, <1>6 DEF FeaturesOf

(* Taking the flags off all four arrays.                                   *)
LEMMA WithoutFlagsFacts ==
  ASSUME NEW a \in BoardData, Consistent(a)
  PROVE  LET w == WithoutFlags(a)
         IN  /\ w \in BoardData /\ Consistent(w) /\ Similar(w, a)
             /\ \A q \in Square : board_0(w)[q] = Norm(board_0(a)[q])
<1> DEFINE w == WithoutFlags(a)
           arrays == [v \in View |-> [q \in Square |-> Norm(a.board[v][q])]]
<1>1. /\ a.board \in Arrays /\ a.piece \in [Piece -> Square] /\ ViewsAgree(a)
      /\ board_0(a) \in [Square -> Code]
  BY BoardTypes DEF Consistent
<1>2. \A code \in Code : Norm(code) \in Code /\ Norm(Norm(code)) = Norm(code)
  BY NormFacts DEF Norm, Code
<1>3. arrays \in Arrays
  BY <1>1, <1>2 DEF Arrays
<1>4. w = [a EXCEPT !.board = arrays]
  BY DEF WithoutFlags, BoardData
<1> HIDE DEF w
<1>5. /\ w \in BoardData /\ w.board = arrays /\ w.piece = a.piece
      /\ w.player_to_play = a.player_to_play
  <2> HIDE DEF arrays
  <2> QED
    BY <1>3, <1>4 DEF BoardData
<1>6. \A q \in Square : board_0(w)[q] = Norm(board_0(a)[q])
  BY <1>5, BoardAssumption DEF board_0
<1>7. ViewsAgree(w)
  <2> SUFFICES ASSUME NEW v \in View, NEW q \in Square
               PROVE  w.board[v][Rot[v][q]] = board_0(w)[q]
    BY DEF ViewsAgree
  <2>1. Rot[v][q] \in Square
    BY BoardAssumption
  <2>2. w.board[v][Rot[v][q]] = Norm(a.board[v][Rot[v][q]])
    BY <1>5, <2>1
  <2> QED
    BY <1>1, <1>6, <2>2 DEF ViewsAgree
<1>8. Similar(w, a)
  BY <1>1, <1>2, <1>5, <1>6 DEF Similar
<1>9. Consistent(w)
  BY <1>5, <1>7, <1>8, SimilarConsistent
<1> QED
  BY <1>5, <1>6, <1>8, <1>9 DEF w

(* The search evaluates the positions of the game its line plays, but for  *)
(* the flags undone promotions left behind.                                *)
THEOREM EvaluatesThePosition == RSpec => []EvaluatesTheGame
<1>1. ASSUME IInv, RInv, s # NoBoard
      PROVE  FeaturesOf(Evaluated(WithoutFlags(s))) = FeaturesOf(Evaluated(Replay(root, line)))
  <2> DEFINE w == WithoutFlags(s)
             fresh == Replay(root, line)
  <2>1. fresh \in BoardData /\ Consistent(fresh) /\ Clean(fresh) /\ Similar(s, fresh)
    BY <1>1, ReplayFacts
  <2>2. s \in BoardData /\ Consistent(s) /\ OnTrack(s)
    BY <1>1, BoardsInUse DEF RInv, Proper
  <2>3. /\ w \in BoardData /\ Consistent(w) /\ Similar(w, s)
        /\ \A q \in Square : board_0(w)[q] = Norm(board_0(s)[q])
    BY <2>2, WithoutFlagsFacts
  <2>4. Evaluated(w) = w /\ Evaluated(fresh) = fresh
    BY DEF Evaluated
  <2> HIDE DEF w, fresh
  <2>5. Similar(w, fresh) /\ OnTrack(w)
    BY <2>1, <2>2, <2>3, SimilarEquivalence DEF OnTrack, Similar
  <2>6. board_0(w) = board_0(fresh)
    <3>1. board_0(w) \in [Square -> Code] /\ board_0(fresh) \in [Square -> Code]
      BY <2>1, <2>3, BoardTypes
    <3>2. \A q \in Square : board_0(w)[q] = board_0(fresh)[q]
      BY <2>1, <2>3 DEF Similar, Clean
    <3> QED
      BY <3>1, <3>2
  <2>7. FeaturesOf(w) = FeaturesOf(fresh)
    BY <2>1, <2>3, <2>5, <2>6, SameFeatures
  <2> QED
    BY <2>4, <2>7 DEF w, fresh
<1>2. IInv /\ RInv => EvaluatesTheGame
  BY <1>1 DEF EvaluatesTheGame
<1> QED
  BY <1>2, RInductive, PTL

(***************************************************************************)
(* What a mate is worth.                                                   *)
(***************************************************************************)

(* The places of a colour's men on the list. *)
LEMMA Places ==
  /\ First("BLACK") = 0 /\ First("WHITE") = 6
  /\ \A c \in Side : \A k \in 0..5 : First(c) + k \in Piece
<1>1. Piece = 0..11 /\ \A i \in Piece : Owner[i] = IF i < 6 THEN "BLACK" ELSE "WHITE"
  BY EvaluationAssumption DEF PieceIndex
<1>2. Men("BLACK") = 0..5 /\ Men("WHITE") = 6..11
  BY <1>1 DEF Men
<1>3. First("BLACK") = 0
  BY <1>2 DEF First
<1>4. First("WHITE") = 6
  BY <1>2 DEF First
<1> QED
  BY <1>1, <1>3, <1>4 DEF Side

(* No more of a man are counted than are looked for. *)
LEMMA CountBound ==
  ASSUME NEW a, NEW places, IsFiniteSet(places), NEW n \in Nat, Cardinality(places) <= n,
         NEW type
  PROVE  Count(a, places, type) \in 0..n
<1> DEFINE T == {i \in places : sign_alive(a, i, type)}
<1>1. IsFiniteSet(T) /\ Cardinality(T) <= Cardinality(places)
  <2>1. T \in SUBSET places
    OBVIOUS
  <2> HIDE DEF T
  <2> QED
    BY <2>1, FS_Subset
<1>2. Cardinality(T) \in Nat /\ Cardinality(places) \in Nat
  BY <1>1, FS_CardinalityType
<1> HIDE DEF T
<1>3. Cardinality(T) \in 0..n
  BY <1>1, <1>2
<1> QED
  BY <1>3 DEF Count, T

(* A set given by up to four elements. *)
LEMMA SmallSets ==
  \A w, x, y, z : /\ IsFiniteSet({w, x, y, z}) /\ Cardinality({w, x, y, z}) <= 4
                  /\ IsFiniteSet({x, y, z}) /\ Cardinality({x, y, z}) <= 4
                  /\ IsFiniteSet({y, z}) /\ Cardinality({y, z}) <= 4
<1> SUFFICES ASSUME NEW w, NEW x, NEW y, NEW z
             PROVE  /\ IsFiniteSet({w, x, y, z}) /\ Cardinality({w, x, y, z}) <= 4
                    /\ IsFiniteSet({x, y, z}) /\ Cardinality({x, y, z}) <= 4
                    /\ IsFiniteSet({y, z}) /\ Cardinality({y, z}) <= 4
  OBVIOUS
<1>1. IsFiniteSet({z}) /\ Cardinality({z}) = 1
  BY FS_Singleton
<1>2. IsFiniteSet({z} \cup {y}) /\ Cardinality({z} \cup {y}) \in {1, 2}
  BY <1>1, FS_AddElement
<1>3. {z} \cup {y} = {y, z}
  OBVIOUS
<1>4. IsFiniteSet({y, z} \cup {x}) /\ Cardinality({y, z} \cup {x}) \in {1, 2, 3}
  BY <1>2, <1>3, FS_AddElement
<1>5. {y, z} \cup {x} = {x, y, z}
  OBVIOUS
<1>6. IsFiniteSet({x, y, z} \cup {w}) /\ Cardinality({x, y, z} \cup {w}) \in {1, 2, 3, 4}
  BY <1>4, <1>5, FS_AddElement
<1>7. {x, y, z} \cup {w} = {w, x, y, z}
  OBVIOUS
<1> QED
  BY <1>2, <1>3, <1>4, <1>5, <1>6, <1>7

(* A pawn is worth up to seven fiftieths for its nearness, or costs as     *)
(* much (manhattan_to_promotion).                                          *)
LEMMA NearBound ==
  ASSUME NEW a \in BoardData, OnTrack(a), NEW i \in Piece, NEW c \in Side
  PROVE  manhattan_to_promotion(a, i, c) \in -7..7
<1> DEFINE p == a.piece[i]
           to(g) == abs(getx(p) - g[1]) + abs(gety(p) - g[2])
           S == {to(g) : g \in Goal(c)}
           d == CHOOSE d \in S : \A g \in Goal(c) : d <= to(g)
<1>1. CASE ~sign_alive(a, i, "PAWN")
  BY <1>1 DEF manhattan_to_promotion
<1>2. CASE sign_alive(a, i, "PAWN")
  <2>1. p \in Track
    BY <1>2 DEF sign_alive, OnTrack
  <2>2. getx(p) \in 0..6 /\ gety(p) \in 0..6
    BY <2>1 DEF Track, bottom, left, top, right, getx, gety
  <2>3. /\ c = "BLACK" => Goal(c) = {<<2, 0>>, <<2, 1>>}
        /\ c # "BLACK" => Goal(c) = {<<4, 5>>, <<4, 6>>}
    BY DEF Goal
  <2>4. \A g \in Goal(c) : g[1] \in 0..6 /\ g[2] \in 0..6
    BY <2>3
  <2>5. \A u, v \in 0..6 : abs(u - v) \in 0..6
    BY DEF abs
  <2>6. \A g \in Goal(c) : to(g) \in 0..12
    BY <2>2, <2>4, <2>5
  <2>7. \E e \in S : \A g \in Goal(c) : e <= to(g)
    <3>1. PICK g, h : Goal(c) = {g, h}
      BY <2>3
    <3>2. to(g) \in 0..12 /\ to(h) \in 0..12 /\ to(g) \in S /\ to(h) \in S
      BY <2>6, <3>1
    <3> HIDE DEF to
    <3> QED
      BY <3>1, <3>2
  <2>8. d \in 0..12
    BY <2>6, <2>7
  <2>9. manhattan_to_promotion(a, i, c) = 7 - d
    BY <1>2 DEF manhattan_to_promotion
  <2> HIDE DEF d
  <2> QED
    BY <2>8, <2>9
<1> QED
  BY <1>1, <1>2

(* Of each of pawn, rook and bishop a side has four at most (Count).       *)
LEMMA CountsBound ==
  ASSUME NEW a, NEW c \in Side
  PROVE  /\ Count(a, Pawns(c), "PAWN") \in 0..4
         /\ Count(a, Rooks(c) \cup Pawns(c), "ROOK") \in 0..4
         /\ Count(a, {Bishop(c)} \cup Pawns(c), "BISHOP") \in 0..4
<1> DEFINE F == First(c)
<1>1. /\ Pawns(c) = {F + 4, F + 5}
      /\ Rooks(c) \cup Pawns(c) = {F, F + 1, F + 4, F + 5}
      /\ {Bishop(c)} \cup Pawns(c) = {F + 3, F + 4, F + 5}
  BY DEF Pawns, Rooks, Bishop
<1> HIDE DEF F
<1>2. /\ IsFiniteSet(Pawns(c)) /\ Cardinality(Pawns(c)) <= 4
      /\ IsFiniteSet(Rooks(c) \cup Pawns(c)) /\ Cardinality(Rooks(c) \cup Pawns(c)) <= 4
      /\ IsFiniteSet({Bishop(c)} \cup Pawns(c)) /\ Cardinality({Bishop(c)} \cup Pawns(c)) <= 4
  <2>1. IsFiniteSet({F + 4, F + 5}) /\ Cardinality({F + 4, F + 5}) <= 4
    BY SmallSets
  <2>2. IsFiniteSet({F + 3, F + 4, F + 5}) /\ Cardinality({F + 3, F + 4, F + 5}) <= 4
    BY SmallSets
  <2>3. IsFiniteSet({F, F + 1, F + 4, F + 5}) /\ Cardinality({F, F + 1, F + 4, F + 5}) <= 4
    BY SmallSets
  <2> QED
    BY <1>1, <2>1, <2>2, <2>3
<1>3. 4 \in Nat
  OBVIOUS
<1> QED
  BY <1>2, <1>3, CountBound

(* What the material and the nearness of pawns come to is far less than a  *)
(* mate (evaluate).                                                        *)
Material(f) == 50 * f.pawns + 500 * f.rooks + 150 * f.bishops + f.promotion

LEMMA MaterialBound ==
  ASSUME NEW a \in BoardData, OnTrack(a), NEW moves
  PROVE  LET f == prepare_features(a, moves)
         IN  /\ Material(f) \in Int /\ Material(f) <= 2828 /\ 0 <= Material(f) + 2828
             /\ evaluate(f).linear = Material(f) + 40 * f.check
             /\ f.check = CheckFeature(in_check(a), moves, a.player_to_play)
<1> DEFINE f == prepare_features(a, moves)
           pawns(c)   == Count(a, Pawns(c), "PAWN")
           rooks(c)   == Count(a, Rooks(c) \cup Pawns(c), "ROOK")
           bishops(c) == Count(a, {Bishop(c)} \cup Pawns(c), "BISHOP")
<1>1. \A c \in Side : pawns(c) \in 0..4 /\ rooks(c) \in 0..4 /\ bishops(c) \in 0..4
  BY CountsBound
<1>2. \A c \in Side : promotion(a, c) \in -14..14
  <2> TAKE c \in Side
  <2>1. First(c) + 4 \in Piece /\ First(c) + 5 \in Piece
    BY Places
  <2>2. /\ manhattan_to_promotion(a, First(c) + 4, c) \in -7..7
        /\ manhattan_to_promotion(a, First(c) + 5, c) \in -7..7
    BY <2>1, NearBound
  <2> QED
    BY <2>2 DEF promotion
<1>3. /\ f.pawns = pawns("WHITE") - pawns("BLACK")
      /\ f.rooks = rooks("WHITE") - rooks("BLACK")
      /\ f.bishops = bishops("WHITE") - bishops("BLACK")
      /\ f.promotion = promotion(a, "WHITE") - promotion(a, "BLACK")
      /\ f.check = CheckFeature(in_check(a), moves, a.player_to_play)
  BY DEF prepare_features
<1> HIDE DEF f, pawns, rooks, bishops
<1>4. /\ f.pawns \in -4..4 /\ f.rooks \in -4..4 /\ f.bishops \in -4..4
      /\ f.promotion \in -28..28
  BY <1>1, <1>2, <1>3 DEF Side
<1>5. Material(f) \in Int /\ Material(f) <= 2828 /\ 0 <= Material(f) + 2828
  <2> DEFINE p == f.pawns
             o == f.rooks
             i == f.bishops
             n == f.promotion
  <2>1. Material(f) = 50 * p + 500 * o + 150 * i + n
    BY DEF Material
  <2>2. /\ p \in Int /\ o \in Int /\ i \in Int /\ n \in Int
        /\ p <= 4 /\ o <= 4 /\ i <= 4 /\ n <= 28
        /\ 0 <= p + 4 /\ 0 <= o + 4 /\ 0 <= i + 4 /\ 0 <= n + 28
    BY <1>4, SMT
  <2> HIDE DEF p, o, i, n
  <2> QED
    BY <2>1, <2>2, SMT
<1>6. evaluate(f).linear = Material(f) + 40 * f.check
  BY DEF evaluate, Material
<1> QED
  BY <1>3, <1>5, <1>6 DEF f

(* A mate is worth 40 times 100000 to the player who gave it; a check at   *)
(* most 40 to either.                                                      *)
LEMMA MateValue ==
  ASSUME NEW a \in BoardData, Consistent(a), OnTrack(a)
  PROVE  LET v == Value(a).linear
         IN  /\ v \in Int
             /\ IF ~(in_check(a) /\ get_legal_moves(a) = {})
                THEN v <= 2868 /\ 0 <= v + 2868
                ELSE IF a.player_to_play = "WHITE"
                THEN v + 3990000 <= 0
                ELSE 3990000 <= v
<1> DEFINE moves == Cardinality(get_legal_moves(a))
           f == prepare_features(a, moves)
           v == Value(a).linear
<1>1. IsFiniteSet(get_legal_moves(a))
  <2>1. get_legal_moves(a) \in SUBSET Move
    BY LegalFacts DEF IsCandidate
  <2> QED
    BY <2>1, MovesFinite, FS_Subset
<1>2. moves = 0 <=> get_legal_moves(a) = {}
  BY <1>1, FS_EmptySet
<1>3. /\ Material(f) \in Int /\ Material(f) <= 2828 /\ 0 <= Material(f) + 2828
      /\ v = Material(f) + 40 * f.check
      /\ f.check = CheckFeature(in_check(a), moves, a.player_to_play)
  BY MaterialBound DEF Value
<1> HIDE DEF f, moves, v
<1>4. CASE ~(in_check(a) /\ get_legal_moves(a) = {})
  <2>1. f.check \in {0, 1, -1}
    BY <1>2, <1>3, <1>4, SMT DEF CheckFeature
  <2>2. v \in Int /\ v <= 2868 /\ 0 <= v + 2868
    BY <1>3, <2>1, SMT
  <2> QED
    BY <1>4, <2>2, SMT DEF v
<1>5. CASE in_check(a) /\ get_legal_moves(a) = {} /\ a.player_to_play = "WHITE"
  <2>1. f.check = -100000
    BY <1>2, <1>3, <1>5, SMT DEF CheckFeature
  <2>2. v \in Int /\ v + 3990000 <= 0
    BY <1>3, <2>1, SMT
  <2> QED
    BY <1>5, <2>2, SMT DEF v
<1>6. CASE in_check(a) /\ get_legal_moves(a) = {} /\ a.player_to_play # "WHITE"
  <2>1. f.check = 100000
    <3>1. moves = 0
      BY <1>2, <1>6
    <3> DEFINE n == -1
    <3>2. f.check = -100000 * n
      BY <1>3, <1>6, <3>1 DEF CheckFeature
    <3>3. n \in Int /\ n + 1 = 0
      BY SMT
    <3> HIDE DEF n
    <3> QED
      BY <3>2, <3>3, SMT
  <2>2. v \in Int /\ 3990000 <= v
    BY <1>3, <2>1, SMT
  <2> QED
    BY <1>6, <2>2, SMT DEF v
<1> QED
  BY <1>4, <1>5, <1>6

(* The fraction of a value is small against its bound in AtLeast, since a  *)
(* side has from 1 to 37 points (prepare_features).                        *)
LEMMA FractionBound ==
  ASSUME NEW a \in BoardData
  PROVE  LET x == Value(a)
         IN  /\ x.num \in Int /\ x.den \in Int /\ x.den > 0
             /\ x.num <= 1200 * x.den /\ 0 <= x.num + 1200 * x.den
<1> DEFINE f == prepare_features(a, Cardinality(get_legal_moves(a)))
           u == f.white
           w == f.black
           points(c) == 1 + Count(a, Pawns(c), "PAWN") + 5 * Count(a, Rooks(c) \cup Pawns(c), "ROOK")
                          + 3 * Count(a, {Bishop(c)} \cup Pawns(c), "BISHOP")
<1>1. u = points("WHITE") /\ w = points("BLACK")
  BY DEF prepare_features
<1>2. \A c \in Side : points(c) \in 1..37
  <2> SUFFICES ASSUME NEW c \in Side PROVE points(c) \in 1..37
    OBVIOUS
  <2>1. /\ Count(a, Pawns(c), "PAWN") \in 0..4
        /\ Count(a, Rooks(c) \cup Pawns(c), "ROOK") \in 0..4
        /\ Count(a, {Bishop(c)} \cup Pawns(c), "BISHOP") \in 0..4
    BY CountsBound
  <2> QED
    BY <2>1
<1>3. Value(a).num = 25 * (u * u - w * w) /\ Value(a).den = u * w
  BY DEF Value, evaluate
<1> HIDE DEF f, points
<1>4. u \in 1..37 /\ w \in 1..37
  BY <1>1, <1>2 DEF Side
<1> HIDE DEF u, w
<1>5. u * w \in Int /\ u * u \in Int /\ w * w \in Int /\ u <= u * w /\ w <= u * w /\ 1 <= u * w
  BY <1>4, SMT
<1>6. u * u <= 37 * u /\ w * w <= 37 * w /\ 0 <= u * u /\ 0 <= w * w
  BY <1>4, SMT
<1> QED
  BY <1>3, <1>4, <1>5, <1>6, SMT

(* Beyond 2400 either way the fractions do not matter.                     *)
LEMMA FractionsBetween ==
  ASSUME NEW k \in Int, NEW n \in Int, NEW p \in Int, NEW r \in Int, NEW q \in Int,
         p > 0, q > 0,
         n <= 1200 * p, 0 <= n + 1200 * p, r <= 1200 * q, 0 <= r + 1200 * q
  PROVE  /\ k > 2400 => k * p * q >= r * p - n * q
         /\ k * p * q >= r * p - n * q => k >= -2400
<1> DEFINE z == p * q
<1>1. z \in Int /\ z > 0
  BY SMT
<1>2. /\ r * p <= 1200 * z /\ 0 <= r * p + 1200 * z
      /\ n * q <= 1200 * z /\ 0 <= n * q + 1200 * z
      /\ r * p \in Int /\ n * q \in Int
  BY SMT
<1>3. k * p * q = k * z
  BY SMT
<1> HIDE DEF z
<1>4. k > 2400 => k * z >= 2400 * z
  BY <1>1, SMT
<1>5. k + 2401 <= 0 => k * z + 2401 * z <= 0
  BY <1>1, SMT
<1>6. k * z \in Int
  BY <1>1
<1> QED
  BY <1>1, <1>2, <1>3, <1>4, <1>5, <1>6, SMT

(* So AtLeast compares the values themselves, linear + num / den.          *)
LEMMA ComparesValues ==
  ASSUME NEW a \in BoardData, Consistent(a), OnTrack(a),
         NEW e \in BoardData, Consistent(e), OnTrack(e)
  PROVE  LET x == Value(a)
             y == Value(e)
         IN  AtLeast(x, y) <=> (x.linear - y.linear) * x.den * y.den >= y.num * x.den - x.num * y.den
<1> DEFINE x == Value(a)
           y == Value(e)
           k == x.linear - y.linear
<1>1. /\ x.linear \in Int /\ x.num \in Int /\ x.den \in Int /\ x.den > 0
      /\ x.num <= 1200 * x.den /\ 0 <= x.num + 1200 * x.den
  BY FractionBound, MateValue
<1>2. /\ y.linear \in Int /\ y.num \in Int /\ y.den \in Int /\ y.den > 0
      /\ y.num <= 1200 * y.den /\ 0 <= y.num + 1200 * y.den
  BY FractionBound, MateValue
<1> HIDE DEF x, y
<1>3. k \in Int
  BY <1>1, <1>2, SMT
<1>4. AtLeast(x, y) <=> \/ k > 2400
                        \/ k >= -2400 /\ k * x.den * y.den >= y.num * x.den - x.num * y.den
  BY DEF AtLeast
<1> HIDE DEF k
<1>5. /\ k > 2400 => k * x.den * y.den >= y.num * x.den - x.num * y.den
      /\ k * x.den * y.den >= y.num * x.den - x.num * y.den => k >= -2400
  <2> DEFINE xn == x.num
             xd == x.den
             yn == y.num
             yd == y.den
  <2>1. /\ xn \in Int /\ xd \in Int /\ xd > 0 /\ xn <= 1200 * xd /\ 0 <= xn + 1200 * xd
        /\ yn \in Int /\ yd \in Int /\ yd > 0 /\ yn <= 1200 * yd /\ 0 <= yn + 1200 * yd
    BY <1>1, <1>2
  <2> HIDE DEF xn, xd, yn, yd
  <2>2. /\ k > 2400 => k * xd * yd >= yn * xd - xn * yd
        /\ k * xd * yd >= yn * xd - xn * yd => k >= -2400
    BY <1>3, <2>1, FractionsBetween
  <2> QED
    BY <2>2 DEF xn, xd, yn, yd
<1> DEFINE over == k > 2400
           near == k >= -2400
           holds == k * x.den * y.den >= y.num * x.den - x.num * y.den
<1>6. (AtLeast(x, y) <=> over \/ (near /\ holds)) /\ (over => holds) /\ (holds => near)
  BY <1>4, <1>5
<1> HIDE DEF over, near, holds
<1>7. AtLeast(x, y) <=> holds
  BY <1>6
<1> QED
  BY <1>7 DEF x, y, k, holds

(* A mate is worth at least as much to its player as any move that is     *)
(* none: Order_Children can put it first.                                  *)
THEOREM MateComesFirst == RSpec => []MateIsBest
<1>1. ASSUME NEW a \in BoardData, Consistent(a), Proper(a),
             NEW m \in get_legal_moves(a), NEW n \in get_legal_moves(a),
             in_check(do_move(a, m)) /\ get_legal_moves(do_move(a, m)) = {},
             ~(in_check(do_move(a, n)) /\ get_legal_moves(do_move(a, n)) = {})
      PROVE  IF a.player_to_play = "WHITE"
             THEN AtLeast(Value(do_move(a, m)), Value(do_move(a, n)))
             ELSE AtLeast(Value(do_move(a, n)), Value(do_move(a, m)))
  <2> DEFINE d == do_move(a, m)
             e == do_move(a, n)
  <2>1. IsCandidate(a, m) /\ IsCandidate(a, n) /\ a.player_to_play \in Side
    BY <1>1, LegalFacts, BoardTypes DEF Proper
  <2>2. /\ d \in BoardData /\ Consistent(d) /\ OnTrack(d)
        /\ e \in BoardData /\ Consistent(e) /\ OnTrack(e)
        /\ d.player_to_play = Opponent(a.player_to_play)
    BY <1>1, <2>1, DoMoveFacts, DoMoveConsistent, ProperMove DEF Proper
  <2>3. in_check(d) /\ get_legal_moves(d) = {} /\ ~(in_check(e) /\ get_legal_moves(e) = {})
    BY <1>1
  <2> HIDE DEF d, e
  <2>4. Value(e).linear \in Int /\ Value(e).linear <= 2868 /\ 0 <= Value(e).linear + 2868
    BY <2>2, <2>3, MateValue
  <2>5. CASE a.player_to_play = "WHITE"
    <3>1. d.player_to_play # "WHITE"
      BY <2>1, <2>2, <2>5, OpponentInvolution
    <3>2. Value(d).linear \in Int /\ 3990000 <= Value(d).linear
      BY <2>2, <2>3, <3>1, MateValue
    <3>3. Value(d).linear - Value(e).linear > 2400
      BY <2>4, <3>2, SMT
    <3> QED
      BY <2>5, <3>3, SMT DEF AtLeast, d, e
  <2>6. CASE a.player_to_play # "WHITE"
    <3>1. d.player_to_play = "WHITE"
      BY <2>1, <2>2, <2>6 DEF Opponent, Side
    <3>2. Value(d).linear \in Int /\ Value(d).linear + 3990000 <= 0
      BY <2>2, <2>3, <3>1, MateValue
    <3>3. Value(e).linear - Value(d).linear > 2400
      BY <2>4, <3>2, SMT
    <3> QED
      BY <2>6, <3>3, SMT DEF AtLeast, d, e
  <2> QED
    BY <2>5, <2>6
<1>2. IInv /\ RInv => MateIsBest
  <2> SUFFICES ASSUME IInv, RInv PROVE MateIsBest
    OBVIOUS
  <2>1. InUse \in BoardData /\ Consistent(InUse) /\ Proper(InUse)
    BY InUseFacts
  <2> QED
    BY <1>1, <2>1 DEF MateIsBest, Evaluated
<1> QED
  BY <1>2, RInductive, PTL

(***************************************************************************)
(* Half a turn of the board, with the colours changed.                     *)
(***************************************************************************)

(* Counterparts are of the other colour. *)
LEMMA CounterpartFacts ==
  \A i \in Piece : LET j == Counterpart(i)
                   IN  /\ j \in Piece /\ j # i /\ Counterpart(j) = i
                       /\ Owner[j] = Opponent(Owner[i])
                       /\ Forms(j) = {Recoloured(code) : code \in Forms(i)}
<1> SUFFICES ASSUME NEW i \in Piece
             PROVE  LET j == Counterpart(i)
                    IN  /\ j \in Piece /\ j # i /\ Counterpart(j) = i
                        /\ Owner[j] = Opponent(Owner[i])
                        /\ Forms(j) = {Recoloured(code) : code \in Forms(i)}
  OBVIOUS
<1> DEFINE j == Counterpart(i)
<1>1. Piece = 0..11 /\ \A k \in Piece : Owner[k] = IF k < 6 THEN "BLACK" ELSE "WHITE"
  BY EvaluationAssumption DEF PieceIndex
<1>2. j \in Piece /\ j # i /\ Counterpart(j) = i /\ (j < 6 <=> ~(i < 6))
  BY <1>1 DEF Counterpart
<1> HIDE DEF j
<1>3. Opponent("WHITE") = "BLACK" /\ Opponent("BLACK") = "WHITE"
  BY DEF Opponent, Side
<1>4. Owner[j] = Opponent(Owner[i])
  BY <1>1, <1>2, <1>3
<1>5. StartCode[j] = Recoloured(StartCode[i])
  BY EvaluationAssumption DEF j
<1>6. Owner[i] \in Side /\ StartCode[i] \in Code
  <2>1. PICK t \in PieceType : StartCode[i] = {Owner[i], t}
    BY OwnerType
  <2> QED
    BY <2>1, OwnerType DEF Code
<1>7. "PAWN" \in StartCode[j] <=> "PAWN" \in StartCode[i]
  BY <1>5, <1>6, RecolouredFacts DEF PieceType
<1>8. /\ Recoloured({Owner[i], "ROOK"}) = {Owner[j], "ROOK"}
      /\ Recoloured({Owner[i], "BISHOP"}) = {Owner[j], "BISHOP"}
  BY <1>4, <1>6 DEF Recoloured, Side
<1>9. Forms(j) = {Recoloured(code) : code \in Forms(i)}
  <2>1. CASE "PAWN" \in StartCode[i]
    <3>1. Forms(i) = {StartCode[i], {Owner[i], "ROOK"}, {Owner[i], "BISHOP"}}
      BY <2>1 DEF Forms
    <3>2. Forms(j) = {StartCode[j], {Owner[j], "ROOK"}, {Owner[j], "BISHOP"}}
      BY <1>7, <2>1 DEF Forms
    <3>3. {Recoloured(code) : code \in Forms(i)} =
            {Recoloured(StartCode[i]), Recoloured({Owner[i], "ROOK"}),
             Recoloured({Owner[i], "BISHOP"})}
      BY <3>1, Zenon
    <3> QED
      BY <1>5, <1>8, <3>2, <3>3, Zenon
  <2>2. CASE "PAWN" \notin StartCode[i]
    <3>1. Forms(i) = {StartCode[i]}
      BY <2>2 DEF Forms
    <3>2. Forms(j) = {StartCode[j]}
      BY <1>7, <2>2 DEF Forms
    <3> QED
      BY <1>5, <3>1, <3>2
  <2> QED
    BY <2>1, <2>2
<1> QED
  BY <1>2, <1>4, <1>9 DEF j

(* The turned board, field by field; it is a board again and in order if   *)
(* the first one is.                                                       *)
LEMMA TurnedFacts ==
  ASSUME NEW a \in BoardData, ViewsAgree(a)
  PROVE  LET t == Turned(a)
         IN  /\ t \in BoardData /\ ViewsAgree(t)
             /\ t.player_to_play = Opponent(a.player_to_play)
             /\ \A i \in Piece : t.piece[i] = cw_180[a.piece[Counterpart(i)]]
             /\ \A v \in View, q \in Square : t.board[v][q] = Recoloured(a.board[v][cw_180[q]])
             /\ \A q \in Square : board_0(t)[q] = Recoloured(board_0(a)[cw_180[q]])
             /\ t.board = HalfTurned(a.board)
             /\ OnTrack(a) => OnTrack(t)
<1> DEFINE t == Turned(a)
<1>1. t = [piece |-> [i \in Piece |-> cw_180[a.piece[Counterpart(i)]]],
           board |-> [v \in View |-> [q \in Square |-> Recoloured(a.board[v][cw_180[q]])]],
           player_to_play |-> Opponent(a.player_to_play),
           last_killed_piece |-> a.last_killed_piece,
           last_killed_piece_idx |-> a.last_killed_piece_idx]
  <2>1. a = [piece |-> a.piece, board |-> a.board, player_to_play |-> a.player_to_play,
             last_killed_piece |-> a.last_killed_piece,
             last_killed_piece_idx |-> a.last_killed_piece_idx]
    BY DEF BoardData
  <2> DEFINE men == [i \in Piece |-> cw_180[a.piece[Counterpart(i)]]]
             arrays == [v \in View |-> [q \in Square |-> Recoloured(a.board[v][cw_180[q]])]]
             player == Opponent(a.player_to_play)
  <2>2. t = [a EXCEPT !.piece = men, !.board = arrays, !.player_to_play = player]
    BY DEF Turned, HalfTurned
  <2> HIDE DEF men, arrays, player, t
  <2>3. t = [piece |-> men, board |-> arrays, player_to_play |-> player,
             last_killed_piece |-> a.last_killed_piece,
             last_killed_piece_idx |-> a.last_killed_piece_idx]
    BY <2>1, <2>2
  <2> QED
    BY <2>3 DEF men, arrays, player
<1>2. /\ \A i \in Piece : Counterpart(i) \in Piece /\ a.piece[i] \in Square
      /\ \A q \in Square : cw_180[q] \in Square
      /\ \A v \in View, q \in Square : a.board[v][q] \in Code
  BY CounterpartFacts, HalfTurnFacts, BoardTypes DEF Arrays
<1>3. t.piece \in [Piece -> Square] /\ \A i \in Piece : t.piece[i] = cw_180[a.piece[Counterpart(i)]]
  BY <1>1, <1>2
<1>4. /\ t.board \in Arrays
      /\ \A v \in View, q \in Square : t.board[v][q] = Recoloured(a.board[v][cw_180[q]])
  BY <1>1, <1>2, RecolouredFacts DEF Arrays
<1>5. t.player_to_play \in Side /\ t.player_to_play = Opponent(a.player_to_play)
  BY <1>1, BoardTypes, OpponentInvolution
<1>6. t \in BoardData
  BY <1>1, <1>3, <1>4, <1>5, BoardTypes DEF BoardData
<1> HIDE DEF t
<1>7. \A q \in Square : board_0(t)[q] = Recoloured(board_0(a)[cw_180[q]])
  BY <1>4, BoardAssumption DEF board_0
<1>8. ViewsAgree(t)
  <2> SUFFICES ASSUME NEW v \in View, NEW q \in Square
               PROVE  t.board[v][Rot[v][q]] = board_0(t)[q]
    BY DEF ViewsAgree
  <2>1. Rot[v][q] \in Square /\ cw_180[q] \in Square
    BY <1>2, BoardAssumption
  <2>2. cw_180[Rot[v][q]] = Rot[v][cw_180[q]]
    BY HalfTurnAssumption
  <2>3. a.board[v][Rot[v][cw_180[q]]] = board_0(a)[cw_180[q]]
    BY <2>1 DEF ViewsAgree
  <2> QED
    BY <1>4, <1>7, <2>1, <2>2, <2>3
<1>9. OnTrack(a) => OnTrack(t)
  BY <1>2, <1>3, HalfTurnFacts, MoveGenAssumption DEF OnTrack
<1>10. t.board = HalfTurned(a.board)
  BY <1>1 DEF HalfTurned
<1> QED
  BY <1>3, <1>4, <1>5, <1>6, <1>7, <1>8, <1>9, <1>10 DEF t

(* And what the rest of the program takes for granted of the board is kept *)
(* (ListedIffOccupied, SameMan).                                           *)
LEMMA TurnedConsistent ==
  ASSUME NEW a \in BoardData, Consistent(a)
  PROVE  Consistent(Turned(a))
<1> DEFINE t == Turned(a)
<1>1. /\ t \in BoardData /\ ViewsAgree(t)
      /\ \A i \in Piece : t.piece[i] = cw_180[a.piece[Counterpart(i)]]
      /\ \A q \in Square : board_0(t)[q] = Recoloured(board_0(a)[cw_180[q]])
  BY TurnedFacts DEF Consistent
<1>2. /\ \A i \in Piece : a.piece[i] \in Square
      /\ \A q \in Square : board_0(a)[q] \in Code
  BY BoardTypes
<1>3. /\ \A q \in Square : cw_180[q] \in Square /\ cw_180[cw_180[q]] = q
      /\ cw_180[Dead] = Dead /\ Dead \in Square
  BY HalfTurnFacts, BoardAssumption
<1>4. \A i \in Piece : Counterpart(i) \in Piece /\ Counterpart(Counterpart(i)) = i
  BY CounterpartFacts
<1> HIDE DEF t
<1>5. OnePerSquare(t)
  <2> SUFFICES ASSUME NEW i \in Piece, NEW j \in Piece, t.piece[i] = t.piece[j], t.piece[i] # Dead
               PROVE  i = j
    BY DEF OnePerSquare
  <2>1. /\ a.piece[Counterpart(i)] = a.piece[Counterpart(j)]
        /\ a.piece[Counterpart(i)] # Dead
    BY <1>1, <1>2, <1>3, <1>4
  <2>2. Counterpart(i) = Counterpart(j)
    BY <1>4, <2>1 DEF Consistent, OnePerSquare
  <2> QED
    BY <1>4, <2>2
<1>6. ListedIffOccupied(t)
  <2> SUFFICES ASSUME NEW q \in Square
               PROVE  board_0(t)[q] # EMPTY <=> q # Dead /\ \E i \in Piece : t.piece[i] = q
    BY DEF ListedIffOccupied
  <2> DEFINE r == cw_180[q]
  <2>1. r \in Square /\ cw_180[r] = q /\ (r = Dead <=> q = Dead)
    BY <1>3
  <2>2. board_0(t)[q] = Recoloured(board_0(a)[r])
    BY <1>1
  <2> HIDE DEF r
  <2>3. board_0(t)[q] # EMPTY <=> board_0(a)[r] # EMPTY
    BY <1>2, <2>1, <2>2, RecolouredFacts
  <2>4. board_0(a)[r] # EMPTY <=> r # Dead /\ \E i \in Piece : a.piece[i] = r
    BY <2>1 DEF Consistent, ListedIffOccupied
  <2>5. (\E i \in Piece : a.piece[i] = r) <=> \E i \in Piece : t.piece[i] = q
    <3>1. ASSUME NEW i \in Piece, a.piece[i] = r PROVE \E k \in Piece : t.piece[k] = q
      <4>1. t.piece[Counterpart(i)] = q
        BY <1>1, <1>4, <2>1, <3>1
      <4> QED
        BY <1>4, <4>1
    <3>2. ASSUME NEW i \in Piece, t.piece[i] = q PROVE \E k \in Piece : a.piece[k] = r
      <4>1. cw_180[a.piece[Counterpart(i)]] = q /\ Counterpart(i) \in Piece
        BY <1>1, <1>4, <3>2
      <4>2. a.piece[Counterpart(i)] = r
        BY <1>2, <1>3, <4>1 DEF r
      <4> QED
        BY <4>1, <4>2
    <3> QED
      BY <3>1, <3>2
  <2> QED
    BY <2>1, <2>3, <2>4, <2>5
<1>7. SameMan(t)
  <2> SUFFICES ASSUME NEW i \in Piece, t.piece[i] # Dead
               PROVE  Norm(board_0(t)[t.piece[i]]) \in Forms(i)
    BY DEF SameMan
  <2> DEFINE j == Counterpart(i)
             code == board_0(a)[a.piece[j]]
  <2>1. j \in Piece /\ Counterpart(j) = i /\ a.piece[j] \in Square /\ code \in Code
    BY <1>2, <1>4
  <2>2. t.piece[i] = cw_180[a.piece[j]] /\ a.piece[j] # Dead
    BY <1>1, <1>3
  <2> HIDE DEF j
  <2>3. board_0(t)[t.piece[i]] = Recoloured(code)
    BY <1>1, <1>3, <2>1, <2>2
  <2>4. Norm(code) \in Forms(j)
    BY <2>1, <2>2 DEF Consistent, SameMan
  <2>5. Norm(Recoloured(code)) = Recoloured(Norm(code))
    BY <2>1, RecolouredFacts
  <2>6. Forms(i) = {Recoloured(f) : f \in Forms(j)}
    BY <2>1, CounterpartFacts
  <2> QED
    BY <2>3, <2>4, <2>5, <2>6
<1> QED
  BY <1>1, <1>5, <1>6, <1>7 DEF Consistent, t

(* So has a side. *)
LEMMA TurnedSideMoves ==
  ASSUME NEW a \in BoardData, ViewsAgree(a), OnTrack(a), NEW c \in Side
  PROVE  _get_pseudolegal_moves_for_side(Turned(a), Opponent(c)) =
           {TurnedMove(m) : m \in _get_pseudolegal_moves_for_side(a, c)}
<1> DEFINE t == Turned(a)
           of(p) == _get_pseudolegal_moves_for_piece(a, p)
           turnedOf(p) == _get_pseudolegal_moves_for_piece(t, p)
<1>1. \A i \in Piece : t.piece[i] = cw_180[a.piece[Counterpart(i)]]
  BY TurnedFacts
<1>0. t.board = HalfTurned(a.board)
  BY TurnedFacts
<1>2. \A i \in Piece : /\ Counterpart(i) \in Piece /\ Counterpart(Counterpart(i)) = i
                       /\ Owner[Counterpart(i)] = Opponent(Owner[i]) /\ Owner[i] \in Side
  BY CounterpartFacts, OwnerType
<1>3. /\ \A i \in Piece : a.piece[i] \in Square
      /\ \A q \in Square : cw_180[q] \in Square /\ cw_180[cw_180[q]] = q
      /\ cw_180[DEAD] = DEAD /\ DEAD \in Square
  BY HalfTurnFacts, BoardTypes, MoveGenAssumption, TrackFacts
<1>4. Opponent(c) \in Side /\ Opponent(Opponent(c)) = c
  BY OpponentInvolution
<1>5. \A p \in Live(a, c) : p \in Track
  BY DEF Live, OnTrack
<1> HIDE DEF t
<1>6. ASSUME NEW p \in Live(a, c) PROVE cw_180[p] \in Live(t, Opponent(c))
  <2>1. PICK i \in Piece : Owner[i] = c /\ a.piece[i] = p /\ p # DEAD
    BY DEF Live
  <2>2. t.piece[Counterpart(i)] = cw_180[p] /\ Owner[Counterpart(i)] = Opponent(c)
    BY <1>1, <1>2, <2>1
  <2>3. cw_180[p] # DEAD
    BY <1>3, <2>1
  <2> QED
    BY <1>2, <2>2, <2>3 DEF Live
<1>7. ASSUME NEW r \in Live(t, Opponent(c)) PROVE \E p \in Live(a, c) : r = cw_180[p]
  <2>1. PICK i \in Piece : Owner[i] = Opponent(c) /\ t.piece[i] = r /\ r # DEAD
    BY DEF Live
  <2> DEFINE p == a.piece[Counterpart(i)]
  <2>2. r = cw_180[p] /\ Owner[Counterpart(i)] = c
    BY <1>1, <1>2, <1>4, <2>1
  <2>3. p # DEAD
    BY <1>3, <2>1, <2>2
  <2>4. p \in Live(a, c)
    BY <1>2, <2>2, <2>3 DEF Live
  <2> QED
    BY <2>2, <2>4
<1>8. \A p \in Live(a, c) : turnedOf(cw_180[p]) = {TurnedMove(m) : m \in of(p)}
  BY <1>0, <1>5, TurnedPieceMoves
<1>9. /\ _get_pseudolegal_moves_for_side(a, c) = UNION {of(p) : p \in Live(a, c)}
      /\ _get_pseudolegal_moves_for_side(t, Opponent(c)) =
           UNION {turnedOf(p) : p \in Live(t, Opponent(c))}
  BY DEF _get_pseudolegal_moves_for_side
<1> HIDE DEF of, turnedOf
<1>10. ASSUME NEW n \in UNION {turnedOf(p) : p \in Live(t, Opponent(c))}
       PROVE  n \in {TurnedMove(m) : m \in UNION {of(p) : p \in Live(a, c)}}
  <2>1. PICK r \in Live(t, Opponent(c)) : n \in turnedOf(r)
    OBVIOUS
  <2>2. PICK p \in Live(a, c) : r = cw_180[p]
    BY <1>7
  <2>3. PICK m \in of(p) : n = TurnedMove(m)
    BY <1>8, <2>1, <2>2
  <2> QED
    BY <2>3
<1>11. ASSUME NEW p \in Live(a, c), NEW m \in of(p)
       PROVE  TurnedMove(m) \in UNION {turnedOf(r) : r \in Live(t, Opponent(c))}
  <2>1. TurnedMove(m) \in turnedOf(cw_180[p])
    BY <1>8
  <2> QED
    BY <1>6, <2>1
<1>12. UNION {turnedOf(p) : p \in Live(t, Opponent(c))} =
         {TurnedMove(m) : m \in UNION {of(p) : p \in Live(a, c)}}
  BY <1>10, <1>11
<1> QED
  BY <1>9, <1>12 DEF t

(* The player to move is in check on both boards or on neither. *)
LEMMA TurnedCheck ==
  ASSUME NEW a \in BoardData, ViewsAgree(a), OnTrack(a)
  PROVE  in_check(Turned(a)) = in_check(a)
<1> DEFINE t == Turned(a)
           c == a.player_to_play
           k == KingIdx(c)
<1>1. /\ c \in Side /\ Opponent(c) \in Side /\ Opponent(Opponent(c)) = c
      /\ t.player_to_play = Opponent(c)
  BY BoardTypes, OpponentInvolution, TurnedFacts
<1>2. /\ k \in Piece /\ KingIdx(Opponent(c)) \in Piece /\ KingIdx(Opponent(c)) = Counterpart(k)
      /\ Counterpart(Counterpart(k)) = k
  <2>1. Counterpart(2) = 8 /\ Counterpart(8) = 2
    BY DEF Counterpart
  <2>2. \/ c = "BLACK" /\ Opponent(c) = "WHITE"
        \/ c = "WHITE" /\ Opponent(c) = "BLACK"
    <3>1. Opponent("WHITE") = "BLACK" /\ Opponent("BLACK") = "WHITE"
      BY DEF Opponent, Side
    <3>2. c = "WHITE" \/ c = "BLACK"
      BY <1>1 DEF Side
    <3> HIDE DEF c
    <3> QED
      BY <3>1, <3>2
  <2>3. KingIdx(Opponent(c)) = Counterpart(k)
    BY <2>1, <2>2 DEF KingIdx
  <2> QED
    BY <1>1, <2>3, MoveGenAssumption, CounterpartFacts
<1>3. t.piece[KingIdx(Opponent(c))] = cw_180[a.piece[k]]
  BY <1>2, TurnedFacts
<1>4. _get_pseudolegal_moves_for_side(t, c) =
        {TurnedMove(m) : m \in _get_pseudolegal_moves_for_side(a, Opponent(c))}
  BY <1>1, TurnedSideMoves
<1> DEFINE M == _get_pseudolegal_moves_for_side(a, Opponent(c))
           N == _get_pseudolegal_moves_for_side(t, c)
<1>5. \A m \in M : m.p1 \in Square
  <2>1. SameMen(a, a)
    BY DEF SameMen
  <2> QED
    BY <1>1, <2>1, SideMoves, TrackFacts
<1>6. /\ \A q \in Square : cw_180[cw_180[q]] = q
      /\ a.piece[k] \in Square
  BY <1>2, HalfTurnFacts, BoardTypes
<1>7. in_check(a) <=> \E m \in M : m.p1 = a.piece[k]
  BY DEF in_check, _under_threat
<1>8. in_check(t) <=> \E n \in N : n.p1 = cw_180[a.piece[k]]
  <2> HIDE DEF t, k, c
  <2> QED
    BY <1>1, <1>3 DEF in_check, _under_threat
<1> HIDE DEF M, N, k, c
<1>9. (\E n \in N : n.p1 = cw_180[a.piece[k]]) <=> \E m \in M : m.p1 = a.piece[k]
  <2>1. N = {TurnedMove(m) : m \in M}
    BY <1>4 DEF M, N
  <2>2. \A m \in M : TurnedMove(m).p1 = cw_180[m.p1]
    BY DEF TurnedMove
  <2>3. \A m \in M : TurnedMove(m).p1 = cw_180[a.piece[k]] <=> m.p1 = a.piece[k]
    BY <1>5, <1>6, <2>2
  <2> QED
    BY <2>1, <2>3
<1>10. in_check(t) <=> in_check(a)
  BY <1>7, <1>8, <1>9
<1>11. in_check(t) \in BOOLEAN /\ in_check(a) \in BOOLEAN
  BY DEF in_check, _under_threat
<1> QED
  BY <1>10, <1>11

(* A pawn becomes the same piece in either colour. *)
LEMMA PromoteRecoloured ==
  ASSUME NEW code \in Code, NEW promo \in Promotion
  PROVE  Promote(Recoloured(code), promo) = Recoloured(Promote(code, promo))
<1>1. CASE promo = {}
  BY <1>1 DEF Promote
<1>2. CASE promo # {}
  <2>1. promo \subseteq PieceType
    BY DEF Promotion, PieceType
  <2>2. color(code) \cup promo \in Code /\ Recoloured(code) \in Code
    BY <2>1, RecolouredFacts DEF Code, color
  <2>3. \A c \in Side : c \notin PieceType
    BY DEF Side, PieceType
  <2>4. \A c \in Side : /\ c \in Recoloured(color(code) \cup promo) <=> Opponent(c) \in code
                        /\ c \in color(Recoloured(code)) \cup promo <=> Opponent(c) \in code
    <3>1. \A c \in Side : c \in Recoloured(code) <=> Opponent(c) \in code
      BY RecolouredFacts
    <3>2. \A c \in Side : c \in Recoloured(color(code) \cup promo)
                            <=> Opponent(c) \in color(code) \cup promo
      BY <2>2, RecolouredFacts
    <3>3. \A c \in Side : Opponent(c) \in Side
      BY OpponentInvolution
    <3> QED
      BY <2>1, <2>3, <3>1, <3>2, <3>3 DEF color
  <2>5. \A t \in PieceType : /\ t \in Recoloured(color(code) \cup promo) <=> t \in promo
                             /\ t \in color(Recoloured(code)) \cup promo <=> t \in promo
    <3>1. \A t \in PieceType : t \in Recoloured(color(code) \cup promo)
                                 <=> t \in color(code) \cup promo
      BY <2>2, RecolouredFacts
    <3> QED
      BY <2>3, <3>1 DEF color
  <2>6. Recoloured(color(code) \cup promo) \in Code /\ color(Recoloured(code)) \cup promo \in Code
    BY <2>1, <2>2, RecolouredFacts DEF Code, color
  <2>7. Recoloured(color(code) \cup promo) = color(Recoloured(code)) \cup promo
    BY <2>4, <2>5, <2>6 DEF Code
  <2> QED
    BY <1>2, <2>7 DEF Promote
<1> QED
  BY <1>1, <1>2

(* The turned move, done on the turned board, leads to the turned position *)
(* (_do_move), so one leaves the king in check if the other does.          *)
LEMMA TurnedTrial ==
  ASSUME NEW a \in BoardData, Consistent(a), OnTrack(a), NEW m \in _get_pseudolegal_moves(a),
         TurnedMove(m) \in _get_pseudolegal_moves(Turned(a))
  PROVE  in_check(_do_move(Turned(a), TurnedMove(m))) = in_check(_do_move(a, m))
<1> DEFINE t == Turned(a)
           n == TurnedMove(m)
           d == _do_move(a, m)
           e == _do_move(t, n)
           y == do_move(a, m)
           z == do_move(t, n)
           u == Turned(d)
<1>1. /\ t \in BoardData /\ ViewsAgree(t) /\ OnTrack(t) /\ Consistent(t)
      /\ t.player_to_play = Opponent(a.player_to_play)
      /\ \A i \in Piece : t.piece[i] = cw_180[a.piece[Counterpart(i)]]
      /\ \A q \in Square : board_0(t)[q] = Recoloured(board_0(a)[cw_180[q]])
  BY TurnedFacts, TurnedConsistent DEF Consistent
<1>2. IsCandidate(a, m) /\ m.p1 \in Track
  BY GeneratedCandidate
<1> HIDE DEF t
<1>3. IsCandidate(t, n) /\ n.p1 \in Track
  <2> HIDE DEF n
  <2>1. n \in _get_pseudolegal_moves(t)
    BY DEF t, n
  <2> QED
    BY <1>1, <2>1, GeneratedCandidate
<1>4. /\ m.p0 \in Square /\ m.p1 \in Square /\ m.promo \in Promotion
      /\ n.p0 = cw_180[m.p0] /\ n.p1 = cw_180[m.p1] /\ n.promo = m.promo
  BY <1>2, CandidateFacts DEF TurnedMove
<1> HIDE DEF n
<1>5. /\ d \in BoardData /\ ViewsAgree(d) /\ d.player_to_play = a.player_to_play
      /\ d.piece = y.piece /\ d.board = y.board /\ OnTrack(d)
  <2>1. d \in BoardData /\ ViewsAgree(d) /\ d.player_to_play = a.player_to_play /\ _flip_player(d) = y
    BY <1>2, TryFacts
  <2> HIDE DEF d, y
  <2>2. d.piece = y.piece /\ d.board = y.board
    BY <2>1, FlipFacts
  <2> QED
    BY <1>2, <2>1, <2>2, DoOnTrack DEF d
<1>6. /\ e \in BoardData /\ ViewsAgree(e) /\ e.player_to_play = t.player_to_play
      /\ e.piece = z.piece /\ e.board = z.board /\ OnTrack(e)
  <2>1. e \in BoardData /\ ViewsAgree(e) /\ e.player_to_play = t.player_to_play /\ _flip_player(e) = z
    BY <1>1, <1>3, TryFacts
  <2> HIDE DEF e, z
  <2>2. e.piece = z.piece /\ e.board = z.board
    BY <2>1, FlipFacts
  <2> QED
    BY <1>1, <1>3, <2>1, <2>2, DoOnTrack DEF e
<1>7. /\ \A i \in Piece : y.piece[i] = IF a.piece[i] = m.p1 THEN Dead
                                       ELSE IF a.piece[i] = m.p0 THEN m.p1
                                       ELSE a.piece[i]
      /\ \A q \in Square : board_0(y)[q] =
                             IF q = m.p0 THEN EMPTY
                             ELSE IF q = m.p1 THEN Promote(board_0(a)[m.p0], m.promo)
                             ELSE board_0(a)[q]
  BY <1>2, DoMoveFacts
<1>8. /\ \A i \in Piece : z.piece[i] = IF t.piece[i] = n.p1 THEN Dead
                                       ELSE IF t.piece[i] = n.p0 THEN n.p1
                                       ELSE t.piece[i]
      /\ \A q \in Square : board_0(z)[q] =
                             IF q = n.p0 THEN EMPTY
                             ELSE IF q = n.p1 THEN Promote(board_0(t)[n.p0], n.promo)
                             ELSE board_0(t)[q]
  BY <1>1, <1>3, DoMoveFacts
<1> HIDE DEF d, e, y, z
<1>9. /\ u \in BoardData /\ ViewsAgree(u) /\ u.player_to_play = Opponent(d.player_to_play)
      /\ \A i \in Piece : u.piece[i] = cw_180[d.piece[Counterpart(i)]]
      /\ \A q \in Square : board_0(u)[q] = Recoloured(board_0(d)[cw_180[q]])
      /\ OnTrack(u)
  BY <1>5, TurnedFacts
<1>10. in_check(u) = in_check(d)
  BY <1>5, TurnedCheck
<1> HIDE DEF u
<1>11. /\ \A q \in Square : cw_180[q] \in Square /\ cw_180[cw_180[q]] = q
       /\ cw_180[Dead] = Dead
       /\ \A i \in Piece : Counterpart(i) \in Piece /\ a.piece[i] \in Square
       /\ \A q \in Square : board_0(a)[q] \in Code
  BY HalfTurnFacts, CounterpartFacts, BoardTypes
<1>12. e.piece = u.piece
  <2> SUFFICES ASSUME NEW i \in Piece PROVE e.piece[i] = u.piece[i]
    BY <1>6, <1>9, BoardTypes
  <2> DEFINE p == a.piece[Counterpart(i)]
  <2>1. p \in Square /\ t.piece[i] = cw_180[p]
    BY <1>1, <1>11
  <2>2. (cw_180[p] = cw_180[m.p1] <=> p = m.p1) /\ (cw_180[p] = cw_180[m.p0] <=> p = m.p0)
    BY <1>4, <1>11, <2>1
  <2>3. u.piece[i] = cw_180[IF p = m.p1 THEN Dead ELSE IF p = m.p0 THEN m.p1 ELSE p]
    BY <1>5, <1>7, <1>9, <1>11
  <2>4. e.piece[i] = IF cw_180[p] = cw_180[m.p1] THEN Dead
                     ELSE IF cw_180[p] = cw_180[m.p0] THEN cw_180[m.p1] ELSE cw_180[p]
    BY <1>4, <1>6, <1>8, <2>1
  <2> HIDE DEF p
  <2> QED
    BY <1>11, <2>2, <2>3, <2>4
<1>13. \A q \in Square : board_0(e)[q] = board_0(u)[q]
  <2> SUFFICES ASSUME NEW q \in Square PROVE board_0(e)[q] = board_0(u)[q]
    OBVIOUS
  <2> DEFINE r == cw_180[q]
             code == board_0(a)[m.p0]
  <2>1. r \in Square /\ cw_180[r] = q /\ code \in Code
    BY <1>4, <1>11
  <2>2. (q = n.p0 <=> r = m.p0) /\ (q = n.p1 <=> r = m.p1)
    BY <1>4, <1>11, <2>1
  <2>3. board_0(t)[n.p0] = Recoloured(code) /\ board_0(t)[q] = Recoloured(board_0(a)[r])
    BY <1>1, <1>4, <1>11
  <2>4. board_0(u)[q] = Recoloured(board_0(y)[r])
    BY <1>5, <1>9 DEF board_0
  <2>5. board_0(e)[q] = board_0(z)[q]
    BY <1>6 DEF board_0
  <2> HIDE DEF r, code
  <2>6. board_0(y)[r] = IF r = m.p0 THEN EMPTY ELSE IF r = m.p1 THEN Promote(code, m.promo)
                        ELSE board_0(a)[r]
    BY <1>7, <2>1 DEF code
  <2>7. board_0(z)[q] = IF q = n.p0 THEN EMPTY
                        ELSE IF q = n.p1 THEN Promote(Recoloured(code), m.promo)
                        ELSE Recoloured(board_0(a)[r])
    BY <1>4, <1>8, <2>3
  <2>8. Promote(Recoloured(code), m.promo) = Recoloured(Promote(code, m.promo))
    BY <1>4, <2>1, PromoteRecoloured
  <2>9. Recoloured(EMPTY) = EMPTY
    BY DEF Recoloured, EMPTY
  <2> QED
    BY <2>2, <2>4, <2>5, <2>6, <2>7, <2>8, <2>9
<1>14. SameMen(e, u)
  BY <1>6, <1>9, <1>12, <1>13 DEF SameMen
<1>15. e.player_to_play = u.player_to_play
  BY <1>1, <1>5, <1>6, <1>9
<1>16. in_check(e) = in_check(u)
  BY <1>6, <1>14, <1>15, SameChecks
<1> QED
  BY <1>10, <1>16 DEF d, e, t, n

(* Both players have the same moves: as many of them in every position as  *)
(* the opponent has in the turned one (get_legal_moves).                   *)
LEMMA TurnedLegal ==
  ASSUME NEW a \in BoardData, Consistent(a), OnTrack(a)
  PROVE  /\ get_legal_moves(Turned(a)) = {TurnedMove(m) : m \in get_legal_moves(a)}
         /\ Cardinality(get_legal_moves(Turned(a))) = Cardinality(get_legal_moves(a))
<1> DEFINE t == Turned(a)
           P == _get_pseudolegal_moves(a)
           L == get_legal_moves(a)
           N == get_legal_moves(t)
<1>1. /\ t \in BoardData /\ Consistent(t) /\ OnTrack(t)
      /\ t.player_to_play = Opponent(a.player_to_play)
      /\ a.player_to_play \in Side
  BY TurnedFacts, TurnedConsistent, BoardTypes DEF Consistent
<1>2. _get_pseudolegal_moves(t) = {TurnedMove(m) : m \in P}
  <2>1. _get_pseudolegal_moves_for_side(t, Opponent(a.player_to_play)) =
          {TurnedMove(m) : m \in _get_pseudolegal_moves_for_side(a, a.player_to_play)}
    BY <1>1, TurnedSideMoves DEF Consistent
  <2> HIDE DEF t
  <2> QED
    BY <1>1, <2>1 DEF _get_pseudolegal_moves
<1>3. \A m \in P : in_check(_do_move(t, TurnedMove(m))) = in_check(_do_move(a, m))
  BY <1>2, TurnedTrial
<1>4. L = {m \in P : ~in_check(_do_move(a, m))}
  BY LegalExact DEF LegalMoves, Evaluated
<1> HIDE DEF t
<1>5. N = {n \in _get_pseudolegal_moves(t) : ~in_check(_do_move(t, n))}
  BY <1>1, LegalExact DEF LegalMoves, Evaluated
<1> HIDE DEF P, L, N
<1>6. N = {TurnedMove(m) : m \in L}
  BY <1>2, <1>3, <1>4, <1>5
<1>7. L \in SUBSET Move
  <2>1. P \in SUBSET Move
    BY GeneratedCandidate DEF IsCandidate, P
  <2> QED
    BY <1>4, <2>1
<1>8. Cardinality(N) = Cardinality(L)
  <2> DEFINE f == [m \in L |-> TurnedMove(m)]
  <2>1. f \in Bijection(L, N)
    <3>1. \A m, n \in L : TurnedMove(m) = TurnedMove(n) => m = n
      BY <1>7, TurnedMoveFacts
    <3> QED
      <4>1. f \in [L -> N] /\ \A m \in L : f[m] = TurnedMove(m)
        BY <1>6
      <4> HIDE DEF f
      <4>2. f \in Injection(L, N)
        BY <3>1, <4>1 DEF Injection, IsInjective
      <4>3. f \in Surjection(L, N)
        BY <1>6, <4>1 DEF Surjection
      <4> QED
        BY <4>2, <4>3 DEF Bijection
  <2>2. IsFiniteSet(L)
    BY <1>7, MovesFinite, FS_Subset
  <2> HIDE DEF f
  <2> QED
    BY <2>1, <2>2, FS_Bijection DEF ExistsBijection
<1> QED
  BY <1>6, <1>8 DEF t, L, N

(* A piece of the turned board is alive as its counterpart is, and as what *)
(* (sign_alive).                                                           *)
LEMMA TurnedAlive ==
  ASSUME NEW a \in BoardData, ViewsAgree(a), NEW i \in Piece, NEW type \in PieceType
  PROVE  sign_alive(Turned(a), i, type) <=> sign_alive(a, Counterpart(i), type)
<1> DEFINE t == Turned(a)
           p == a.piece[Counterpart(i)]
<1>1. /\ t.piece[i] = cw_180[p]
      /\ \A q \in Square : board_0(t)[q] = Recoloured(board_0(a)[cw_180[q]])
  BY TurnedFacts
<1>2. p \in Square /\ board_0(a)[p] \in Code
  BY CounterpartFacts, BoardTypes
<1> HIDE DEF t, p
<1>3. cw_180[p] \in Square /\ cw_180[cw_180[p]] = p /\ (cw_180[p] = DEAD <=> p = DEAD)
  <2>1. \A q \in Square : cw_180[q] \in Square /\ cw_180[cw_180[q]] = q
    BY HalfTurnFacts
  <2>2. cw_180[DEAD] = DEAD
    BY HalfTurnFacts, MoveGenAssumption
  <2> QED
    BY <1>2, <2>1, <2>2
<1>4. board_0(t)[t.piece[i]] = Recoloured(board_0(a)[p])
  BY <1>1, <1>3
<1>5. type \in Recoloured(board_0(a)[p]) <=> type \in board_0(a)[p]
  BY <1>2, RecolouredFacts
<1> QED
  BY <1>1, <1>3, <1>4, <1>5 DEF sign_alive, t, p

(* So as many of a man are counted for one side as for the other (Count).  *)
LEMMA TurnedCount ==
  ASSUME NEW a \in BoardData, ViewsAgree(a), NEW places \in SUBSET Piece, IsFiniteSet(places),
         NEW type \in PieceType
  PROVE  Count(Turned(a), places, type) = Count(a, {Counterpart(i) : i \in places}, type)
<1> DEFINE S == {i \in places : sign_alive(Turned(a), i, type)}
           T == {j \in {Counterpart(i) : i \in places} : sign_alive(a, j, type)}
           f == [i \in S |-> Counterpart(i)]
<1>1. \A i \in places : sign_alive(Turned(a), i, type) <=> sign_alive(a, Counterpart(i), type)
  BY TurnedAlive
<1>2. \A i, j \in places : Counterpart(i) = Counterpart(j) => i = j
  BY CounterpartFacts
<1>3. f \in Bijection(S, T)
  <2>1. S \subseteq places /\ T = {Counterpart(i) : i \in S}
    BY <1>1
  <2>2. f \in [S -> T] /\ \A i \in S : f[i] = Counterpart(i)
    BY <2>1
  <2> HIDE DEF f, S, T
  <2>3. f \in Injection(S, T)
    BY <1>2, <2>1, <2>2 DEF Injection, IsInjective
  <2>4. f \in Surjection(S, T)
    BY <2>1, <2>2 DEF Surjection
  <2> QED
    BY <2>3, <2>4 DEF Bijection
<1>4. IsFiniteSet(S)
  BY FS_Subset
<1> HIDE DEF f, S, T
<1>5. Cardinality(T) = Cardinality(S)
  BY <1>3, <1>4, FS_Bijection DEF ExistsBijection
<1> QED
  BY <1>5 DEF Count, S, T

(* The places counted, of one side and of the other. *)
LEMMA TurnedPlaces ==
  ASSUME NEW c \in Side
  PROVE  LET d == Opponent(c)
         IN  /\ Pawns(c) \in SUBSET Piece /\ IsFiniteSet(Pawns(c))
             /\ Rooks(c) \in SUBSET Piece /\ IsFiniteSet(Rooks(c) \cup Pawns(c))
             /\ {Bishop(c)} \in SUBSET Piece /\ IsFiniteSet({Bishop(c)} \cup Pawns(c))
             /\ Pawns(d) = {Counterpart(i) : i \in Pawns(c)}
             /\ Rooks(d) \cup Pawns(d) = {Counterpart(i) : i \in Rooks(c) \cup Pawns(c)}
             /\ {Bishop(d)} \cup Pawns(d) = {Counterpart(i) : i \in {Bishop(c)} \cup Pawns(c)}
             /\ Counterpart(First(c) + 4) = First(d) + 4
             /\ Counterpart(First(c) + 5) = First(d) + 5
<1> DEFINE d == Opponent(c)
           F == First(c)
           G == First(d)
<1>1. d \in Side /\ d # c
  BY OpponentInvolution
<1>2. F \in {0, 6} /\ G = 6 - F /\ \A k \in 0..5 : F + k \in Piece
  BY <1>1, Places DEF Side
<1> HIDE DEF F, G
<1>3. \A k \in 0..5 : Counterpart(F + k) = G + k
  BY <1>2 DEF Counterpart
<1>4. /\ Pawns(c) = {F + 4, F + 5} /\ Rooks(c) = {F, F + 1} /\ Bishop(c) = F + 3
      /\ Pawns(d) = {G + 4, G + 5} /\ Rooks(d) = {G, G + 1} /\ Bishop(d) = G + 3
  BY DEF Pawns, Rooks, Bishop, F, G
<1>5. /\ F \in Piece /\ F + 1 \in Piece /\ F + 3 \in Piece /\ F + 4 \in Piece /\ F + 5 \in Piece
      /\ Counterpart(F) = G /\ Counterpart(F + 1) = G + 1 /\ Counterpart(F + 3) = G + 3
      /\ Counterpart(F + 4) = G + 4 /\ Counterpart(F + 5) = G + 5
  <2>1. F = F + 0 /\ G = G + 0 /\ 0 \in 0..5 /\ 1 \in 0..5 /\ 3 \in 0..5 /\ 4 \in 0..5 /\ 5 \in 0..5
    BY <1>2
  <2> QED
    BY <1>2, <1>3, <2>1, Zenon
<1>6. /\ IsFiniteSet({F + 4, F + 5}) /\ IsFiniteSet({F + 3, F + 4, F + 5})
      /\ IsFiniteSet({F, F + 1, F + 4, F + 5})
  BY SmallSets
<1>7. /\ Rooks(c) \cup Pawns(c) = {F, F + 1, F + 4, F + 5}
      /\ {Bishop(c)} \cup Pawns(c) = {F + 3, F + 4, F + 5}
      /\ Rooks(d) \cup Pawns(d) = {G, G + 1, G + 4, G + 5}
      /\ {Bishop(d)} \cup Pawns(d) = {G + 3, G + 4, G + 5}
  BY <1>4
<1>8. /\ {Counterpart(i) : i \in {F + 4, F + 5}} = {G + 4, G + 5}
      /\ {Counterpart(i) : i \in {F + 3, F + 4, F + 5}} = {G + 3, G + 4, G + 5}
      /\ {Counterpart(i) : i \in {F, F + 1, F + 4, F + 5}} = {G, G + 1, G + 4, G + 5}
  BY <1>5, Zenon
<1> HIDE DEF d
<1> QED
  BY <1>4, <1>5, <1>6, <1>7, <1>8 DEF d, F, G

(* A pawn is as near to its goal as its counterpart to the other goal      *)
(* (manhattan_to_promotion).                                               *)
LEMMA TurnedNear ==
  ASSUME NEW a \in BoardData, ViewsAgree(a), OnTrack(a), NEW i \in Piece, NEW c \in Side
  PROVE  manhattan_to_promotion(Turned(a), i, c) =
           manhattan_to_promotion(a, Counterpart(i), Opponent(c))
<1> DEFINE t == Turned(a)
           j == Counterpart(i)
           e == Opponent(c)
           p == a.piece[j]
           r == t.piece[i]
           to(q, g) == abs(getx(q) - g[1]) + abs(gety(q) - g[2])
           Ways(q, k) == {to(q, g) : g \in Goal(k)}
           nearest(q, k) == CHOOSE d \in Ways(q, k) : \A g \in Goal(k) : d <= to(q, g)
<1>1. sign_alive(t, i, "PAWN") <=> sign_alive(a, j, "PAWN")
  BY TurnedAlive DEF PieceType
<1>2. /\ manhattan_to_promotion(t, i, c) =
           IF ~sign_alive(t, i, "PAWN") THEN 0 ELSE 7 - nearest(r, c)
      /\ manhattan_to_promotion(a, j, e) =
           IF ~sign_alive(a, j, "PAWN") THEN 0 ELSE 7 - nearest(p, e)
  BY DEF manhattan_to_promotion
<1>3. ASSUME sign_alive(a, j, "PAWN") PROVE nearest(r, c) = nearest(p, e)
  <2>1. p \in Track /\ r = 54 - p
    <3>1. p \in Track
      BY <1>3, CounterpartFacts DEF sign_alive, OnTrack
    <3> QED
      BY <3>1, TurnedFacts, HalfTurnFacts
  <2> HIDE DEF p, r
  <2>2. getx(p) \in 0..6 /\ gety(p) \in 0..6 /\ getx(r) = 6 - getx(p) /\ gety(r) = 6 - gety(p)
    BY <2>1 DEF Track, bottom, left, top, right, getx, gety
  <2>3. /\ Goal("BLACK") = {<<2, 0>>, <<2, 1>>}
        /\ Goal("WHITE") = {<<4, 5>>, <<4, 6>>}
    BY DEF Goal
  <2>4. \/ c = "BLACK" /\ e = "WHITE"
        \/ c = "WHITE" /\ e = "BLACK"
    BY DEF Opponent, Side
  <2>5. \A u, v \in 0..6 : abs(u - v) \in 0..6 /\ abs((6 - u) - (6 - v)) = abs(u - v)
    BY DEF abs
  <2> DEFINE over(g) == <<6 - g[1], 6 - g[2]>>
  <2>6. \A k \in Side : \A g \in Goal(k) : g[1] \in 0..6 /\ g[2] \in 0..6
    BY <2>3 DEF Side
  <2>7. \A k \in Side : \A g \in Goal(k) : to(r, over(g)) = to(p, g) /\ to(p, g) \in 0..12
    <3> SUFFICES ASSUME NEW k \in Side, NEW g \in Goal(k)
                 PROVE  to(r, over(g)) = to(p, g) /\ to(p, g) \in 0..12
      OBVIOUS
    <3>1. g[1] \in 0..6 /\ g[2] \in 0..6
      BY <2>6
    <3>2. over(g)[1] = 6 - g[1] /\ over(g)[2] = 6 - g[2]
      OBVIOUS
    <3>3. /\ abs(getx(r) - over(g)[1]) = abs(getx(p) - g[1])
          /\ abs(gety(r) - over(g)[2]) = abs(gety(p) - g[2])
          /\ abs(getx(p) - g[1]) \in 0..6 /\ abs(gety(p) - g[2]) \in 0..6
      BY <2>2, <2>5, <3>1, <3>2
    <3> QED
      BY <3>3
  <2>8. Goal(c) = {over(g) : g \in Goal(e)}
    <3>1. /\ over(<<2, 0>>) = <<4, 6>> /\ over(<<2, 1>>) = <<4, 5>>
          /\ over(<<4, 5>>) = <<2, 1>> /\ over(<<4, 6>>) = <<2, 0>>
      OBVIOUS
    <3> HIDE DEF over
    <3> QED
      BY <2>3, <2>4, <3>1
  <2>9. e \in Side
    BY OpponentInvolution
  <2> HIDE DEF to, over, e
  <2>10. Ways(r, c) = Ways(p, e)
    BY <2>7, <2>8, <2>9
  <2>11. \E d \in Ways(p, e) : \A w \in Ways(p, e) : d <= w
    <3>1. PICK g, h : Goal(e) = {g, h}
      BY <2>3, <2>9 DEF Side
    <3>2. to(p, g) \in 0..12 /\ to(p, h) \in 0..12
      BY <2>7, <2>9, <3>1
    <3>3. Ways(p, e) = {to(p, g), to(p, h)}
      BY <3>1
    <3> HIDE DEF Ways
    <3> QED
      BY <3>2, <3>3
  <2>12. /\ nearest(p, e) \in Ways(p, e) /\ \A w \in Ways(p, e) : nearest(p, e) <= w
         /\ nearest(r, c) \in Ways(r, c) /\ \A w \in Ways(r, c) : nearest(r, c) <= w
    <3>1. \A k, q : nearest(q, k) = CHOOSE d \in Ways(q, k) : \A g \in Goal(k) : d <= to(q, g)
      OBVIOUS
    <3>2. \A k, q, d : (\A g \in Goal(k) : d <= to(q, g)) <=> \A w \in Ways(q, k) : d <= w
      OBVIOUS
    <3> HIDE DEF nearest, Ways
    <3>3. ASSUME NEW k, NEW q, \E d \in Ways(q, k) : \A w \in Ways(q, k) : d <= w
          PROVE  /\ nearest(q, k) \in Ways(q, k)
                 /\ \A w \in Ways(q, k) : nearest(q, k) <= w
      BY <3>1, <3>2, <3>3
    <3> QED
      BY <2>10, <2>11, <3>3
  <2>13. \A w \in Ways(p, e) : w \in Int
    BY <2>7, <2>9
  <2> HIDE DEF nearest, Ways
  <2>14. /\ nearest(r, c) <= nearest(p, e) /\ nearest(p, e) <= nearest(r, c)
         /\ nearest(r, c) \in Int /\ nearest(p, e) \in Int
    BY <2>10, <2>12, <2>13
  <2> QED
    BY <2>14
<1> HIDE DEF nearest, t, j
<1> QED
  BY <1>1, <1>2, <1>3 DEF t, j

(* All features are the other player's (prepare_features), and the value   *)
(* is the opposite.                                                        *)
LEMMA TurnedValue ==
  ASSUME NEW a \in BoardData, Consistent(a), OnTrack(a)
  PROVE  LET x == Value(a)
             y == Value(Turned(a))
         IN  x.linear = -y.linear /\ x.num = -y.num /\ x.den = y.den
<1> DEFINE t == Turned(a)
           n == Cardinality(get_legal_moves(a))
           f == prepare_features(a, n)
           g == prepare_features(t, n)
           pawns(x, c)   == Count(x, Pawns(c), "PAWN")
           rooks(x, c)   == Count(x, Rooks(c) \cup Pawns(c), "ROOK")
           bishops(x, c) == Count(x, {Bishop(c)} \cup Pawns(c), "BISHOP")
           pieces(x, c)  == 1 + pawns(x, c) + 5 * rooks(x, c) + 3 * bishops(x, c)
           near(x, c)    == promotion(x, c)
<1>1. /\ t \in BoardData /\ ViewsAgree(a) /\ t.player_to_play = Opponent(a.player_to_play)
      /\ a.player_to_play \in Side
  BY TurnedFacts, BoardTypes DEF Consistent
<1>2. Value(a) = evaluate(f) /\ Value(t) = evaluate(g)
  BY TurnedLegal DEF Value
<1>3. \A c \in Side : /\ pawns(t, Opponent(c)) = pawns(a, c)
                      /\ rooks(t, Opponent(c)) = rooks(a, c)
                      /\ bishops(t, Opponent(c)) = bishops(a, c)
  <2> SUFFICES ASSUME NEW c \in Side
               PROVE  /\ pawns(t, Opponent(c)) = pawns(a, c)
                      /\ rooks(t, Opponent(c)) = rooks(a, c)
                      /\ bishops(t, Opponent(c)) = bishops(a, c)
    OBVIOUS
  <2> DEFINE d == Opponent(c)
  <2>1. d \in Side /\ Opponent(d) = c
    BY OpponentInvolution
  <2> HIDE DEF d, t
  <2>2. /\ Pawns(d) \in SUBSET Piece /\ IsFiniteSet(Pawns(d))
        /\ Rooks(d) \cup Pawns(d) \in SUBSET Piece /\ IsFiniteSet(Rooks(d) \cup Pawns(d))
        /\ {Bishop(d)} \cup Pawns(d) \in SUBSET Piece /\ IsFiniteSet({Bishop(d)} \cup Pawns(d))
        /\ Pawns(c) = {Counterpart(i) : i \in Pawns(d)}
        /\ Rooks(c) \cup Pawns(c) = {Counterpart(i) : i \in Rooks(d) \cup Pawns(d)}
        /\ {Bishop(c)} \cup Pawns(c) = {Counterpart(i) : i \in {Bishop(d)} \cup Pawns(d)}
    BY <2>1, TurnedPlaces
  <2>3. "PAWN" \in PieceType /\ "ROOK" \in PieceType /\ "BISHOP" \in PieceType
    BY DEF PieceType
  <2>4. \A places, type : /\ places \in SUBSET Piece /\ IsFiniteSet(places)
                          /\ type \in PieceType
                          => Count(t, places, type) = Count(a, {Counterpart(i) : i \in places}, type)
    BY <1>1, TurnedCount DEF t
  <2>5. /\ Count(t, Pawns(d), "PAWN") = Count(a, Pawns(c), "PAWN")
        /\ Count(t, Rooks(d) \cup Pawns(d), "ROOK") = Count(a, Rooks(c) \cup Pawns(c), "ROOK")
        /\ Count(t, {Bishop(d)} \cup Pawns(d), "BISHOP") =
             Count(a, {Bishop(c)} \cup Pawns(c), "BISHOP")
    BY <2>2, <2>3, <2>4, Zenon
  <2> QED
    BY <2>5 DEF d
<1>4. \A c \in Side : near(t, Opponent(c)) = near(a, c)
  <2> SUFFICES ASSUME NEW c \in Side PROVE near(t, Opponent(c)) = near(a, c)
    OBVIOUS
  <2> DEFINE d == Opponent(c)
  <2>1. d \in Side /\ Opponent(d) = c
    BY OpponentInvolution
  <2> HIDE DEF d
  <2>2. First(d) + 4 \in Piece /\ First(d) + 5 \in Piece
    BY <2>1, Places
  <2>3. Counterpart(First(d) + 4) = First(c) + 4 /\ Counterpart(First(d) + 5) = First(c) + 5
    BY <2>1, TurnedPlaces
  <2>4. /\ manhattan_to_promotion(t, First(d) + 4, d) = manhattan_to_promotion(a, First(c) + 4, c)
        /\ manhattan_to_promotion(t, First(d) + 5, d) = manhattan_to_promotion(a, First(c) + 5, c)
    BY <1>1, <2>1, <2>2, <2>3, TurnedNear
  <2> QED
    BY <2>4 DEF promotion, d
<1>5. \A c \in Side : /\ pawns(a, c) \in Int /\ rooks(a, c) \in Int /\ bishops(a, c) \in Int
                      /\ near(a, c) \in Int
  <2> SUFFICES ASSUME NEW c \in Side
               PROVE  /\ pawns(a, c) \in Int /\ rooks(a, c) \in Int /\ bishops(a, c) \in Int
                      /\ near(a, c) \in Int
    OBVIOUS
  <2>1. \A places, type : IsFiniteSet(places) => Count(a, places, type) \in Int
    <3> SUFFICES ASSUME NEW places, NEW type, IsFiniteSet(places)
                 PROVE  Count(a, places, type) \in Int
      OBVIOUS
    <3>1. IsFiniteSet({i \in places : sign_alive(a, i, type)})
      BY FS_Subset
    <3> QED
      BY <3>1, FS_CardinalityType DEF Count
  <2>2. First(c) + 4 \in Piece /\ First(c) + 5 \in Piece
    BY Places
  <2>3. /\ manhattan_to_promotion(a, First(c) + 4, c) \in -7..7
        /\ manhattan_to_promotion(a, First(c) + 5, c) \in -7..7
    BY <2>2, NearBound
  <2>4. near(a, c) \in Int
    BY <2>3 DEF promotion
  <2> QED
    BY <2>1, <2>4, TurnedPlaces
<1>6. /\ \A x : /\ prepare_features(x, n).pawns = pawns(x, "WHITE") - pawns(x, "BLACK")
                /\ prepare_features(x, n).rooks = rooks(x, "WHITE") - rooks(x, "BLACK")
                /\ prepare_features(x, n).bishops = bishops(x, "WHITE") - bishops(x, "BLACK")
                /\ prepare_features(x, n).promotion = near(x, "WHITE") - near(x, "BLACK")
                /\ prepare_features(x, n).white = pieces(x, "WHITE")
                /\ prepare_features(x, n).black = pieces(x, "BLACK")
                /\ prepare_features(x, n).check = CheckFeature(in_check(x), n, x.player_to_play)
  BY DEF prepare_features
<1>7. /\ "WHITE" \in Side /\ "BLACK" \in Side
      /\ Opponent("WHITE") = "BLACK" /\ Opponent("BLACK") = "WHITE"
  BY DEF Side, Opponent
<1>8. in_check(t) = in_check(a)
  BY <1>1, TurnedCheck
<1> HIDE DEF t, n
<1>9. /\ f.check = -g.check /\ g.check \in Int
  <2>1. /\ f.check = CheckFeature(in_check(a), n, a.player_to_play)
        /\ g.check = CheckFeature(in_check(a), n, Opponent(a.player_to_play))
    BY <1>1, <1>6, <1>8
  <2> DEFINE z == -100000 * 1
             w == -100000 * (-1)
  <2>2. z \in Int /\ w \in Int /\ z = -w /\ w = -z
    <3> DEFINE m == -1
    <3>1. m \in Int /\ m + 1 = 0
      BY SMT
    <3> HIDE DEF m
    <3>2. /\ -100000 * 1 \in Int /\ -100000 * m \in Int
          /\ -100000 * 1 = -(-100000 * m) /\ -100000 * m = -(-100000 * 1)
      BY <3>1, SMT
    <3> QED
      BY <3>2 DEF m
  <2>3. /\ CheckFeature(in_check(a), n, "WHITE") =
             IF ~in_check(a) THEN 0 ELSE IF n = 0 THEN z ELSE 1
        /\ CheckFeature(in_check(a), n, "BLACK") =
             IF ~in_check(a) THEN 0 ELSE IF n = 0 THEN w ELSE -1
    BY DEF CheckFeature
  <2>4. a.player_to_play = "WHITE" \/ a.player_to_play = "BLACK"
    BY <1>1 DEF Side
  <2> HIDE DEF z, w, f, g
  <2> QED
    BY <1>7, <2>1, <2>2, <2>3, <2>4
<1>10. /\ g.pawns \in Int /\ g.rooks \in Int /\ g.bishops \in Int /\ g.promotion \in Int
       /\ f.pawns = -g.pawns /\ f.rooks = -g.rooks /\ f.bishops = -g.bishops
       /\ f.promotion = -g.promotion
  <2> HIDE DEF pawns, rooks, bishops, near
  <2> QED
    BY <1>3, <1>4, <1>5, <1>6, <1>7
<1>11. /\ f.white = g.black /\ f.black = g.white /\ f.white \in Int /\ f.black \in Int
  <2> HIDE DEF pawns, rooks, bishops
  <2> QED
    BY <1>3, <1>5, <1>6, <1>7
<1> HIDE DEF f, g
<1>12. evaluate(f).linear = -evaluate(g).linear
  <2> DEFINE p == g.pawns
             o == g.rooks
             i == g.bishops
             m == g.promotion
             k == g.check
  <2>1. p \in Int /\ o \in Int /\ i \in Int /\ m \in Int /\ k \in Int
    BY <1>9, <1>10
  <2>2. /\ evaluate(g).linear = 50 * p + 500 * o + 150 * i + m + 40 * k
        /\ evaluate(f).linear = 50 * (-p) + 500 * (-o) + 150 * (-i) + (-m) + 40 * (-k)
    BY <1>9, <1>10 DEF evaluate
  <2> HIDE DEF p, o, i, m, k
  <2> QED
    BY <2>1, <2>2, SMT
<1>13. evaluate(f).num = -evaluate(g).num /\ evaluate(f).den = evaluate(g).den
  <2> DEFINE u == f.white
             w == f.black
  <2>1. /\ evaluate(f).num = 25 * (u * u - w * w) /\ evaluate(g).num = 25 * (w * w - u * u)
        /\ evaluate(f).den = u * w /\ evaluate(g).den = w * u
    BY <1>11 DEF evaluate
  <2>2. u \in Int /\ w \in Int
    BY <1>11
  <2> HIDE DEF u, w
  <2>3. u * u \in Int /\ w * w \in Int /\ u * w = w * u
    BY <2>2, SMT
  <2> QED
    BY <2>1, <2>3, SMT
<1> QED
  BY <1>2, <1>12, <1>13 DEF t

(* The evaluation favours neither colour, in every position of every game  *)
(* and of every search.                                                    *)
THEOREM NeitherColourFavoured == RSpec => []Antisymmetric
<1>1. IInv /\ RInv => Antisymmetric
  <2> SUFFICES ASSUME IInv, RInv PROVE Antisymmetric
    OBVIOUS
  <2>1. InUse \in BoardData /\ Consistent(InUse) /\ OnTrack(InUse)
    BY InUseFacts DEF Proper
  <2> QED
    BY <2>1, TurnedValue DEF Antisymmetric, Evaluated
<1> QED
  BY <1>1, RInductive, PTL
=============================================================================
