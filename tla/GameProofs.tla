----------------------------- MODULE GameProofs -----------------------------
(***************************************************************************)
(* The invariants of Game, for every geometry, every set of pieces and     *)
(* every depth of the search.                                              *)
(***************************************************************************)
EXTENDS Game, BoardProofs, SequenceTheorems

(* A new frame goes on top of the line. *)
LEMMA PushFacts ==
  ASSUME NEW f \in Frame, NEW l \in Seq(Frame)
  PROVE  /\ <<f>> \o l \in Seq(Frame)
         /\ Len(<<f>> \o l) = Len(l) + 1
         /\ (<<f>> \o l)[1] = f
         /\ \A k \in 2..(Len(l) + 1) : (<<f>> \o l)[k] = l[k - 1]
<1>1. <<f>> \in Seq(Frame) /\ Len(<<f>>) = 1 /\ <<f>>[1] = f
  OBVIOUS
<1>2. Len(l) \in Nat
  BY LenProperties
<1> QED
  BY <1>1, <1>2, ConcatProperties

(* And comes off it again. *)
LEMMA PopFacts ==
  ASSUME NEW l \in Seq(Frame), l # <<>>
  PROVE  /\ Len(l) \in Nat \ {0}
         /\ Head(l) = l[1] /\ l[1] \in Frame
         /\ Tail(l) \in Seq(Frame)
         /\ Len(Tail(l)) = Len(l) - 1
         /\ \A k \in 1..(Len(l) - 1) : Tail(l)[k] = l[k + 1]
<1>1. Len(l) \in Nat \ {0}
  BY EmptySeq
<1> QED
  BY <1>1, HeadTailProperties, ElementOfSeq

(* The fields of a frame of move_and_eval have their types. *)
LEMMA FrameTypes ==
  ASSUME NEW f \in Frame
  PROVE  /\ f.move \in Move
         /\ f.last_killed_piece_temp \in Code
         /\ f.last_killed_piece_idx_temp \in Piece \cup {NoIdx}
         /\ f.before \in BoardData
         /\ f.move.p0 \in Square /\ f.move.p1 \in Square
         /\ f.move.promo \in Promotion
BY DEF Frame, Move, Playable

(* A frame stays right when the board after it is replaced by a like one. *)
LEMMA FrameOKSimilar ==
  ASSUME NEW f, NEW x, NEW y, FrameOK(f, x), Similar(y, x)
  PROVE  FrameOK(f, y)
BY SimilarEquivalence DEF FrameOK

(* What Backtrack makes of the innermost frame. *)
LEMMA BacktrackFacts ==
  ASSUME NEW x \in BoardData, ViewsAgree(x), NEW f \in Frame, FrameOK(f, x)
  PROVE  LET u == undo_last_move(RestoreKilled(x, f), f.move)
         IN  u \in BoardData /\ Consistent(u) /\ Similar(u, f.before)
<1> DEFINE y == RestoreKilled(x, f)
<1>1. /\ y \in BoardData /\ y.piece = x.piece /\ y.board = x.board
      /\ y.player_to_play = x.player_to_play
      /\ y.last_killed_piece = f.last_killed_piece_temp
      /\ y.last_killed_piece_idx = f.last_killed_piece_idx_temp
  BY FrameTypes DEF RestoreKilled, BoardData
<1> HIDE DEF y
<1>2. ViewsAgree(y) /\ Similar(y, x)
  BY <1>1 DEF ViewsAgree, board_0, Similar
<1>3. Similar(y, do_move(f.before, f.move))
  BY <1>2, SimilarEquivalence DEF FrameOK
<1>4. f.before \in BoardData
  BY FrameTypes
<1> QED
  BY <1>1, <1>2, <1>3, <1>4, UndoInverts DEF FrameOK, y

(* The initial state satisfies the invariant (Board::Board). *)
LEMMA InitIInv == Init => IInv
<1> SUFFICES ASSUME Init PROVE IInv
  OBVIOUS
<1> USE DEF Init
<1>1. TypeOK
  BY InitialBoardFacts DEF TypeOK
<1>2. ServerBoardConsistent /\ ServerBoardClean
  BY InitialBoardFacts DEF ServerBoardConsistent, ServerBoardClean
<1>3. SearchBoardConsistent /\ SearchRestoresRoot
  BY DEF SearchBoardConsistent, SearchRestoresRoot
<1>4. LineOK
  BY DEF LineOK
<1> QED
  BY <1>1, <1>2, <1>3, <1>4 DEF IInv

(* Playing on the server's board. *)
LEMMA PlayIInv ==
  ASSUME IInv, NEW m \in CandidateMoves(b), Play(m)
  PROVE  IInv'
<1> USE DEF IInv
<1>1. b \in BoardData /\ Consistent(b) /\ Clean(b) /\ IsCandidate(b, m)
  BY DEF TypeOK, ServerBoardConsistent, ServerBoardClean, Play
<1>2. b' = do_move(b, m) /\ ply' = ply + 1 /\ UNCHANGED <<s, line, root>>
  BY DEF Play, PlayMove
<1>3. b' \in BoardData /\ Consistent(b') /\ Clean(b')
  BY <1>1, <1>2, DoMoveFacts, DoMoveConsistent, DoMoveClean
<1>4. TypeOK'
  BY <1>2, <1>3 DEF TypeOK
<1>5. SearchBoardConsistent' /\ SearchRestoresRoot'
  BY <1>2 DEF SearchBoardConsistent, SearchRestoresRoot, Outermost
<1>6. LineOK'
  BY <1>2 DEF LineOK, After
<1> QED
  BY <1>3, <1>4, <1>5, <1>6 DEF ServerBoardConsistent, ServerBoardClean

(* The search goes one move deeper. *)
LEMMA DescendIInv ==
  ASSUME IInv, NEW m \in CandidateMoves(s), Descend(m)
  PROVE  IInv'
<1> DEFINE done == do_move(s, m)
           f == [move |-> m,
                 last_killed_piece_temp |-> done.last_killed_piece,
                 last_killed_piece_idx_temp |-> done.last_killed_piece_idx,
                 before |-> s]
<1>1. /\ s # NoBoard /\ s \in BoardData /\ Consistent(s) /\ IsCandidate(s, m)
      /\ line \in Seq(Frame)
  BY DEF IInv, TypeOK, SearchBoardConsistent, Descend
<1>2. s' = done /\ line' = <<f>> \o line /\ UNCHANGED <<b, ply, root>>
  BY DEF Descend, DescendMove
<1>3. done \in BoardData /\ Consistent(done)
  BY <1>1, DoMoveFacts, DoMoveConsistent
<1>4. f \in Frame
  <2>1. m \in Move
    BY <1>1 DEF IsCandidate
  <2> HIDE DEF done
  <2> QED
    BY <1>1, <1>3, <2>1, BoardTypes DEF Frame
<1>5. FrameOK(f, done)
  <2>1. Similar(done, done)
    BY SimilarEquivalence
  <2> QED
    BY <1>1, <2>1 DEF FrameOK
<1> HIDE DEF f, done
<1>6. /\ line' \in Seq(Frame) /\ Len(line') = Len(line) + 1 /\ Len(line) \in Nat
      /\ line'[1] = f /\ \A k \in 2..(Len(line) + 1) : line'[k] = line[k - 1]
  BY <1>1, <1>2, <1>4, PushFacts, LenProperties
<1>7. s' # NoBoard
  BY <1>2, <1>3, NoBoardAssumption
<1>8. TypeOK'
  BY <1>1, <1>2, <1>3, <1>6, <1>7 DEF IInv, TypeOK
<1>9. LineOK'
  <2> SUFFICES ASSUME NEW k \in 1..Len(line')
               PROVE  FrameOK(line'[k], After(k)')
    BY DEF LineOK
  <2>1. CASE k = 1
    BY <1>2, <1>5, <1>6, <2>1 DEF After
  <2>2. CASE k # 1
    <3>1. k \in 2..(Len(line) + 1) /\ k - 1 \in 1..Len(line)
      BY <1>6, <2>2
    <3>2. line'[k] = line[k - 1]
      BY <1>6, <3>1
    <3>3. After(k)' = After(k - 1)
      <4>1. CASE k = 2
        BY <1>6, <4>1 DEF After, f
      <4>2. CASE k # 2
        <5>1. k - 1 \in 2..(Len(line) + 1) /\ k - 1 # 1
          BY <3>1, <4>2
        <5>2. line'[k - 1] = line[k - 1 - 1]
          BY <1>6, <5>1
        <5> QED
          BY <2>2, <5>1, <5>2 DEF After
      <4> QED
        BY <4>1, <4>2
    <3>4. FrameOK(line[k - 1], After(k - 1))
      BY <3>1 DEF IInv, LineOK
    <3> QED
      BY <3>2, <3>3, <3>4
  <2> QED
    BY <2>1, <2>2
<1>10. SearchRestoresRoot'
  <2>1. Len(line') # 0 /\ line' # <<>>
    BY <1>6
  <2>2. Outermost' = line'[Len(line')].before
    BY <2>1 DEF Outermost
  <2>3. Outermost' = Outermost
    <3>1. CASE line = <<>>
      BY <1>6, <2>2, <3>1 DEF Outermost, f
    <3>2. CASE line # <<>>
      <4>1. Len(line) \in Nat \ {0}
        BY <1>1, <3>2, EmptySeq
      <4>2. line'[Len(line) + 1] = line[Len(line)]
        BY <1>6, <4>1
      <4> QED
        BY <1>6, <2>2, <3>2, <4>2 DEF Outermost
    <3> QED
      BY <3>1, <3>2
  <2> QED
    BY <1>1, <1>2, <2>3 DEF IInv, SearchRestoresRoot
<1>11. ServerBoardConsistent' /\ ServerBoardClean' /\ SearchBoardConsistent'
  BY <1>2, <1>3 DEF IInv, ServerBoardConsistent, ServerBoardClean, SearchBoardConsistent
<1> QED
  BY <1>8, <1>9, <1>10, <1>11 DEF IInv

(* The search takes back the move of its innermost frame. *)
LEMMA BacktrackIInv ==
  ASSUME IInv, Backtrack
  PROVE  IInv' /\ Similar(s', Head(line).before)
<1> DEFINE f == Head(line)
<1>1. /\ line # <<>> /\ line \in Seq(Frame)
      /\ s' = undo_last_move(RestoreKilled(s, f), f.move)
      /\ line' = Tail(line) /\ UNCHANGED <<b, ply, root>>
  BY DEF IInv, TypeOK, Backtrack
<1>2. s # NoBoard /\ s \in BoardData /\ Consistent(s)
  BY <1>1 DEF IInv, TypeOK, SearchBoardConsistent
<1>3. /\ Len(line) \in Nat \ {0} /\ f = line[1] /\ f \in Frame
      /\ line' \in Seq(Frame) /\ Len(line') = Len(line) - 1
      /\ \A k \in 1..(Len(line) - 1) : line'[k] = line[k + 1]
  BY <1>1, PopFacts
<1> HIDE DEF f
<1>4. FrameOK(f, s)
  <2>1. FrameOK(line[1], After(1))
    BY <1>3 DEF IInv, LineOK
  <2> QED
    BY <1>3, <2>1 DEF After
<1>5. s' \in BoardData /\ Consistent(s') /\ Similar(s', f.before)
  BY <1>1, <1>2, <1>3, <1>4, BacktrackFacts DEF Consistent
<1>6. s' # NoBoard
  BY <1>5, NoBoardAssumption
<1>7. TypeOK'
  BY <1>1, <1>2, <1>3, <1>5, <1>6 DEF IInv, TypeOK
<1>8. LineOK'
  <2> SUFFICES ASSUME NEW k \in 1..Len(line')
               PROVE  FrameOK(line'[k], After(k)')
    BY DEF LineOK
  <2>1. k \in 1..(Len(line) - 1) /\ k + 1 \in 1..Len(line) /\ k \in Nat \ {0}
    BY <1>3
  <2>2. line'[k] = line[k + 1]
    BY <1>3, <2>1
  <2>3. FrameOK(line[k + 1], After(k + 1)) /\ After(k + 1) = line[k].before
    BY <2>1 DEF IInv, LineOK, After
  <2>4. CASE k = 1
    <3>1. After(k)' = s' /\ After(k + 1) = f.before
      BY <1>3, <2>3, <2>4 DEF After
    <3> QED
      BY <1>5, <2>2, <2>3, <3>1, FrameOKSimilar
  <2>5. CASE k # 1
    <3>1. k - 1 \in 1..(Len(line) - 1) /\ (k - 1) + 1 = k
      BY <2>1, <2>5
    <3>2. line'[k - 1] = line[k]
      BY <1>3, <3>1
    <3>3. After(k)' = line[k].before
      BY <2>5, <3>2 DEF After
    <3> QED
      BY <2>2, <2>3, <3>3
  <2> QED
    BY <2>4, <2>5
<1>9. SearchRestoresRoot'
  <2>1. Similar(Outermost, root) /\ Outermost = line[Len(line)].before /\ root' = root
    BY <1>1, <1>2 DEF IInv, SearchRestoresRoot, Outermost
  <2>2. CASE line' = <<>>
    <3>1. Len(line) = 1
      BY <1>3, <2>2
    <3>2. Outermost' = s' /\ Outermost = f.before
      BY <1>3, <2>1, <2>2, <3>1 DEF Outermost
    <3> QED
      BY <1>5, <2>1, <3>2, SimilarEquivalence DEF SearchRestoresRoot
  <2>3. CASE line' # <<>>
    <3>1. Len(line') \in Nat \ {0}
      BY <1>3, <2>3, EmptySeq
    <3>2. Len(line') \in 1..(Len(line) - 1) /\ Len(line') + 1 = Len(line)
      BY <1>3, <3>1
    <3>3. line'[Len(line')] = line[Len(line)]
      BY <1>3, <3>2
    <3>4. Outermost' = Outermost
      BY <2>1, <2>3, <3>3 DEF Outermost
    <3> QED
      BY <2>1, <3>4 DEF SearchRestoresRoot
  <2> QED
    BY <2>2, <2>3
<1>10. ServerBoardConsistent' /\ ServerBoardClean' /\ SearchBoardConsistent'
  BY <1>1, <1>5 DEF IInv, ServerBoardConsistent, ServerBoardClean, SearchBoardConsistent
<1> QED
  BY <1>5, <1>7, <1>8, <1>9, <1>10 DEF IInv, f

(* Order_Children tries a move. *)
LEMMA ProbeIInv ==
  ASSUME IInv, NEW m \in CandidateMoves(s), Probe(m)
  PROVE  IInv'
<1>1. s # NoBoard /\ s \in BoardData /\ Consistent(s) /\ IsCandidate(s, m)
  BY DEF IInv, TypeOK, SearchBoardConsistent, Probe
<1>2. s' = undo_last_move(do_move(s, m), m) /\ UNCHANGED <<b, line, ply, root>>
  BY DEF Probe, ProbeMove
<1>3. s' \in BoardData /\ Consistent(s') /\ Similar(s', s)
  BY <1>1, <1>2, ProbeFacts
<1>4. s' # NoBoard
  BY <1>3, NoBoardAssumption
<1>5. TypeOK'
  BY <1>1, <1>2, <1>3, <1>4 DEF IInv, TypeOK
<1>6. LineOK'
  <2> SUFFICES ASSUME NEW k \in 1..Len(line)
               PROVE  FrameOK(line[k], After(k)')
    BY <1>2 DEF LineOK
  <2>1. FrameOK(line[k], After(k))
    BY DEF IInv, LineOK
  <2>2. CASE k = 1
    <3>1. After(k) = s /\ After(k)' = s'
      BY <2>2 DEF After
    <3> QED
      BY <1>3, <2>1, <3>1, FrameOKSimilar
  <2>3. CASE k # 1
    BY <1>2, <2>1, <2>3 DEF After
  <2> QED
    BY <2>2, <2>3
<1>7. SearchRestoresRoot'
  <2>1. Similar(Outermost, root)
    BY <1>1 DEF IInv, SearchRestoresRoot
  <2>2. Outermost' = Outermost \/ (Outermost' = s' /\ Outermost = s)
    BY <1>2 DEF Outermost
  <2>3. Similar(Outermost', root')
    BY <1>2, <1>3, <2>1, <2>2, SimilarEquivalence
  <2> QED
    BY <2>3 DEF SearchRestoresRoot
<1>8. ServerBoardConsistent' /\ ServerBoardClean' /\ SearchBoardConsistent'
  BY <1>2, <1>3 DEF IInv, ServerBoardConsistent, ServerBoardClean, SearchBoardConsistent
<1> QED
  BY <1>5, <1>6, <1>7, <1>8 DEF IInv

(* The steps that replace a whole board, and stuttering. *)
LEMMA WholeBoardIInv ==
  ASSUME IInv, NewGame \/ StartSearch \/ EndSearch \/ UNCHANGED vars
  PROVE  IInv'
<1> USE DEF IInv
<1>1. CASE NewGame
  <2>1. b' = InitialBoard /\ ply' = 0 /\ UNCHANGED <<s, line, root>>
    BY <1>1 DEF NewGame
  <2>2. TypeOK' /\ ServerBoardConsistent' /\ ServerBoardClean'
    BY <2>1, InitialBoardFacts DEF TypeOK, ServerBoardConsistent, ServerBoardClean
  <2>3. SearchBoardConsistent' /\ SearchRestoresRoot' /\ LineOK'
    BY <2>1 DEF SearchBoardConsistent, SearchRestoresRoot, Outermost, LineOK, After
  <2> QED
    BY <2>2, <2>3
<1>2. CASE StartSearch
  <2>1. /\ s = NoBoard /\ s' = b /\ root' = b /\ UNCHANGED <<b, line, ply>>
        /\ line = <<>> /\ b \in BoardData /\ Consistent(b)
    BY <1>2 DEF StartSearch, TypeOK, ServerBoardConsistent
  <2>2. TypeOK' /\ ServerBoardConsistent' /\ ServerBoardClean' /\ SearchBoardConsistent'
    BY <2>1, NoBoardAssumption
       DEF TypeOK, ServerBoardConsistent, ServerBoardClean, SearchBoardConsistent
  <2>3. SearchRestoresRoot'
    BY <2>1, SimilarEquivalence DEF SearchRestoresRoot, Outermost
  <2>4. LineOK'
    BY <2>1 DEF LineOK
  <2> QED
    BY <2>2, <2>3, <2>4
<1>3. CASE EndSearch
  <2>1. /\ line = <<>> /\ s' = NoBoard /\ root' = NoBoard /\ UNCHANGED <<b, line, ply>>
    BY <1>3 DEF EndSearch
  <2> QED
    BY <2>1 DEF TypeOK, ServerBoardConsistent, ServerBoardClean,
                SearchBoardConsistent, SearchRestoresRoot, LineOK
<1>4. CASE UNCHANGED vars
  BY <1>4 DEF vars, TypeOK, ServerBoardConsistent, ServerBoardClean,
              SearchBoardConsistent, SearchRestoresRoot, Outermost, LineOK, After
<1> QED
  BY <1>1, <1>2, <1>3, <1>4

(* Every step preserves the invariant, and taking a move back restores the *)
(* board before it up to the flags of Norm.                                *)
LEMMA StepIInv ==
  ASSUME IInv, [Next]_vars
  PROVE  IInv' /\ (Len(line') < Len(line) => Similar(s', Head(line).before))
<1>0. line \in Seq(Frame) /\ Len(line) \in Nat
  BY LenProperties DEF IInv, TypeOK
<1>1. ASSUME NEW m \in CandidateMoves(b), Play(m)
      PROVE  IInv' /\ line' = line
  BY <1>1, PlayIInv DEF Play, PlayMove
<1>2. ASSUME NEW m \in CandidateMoves(s), Descend(m)
      PROVE  IInv' /\ ~(Len(line') < Len(line))
  <2>1. IInv'
    BY <1>2, DescendIInv
  <2>2. PICK f : line' = <<f>> \o line
    BY <1>2 DEF Descend, DescendMove
  <2>3. Len(line') = 1 + Len(line)
    BY <1>0, <2>2
  <2> QED
    BY <1>0, <2>1, <2>3
<1>3. ASSUME NEW m \in CandidateMoves(s), Probe(m)
      PROVE  IInv' /\ line' = line
  BY <1>3, ProbeIInv DEF Probe, ProbeMove
<1>4. CASE Backtrack
  BY <1>4, BacktrackIInv
<1>5. CASE NewGame \/ StartSearch \/ EndSearch \/ UNCHANGED vars
  <2>1. IInv'
    BY <1>5, WholeBoardIInv
  <2>2. line' = line
    BY <1>5 DEF NewGame, StartSearch, EndSearch, vars
  <2> QED
    BY <1>0, <2>1, <2>2
<1> QED
  BY <1>0, <1>1, <1>2, <1>3, <1>4, <1>5 DEF Next

(* The boards have their types, are consistent, and every line of the      *)
(* search can be taken back to the position it started from.               *)
THEOREM Inductive == Spec => []IInv
<1>1. Init => IInv
  BY InitIInv
<1>2. IInv /\ [Next]_vars => IInv'
  BY StepIInv
<1> QED
  BY <1>1, <1>2, PTL DEF Spec

(* Type correctness of the game and of the search. *)
THEOREM TypeCorrect == Spec => []TypeOK
<1>1. IInv => TypeOK
  BY DEF IInv
<1> QED
  BY <1>1, Inductive, PTL

(* The server's board is consistent, whatever candidate moves are played   *)
(* on it.                                                                  *)
THEOREM ServerBoard == Spec => []ServerBoardConsistent
<1>1. IInv => ServerBoardConsistent
  BY DEF IInv
<1> QED
  BY <1>1, Inductive, PTL

(* It never carries the flags that undone promotions leave on the board of *)
(* the search.                                                             *)
THEOREM ServerClean == Spec => []ServerBoardClean
<1>1. IInv => ServerBoardClean
  BY DEF IInv
<1> QED
  BY <1>1, Inductive, PTL

(* So is the search's board, but for those flags, at any depth of do_move  *)
(* and undo_last_move.                                                     *)
THEOREM SearchBoard == Spec => []SearchBoardConsistent
<1>1. IInv => SearchBoardConsistent
  BY DEF IInv
<1> QED
  BY <1>1, Inductive, PTL

(* Each frame keeps the captured piece of its own move. *)
THEOREM SearchLine == Spec => []LineOK
<1>1. IInv => LineOK
  BY DEF IInv
<1> QED
  BY <1>1, Inductive, PTL

(* A search that has taken back all its moves is where it started. *)
THEOREM SearchRestores == Spec => []SearchRestoresRoot
<1>1. IInv => SearchRestoresRoot
  BY DEF IInv
<1> QED
  BY <1>1, Inductive, PTL

(* Taking back one move restores the board before that move. *)
THEOREM Backtracking == Spec => BacktrackRestores
<1>1. IInv /\ [Next]_vars => [Len(line') < Len(line) => Similar(s', Head(line).before)]_vars
  BY StepIInv
<1> QED
  BY <1>1, Inductive, PTL DEF Spec, BacktrackRestores
=============================================================================
