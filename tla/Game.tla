-------------------------------- MODULE Game --------------------------------
(***************************************************************************)
(* The two boards of the program.  b is UCIWSServer::b, on which moves are *)
(* played for good (uciws.cpp: on_position, on_stop, on_ucinewgame).  s is *)
(* the copy Engine::find_best_move makes of it, on which the search does   *)
(* and undoes moves in place: move_and_eval descends one move and takes it *)
(* back later, Order_Children tries a move and takes it back at once.      *)
(*                                                                         *)
(* A board remembers one captured piece only, and every do_move overwrites *)
(* it; move_and_eval therefore keeps the captured piece of its own move in *)
(* two locals while deeper moves are done and undone.  The stack of those  *)
(* locals is the variable line, its innermost frame first.                 *)
(*                                                                         *)
(* Which candidate move is done next is left open: Rollerball.tla allows *)
(* the legal moves only and refines this specification.                    *)
(***************************************************************************)
EXTENDS Board, Sequences

CONSTANTS
  NoBoard,   \* no search is on
  MaxPly,    \* bound: moves played on b since the game began
  MaxLine    \* bound: moves the search is deep

VARIABLES
  b,      \* the server's board
  s,      \* the search's board, or NoBoard
  line,   \* frames of move_and_eval, innermost first
  ply,    \* moves played on b (only to bound the runs)
  root    \* history: the board the search was started on

vars == <<b, s, line, ply, root>>

ASSUME NoBoardAssumption == NoBoard \notin BoardData

Frame == [move : Move, last_killed_piece_temp : Code,
          last_killed_piece_idx_temp : Piece \cup {NoIdx},
          before : BoardData]   \* history: the board before the move

(***************************************************************************)
(* The server's board: what on_stop and on_position do with a move, and    *)
(* on_ucinewgame.                                                          *)
(***************************************************************************)
PlayMove(m) ==
  /\ ply < MaxPly
  /\ ply' = ply + 1
  /\ b' = do_move(b, m)
  /\ UNCHANGED <<s, line, root>>

Play(m) == PlayMove(m) /\ IsCandidate(b, m)

NewGame ==
  /\ b' = InitialBoard
  /\ ply' = 0
  /\ UNCHANGED <<s, line, root>>

(***************************************************************************)
(* The search's board.                                                     *)
(***************************************************************************)
StartSearch ==
  /\ s = NoBoard
  /\ s' = b
  /\ root' = b
  /\ UNCHANGED <<b, line, ply>>

(* Mutant: the captured piece is saved before the move is done. *)
DescendMove_SavesEarly(m) ==
  /\ s # NoBoard
  /\ Len(line) < MaxLine
  /\ s' = do_move(s, m)
  /\ line' = <<[move |-> m, before |-> s,
                last_killed_piece_temp |-> s.last_killed_piece,
                last_killed_piece_idx_temp |-> s.last_killed_piece_idx]>> \o line
  /\ UNCHANGED <<b, ply, root>>

(* move_and_eval up to the call of MIN_VAL or MAX_VAL. *)
DescendMove(m) ==
  /\ s # NoBoard
  /\ Len(line) < MaxLine
  /\ LET done == do_move(s, m) IN
       /\ s' = done
       /\ line' = <<[move |-> m,
                     last_killed_piece_temp |-> done.last_killed_piece,
                     last_killed_piece_idx_temp |-> done.last_killed_piece_idx,
                     before |-> s]>> \o line
  /\ UNCHANGED <<b, ply, root>>

Descend(m) == s # NoBoard /\ IsCandidate(s, m) /\ DescendMove(m)

(* Mutant: the board's own memory of the last capture is trusted. *)
RestoreKilled_Skipped(board, frame) == board
RestoreKilled(board, frame) ==
  [board EXCEPT !.last_killed_piece = frame.last_killed_piece_temp,
                !.last_killed_piece_idx = frame.last_killed_piece_idx_temp]

(* move_and_eval from there on. *)
Backtrack ==
  /\ line # <<>>
  /\ s' = undo_last_move(RestoreKilled(s, Head(line)), Head(line).move)
  /\ line' = Tail(line)
  /\ UNCHANGED <<b, ply, root>>

(* One turn of the loop of Order_Children. *)
ProbeMove(m) ==
  /\ s # NoBoard
  /\ s' = undo_last_move(do_move(s, m), m)
  /\ UNCHANGED <<b, line, ply, root>>

Probe(m) == s # NoBoard /\ IsCandidate(s, m) /\ ProbeMove(m)

(* Mutant: the search is left where it stands. *)
EndSearch_Midway ==
  /\ s # NoBoard
  /\ s' = NoBoard
  /\ root' = NoBoard
  /\ UNCHANGED <<b, line, ply>>

(* find_best_move returns and its copy is freed. *)
EndSearch ==
  /\ s # NoBoard
  /\ line = <<>>
  /\ s' = NoBoard
  /\ root' = NoBoard
  /\ UNCHANGED <<b, line, ply>>

Init ==
  /\ b = InitialBoard
  /\ s = NoBoard
  /\ line = <<>>
  /\ ply = 0
  /\ root = NoBoard

Next ==
  \/ \E m \in CandidateMoves(b) : Play(m)
  \/ NewGame
  \/ StartSearch
  \/ s # NoBoard /\ \E m \in CandidateMoves(s) : Descend(m) \/ Probe(m)
  \/ Backtrack
  \/ EndSearch

Spec == Init /\ [][Next]_vars

(***************************************************************************)
(* Properties.                                                             *)
(***************************************************************************)

TypeOK ==
  /\ b \in BoardData
  /\ s \in BoardData \cup {NoBoard}
  /\ root \in BoardData \cup {NoBoard}
  /\ (s = NoBoard) = (root = NoBoard)
  /\ s = NoBoard => line = <<>>
  /\ line \in Seq(Frame)
  /\ ply \in Nat

(* Piece list, array and the three rotated arrays of the server's board    *)
(* never disagree, and the piece at place i of the list is always the man  *)
(* that started there or what it was promoted to (_do_move).               *)
ServerBoardConsistent == Consistent(b)

(* The same of the search's board, after any nesting of moves done and     *)
(* taken back, captures and promotions included (move_and_eval,            *)
(* Order_Children, undo_last_move).                                        *)
SearchBoardConsistent == s # NoBoard => Consistent(s)

(* Moves are never taken back on the server's board, so no piece on it     *)
(* carries the flag that undoing a promotion leaves behind.                *)
ServerBoardClean == Clean(b)

(* The board a frame's move led to: where the next frame began, or s. *)
After(k) == IF k = 1 THEN s ELSE line[k - 1].before

(* Every frame still holds the captured piece of its own move, however     *)
(* often deeper moves have overwritten the board's memory of it, and the   *)
(* board its move led to is, but for the flags of Norm, still that board.  *)
FrameOK(f, after) ==
  LET done == do_move(f.before, f.move)
  IN  /\ IsCandidate(f.before, f.move)
      /\ Consistent(f.before)
      /\ Similar(after, done)
      /\ f.last_killed_piece_temp = done.last_killed_piece
      /\ f.last_killed_piece_idx_temp = done.last_killed_piece_idx

LineOK == \A k \in 1..Len(line) : FrameOK(line[k], After(k))

(* The board the search's line begins with is the board it was started on, *)
(* but for the flags of Norm; without a line that is the search's board.   *)
Outermost == IF line = <<>> THEN s ELSE line[Len(line)].before

SearchRestoresRoot == s # NoBoard => Similar(Outermost, root)

(* Taking back a move leads, but for those flags, to the board before it,  *)
(* whatever the search did in between.                                     *)
BacktrackRestores ==
  [][Len(line') < Len(line) => Similar(s', Head(line).before)]_vars

(* As SearchRestoresRoot, to the last flag: "Undid last move"              *)
(* (board.cpp, _undo_last_move).                                           *)
UndoExact == line = <<>> /\ s # NoBoard => board_0(s) = board_0(root)

(* Inductive; GameProofs.tla proves it of every geometry and every depth. *)
IInv ==
  /\ TypeOK
  /\ ServerBoardConsistent
  /\ ServerBoardClean
  /\ SearchBoardConsistent
  /\ LineOK
  /\ SearchRestoresRoot
=============================================================================
