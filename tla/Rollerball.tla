----------------------------- MODULE Rollerball -----------------------------
(***************************************************************************)
(* Game with the moves of the source: only the moves get_legal_moves       *)
(* returns are played, descended and probed.  Whatever it returns must be  *)
(* a move Game allows, so that what is proved of Game holds here.          *)
(*                                                                         *)
(* A game follows a script of legal moves first, which takes it close to a *)
(* position of interest, and is then left free for MaxFree moves.          *)
(***************************************************************************)
EXTENDS Game, MoveRules

CONSTANTS
  Scripts,  \* opening moves to choose from, as sequences of moves
  MaxFree   \* bound: moves played on b after the script

VARIABLE script

(* A new game does not begin with the king of the side not to move in      *)
(* check.                                                                  *)
ASSUME StartAssumption == ~in_check(_flip_player(InitialBoard))

rvars == <<vars, script>>

ScriptDone == ply >= Len(script)

RPlay ==
  /\ ply < Len(script) + MaxFree
  /\ \E m \in get_legal_moves(b) :
       /\ ~ScriptDone => m = script[ply + 1]
       /\ PlayMove(m)

RNewGame == ScriptDone /\ NewGame

RStartSearch == ScriptDone /\ StartSearch

RSearch == s # NoBoard /\ \E m \in get_legal_moves(s) : DescendMove(m) \/ ProbeMove(m)

RInit == Init /\ script \in Scripts

RNext ==
  /\ RPlay \/ RNewGame \/ RStartSearch \/ RSearch \/ Backtrack \/ EndSearch
  /\ UNCHANGED script

RSpec == RInit /\ [][RNext]_rvars

(***************************************************************************)
(* Properties.                                                             *)
(***************************************************************************)

(* During a search the server's board stands still. *)
InUse == IF s = NoBoard THEN b ELSE s

(* Both kings stay on the board, in the game and in the search: in_check   *)
(* and the evaluation read their squares without asking whether they live. *)
KingsLive == \A d \in Side : InUse.piece[KingIdx(d)] # DEAD

(* The side that has just moved is not in check, on either board           *)
(* (get_legal_moves).                                                      *)
NotLeftInCheck == ~in_check(_flip_player(InUse))

(* Every man of both sides goes where the rules of the game let it go, in  *)
(* the game and wherever a search has taken its board: moves of both sides *)
(* are what legality, checks and the evaluation of mates are made of.      *)
MenFollowRules == \A c \in Side : \A p \in Live(InUse, c) : FollowsRules(InUse, p)

(* The legal moves by the comment at get_legal_moves, each tried on a      *)
(* board of its own.                                                       *)
LegalMoves(board) ==
  {m \in _get_pseudolegal_moves(board) : ~in_check(Evaluated(_do_move(board, m)))}

(* Trying the moves one after another on a single copy, each undone by     *)
(* _undo_last_move, decides each of them as a fresh copy would.            *)
LegalMovesExact == get_legal_moves(InUse) = LegalMoves(InUse)

(* The position the search is in, reached from the root without undoing.   *)
Replay(board, frames) ==
  LET n == Len(frames)
      reached[k \in 0..n] ==
        IF k = 0 THEN board ELSE do_move(reached[k - 1], frames[n + 1 - k].move)
  IN  reached[n]

(* However many moves were taken back on the way, the search has the moves *)
(* it would have if its line had been played on a fresh board: flags left  *)
(* by undone promotions and stale captures change nothing.                 *)
SearchSeesTheGame ==
  s # NoBoard =>
    LET fresh == Evaluated(Replay(root, line))
    IN  get_legal_moves(s) = LegalMoves(fresh) /\ in_check(s) = in_check(fresh)
=============================================================================
