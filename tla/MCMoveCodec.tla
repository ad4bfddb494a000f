---------------------------- MODULE MCMoveCodec ----------------------------
(***************************************************************************)
(* What becomes of the moves generated for the inputs of MoveGenInputs on  *)
(* their way to the other engine's board (MoveCodec).                      *)
(***************************************************************************)
EXTENDS MoveGenInputs, MoveCodec

(* A generated move means the same on both engines' boards: turned back    *)
(* from its side of the board, and through the text of the answer, every   *)
(* form of it fits in a U16 and denotes the squares and the piece a pawn   *)
(* becomes, whatever the opponent is after it.                             *)
SameMove ==
  LET v == ViewOf(man.at)
  IN  \A m \in Moves :
        \A turned \in transform_moves({Generated(m, v)}, RotTables[Back(v)]) :
          /\ Encodes(turned, m)
          /\ \A read \in {str_to_move(Answer(turned, suffix)) : suffix \in Suffix} :
               Encodes(read, m)
==========================================================================
