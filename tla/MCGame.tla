------------------------------- MODULE MCGame -------------------------------
(***************************************************************************)
(* Game on a board of four squares and two orientations, with a white king *)
(* that can take, a white pawn that can be promoted and a black rook.      *)
(***************************************************************************)
EXTENDS Game

MCSquare == 0..4
MCDead == 4
MCView == {0, 90}
MCRot == [v \in MCView |-> [q \in MCSquare |->
            IF v = 0 \/ q = MCDead THEN q ELSE (q + 1) % 4]]
MCPiece == 0..2
MCStart == [i \in MCPiece |-> i]
MCStartCode == [i \in MCPiece |-> CASE i = 0 -> {"BLACK", "ROOK"}
                                    [] i = 1 -> {"WHITE", "KING"}
                                    [] i = 2 -> {"WHITE", "PAWN"}]
=============================================================================
