----------------------------- MODULE MCUCIMatch -----------------------------
(***************************************************************************)
(* The server and a client that plays, on the game of MCUCIServer: five    *)
(* positions, every move m leads m positions further, some moves are not   *)
(* legal, and the last position has none.                                  *)
(***************************************************************************)
EXTENDS UCIMatch, TLC

MCPosition == 0..4
MCMoveCode == 1..3
MCLegal == <<{2, 3}, {1, 3}, {2}, {}>> @@ (0 :> {1, 2})
MCDo == [p \in MCPosition |-> [m \in MCMoveCode |-> IF p + m > 4 THEN 4 ELSE p + m]]
=============================================================================
