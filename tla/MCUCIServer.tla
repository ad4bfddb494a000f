---------------------------- MODULE MCUCIServer ----------------------------
(***************************************************************************)
(* The server against any client: a game of four positions, in which every *)
(* move m leads m positions further, some moves are not legal, and the     *)
(* last position has none.                                                 *)
(***************************************************************************)
EXTENDS UCIWSServer, TLC

MCPosition == 0..3
MCMoveCode == 1..2
MCLegal == <<{2}, {1}, {}>> @@ (0 :> {1, 2})
MCDo == [p \in MCPosition |-> [m \in MCMoveCode |-> IF p + m > 3 THEN 3 ELSE p + m]]
=============================================================================
