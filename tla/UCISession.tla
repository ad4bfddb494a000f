----------------------------- MODULE UCISession -----------------------------
(***************************************************************************)
(* What a client may expect of the engine, seen from its side of the       *)
(* connection (the use src/uciws.cpp is written for): while it thinks the  *)
(* game stands still, and a stop is answered by a move that is legal in    *)
(* the game as the client knows it.                                        *)
(***************************************************************************)
CONSTANTS Position, StartPosition, Legal, Do

VARIABLES
  position,  \* the game, as the client knows it
  mode       \* "idle", "thinking", "stopping" or "gone"

svars == <<position, mode>>

Init == position = StartPosition /\ mode = "idle"

NewGame == mode = "idle" /\ position' = StartPosition /\ UNCHANGED mode

OpponentMoves ==
  /\ mode = "idle"
  /\ \E m \in Legal[position] : position' = Do[position][m]
  /\ UNCHANGED mode

Go ==
  /\ mode = "idle"
  /\ Legal[position] # {}
  /\ mode' = "thinking"
  /\ UNCHANGED position

Stop == mode = "thinking" /\ mode' = "stopping" /\ UNCHANGED position

BestMove ==
  /\ mode = "stopping"
  /\ \E m \in Legal[position] : position' = Do[position][m]
  /\ mode' = "idle"

Quit == mode # "gone" /\ mode' = "gone" /\ UNCHANGED position

Next == NewGame \/ OpponentMoves \/ Go \/ Stop \/ BestMove \/ Quit

Safe == Init /\ [][Next]_svars

Spec == Safe /\ WF_svars(BestMove)
=============================================================================
