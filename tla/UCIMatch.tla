------------------------------ MODULE UCIMatch ------------------------------
(***************************************************************************)
(* The server of UCIWSServer.tla with a client that plays games against    *)
(* it.  The client is not part of the repository; what it sends, and when, *)
(* is what the handlers of src/uciws.cpp are written for: on_position      *)
(* plays the last move of the list, which is the opponent's, on a board    *)
(* that has every earlier move already, and on_stop plays the engine's.    *)
(***************************************************************************)
EXTENDS UCIWSServer

CONSTANT Patient  \* the client lets a search find a first move before its stop

VARIABLES
  position,  \* the game, as the client knows it
  phase      \* "opponent" or "engine" to move, "thinking", "stopping" or "gone"

client == <<position, phase>>
mvars == <<uvars, client>>

Send(type, last) ==
  Arrive([type |-> type, last |-> last]) /\ UNCHANGED <<server, outbox, engine>>

(* A new game, in which either side may be the one to move first. *)
SendNewGame ==
  /\ phase \in {"opponent", "engine"}
  /\ Send("ucinewgame", NoMove)
  /\ position' = StartPosition
  /\ phase' \in {"opponent", "engine"}

(* The engine is white: there is no move to send yet. *)
SendStart ==
  /\ phase = "engine"
  /\ position = StartPosition
  /\ Send("position", NoMove)
  /\ UNCHANGED client

SendMove ==
  /\ phase = "opponent"
  /\ \E m \in Legal[position] :
       Send("position", m) /\ position' = Do[position][m]
  /\ phase' = "engine"

(* No search is asked for in a game that is over. *)
SendGo ==
  /\ phase = "engine"
  /\ Legal[position] # {}
  /\ Send("go", NoMove)
  /\ phase' = "thinking"
  /\ UNCHANGED position

SendStop ==
  /\ phase = "thinking"
  /\ Patient /\ program = "rollerball" => found /\ game # "none" /\ inbox = <<>>
  /\ Send("stop", NoMove)
  /\ phase' = "stopping"
  /\ UNCHANGED position

SendPing ==
  /\ phase # "gone"
  /\ \E type \in {"uci", "isready"} : Send(type, NoMove)
  /\ UNCHANGED client

SendQuit ==
  /\ phase # "gone"
  /\ Send("quit", NoMove)
  /\ phase' = "gone"
  /\ UNCHANGED position

Receive ==
  /\ outbox # <<>>
  /\ Deliver
  /\ IF Head(outbox).type = "bestmove" /\ phase # "gone"
     THEN position' = Do[position][Head(outbox).move] /\ phase' = "opponent"
     ELSE UNCHANGED client

Client ==
  SendNewGame \/ SendStart \/ SendMove \/ SendGo \/ SendStop \/ SendPing \/ SendQuit

MInit == Init /\ position = StartPosition /\ phase \in {"opponent", "engine"}

MNext ==
  \/ Client
  \/ Receive
  \/ (Network \/ GameThread) /\ UNCHANGED client

MSafe == MInit /\ [][MNext]_mvars

(* The connection delivers what was broadcast; the client owes nothing.    *)
MSpec ==
  /\ MSafe
  /\ WF_mvars(Network /\ UNCHANGED client)
  /\ WF_mvars(GameThread /\ UNCHANGED client)
  /\ WF_mvars(Receive)

(***************************************************************************)
(* Properties.                                                             *)
(***************************************************************************)

(* What a message on its way does to the server's board when it is         *)
(* handled, and an answer on its way to the client's game when it is       *)
(* received.                                                               *)
Effect(board, msg) ==
  CASE msg.type = "ucinewgame" -> StartPosition
    [] msg.type = "position" /\ msg.last # NoMove -> Do[board][msg.last]
    [] msg.type = "bestmove" -> Do[board][msg.move]
    [] OTHER -> board

(* t: the boards from board on, as the queue is emptied.                   *)
Through(t, board, queue) ==
  /\ t[0] = board
  /\ \A k \in 1..Len(queue) : t[k] = Effect(t[k - 1], queue[k])

(* The server's board, on which each side's moves are played one at a time *)
(* by on_position and on_stop, never drifts from the client's game: the    *)
(* messages on their way lead it where the answers on their way lead the   *)
(* game.                                                                   *)
InStep ==
  running /\ phase # "gone" =>
    \E t \in [0..Len(inbox) -> Position] :
      /\ Through(t, b, inbox)
      /\ \E u \in [0..Len(outbox) -> Position] :
           Through(u, position, outbox) /\ u[Len(outbox)] = t[Len(inbox)]

(* The search works on the very position the client has asked about: b is  *)
(* never written while the game thread copies it.                          *)
SearchesTheGame ==
  running /\ phase \in {"thinking", "stopping"} /\ game \notin {"none", "started"}
    => copy = position

(* Nothing the client may send ends the process but quit: no join without  *)
(* a thread, no thread left to be overwritten, no failed assertion.        *)
StaysUp == process \in {"running", "exited"}

(* The second assertion of on_stop (uciws.cpp:137).                        *)
MoveCheck == process # "illegal best move"

(* The abstract session, seen by the client.                               *)
Session == INSTANCE UCISession WITH
  mode <- CASE phase \in {"opponent", "engine"} -> "idle" [] OTHER -> phase

(* The client sees a UCISession: every stop is answered by a legal move.   *)
IsSession == Session!Spec
=============================================================================
