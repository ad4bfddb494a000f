---------------------------- MODULE UCIWSServer ----------------------------
(***************************************************************************)
(* The server of src/uciws.cpp and the outer loop of the search it runs    *)
(* (src/engine.cpp, find_best_move and search_move).                       *)
(*                                                                         *)
(* Two threads matter.  The network thread takes the messages of the       *)
(* client one by one and runs their handlers; on_stop blocks it in join.   *)
(* The game thread, which on_go starts, copies the server's board and      *)
(* deepens its search until the flag search is cleared; it leaves the best *)
(* move found so far in best_move.  The flag, best_move and, while it is   *)
(* being copied, the board b are what the two share.                       *)
(*                                                                         *)
(* The Makefile builds two programs from it: rollerball, which searches,   *)
(* and rollerball_py, whose find_best_move (src/engine_py.cpp) asks        *)
(* engine.py for a random legal move instead.                              *)
(*                                                                         *)
(* Here messages arrive in any order; UCIMatch.tla adds a client that      *)
(* plays a game.  What a position is and which moves it has are parameters *)
(* (Rollerball.tla has the real ones).                                     *)
(***************************************************************************)
EXTENDS Naturals, Sequences

CONSTANTS
  Position,       \* the positions of the game
  StartPosition,  \* Board()
  MoveCode,       \* the values of a U16 move that matter
  Legal,          \* Legal[p]: what get_legal_moves returns
  Do,             \* Do[p][m]: the board after do_move, legal or not
  NoMove,
  Torn,           \* a copy of a board that was written while it was copied
  Programs,       \* which of the two programs may be running
  MaxInbox,       \* bound: messages waiting for the network thread
  MaxOutbox       \* bound: answers on their way

ASSUME ServerAssumption ==
  /\ StartPosition \in Position
  /\ Legal \in [Position -> SUBSET MoveCode]
  /\ Do \in [Position -> [MoveCode -> Position]]
  /\ NoMove \notin MoveCode
  /\ Torn \notin Position
  /\ Programs \subseteq {"rollerball", "rollerball_py"}
  /\ MaxInbox \in Nat /\ MaxOutbox \in Nat

VARIABLES
  program,    \* the program that runs
  b,          \* the server's board
  inbox,      \* messages received and not handled
  outbox,     \* messages broadcast and not received
  net,        \* the network thread: "ready", or "joining" inside on_stop
  process,    \* "running", or how it ended
  game,       \* game_thread: "none" (not joinable), or where it is
  search,     \* Engine::search
  best_move,  \* Engine::best_move
  copy,       \* the board the search works on
  untried,    \* root moves not evaluated yet in this iteration
  optimum,    \* the best of those that were
  found       \* history: best_move was written since on_go

server == <<program, b, net, process>>
engine == <<game, search, best_move, copy, untried, optimum, found>>
uvars == <<server, inbox, outbox, engine>>

(***************************************************************************)
(* A position message carries the whole game; on_position looks at its     *)
(* last token only, and only if there is a move (more than three tokens).  *)
(* An empty message has no first token to tell its type by.                *)
(***************************************************************************)
Plain ==
  {"uci", "isready", "ucinewgame", "go", "stop", "quit", "unsupported", "empty"}
Message == [type : Plain, last : {NoMove}]
             \cup [type : {"position"}, last : MoveCode \cup {NoMove}]
Answer == [type : {"uciok", "readyok"}, move : {NoMove}]
             \cup [type : {"bestmove"}, move : MoveCode]

running == process = "running"

Arrive(msg) ==
  /\ running
  /\ Len(inbox) < MaxInbox
  /\ inbox' = Append(inbox, msg)

(***************************************************************************)
(* The network thread (handle_message).                                    *)
(***************************************************************************)
Handle(type) ==
  /\ running
  /\ UNCHANGED program
  /\ net = "ready"
  /\ inbox # <<>>
  /\ Head(inbox).type = type
  /\ inbox' = Tail(inbox)

Broadcast(type, move) ==
  /\ Len(outbox) < MaxOutbox
  /\ outbox' = Append(outbox, [type |-> type, move |-> move])

(* A board written during the copy leaves the copy in pieces of both. *)
WriteBoard(board) ==
  /\ b' = board
  /\ copy' = IF game = "copying" THEN Torn ELSE copy
  /\ UNCHANGED <<game, search, best_move, untried, optimum, found>>

on_uci == Handle("uci") /\ Broadcast("uciok", NoMove) /\ UNCHANGED <<server, engine>>

on_isready ==
  Handle("isready") /\ Broadcast("readyok", NoMove) /\ UNCHANGED <<server, engine>>

on_ucinewgame ==
  Handle("ucinewgame") /\ WriteBoard(StartPosition) /\ UNCHANGED <<net, process, outbox>>

on_position ==
  /\ Handle("position")
  /\ LET last == Head(inbox).last
     IN  IF last = NoMove THEN UNCHANGED <<b, engine>> ELSE WriteBoard(Do[b][last])
  /\ UNCHANGED <<net, process, outbox>>

(* Assigning to a thread that is still joinable ends the process. *)
on_go ==
  /\ Handle("go")
  /\ search' = TRUE
  /\ IF game = "none"
     THEN game' = "started" /\ found' = FALSE /\ UNCHANGED process
     ELSE process' = "terminated" /\ UNCHANGED <<game, found>>
  /\ UNCHANGED <<b, net, outbox, best_move, copy, untried, optimum>>

(* Mutant: the flag is cleared only once the thread has been joined. *)
on_stop_JoinsFirst ==
  /\ Handle("stop")
  /\ IF game = "none"
     THEN process' = "terminated" /\ UNCHANGED net
     ELSE net' = "joining" /\ UNCHANGED process
  /\ UNCHANGED <<b, outbox, engine>>

(* on_stop up to the join, which throws if there is no thread to join. *)
on_stop ==
  /\ Handle("stop")
  /\ search' = FALSE
  /\ IF game = "none"
     THEN process' = "terminated" /\ UNCHANGED net
     ELSE net' = "joining" /\ UNCHANGED process
  /\ UNCHANGED <<b, outbox, game, best_move, copy, untried, optimum, found>>

MoveChecked == best_move \in Legal[b]

Fail(why) == process' = why /\ UNCHANGED <<b, outbox>>

(* Mutants: the client is left to play the engine's move; no answer. *)
PlayBest_NotPlayed == Broadcast("bestmove", best_move) /\ UNCHANGED <<b, process>>
PlayBest_NoAnswer == b' = Do[b][best_move] /\ UNCHANGED <<outbox, process>>
PlayBest ==
  /\ b' = Do[b][best_move]
  /\ Broadcast("bestmove", best_move)
  /\ UNCHANGED process

(* on_stop from there on, with its two assertions. *)
on_stop_joined ==
  /\ running
  /\ net = "joining"
  /\ game = "finished"
  /\ game' = "none"
  /\ net' = "ready"
  /\ \/ Legal[b] = {} /\ Fail("no legal moves")
     \/ Legal[b] # {} /\ ~MoveChecked /\ Fail("illegal best move")
     \/ Legal[b] # {} /\ MoveChecked /\ PlayBest
  /\ UNCHANGED <<program, inbox, search, best_move, copy, untried, optimum, found>>

on_quit ==
  /\ Handle("quit")
  /\ process' = "exited"
  /\ UNCHANGED <<b, net, outbox, engine>>

unsupported == Handle("unsupported") /\ UNCHANGED <<server, outbox, engine>>

(* Nothing looks whether there is a first token before it is compared: the *)
(* string read is at the null pointer an empty vector has for its data.    *)
empty ==
  /\ Handle("empty")
  /\ process' = "terminated"
  /\ UNCHANGED <<b, net, outbox, engine>>

(***************************************************************************)
(* The game thread.                                                        *)
(***************************************************************************)
Step(from) == running /\ game = from /\ UNCHANGED <<server, inbox, outbox, search>>

(* Mutants: the thread sets the flag itself; a copy is made only once. *)
CopyBoard_SetsFlag ==
  /\ running /\ game = "started"
  /\ game' = "copying" /\ copy' = b /\ search' = TRUE
  /\ UNCHANGED <<server, inbox, outbox, best_move, untried, optimum, found>>
CopyBoard_Once ==
  /\ Step("started")
  /\ game' = "copying"
  /\ copy' = IF copy = Torn THEN b ELSE copy
  /\ UNCHANGED <<best_move, untried, optimum, found>>
CopyBoard ==
  /\ Step("started")
  /\ game' = "copying"
  /\ copy' = b
  /\ UNCHANGED <<best_move, untried, optimum, found>>

BoardCopied ==
  /\ Step("copying")
  /\ game' = "deepening"
  /\ UNCHANGED <<best_move, copy, untried, optimum, found>>

(* while (search) *)
Deepen ==
  /\ program = "rollerball"
  /\ Step("deepening")
  /\ game' = IF search THEN "ordering" ELSE "finished"
  /\ UNCHANGED <<best_move, copy, untried, optimum, found>>

(* Mutant: the moves of the shared board. *)
RootMoves_OfServer == {Legal[b]}
(* What a search of a torn copy finds is anybody's guess. *)
RootMoves == IF copy = Torn THEN SUBSET MoveCode ELSE {Legal[copy]}

(* Order_Children gives up with an empty list if it sees the flag cleared. *)
Order_Children ==
  /\ Step("ordering")
  /\ \E moves \in RootMoves \cup (IF search THEN {} ELSE {{}}) :
       IF moves = {}
       THEN game' = "finished" /\ UNCHANGED <<untried, optimum>>
       ELSE game' = "evaluating" /\ untried' = moves /\ optimum' = NoMove
  /\ UNCHANGED <<best_move, copy, found>>

(* Mutant: no value of an iteration need exceed its initial optimum. *)
Evaluate_NoneImproves ==
  /\ Step("evaluating")
  /\ IF ~search
     THEN game' = "finished" /\ UNCHANGED <<untried, optimum>>
     ELSE \E m \in untried :
            /\ untried' = untried \ {m}
            /\ \/ optimum' = m /\ game' = "storing"
               \/ /\ optimum' = optimum
                  /\ game' = IF untried = {m} THEN "iterated" ELSE "evaluating"
  /\ UNCHANGED <<best_move, copy, found>>

(* move_and_eval of a root move returns, and the flag is looked at before  *)
(* its value is.  The first move of an iteration always improves.          *)
Evaluate ==
  /\ Step("evaluating")
  /\ IF ~search
     THEN game' = "finished" /\ UNCHANGED <<untried, optimum>>
     ELSE \E m \in untried :
            /\ untried' = untried \ {m}
            /\ \/ optimum' = m /\ game' = "storing"
               \/ /\ optimum # NoMove
                  /\ optimum' = optimum
                  /\ game' = IF untried = {m} THEN "iterated" ELSE "evaluating"
  /\ UNCHANGED <<best_move, copy, found>>

Store ==
  /\ Step("storing")
  /\ best_move' = optimum
  /\ found' = TRUE
  /\ game' = IF untried = {} THEN "iterated" ELSE "evaluating"
  /\ UNCHANGED <<copy, untried, optimum>>

(* Storing the optimum again changes nothing: best_move has it already. *)
EndIteration ==
  /\ Step("iterated")
  /\ IF search
     THEN game' = "deepening" /\ best_move' = optimum
     ELSE game' = "finished" /\ UNCHANGED best_move
  /\ UNCHANGED <<copy, untried, optimum, found>>

Chosen(m) ==
  /\ best_move' = m
  /\ found' = TRUE
  /\ game' = "finished"
  /\ UNCHANGED process

(* Mutant: a stop that has come makes engine.py return without a move. *)
find_best_move_GivesUp ==
  /\ program = "rollerball_py"
  /\ running /\ game = "deepening"
  /\ \/ \E moves \in RootMoves : \E m \in moves : Chosen(m)
     \/ ~search /\ game' = "finished" /\ UNCHANGED <<best_move, found, process>>
  /\ UNCHANGED <<program, b, net, inbox, outbox, search, copy, untried, optimum>>

(* engine.py does not look at the flag.  Without a legal move its randint  *)
(* raises an exception, which nobody catches.                              *)
find_best_move ==
  /\ program = "rollerball_py"
  /\ running /\ game = "deepening"
  /\ \E moves \in RootMoves :
       IF moves = {} THEN process' = "terminated" /\ UNCHANGED <<game, best_move, found>>
       ELSE \E m \in moves : Chosen(m)
  /\ UNCHANGED <<program, b, net, inbox, outbox, search, copy, untried, optimum>>

(***************************************************************************)
(* The specification.  Engine::best_move has no initial value, so it holds *)
(* whatever its memory held.                                               *)
(***************************************************************************)
Init ==
  /\ program \in Programs
  /\ b = StartPosition
  /\ inbox = <<>> /\ outbox = <<>>
  /\ net = "ready" /\ process = "running"
  /\ game = "none" /\ search = FALSE
  /\ best_move \in MoveCode
  /\ copy = Torn /\ untried = {} /\ optimum = NoMove /\ found = FALSE

Network ==
  \/ on_uci \/ on_isready \/ on_ucinewgame \/ on_position \/ on_go
  \/ on_stop \/ on_stop_joined \/ on_quit \/ unsupported \/ empty

GameThread ==
  \/ CopyBoard \/ BoardCopied \/ Deepen \/ Order_Children \/ Evaluate
  \/ Store \/ EndIteration \/ find_best_move

Deliver ==
  /\ outbox # <<>>
  /\ outbox' = Tail(outbox)
  /\ UNCHANGED <<server, inbox, engine>>

Next ==
  \/ \E msg \in Message : Arrive(msg) /\ UNCHANGED <<server, outbox, engine>>
  \/ Deliver
  \/ Network
  \/ GameThread

(* Both threads are scheduled as long as the process runs. *)
ThreadFairness == WF_uvars(Network) /\ WF_uvars(GameThread)

Safe == Init /\ [][Next]_uvars

Spec == Safe /\ ThreadFairness /\ WF_uvars(Deliver)

(***************************************************************************)
(* Properties.                                                             *)
(***************************************************************************)

TypeOK ==
  /\ program \in Programs
  /\ b \in Position
  /\ inbox \in Seq(Message) /\ outbox \in Seq(Answer)
  /\ net \in {"ready", "joining"}
  /\ process \in {"running", "exited", "terminated", "no legal moves", "illegal best move"}
  /\ game \in {"none", "started", "copying", "deepening", "ordering", "evaluating",
               "storing", "iterated", "finished"}
  /\ search \in BOOLEAN /\ found \in BOOLEAN
  /\ best_move \in MoveCode /\ optimum \in MoveCode \cup {NoMove}
  /\ copy \in Position \cup {Torn} /\ untried \subseteq MoveCode

(* Whatever the client sends and whenever, the flag stays cleared from the *)
(* stop until the game thread has been joined, and a search whose flag is  *)
(* set has a thread (on_go sets the flag before it starts the thread).     *)
StopNotLost ==
  running => /\ net = "joining" => ~search /\ game # "none"
             /\ search => game # "none"

(* Between two stops the flag tells whether there is a thread.             *)
OneSearch == running /\ net = "ready" => (search <=> game # "none")

(* What the game thread holds in hand is legal on its copy, and there is   *)
(* an optimum where it is stored.                                          *)
InHand ==
  /\ game \in {"storing", "iterated"} => optimum # NoMove
  /\ game \in {"evaluating", "storing", "iterated"} /\ copy # Torn =>
       untried \cup ({optimum} \ {NoMove}) \subseteq Legal[copy]

(* The move it has stored is legal there as well; engine.py ends with one. *)
InStore ==
  /\ found /\ game # "none" =>
       /\ game \notin {"started", "copying"}
       /\ copy # Torn => best_move \in Legal[copy]
  /\ program = "rollerball_py" =>
       \/ game \in {"none", "started", "copying", "deepening"}
       \/ game = "finished" /\ found

(* The inductive invariant of StoredFromCopy and EndsForCause.             *)
IInv == TypeOK /\ StopNotLost /\ OneSearch /\ InHand /\ InStore

(* Whatever happens to the server's board during a search, the move the    *)
(* search leaves in best_move is legal on the copy it was started with     *)
(* (find_best_move), unless that copy was torn.                            *)
StoredFromCopy ==
  [][best_move' # best_move /\ copy # Torn => best_move' \in Legal[copy]]_uvars

(* The process ends for one of these causes only: a quit or an empty       *)
(* message; a go while the flag of an earlier one is still set; a stop     *)
(* with no go before it; at the join of on_stop, a search that was told to *)
(* stop before it stored a move (or had none to store), or a board that    *)
(* has been written since the search copied it; in engine.py, no legal     *)
(* move on its copy.  A client that avoids these never makes an assertion  *)
(* of on_stop fail, a thread be overwritten or a join throw.               *)
EndsForCause ==
  [][running /\ process' # "running" =>
       \/ /\ net = "ready"
          /\ inbox # <<>>
          /\ \/ Head(inbox).type \in {"quit", "empty"}
             \/ Head(inbox).type = "go" /\ search
             \/ Head(inbox).type = "stop" /\ ~search
       \/ /\ net = "joining"
          /\ game = "finished"
          /\ (program = "rollerball" /\ ~found) \/ copy # b
       \/ /\ program = "rollerball_py"
          /\ game = "deepening"
          /\ copy = Torn \/ Legal[copy] = {}]_uvars

(* on_stop always gets past its join, unless the process ends.             *)
StopReturns == net = "joining" ~> (net = "ready" \/ ~running)
=============================================================================
