----------------------------- MODULE UCIProofs -----------------------------
(***************************************************************************)
(* What the server keeps whatever its client sends, for every game and     *)
(* every engine: these proofs use no bound and nothing of the client.      *)
(* Then with a client that plays games against the server: for every game, *)
(* every engine and every length of the queues, the board of the server    *)
(* stays in step with the client's game, and nothing the client sends but  *)
(* quit ends the process.                                                  *)
(***************************************************************************)
EXTENDS UCIMatch, SequenceTheorems, WellFoundedInduction, TLAPS

(***************************************************************************)
(* The server, whatever its client sends.                                  *)
(***************************************************************************)

(* Any move can be done on any board.                                      *)
LEMMA DoFacts ==
  /\ StartPosition \in Position
  /\ \A p \in Position, m \in MoveCode : Do[p][m] \in Position
<1>1. Do \in [Position -> [MoveCode -> Position]]
  BY ServerAssumption
<1> QED
  BY <1>1, ServerAssumption

(* A message comes in at the end of the queue and leaves at its head.      *)
LEMMA QueueFacts ==
  ASSUME NEW S, NEW q \in Seq(S)
  PROVE  /\ q # <<>> => Head(q) \in S /\ Tail(q) \in Seq(S) /\ Len(Tail(q)) = Len(q) - 1
         /\ \A e \in S : Append(q, e) \in Seq(S)
         /\ \A e : Len(Append(q, e)) = Len(q) + 1
         /\ \A e : Append(q, e)[Len(q) + 1] = e
         /\ Len(q) \in Nat
<1>1. q # <<>> => Head(q) \in S /\ Tail(q) \in Seq(S) /\ Len(Tail(q)) = Len(q) - 1
  BY HeadTailProperties
<1>2. Len(q) \in Nat
  BY LenProperties
<1> QED
  BY <1>1, <1>2

(* A message taken out of the inbox is one.                                *)
LEMMA HandleFacts ==
  ASSUME TypeOK, NEW type, Handle(type)
  PROVE  /\ inbox' \in Seq(Message)
         /\ Head(inbox) \in Message
         /\ UNCHANGED program
         /\ running /\ net = "ready"
BY QueueFacts DEF Handle, TypeOK

(* What is broadcast is an answer.                                         *)
LEMMA BroadcastFacts ==
  ASSUME TypeOK, NEW type, NEW move, Broadcast(type, move),
         [type |-> type, move |-> move] \in Answer
  PROVE  outbox' \in Seq(Answer)
BY QueueFacts DEF Broadcast, TypeOK

(* The last token of a position message is a move, or there is none.       *)
LEMMA MessageFacts ==
  ASSUME NEW msg \in Message
  PROVE  msg.last \in MoveCode \cup {NoMove}
BY DEF Message, Plain

(* Writing the server's board leaves a search with the copy it has, or     *)
(* with a torn one.                                                        *)
LEMMA WriteBoardFacts ==
  ASSUME IInv, NEW p \in Position, WriteBoard(p), UNCHANGED program
  PROVE  /\ b' \in Position /\ copy' \in Position \cup {Torn}
         /\ UNCHANGED <<game, search, best_move, untried, optimum, found>>
         /\ InHand' /\ InStore'
BY DEF WriteBoard, IInv, TypeOK, InHand, InStore

(* Board, thread and engine keep their types if they do not change.        *)
LEMMA SameServer ==
  ASSUME IInv, UNCHANGED <<server, engine>>,
         inbox' \in Seq(Message), outbox' \in Seq(Answer)
  PROVE  IInv'
<1>1. UNCHANGED <<program, b, net, process, game, search, best_move, copy, untried, optimum, found>>
  BY DEF server, engine
<1>2. TypeOK /\ StopNotLost /\ OneSearch /\ InHand /\ InStore
  BY DEF IInv
<1>3. TypeOK'
  BY <1>1, <1>2 DEF TypeOK
<1>4. StopNotLost' /\ OneSearch' /\ InHand' /\ InStore'
  BY <1>1, <1>2 DEF StopNotLost, OneSearch, InHand, InStore, running
<1> QED
  BY <1>3, <1>4 DEF IInv

(***************************************************************************)
(* The inductive invariant, action by action.                              *)
(***************************************************************************)

(* At the start there is no thread.                                        *)
LEMMA InitIInv == Init => IInv
<1> SUFFICES ASSUME Init PROVE IInv
  OBVIOUS
<1>1. TypeOK
  BY ServerAssumption, EmptySeq DEF Init, TypeOK
<1>2. StopNotLost /\ OneSearch /\ InHand /\ InStore
  BY DEF Init, StopNotLost, OneSearch, InHand, InStore
<1> QED
  BY <1>1, <1>2 DEF IInv

(* A message arrives or an answer leaves.                                  *)
LEMMA QueueIInv ==
  ASSUME IInv, UNCHANGED <<server, engine>>,
         \/ \E msg \in Message : Arrive(msg) /\ outbox' = outbox
         \/ outbox # <<>> /\ outbox' = Tail(outbox) /\ inbox' = inbox
         \/ UNCHANGED <<inbox, outbox>>
  PROVE  IInv'
<1>0. inbox \in Seq(Message) /\ outbox \in Seq(Answer)
  BY DEF IInv, TypeOK
<1>1. inbox' \in Seq(Message) /\ outbox' \in Seq(Answer)
  <2>1. \A msg \in Message : Arrive(msg) => inbox' \in Seq(Message)
    BY <1>0 DEF Arrive
  <2>2. outbox # <<>> => Tail(outbox) \in Seq(Answer)
    BY <1>0, QueueFacts
  <2> QED
    BY <1>0, <2>1, <2>2
<1> QED
  BY <1>1, SameServer

(* Answers that are not moves, and messages that do nothing.               *)
LEMMA PlainIInv ==
  ASSUME IInv, on_uci \/ on_isready \/ unsupported
  PROVE  IInv'
<1>1. inbox' \in Seq(Message)
  BY HandleFacts DEF on_uci, on_isready, unsupported, IInv
<1>2. outbox' \in Seq(Answer)
  <2>1. CASE on_uci
    BY <2>1, BroadcastFacts DEF on_uci, Answer, IInv
  <2>2. CASE on_isready
    BY <2>2, BroadcastFacts DEF on_isready, Answer, IInv
  <2>3. CASE unsupported
    BY <2>3 DEF unsupported, IInv, TypeOK
  <2> QED
    BY <2>1, <2>2, <2>3
<1>3. UNCHANGED <<server, engine>>
  BY DEF on_uci, on_isready, unsupported
<1> QED
  BY <1>1, <1>2, <1>3, SameServer

(* The server's board is written, perhaps under a copy that is being made. *)
LEMMA BoardIInv ==
  ASSUME IInv, on_ucinewgame \/ on_position
  PROVE  IInv'
<1>1. inbox' \in Seq(Message) /\ Head(inbox) \in Message /\ UNCHANGED program
  BY HandleFacts DEF on_ucinewgame, on_position, IInv
<1>2. UNCHANGED <<net, process, outbox>>
  BY DEF on_ucinewgame, on_position
<1>3. CASE UNCHANGED <<b, engine>>
  <2>1. UNCHANGED <<server, engine>>
    BY <1>1, <1>2, <1>3 DEF server
  <2>2. outbox' \in Seq(Answer)
    BY <1>2 DEF IInv, TypeOK
  <2> QED
    BY <1>1, <2>1, <2>2, SameServer
<1>4. ASSUME NEW p \in Position, WriteBoard(p)
      PROVE  IInv'
  <2>1. /\ b' \in Position /\ copy' \in Position \cup {Torn} /\ InHand' /\ InStore'
        /\ UNCHANGED <<game, search, best_move, untried, optimum, found>>
    BY <1>1, <1>4, WriteBoardFacts
  <2>2. TypeOK'
    BY <1>1, <1>2, <2>1 DEF IInv, TypeOK
  <2>3. StopNotLost' /\ OneSearch'
    BY <1>2, <2>1 DEF IInv, StopNotLost, OneSearch, running
  <2> QED
    BY <2>1, <2>2, <2>3 DEF IInv
<1>5. StartPosition \in Position /\ \A m \in MoveCode : Do[b][m] \in Position
  BY DoFacts DEF IInv, TypeOK
<1>6. on_ucinewgame => WriteBoard(StartPosition)
  BY DEF on_ucinewgame
<1>7. CASE on_position
  <2>1. Head(inbox).last \in MoveCode \cup {NoMove}
    BY <1>1, MessageFacts
  <2> QED
    BY <1>3, <1>4, <1>5, <1>7, <2>1 DEF on_position
<1> QED
  BY <1>4, <1>5, <1>6, <1>7

(* A search is started, told to stop, or the process ends.                 *)
LEMMA ControlIInv ==
  ASSUME IInv, on_go \/ on_stop \/ on_quit \/ empty
  PROVE  IInv'
<1>1. inbox' \in Seq(Message) /\ net = "ready" /\ running /\ UNCHANGED program
  BY HandleFacts DEF on_go, on_stop, on_quit, empty, IInv
<1>2. TypeOK'
  BY <1>1 DEF on_go, on_stop, on_quit, empty, IInv, TypeOK, engine
<1>3. StopNotLost' /\ OneSearch'
  BY <1>1 DEF on_go, on_stop, on_quit, empty, IInv, StopNotLost, OneSearch, running, engine
<1>4. InHand' /\ InStore'
  BY <1>1 DEF on_go, on_stop, on_quit, empty, IInv, InHand, InStore, engine
<1> QED
  BY <1>2, <1>3, <1>4 DEF IInv

(* on_stop gets past its join: a move, or the end of the process.          *)
LEMMA JoinedIInv ==
  ASSUME IInv, on_stop_joined
  PROVE  IInv'
<1>1. b' \in Position /\ outbox' \in Seq(Answer)
  <2>1. CASE Legal[b] # {} /\ MoveChecked /\ PlayBest
    <3>1. best_move \in MoveCode
      BY DEF IInv, TypeOK
    <3>2. [type |-> "bestmove", move |-> best_move] \in Answer
      BY <3>1 DEF Answer
    <3>3. outbox' \in Seq(Answer)
      BY <2>1, <3>2, BroadcastFacts DEF PlayBest, IInv
    <3> QED
      BY <2>1, <3>1, <3>3, DoFacts DEF PlayBest, IInv, TypeOK
  <2> QED
    BY <2>1 DEF on_stop_joined, Fail, IInv, TypeOK
<1>2. process' \in {"running", "no legal moves", "illegal best move"}
  BY DEF on_stop_joined, Fail, PlayBest, running
<1>3. TypeOK'
  BY <1>1, <1>2 DEF on_stop_joined, IInv, TypeOK
<1>4. StopNotLost' /\ OneSearch' /\ InHand' /\ InStore'
  BY DEF on_stop_joined, IInv, StopNotLost, OneSearch, InHand, InStore
<1> QED
  BY <1>3, <1>4 DEF IInv

(* The moves found at the root are moves, and legal unless the copy is     *)
(* torn.                                                                   *)
LEMMA RootMovesFacts ==
  ASSUME TypeOK, NEW moves \in RootMoves
  PROVE  moves \subseteq MoveCode /\ (copy # Torn => moves = Legal[copy])
<1>1. CASE copy = Torn
  BY <1>1 DEF RootMoves
<1>2. CASE copy # Torn
  <2>1. copy \in Position /\ moves = Legal[copy]
    BY <1>2 DEF RootMoves, TypeOK
  <2> QED
    BY <2>1, ServerAssumption
<1> QED
  BY <1>1, <1>2

(* The game thread stores legal moves of its copy, which it does not       *)
(* change after that.                                                      *)
LEMMA ThreadInStore ==
  ASSUME IInv, GameThread
  PROVE  InStore'
<1>1. InHand /\ InStore
  BY DEF IInv
<1>2. CASE CopyBoard \/ BoardCopied
  BY <1>1, <1>2 DEF CopyBoard, BoardCopied, Step, server, InStore
<1>3. CASE Deepen \/ Order_Children \/ Evaluate
  <2>1. /\ game \in {"deepening", "ordering", "evaluating"}
        /\ game' \notin {"none", "started", "copying", "deepening"}
        /\ UNCHANGED <<program, best_move, copy, found>>
    BY <1>3 DEF Deepen, Order_Children, Evaluate, Step, server
  <2>2. program # "rollerball_py"
    BY <1>1, <1>3, <2>1 DEF Deepen, Order_Children, Evaluate, Step, InStore
  <2> QED
    BY <1>1, <2>1, <2>2 DEF InStore
<1>4. CASE Store \/ EndIteration
  BY <1>1, <1>4 DEF Store, EndIteration, Step, server, InHand, InStore
<1>5. CASE find_best_move
  BY <1>1, <1>5, RootMovesFacts DEF find_best_move, Chosen, InStore, IInv
<1> QED
  BY <1>2, <1>3, <1>4, <1>5 DEF GameThread

(* The steps of the game thread.                                           *)
LEMMA ThreadIInv ==
  ASSUME IInv, GameThread
  PROVE  IInv'
<1>1. running /\ UNCHANGED <<program, b, net, inbox, outbox, search>>
      /\ process' \in {"running", "terminated"} /\ game # "none" /\ game' # "none"
  BY DEF GameThread, CopyBoard, BoardCopied, Deepen, Order_Children, Evaluate, Store,
         EndIteration, find_best_move, Chosen, Step, server, running
<1>2. StopNotLost' /\ OneSearch' /\ InStore'
  BY <1>1, ThreadInStore DEF IInv, StopNotLost, OneSearch, running
<1>3. CASE CopyBoard \/ BoardCopied \/ Deepen
  <2>1. TypeOK'
    BY <1>1, <1>3 DEF IInv, TypeOK, CopyBoard, BoardCopied, Deepen, Step, server
  <2>2. InHand'
    BY <1>3 DEF InHand, CopyBoard, BoardCopied, Deepen
  <2> QED
    BY <1>2, <2>1, <2>2 DEF IInv
<1>4. CASE Order_Children
  <2>1. /\ game' \in {"evaluating", "finished"}
        /\ untried' \subseteq MoveCode /\ optimum' \in MoveCode \cup {NoMove}
        /\ UNCHANGED <<process, best_move, copy, found>>
        /\ game' = "evaluating" => optimum' = NoMove /\ (copy # Torn => untried' = Legal[copy])
    BY <1>4, RootMovesFacts DEF Order_Children, Step, server, IInv, TypeOK
  <2>2. TypeOK' /\ InHand'
    BY <1>1, <2>1 DEF IInv, TypeOK, InHand
  <2> QED
    BY <1>2, <2>2 DEF IInv
<1>5. CASE Evaluate
  <2>1. TypeOK'
    BY <1>1, <1>5 DEF IInv, TypeOK, Evaluate, Step, server
  <2>2. InHand'
    BY <1>5, ServerAssumption DEF IInv, TypeOK, InHand, Evaluate, Step
  <2> QED
    BY <1>2, <2>1, <2>2 DEF IInv
<1>6. CASE Store \/ EndIteration
  <2>1. optimum \in MoveCode
    BY <1>6 DEF IInv, TypeOK, InHand, Store, EndIteration, Step
  <2>2. TypeOK'
    BY <1>1, <1>6, <2>1 DEF IInv, TypeOK, Store, EndIteration, Step, server
  <2>3. InHand'
    BY <1>6 DEF IInv, InHand, Store, EndIteration, Step
  <2> QED
    BY <1>2, <2>2, <2>3 DEF IInv
<1>7. CASE find_best_move
  <2>1. game' \in {"deepening", "finished"} /\ best_move' \in MoveCode /\ found' \in BOOLEAN
        /\ UNCHANGED <<copy, untried, optimum>>
    BY <1>7, RootMovesFacts DEF find_best_move, Chosen, IInv, TypeOK
  <2>2. TypeOK' /\ InHand'
    BY <1>1, <2>1 DEF IInv, TypeOK, InHand
  <2> QED
    BY <1>2, <2>2 DEF IInv
<1> QED
  BY <1>3, <1>4, <1>5, <1>6, <1>7 DEF GameThread

LEMMA StepIInv == IInv /\ [Next]_uvars => IInv'
<1> SUFFICES ASSUME IInv, [Next]_uvars PROVE IInv'
  OBVIOUS
<1>1. CASE \E msg \in Message : Arrive(msg) /\ UNCHANGED <<server, outbox, engine>>
  BY <1>1, QueueIInv
<1>2. CASE Deliver \/ UNCHANGED uvars
  BY <1>2, QueueIInv DEF Deliver, uvars
<1>3. CASE Network
  BY <1>3, PlainIInv, BoardIInv, ControlIInv, JoinedIInv DEF Network
<1>4. CASE GameThread
  BY <1>4, ThreadIInv
<1> QED
  BY <1>1, <1>2, <1>3, <1>4 DEF Next

(***************************************************************************)
(* The theorems.                                                           *)
(***************************************************************************)

(* Types, the flag and what the thread has in hand.                        *)
THEOREM ServerInductive == Safe => []IInv
<1>1. IInv /\ [Next]_uvars => IInv'
  BY StepIInv
<1> QED
  BY <1>1, InitIInv, PTL DEF Safe

(* Board, queues, threads and the engine's variables keep their types; the *)
(* process ends in no other way than those of on_stop, on_go and on_quit.  *)
THEOREM ServerTypes == Safe => []TypeOK
<1>1. IInv => TypeOK
  BY DEF IInv
<1> QED
  BY <1>1, ServerInductive, PTL

(* No handler and no step of a search sets the flag again before on_stop   *)
(* has joined the thread, and no search runs without a thread.             *)
THEOREM FlagStaysCleared == Safe => []StopNotLost
<1>1. IInv => StopNotLost
  BY DEF IInv
<1> QED
  BY <1>1, ServerInductive, PTL

(* Only legal moves of the copy get into best_move, whatever is done to    *)
(* the server's board meanwhile.                                           *)
THEOREM StoresLegalMoves == Safe => StoredFromCopy
<1>1. IInv /\ [Next]_uvars
        => [best_move' # best_move /\ copy # Torn => best_move' \in Legal[copy]]_uvars
  <2> SUFFICES ASSUME IInv, Next, best_move' # best_move, copy # Torn
               PROVE  best_move' \in Legal[copy]
    OBVIOUS
  <2>1. Store \/ EndIteration \/ find_best_move
    BY DEF Next, Network, GameThread, Deliver, on_uci, on_isready, on_ucinewgame, on_position,
           WriteBoard, on_go, on_stop, on_stop_joined, on_quit, unsupported, empty,
           CopyBoard, BoardCopied, Deepen, Order_Children, Evaluate, engine
  <2>2. CASE Store \/ EndIteration
    BY <2>2 DEF Store, EndIteration, Step, IInv, InHand
  <2>3. CASE find_best_move
    BY <2>3, RootMovesFacts DEF find_best_move, Chosen, IInv
  <2> QED
    BY <2>1, <2>2, <2>3
<1> QED
  BY <1>1, ServerInductive, PTL DEF Safe, StoredFromCopy

(* A search that has stored a move on a copy of the board as it is now has *)
(* a legal one, so neither assertion of on_stop fails.                     *)
LEMMA JoinEnds ==
  ASSUME IInv, on_stop_joined, process' # "running"
  PROVE  /\ net = "joining"
         /\ game = "finished"
         /\ (program = "rollerball" /\ ~found) \/ copy # b
<1>1. net = "joining" /\ game = "finished" /\ ~(Legal[b] # {} /\ MoveChecked /\ PlayBest)
  BY DEF on_stop_joined, PlayBest, running
<1>2. ~MoveChecked
  BY <1>1 DEF on_stop_joined, MoveChecked
<1>3. ASSUME copy = b
      PROVE  program = "rollerball" /\ ~found
  <2>1. copy # Torn
    BY <1>3, ServerAssumption DEF IInv, TypeOK
  <2>2. ~found
    BY <1>1, <1>2, <1>3, <2>1 DEF IInv, InStore, MoveChecked
  <2>3. program \in {"rollerball", "rollerball_py"}
    BY ServerAssumption DEF IInv, TypeOK
  <2> QED
    BY <1>1, <2>2, <2>3 DEF IInv, InStore
<1> QED
  BY <1>1, <1>3

(* No client brings the process down but in the ways that EndsForCause     *)
(* lists: neither the threads of src/uciws.cpp and search_move nor         *)
(* engine.py add a cause of their own, however they interleave.            *)
THEOREM EndsOnlyForCause == Safe => EndsForCause
<1> DEFINE Message_Ends == /\ net = "ready"
                           /\ inbox # <<>>
                           /\ \/ Head(inbox).type \in {"quit", "empty"}
                              \/ Head(inbox).type = "go" /\ search
                              \/ Head(inbox).type = "stop" /\ ~search
           Join_Ends == /\ net = "joining"
                        /\ game = "finished"
                        /\ (program = "rollerball" /\ ~found) \/ copy # b
           Choice_Ends == /\ program = "rollerball_py"
                          /\ game = "deepening"
                          /\ copy = Torn \/ Legal[copy] = {}
<1>1. IInv /\ [Next]_uvars
        => [running /\ process' # "running" => Message_Ends \/ Join_Ends \/ Choice_Ends]_uvars
  <2> SUFFICES ASSUME IInv, Next, running, process' # "running"
               PROVE  Message_Ends \/ Join_Ends \/ Choice_Ends
    OBVIOUS
  <2>1. on_go \/ on_stop \/ on_quit \/ empty \/ on_stop_joined \/ find_best_move
    BY DEF Next, Network, GameThread, Deliver, on_uci, on_isready, on_ucinewgame, on_position,
           unsupported, CopyBoard, BoardCopied, Deepen, Order_Children, Evaluate, Store,
           EndIteration, Step, server, running
  <2>2. CASE on_go
    <3>1. Handle("go") /\ game # "none"
      BY <2>2 DEF on_go, running
    <3>2. search
      BY <3>1 DEF Handle, IInv, OneSearch
    <3> QED
      BY <3>1, <3>2 DEF Handle
  <2>3. CASE on_stop
    <3>1. Handle("stop") /\ game = "none"
      BY <2>3 DEF on_stop, running
    <3>2. ~search
      BY <3>1 DEF Handle, IInv, OneSearch
    <3> QED
      BY <3>1, <3>2 DEF Handle
  <2>4. CASE on_quit \/ empty
    BY <2>4 DEF on_quit, empty, Handle
  <2>5. CASE on_stop_joined
    BY <2>5, JoinEnds
  <2>6. CASE find_best_move
    <3>1. {} \in RootMoves /\ program = "rollerball_py" /\ game = "deepening"
      BY <2>6 DEF find_best_move, Chosen, running
    <3>2. copy # Torn => Legal[copy] = {}
      BY <3>1, RootMovesFacts DEF IInv
    <3> QED
      BY <3>1, <3>2
  <2> QED
    BY <2>1, <2>2, <2>3, <2>4, <2>5, <2>6
<1> QED
  BY <1>1, ServerInductive, PTL DEF Safe, EndsForCause

(***************************************************************************)
(* The server and its client: the invariant.                               *)
(***************************************************************************)

(* Messages that leave the board and the search alone.                     *)
Harmless == {"uci", "isready", "quit"}

(* Behind a go only its stop is on its way, and behind a stop nothing that *)
(* matters: the client waits for the answer.                               *)
InOrder ==
  /\ \A j, k \in 1..Len(inbox) : j < k =>
       /\ inbox[j].type = "stop" => inbox[k].type \in Harmless
       /\ inbox[j].type = "go" => inbox[k].type \in Harmless \cup {"stop"}
  /\ \A k \in 1..Len(inbox) :
       /\ game # "none" => inbox[k].type \in Harmless \cup {"stop"}
       /\ net = "joining" => inbox[k].type \in Harmless
       /\ inbox[k].type = "stop" => game # "none" \/ \E j \in 1..(k - 1) : inbox[j].type = "go"
       /\ inbox[k].type = "quit" => phase = "gone"
       /\ inbox[k].type # "empty"

(* The client thinks of the search what is true of it once its messages    *)
(* are handled.                                                            *)
InPhase ==
  /\ phase \in {"opponent", "engine"} =>
       game = "none" /\ \A k \in 1..Len(inbox) : inbox[k].type \notin {"go", "stop"}
  /\ phase = "thinking" =>
       /\ net = "ready"
       /\ \A k \in 1..Len(inbox) : inbox[k].type # "stop"
       /\ game # "none" \/ \E k \in 1..Len(inbox) : inbox[k].type = "go"

(* A move is only on its way when nothing else is.                         *)
OneMove ==
  \A k \in 1..Len(outbox) : outbox[k].type = "bestmove" =>
    /\ game = "none" /\ phase \in {"stopping", "gone"}
    /\ \A i \in 1..Len(inbox) : inbox[i].type \in Harmless
    /\ \A j \in 1..Len(outbox) : outbox[j].type = "bestmove" => j = k

(* The search is on the server's board, which has a legal move, and        *)
(* best_move is one from the moment it is written.                         *)
OnBoard ==
  /\ game # "none" => Legal[b] # {}
  /\ game \notin {"none", "started"} => copy = b
  /\ found /\ game # "none" => best_move \in Legal[b]

(* rollerball's search ends when it is told to, rollerball_py's when it    *)
(* has a move; a patient client gives rollerball the time to find one.     *)
Finishing ==
  /\ program = "rollerball" /\ game = "finished" => ~search
  /\ program = "rollerball_py" =>
       game \in {"none", "started", "copying", "deepening", "finished"}
       /\ (game = "finished" => found)
  /\ Patient /\ program = "rollerball" =>
       /\ game # "none" /\ ~search => found
       /\ \A k \in 1..Len(inbox) : inbox[k].type = "stop" => found /\ game # "none"

(* InStep, and every search that is asked for and every move on its way is *)
(* right on the board that will be there.                                  *)
BoardsMeet ==
  \E t \in [0..Len(inbox) -> Position] :
    /\ Through(t, b, inbox)
    /\ \A k \in 1..Len(inbox) : inbox[k].type = "go" => Legal[t[k]] # {}
    /\ phase # "gone" =>
         \E u \in [0..Len(outbox) -> Position] :
           /\ Through(u, position, outbox)
           /\ \A k \in 1..Len(outbox) :
                outbox[k].type = "bestmove" => outbox[k].move \in Legal[u[k - 1]]
           /\ u[Len(outbox)] = t[Len(inbox)]

Client_OK ==
  position \in Position /\ phase \in {"opponent", "engine", "thinking", "stopping", "gone"}

MInv ==
  /\ Client_OK
  /\ Patient => process = "running" \/ (process = "exited" /\ phase = "gone")
  /\ running => InOrder /\ InPhase /\ OneMove /\ OnBoard /\ Finishing /\ BoardsMeet

(***************************************************************************)
(* Natural numbers and queues.                                             *)
(***************************************************************************)
NatLess == {ss \in Nat \X Nat : ss[1] < ss[2]}

(* Every set of natural numbers has a least element, by which a property   *)
(* of a sequence of boards is proved from one board to the next.           *)
LEMMA Least ==
  ASSUME NEW T, T \subseteq Nat, T # {}
  PROVE  \E m \in T : \A k \in T : m <= k
<1>1. NatLess = OpToRel(<, Nat)
  BY DEF NatLess, OpToRel
<1>2. IsWellFoundedOn(NatLess, Nat)
  BY <1>1, NatLessThanWellFounded
<1>3. PICK m \in T : \A k \in T : ~(<<k, m>> \in NatLess)
  BY <1>2, WFMin
<1>4. \A k \in T : ~(k < m)
  BY <1>3 DEF NatLess
<1> QED
  BY <1>4

(* A sequence in which every element is the one before it is constant.     *)
LEMMA Constant ==
  ASSUME NEW S, NEW n \in Nat, NEW t \in [0..n -> S], \A k \in 1..n : t[k] = t[k - 1]
  PROVE  \A k \in 0..n : t[k] = t[0]
<1> DEFINE T == {k \in 0..n : t[k] # t[0]}
<1> SUFFICES ASSUME T # {} PROVE FALSE
  OBVIOUS
<1>1. T \subseteq Nat
  OBVIOUS
<1>2. PICK m \in T : \A k \in T : m <= k
  <2> HIDE DEF T
  <2> QED
    BY <1>1, Least
<1>3. m # 0 /\ m \in 1..n
  OBVIOUS
<1>4. m - 1 \in 0..n /\ m - 1 \notin T
  BY <1>2, <1>3
<1> QED
  BY <1>3, <1>4

(* A queue, element by element, when one is added and when one is taken.   *)
LEMMA Appended ==
  ASSUME NEW S, NEW q \in Seq(S), NEW e \in S
  PROVE  /\ Append(q, e) \in Seq(S) /\ Len(q) \in Nat /\ Len(Append(q, e)) = Len(q) + 1
         /\ \A k \in 1..Len(q) : q[k] \in S /\ Append(q, e)[k] = q[k]
         /\ Append(q, e)[Len(q) + 1] = e
<1>1. Len(q) \in Nat /\ DOMAIN q = 1..Len(q)
  BY LenProperties
<1>2. \A k \in 1..Len(q) : q[k] \in S
  BY ElementOfSeq
<1> QED
  BY <1>1, <1>2, AppendProperties

LEMMA Taken ==
  ASSUME NEW S, NEW q \in Seq(S), q # <<>>
  PROVE  /\ Tail(q) \in Seq(S) /\ Len(q) \in Nat /\ Len(q) > 0 /\ Len(Tail(q)) = Len(q) - 1
         /\ Head(q) = q[1] /\ Head(q) \in S
         /\ \A k \in 1..(Len(q) - 1) : Tail(q)[k] = q[k + 1]
         /\ \A k \in 1..Len(q) : q[k] \in S
<1>1. Len(q) \in Nat /\ Len(q) # 0
  BY LenProperties, EmptySeq
<1>2. \A k \in 1..Len(q) : q[k] \in S
  BY ElementOfSeq
<1> QED
  BY <1>1, <1>2, HeadTailProperties

(***************************************************************************)
(* Boards to come.                                                         *)
(***************************************************************************)
LEMMA EffectFacts ==
  ASSUME NEW p \in Position, NEW msg \in Message \cup Answer
  PROVE  /\ Effect(p, msg) \in Position
         /\ msg.type \notin {"ucinewgame", "position", "bestmove"} => Effect(p, msg) = p
<1>1. msg \in Message => msg.last \in MoveCode \cup {NoMove} /\ msg.type # "bestmove"
  BY MessageFacts DEF Message, Plain
<1>2. msg \in Answer => msg.type \notin {"ucinewgame", "position"}
  BY DEF Answer
<1>3. msg \in Answer /\ msg.type = "bestmove" => msg.move \in MoveCode
  BY DEF Answer
<1>4. Effect(p, msg) \in Position
  BY <1>1, <1>2, <1>3, DoFacts DEF Effect
<1> QED
  BY <1>4 DEF Effect

(* Something is added to a queue.                                          *)
LEMMA ThroughAppend ==
  ASSUME NEW S, S \subseteq Message \cup Answer, NEW q \in Seq(S), NEW msg \in S, NEW p,
         NEW t \in [0..Len(q) -> Position], Through(t, p, q)
  PROVE  \E s \in [0..Len(Append(q, msg)) -> Position] :
           /\ Through(s, p, Append(q, msg))
           /\ \A k \in 0..Len(q) : s[k] = t[k]
           /\ s[Len(Append(q, msg))] = Effect(t[Len(q)], msg)
<1> DEFINE r == Append(q, msg)
           s == [k \in 0..Len(r) |-> IF k = Len(q) + 1 THEN Effect(t[Len(q)], msg) ELSE t[k]]
<1>1. /\ Len(q) \in Nat /\ Len(r) = Len(q) + 1
      /\ \A k \in 1..Len(q) : r[k] = q[k]
      /\ r[Len(q) + 1] = msg
  BY Appended
<1> HIDE DEF r
<1>2. Effect(t[Len(q)], msg) \in Position
  BY <1>1, EffectFacts
<1>3. s \in [0..Len(r) -> Position]
  BY <1>1, <1>2
<1>4. \A k \in 0..Len(q) : s[k] = t[k]
  BY <1>1
<1>5. s[Len(r)] = Effect(t[Len(q)], msg)
  BY <1>1
<1> HIDE DEF s
<1>6. ASSUME NEW k \in 1..Len(r)
      PROVE  s[k] = Effect(s[k - 1], r[k])
  <2>1. CASE k = Len(q) + 1
    <3>1. k - 1 = Len(q) /\ k = Len(r) /\ Len(q) \in 0..Len(q)
      BY <1>1, <2>1
    <3> QED
      BY <1>1, <1>4, <1>5, <3>1
  <2>2. CASE k # Len(q) + 1
    <3>1. k \in 1..Len(q) /\ k \in 0..Len(q) /\ k - 1 \in 0..Len(q)
      BY <1>1, <2>2
    <3>2. t[k] = Effect(t[k - 1], q[k])
      BY <3>1 DEF Through
    <3> QED
      BY <1>1, <1>4, <3>1, <3>2
  <2> QED
    BY <2>1, <2>2
<1>7. Through(s, p, r)
  <2>1. s[0] = p
    BY <1>1, <1>4 DEF Through
  <2> QED
    BY <1>6, <2>1 DEF Through
<1> QED
  BY <1>3, <1>4, <1>5, <1>7 DEF r

LEMMA ThroughSent ==
  \A msg \in Message : inbox \in Seq(Message) =>
    \A t \in [0..Len(inbox) -> Position] : Through(t, b, inbox) =>
      \E s \in [0..Len(Append(inbox, msg)) -> Position] :
        /\ Through(s, b, Append(inbox, msg))
        /\ \A k \in 0..Len(inbox) : s[k] = t[k]
        /\ s[Len(Append(inbox, msg))] = Effect(t[Len(inbox)], msg)
<1>1. Message \subseteq Message \cup Answer
  OBVIOUS
<1> QED
  BY <1>1, ThroughAppend

LEMMA ThroughAnswered ==
  \A ans \in Answer : outbox \in Seq(Answer) =>
    \A u \in [0..Len(outbox) -> Position] : Through(u, position, outbox) =>
      \E v \in [0..Len(Append(outbox, ans)) -> Position] :
        /\ Through(v, position, Append(outbox, ans))
        /\ \A k \in 0..Len(outbox) : v[k] = u[k]
        /\ v[Len(Append(outbox, ans))] = Effect(u[Len(outbox)], ans)
<1>1. Answer \subseteq Message \cup Answer
  OBVIOUS
<1> QED
  BY <1>1, ThroughAppend

(* Something is taken from a queue.                                        *)
LEMMA ThroughTail ==
  ASSUME NEW S, NEW q \in Seq(S), q # <<>>, NEW p,
         NEW t \in [0..Len(q) -> Position], Through(t, p, q)
  PROVE  \E s \in [0..Len(Tail(q)) -> Position] :
           /\ Through(s, Effect(p, Head(q)), Tail(q))
           /\ \A k \in 0..Len(Tail(q)) : s[k] = t[k + 1]
           /\ s[Len(Tail(q))] = t[Len(q)]
<1> DEFINE r == Tail(q)
           s == [k \in 0..Len(r) |-> t[k + 1]]
<1>1. /\ Len(q) \in Nat /\ Len(q) > 0 /\ Len(r) = Len(q) - 1 /\ Head(q) = q[1]
      /\ \A k \in 1..(Len(q) - 1) : r[k] = q[k + 1]
  BY Taken
<1> HIDE DEF r
<1>2. s \in [0..Len(r) -> Position] /\ \A k \in 0..Len(r) : s[k] = t[k + 1]
  BY <1>1
<1> HIDE DEF s
<1>3. s[Len(r)] = t[Len(q)]
  <2>1. Len(r) \in 0..Len(r) /\ Len(r) + 1 = Len(q)
    BY <1>1
  <2> QED
    BY <1>2, <2>1
<1>4. s[0] = Effect(p, Head(q))
  <2>1. s[0] = t[1] /\ 1 \in 1..Len(q)
    BY <1>1, <1>2
  <2>2. t[1] = Effect(t[1 - 1], q[1]) /\ t[0] = p
    BY <2>1 DEF Through
  <2> QED
    BY <1>1, <2>1, <2>2
<1>5. ASSUME NEW k \in 1..Len(r)
      PROVE  s[k] = Effect(s[k - 1], r[k])
  <2>1. k + 1 \in 1..Len(q) /\ (k + 1) - 1 = k /\ k \in 0..Len(r) /\ k - 1 \in 0..Len(r)
    BY <1>1
  <2>2. s[k] = t[k + 1] /\ s[k - 1] = t[k] /\ r[k] = q[k + 1]
    BY <1>1, <1>2, <2>1
  <2>3. t[k + 1] = Effect(t[(k + 1) - 1], q[k + 1])
    BY <2>1 DEF Through
  <2> QED
    BY <2>1, <2>2, <2>3
<1>6. Through(s, Effect(p, Head(q)), r)
  BY <1>4, <1>5 DEF Through
<1> QED
  BY <1>2, <1>3, <1>6 DEF r

LEMMA ThroughHandled ==
  inbox \in Seq(Message) /\ inbox # <<>> =>
    \A t \in [0..Len(inbox) -> Position] : Through(t, b, inbox) =>
      \E s \in [0..Len(Tail(inbox)) -> Position] :
        /\ Through(s, Effect(b, Head(inbox)), Tail(inbox))
        /\ \A k \in 0..Len(Tail(inbox)) : s[k] = t[k + 1]
        /\ s[Len(Tail(inbox))] = t[Len(inbox)]
BY ThroughTail

LEMMA ThroughReceived ==
  outbox \in Seq(Answer) /\ outbox # <<>> =>
    \A u \in [0..Len(outbox) -> Position] : Through(u, position, outbox) =>
      \E v \in [0..Len(Tail(outbox)) -> Position] :
        /\ Through(v, Effect(position, Head(outbox)), Tail(outbox))
        /\ \A k \in 0..Len(Tail(outbox)) : v[k] = u[k + 1]
        /\ v[Len(Tail(outbox))] = u[Len(outbox)]
BY ThroughTail

(* Nothing on its way writes the board.                                    *)
LEMMA ThroughConstant ==
  ASSUME NEW S, S \subseteq Message \cup Answer, NEW q \in Seq(S), NEW p,
         NEW t \in [0..Len(q) -> Position], Through(t, p, q),
         \A k \in 1..Len(q) : q[k].type \notin {"ucinewgame", "position", "bestmove"}
  PROVE  \A k \in 0..Len(q) : t[k] = p
<1>1. Len(q) \in Nat /\ \A k \in 1..Len(q) : q[k] \in S
  BY LenProperties, ElementOfSeq
<1>2. ASSUME NEW k \in 1..Len(q)
      PROVE  t[k] = t[k - 1]
  <2>1. t[k] = Effect(t[k - 1], q[k]) /\ k - 1 \in 0..Len(q)
    BY <1>1 DEF Through
  <2> QED
    BY <1>1, <2>1, EffectFacts
<1> QED
  BY <1>1, <1>2, Constant DEF Through

(***************************************************************************)
(* Queues in order.                                                        *)
(***************************************************************************)

(* A client that may send a move or a go has been sent every answer.       *)
LEMMA NoMoveOnWay ==
  ASSUME OneMove, phase \notin {"stopping", "gone"}
  PROVE  \A k \in 1..Len(outbox) : outbox[k].type \notin {"bestmove"}
BY DEF OneMove

(* The other answers move nothing.                                         *)
LEMMA AnswersConstant ==
  ASSUME TypeOK, NEW u \in [0..Len(outbox) -> Position], Through(u, position, outbox),
         \A k \in 1..Len(outbox) : outbox[k].type # "bestmove"
  PROVE  u[Len(outbox)] = position
<1>1. outbox \in Seq(Answer) /\ Len(outbox) \in Nat
      /\ \A k \in 1..Len(outbox) : outbox[k] \in Answer
  BY LenProperties, ElementOfSeq DEF TypeOK
<1>2. \A k \in 1..Len(outbox) : outbox[k].type \notin {"ucinewgame", "position", "bestmove"}
  BY <1>1 DEF Answer
<1>3. \A k \in 0..Len(outbox) : u[k] = position
  BY <1>1, <1>2, ThroughConstant
<1> QED
  BY <1>1, <1>3

(* No more does a search that is on its way or going on.                   *)
LEMMA InboxConstant ==
  ASSUME TypeOK, NEW t \in [0..Len(inbox) -> Position], Through(t, b, inbox),
         \A k \in 1..Len(inbox) : inbox[k].type \in Harmless \cup {"stop"}
  PROVE  t[Len(inbox)] = b
<1>1. inbox \in Seq(Message) /\ Len(inbox) \in Nat
  BY LenProperties DEF TypeOK
<1>2. \A k \in 1..Len(inbox) : inbox[k].type \notin {"ucinewgame", "position", "bestmove"}
  BY DEF Harmless
<1>3. \A k \in 0..Len(inbox) : t[k] = b
  BY <1>1, <1>2, ThroughConstant
<1> QED
  BY <1>1, <1>3

(* A message is sent in order...                                           *)
LEMMA InOrderAppend ==
  ASSUME TypeOK, InOrder, NEW msg \in Message, inbox' = Append(inbox, msg),
         UNCHANGED <<game, net>>, phase # "gone",
         \A k \in 1..Len(inbox) :
           /\ inbox[k].type = "stop" => msg.type \in Harmless
           /\ inbox[k].type = "go" => msg.type \in Harmless \cup {"stop"},
         game # "none" => msg.type \in Harmless \cup {"stop"},
         net = "joining" => msg.type \in Harmless,
         msg.type = "stop" => game # "none" \/ \E k \in 1..Len(inbox) : inbox[k].type = "go",
         msg.type = "quit" => phase' = "gone",
         msg.type # "empty"
  PROVE  InOrder'
<1> DEFINE q == inbox'
<1>1. /\ Len(inbox) \in Nat /\ Len(q) = Len(inbox) + 1
      /\ \A k \in 1..Len(inbox) : q[k] = inbox[k]
      /\ q[Len(inbox) + 1] = msg
  <2>1. inbox \in Seq(Message)
    BY DEF TypeOK
  <2> QED
    BY <2>1, Appended
<1> HIDE DEF q
<1>2. ASSUME NEW k \in 1..Len(q)
      PROVE  (k \in 1..Len(inbox) /\ q[k] = inbox[k]) \/ (k = Len(inbox) + 1 /\ q[k] = msg)
  BY <1>1
<1>3. ASSUME NEW j \in 1..Len(q), NEW k \in 1..Len(q), j < k
      PROVE  /\ q[j].type = "stop" => q[k].type \in Harmless
             /\ q[j].type = "go" => q[k].type \in Harmless \cup {"stop"}
  <2>1. j \in 1..Len(inbox) /\ q[j] = inbox[j]
    BY <1>1, <1>3
  <2>2. CASE k \in 1..Len(inbox) /\ q[k] = inbox[k]
    BY <1>3, <2>1, <2>2 DEF InOrder
  <2>3. CASE q[k] = msg
    BY <2>1, <2>3
  <2> QED
    BY <1>2, <2>2, <2>3
<1>4. ASSUME NEW k \in 1..Len(q)
      PROVE  /\ game # "none" => q[k].type \in Harmless \cup {"stop"}
             /\ net = "joining" => q[k].type \in Harmless
             /\ q[k].type = "stop" => game # "none" \/ \E j \in 1..(k - 1) : q[j].type = "go"
             /\ q[k].type = "quit" => phase' = "gone"
             /\ q[k].type # "empty"
  <2>1. CASE k \in 1..Len(inbox) /\ q[k] = inbox[k]
    <3>1. \A j \in 1..(k - 1) : q[j] = inbox[j]
      BY <1>1, <2>1
    <3> QED
      BY <2>1, <3>1 DEF InOrder
  <2>2. CASE k = Len(inbox) + 1 /\ q[k] = msg
    <3>1. k - 1 = Len(inbox)
      BY <1>1, <2>2
    <3> QED
      BY <1>1, <2>2, <3>1
  <2> QED
    BY <1>2, <2>1, <2>2
<1> QED
  BY <1>3, <1>4 DEF InOrder, q

(* ... and handled in order.                                               *)
LEMMA InOrderTail ==
  ASSUME TypeOK, InOrder, inbox # <<>>, inbox' = Tail(inbox), UNCHANGED phase,
         game # "none" => game' # "none",
         Head(inbox).type = "go" <=> (game = "none" /\ game' # "none"),
         net' = "joining" => net = "joining" \/ Head(inbox).type = "stop"
  PROVE  InOrder'
<1> DEFINE q == inbox'
<1>1. /\ Len(inbox) \in Nat /\ Len(inbox) > 0 /\ Len(q) = Len(inbox) - 1
      /\ Head(inbox) = inbox[1]
      /\ \A k \in 1..(Len(inbox) - 1) : q[k] = inbox[k + 1]
  BY Taken DEF TypeOK
<1> HIDE DEF q
<1>2. ASSUME NEW j \in 1..Len(q), NEW k \in 1..Len(q), j < k
      PROVE  /\ q[j].type = "stop" => q[k].type \in Harmless
             /\ q[j].type = "go" => q[k].type \in Harmless \cup {"stop"}
  <2>1. /\ j + 1 \in 1..Len(inbox) /\ k + 1 \in 1..Len(inbox) /\ j + 1 < k + 1
        /\ q[j] = inbox[j + 1] /\ q[k] = inbox[k + 1]
    BY <1>1, <1>2
  <2> QED
    BY <2>1 DEF InOrder
<1>3. ASSUME NEW k \in 1..Len(q)
      PROVE  /\ game' # "none" => q[k].type \in Harmless \cup {"stop"}
             /\ net' = "joining" => q[k].type \in Harmless
             /\ q[k].type = "stop" => game' # "none" \/ \E j \in 1..(k - 1) : q[j].type = "go"
             /\ q[k].type = "quit" => phase' = "gone"
             /\ q[k].type # "empty"
  <2>1. 1 \in 1..Len(inbox) /\ k + 1 \in 1..Len(inbox) /\ 1 < k + 1 /\ q[k] = inbox[k + 1]
    BY <1>1
  <2>2. /\ inbox[1].type = "stop" => q[k].type \in Harmless
        /\ inbox[1].type = "go" => q[k].type \in Harmless \cup {"stop"}
    BY <2>1 DEF InOrder
  <2>3. /\ game # "none" => q[k].type \in Harmless \cup {"stop"}
        /\ net = "joining" => q[k].type \in Harmless
        /\ q[k].type = "quit" => phase = "gone"
        /\ q[k].type # "empty"
    BY <2>1 DEF InOrder
  <2>4. ASSUME q[k].type = "stop", game' = "none"
        PROVE  \E j \in 1..(k - 1) : q[j].type = "go"
    <3>1. PICK j \in 1..((k + 1) - 1) : inbox[j].type = "go"
      BY <2>1, <2>4 DEF InOrder
    <3>2. j # 1
      BY <1>1, <2>4, <3>1
    <3>3. j - 1 \in 1..(k - 1) /\ j - 1 \in 1..(Len(inbox) - 1) /\ (j - 1) + 1 = j
      BY <1>1, <3>1, <3>2
    <3>4. q[j - 1] = inbox[j]
      BY <1>1, <3>3
    <3> QED
      BY <3>1, <3>3, <3>4
  <2> QED
    BY <1>1, <2>2, <2>3, <2>4
<1> QED
  BY <1>2, <1>3 DEF InOrder, q

(***************************************************************************)
(* Boards that meet.                                                       *)
(***************************************************************************)

(* A message is sent that leaves the game alone, or that does to the       *)
(* server's board what the client has done to its game.                    *)
LEMMA BoardsAppend ==
  ASSUME TypeOK, Client_OK, BoardsMeet, phase # "gone",
         NEW msg \in Message, inbox' = Append(inbox, msg), UNCHANGED <<b, outbox>>,
         \/ msg.type \notin {"ucinewgame", "position"} /\ position' = position
         \/ /\ \A k \in 1..Len(outbox) : outbox[k].type # "bestmove"
            /\ position' = Effect(position, msg),
         msg.type = "go" =>
           Legal[position] # {} /\ \A k \in 1..Len(outbox) : outbox[k].type # "bestmove"
  PROVE  BoardsMeet'
<1>0. inbox \in Seq(Message) /\ outbox \in Seq(Answer) /\ position \in Position
  BY DEF TypeOK, Client_OK
<1> DEFINE q == Append(inbox, msg)
           n == Len(inbox)
           m == Len(outbox)
<1>1. /\ n \in Nat /\ Len(q) = n + 1 /\ q[n + 1] = msg
      /\ \A k \in 1..n : q[k] = inbox[k]
  BY <1>0, Appended
<1>2. m \in Nat /\ \A k \in 1..m : outbox[k] \in Answer
  BY <1>0, LenProperties, ElementOfSeq
<1>3. PICK t \in [0..n -> Position] :
        /\ Through(t, b, inbox)
        /\ \A k \in 1..n : inbox[k].type = "go" => Legal[t[k]] # {}
        /\ \E u \in [0..m -> Position] :
             /\ Through(u, position, outbox)
             /\ \A k \in 1..m : outbox[k].type = "bestmove" => outbox[k].move \in Legal[u[k - 1]]
             /\ u[m] = t[n]
  BY DEF BoardsMeet
<1>4. PICK u \in [0..m -> Position] :
        /\ Through(u, position, outbox)
        /\ \A k \in 1..m : outbox[k].type = "bestmove" => outbox[k].move \in Legal[u[k - 1]]
        /\ u[m] = t[n]
  BY <1>3
<1>5. PICK s \in [0..Len(q) -> Position] :
        /\ Through(s, b, q)
        /\ \A k \in 0..n : s[k] = t[k]
        /\ s[Len(q)] = Effect(t[n], msg)
  <2>1. Through(t, b, inbox) /\ t \in [0..Len(inbox) -> Position]
    BY <1>3
  <2>2. \E s \in [0..Len(Append(inbox, msg)) -> Position] :
          /\ Through(s, b, Append(inbox, msg))
          /\ \A k \in 0..Len(inbox) : s[k] = t[k]
          /\ s[Len(Append(inbox, msg))] = Effect(t[Len(inbox)], msg)
    <3> HIDE DEF q, n, m
    <3> QED
      BY <1>0, <2>1, ThroughSent
  <2> QED
    BY <2>2
<1>6. (\A k \in 1..m : outbox[k].type # "bestmove") => t[n] = position
  BY <1>4, AnswersConstant
<1>7. t[n] \in Position
  BY <1>1
<1>8. ASSUME NEW k \in 1..Len(q), q[k].type = "go"
      PROVE  Legal[s[k]] # {}
  <2>1. CASE k \in 1..n
    <3>1. q[k] = inbox[k] /\ s[k] = t[k]
      BY <1>1, <1>5, <2>1
    <3> QED
      BY <1>3, <1>8, <2>1, <3>1
  <2>2. CASE k = n + 1
    <3>1. s[k] = position
      BY <1>1, <1>5, <1>6, <1>7, <1>8, <2>2, EffectFacts
    <3> QED
      BY <1>1, <1>8, <2>2, <3>1
  <2> QED
    BY <1>1, <2>1, <2>2
<1>9. \E v \in [0..m -> Position] :
        /\ Through(v, position', outbox)
        /\ \A k \in 1..m : outbox[k].type = "bestmove" => outbox[k].move \in Legal[v[k - 1]]
        /\ v[m] = s[Len(q)]
  <2>1. CASE msg.type \notin {"ucinewgame", "position"} /\ position' = position
    <3>1. msg.type # "bestmove"
      BY DEF Message, Plain
    <3>2. s[Len(q)] = t[n]
      BY <1>5, <1>7, <2>1, <3>1, EffectFacts
    <3> QED
      BY <1>4, <2>1, <3>2
  <2>2. CASE /\ \A k \in 1..m : outbox[k].type # "bestmove"
             /\ position' = Effect(position, msg)
    <3> DEFINE v == [k \in 0..m |-> position']
    <3>1. position' \in Position /\ s[Len(q)] = position'
      BY <1>0, <1>5, <1>6, <2>2, EffectFacts
    <3>2. v \in [0..m -> Position] /\ \A k \in 0..m : v[k] = position'
      BY <3>1
    <3> HIDE DEF v
    <3>3. ASSUME NEW k \in 1..m
          PROVE  v[k] = Effect(v[k - 1], outbox[k])
      <4>1. k \in 0..m /\ k - 1 \in 0..m
        BY <1>2
      <4>2. outbox[k].type \notin {"ucinewgame", "position", "bestmove"}
        BY <1>2, <2>2 DEF Answer
      <4> QED
        BY <1>2, <3>1, <3>2, <4>1, <4>2, EffectFacts
    <3>4. Through(v, position', outbox)
      BY <1>2, <3>2, <3>3 DEF Through
    <3>5. v[m] = s[Len(q)]
      BY <1>2, <3>1, <3>2
    <3> QED
      BY <2>2, <3>2, <3>4, <3>5
  <2> QED
    BY <2>1, <2>2
<1>10. inbox' = q /\ b' = b /\ outbox' = outbox
  OBVIOUS
<1> HIDE DEF q, n, m
<1>11. \E x \in [0..Len(inbox') -> Position] :
         /\ Through(x, b', inbox')
         /\ \A k \in 1..Len(inbox') : inbox'[k].type = "go" => Legal[x[k]] # {}
         /\ \E v \in [0..Len(outbox') -> Position] :
              /\ Through(v, position', outbox')
              /\ \A k \in 1..Len(outbox') :
                   outbox'[k].type = "bestmove" => outbox'[k].move \in Legal[v[k - 1]]
              /\ v[Len(outbox')] = x[Len(inbox')]
  BY <1>5, <1>8, <1>9, <1>10 DEF m
<1> QED
  BY <1>11 DEF BoardsMeet, Through

(* The answers on their way, when one that is not a move is sent or        *)
(* nothing is...                                                           *)
LEMMA AnswersAppend ==
  ASSUME TypeOK, UNCHANGED position,
         \/ outbox' = outbox
         \/ \E ans \in Answer : ans.type # "bestmove" /\ outbox' = Append(outbox, ans),
         NEW u \in [0..Len(outbox) -> Position], Through(u, position, outbox),
         \A k \in 1..Len(outbox) :
           outbox[k].type = "bestmove" => outbox[k].move \in Legal[u[k - 1]]
  PROVE  \E v \in [0..Len(outbox') -> Position] :
           /\ Through(v, position', outbox')
           /\ \A k \in 1..Len(outbox') :
                outbox'[k].type = "bestmove" => outbox'[k].move \in Legal[v[k - 1]]
           /\ v[Len(outbox')] = u[Len(outbox)]
<1>1. CASE outbox' = outbox
  BY <1>1
<1>2. ASSUME NEW ans \in Answer, ans.type # "bestmove", outbox' = Append(outbox, ans)
      PROVE  \E v \in [0..Len(outbox') -> Position] :
               /\ Through(v, position', outbox')
               /\ \A k \in 1..Len(outbox') :
                    outbox'[k].type = "bestmove" => outbox'[k].move \in Legal[v[k - 1]]
               /\ v[Len(outbox')] = u[Len(outbox)]
  <2>1. outbox \in Seq(Answer)
    BY DEF TypeOK
  <2>2. PICK v \in [0..Len(Append(outbox, ans)) -> Position] :
          /\ Through(v, position, Append(outbox, ans))
          /\ \A k \in 0..Len(outbox) : v[k] = u[k]
          /\ v[Len(Append(outbox, ans))] = Effect(u[Len(outbox)], ans)
    BY <2>1, ThroughAnswered
  <2> DEFINE q == Append(outbox, ans)
             m == Len(outbox)
  <2>3. /\ m \in Nat /\ Len(q) = m + 1 /\ q[m + 1] = ans
        /\ \A k \in 1..m : q[k] = outbox[k]
    BY <2>1, Appended
  <2>4. Effect(u[m], ans) = u[m]
    <3>1. ans.type \notin {"ucinewgame", "position", "bestmove"} /\ u[m] \in Position
      BY <1>2, <2>3 DEF Answer
    <3> QED
      BY <3>1, EffectFacts
  <2>5. ASSUME NEW k \in 1..Len(q), q[k].type = "bestmove"
        PROVE  q[k].move \in Legal[v[k - 1]]
    <3>1. k \in 1..m /\ q[k] = outbox[k]
      BY <1>2, <2>3, <2>5
    <3>2. v[k - 1] = u[k - 1]
      BY <2>2, <2>3, <3>1
    <3> QED
      BY <2>5, <3>1, <3>2
  <2> QED
    BY <1>2, <2>2, <2>4, <2>5
<1> QED
  BY <1>1, <1>2

(* ... and the messages, when one is handled whose effect is as Effect     *)
(* says.                                                                   *)
LEMMA BoardsTail ==
  ASSUME TypeOK, BoardsMeet, inbox # <<>>, inbox' = Tail(inbox),
         b' = Effect(b, Head(inbox)), UNCHANGED <<position, phase>>,
         \/ outbox' = outbox
         \/ \E ans \in Answer : ans.type # "bestmove" /\ outbox' = Append(outbox, ans)
  PROVE  BoardsMeet' /\ (Head(inbox).type = "go" => Legal[b] # {})
<1>0. inbox \in Seq(Message)
  BY DEF TypeOK
<1>1. PICK t \in [0..Len(inbox) -> Position] :
        /\ Through(t, b, inbox)
        /\ \A k \in 1..Len(inbox) : inbox[k].type = "go" => Legal[t[k]] # {}
        /\ phase # "gone" =>
             \E u \in [0..Len(outbox) -> Position] :
               /\ Through(u, position, outbox)
               /\ \A k \in 1..Len(outbox) :
                    outbox[k].type = "bestmove" => outbox[k].move \in Legal[u[k - 1]]
               /\ u[Len(outbox)] = t[Len(inbox)]
  BY DEF BoardsMeet
<1>2. PICK s \in [0..Len(Tail(inbox)) -> Position] :
        /\ Through(s, Effect(b, Head(inbox)), Tail(inbox))
        /\ \A k \in 0..Len(Tail(inbox)) : s[k] = t[k + 1]
        /\ s[Len(Tail(inbox))] = t[Len(inbox)]
  BY <1>0, <1>1, ThroughHandled
<1>3. /\ Len(inbox) \in Nat /\ Len(inbox) > 0 /\ Len(Tail(inbox)) = Len(inbox) - 1
      /\ Head(inbox) = inbox[1] /\ Head(inbox) \in Message
      /\ \A k \in 1..(Len(inbox) - 1) : Tail(inbox)[k] = inbox[k + 1]
  BY <1>0, Taken
<1>4. ASSUME NEW k \in 1..Len(Tail(inbox)), Tail(inbox)[k].type = "go"
      PROVE  Legal[s[k]] # {}
  <2>1. k + 1 \in 1..Len(inbox) /\ Tail(inbox)[k] = inbox[k + 1] /\ s[k] = t[k + 1]
    BY <1>2, <1>3
  <2> QED
    BY <1>1, <1>4, <2>1
<1>5. phase # "gone" =>
        \E v \in [0..Len(outbox') -> Position] :
          /\ Through(v, position', outbox')
          /\ \A k \in 1..Len(outbox') :
               outbox'[k].type = "bestmove" => outbox'[k].move \in Legal[v[k - 1]]
          /\ v[Len(outbox')] = t[Len(inbox)]
  BY <1>1, AnswersAppend
<1>6. BoardsMeet'
  <2>1. Through(s, b', inbox') /\ s \in [0..Len(inbox') -> Position]
        /\ s[Len(inbox')] = t[Len(inbox)]
    BY <1>2
  <2>2. \A k \in 1..Len(inbox') : inbox'[k].type = "go" => Legal[s[k]] # {}
    BY <1>4
  <2>3. \E x \in [0..Len(inbox') -> Position] :
          /\ Through(x, b', inbox')
          /\ \A k \in 1..Len(inbox') : inbox'[k].type = "go" => Legal[x[k]] # {}
          /\ phase' # "gone" =>
               \E v \in [0..Len(outbox') -> Position] :
                 /\ Through(v, position', outbox')
                 /\ \A k \in 1..Len(outbox') :
                      outbox'[k].type = "bestmove" => outbox'[k].move \in Legal[v[k - 1]]
                 /\ v[Len(outbox')] = x[Len(inbox')]
    BY <1>5, <2>1, <2>2
  <2> QED
    BY <2>3 DEF BoardsMeet, Through
<1>7. Head(inbox).type = "go" => Legal[b] # {}
  <2>1. ASSUME Head(inbox).type = "go"
        PROVE  t[1] = b
    <3>1. 1 \in 1..Len(inbox) /\ t[1] = Effect(t[1 - 1], inbox[1]) /\ t[0] = b
      BY <1>1, <1>3 DEF Through
    <3>2. b \in Position
      BY DEF TypeOK
    <3> QED
      BY <1>3, <2>1, <3>1, <3>2, EffectFacts
  <2> QED
    BY <1>1, <1>3, <2>1
<1> QED
  BY <1>6, <1>7

(* The engine's move is played and sent: both sides take the same step.    *)
LEMMA BoardsPlayed ==
  ASSUME TypeOK, BoardsMeet, UNCHANGED <<inbox, position, phase>>,
         best_move \in Legal[b], b' = Do[b][best_move], Broadcast("bestmove", best_move),
         \A k \in 1..Len(inbox) : inbox[k].type \in Harmless
  PROVE  BoardsMeet'
<1> DEFINE ans == [type |-> "bestmove", move |-> best_move]
           q == Append(outbox, ans)
           m == Len(outbox)
           n == Len(inbox)
<1>0. inbox \in Seq(Message) /\ outbox \in Seq(Answer) /\ b \in Position /\ ans \in Answer
  BY DEF TypeOK, Answer
<1>1. n \in Nat /\ outbox' = q /\ b' \in Position
  BY <1>0, LenProperties, DoFacts DEF Broadcast, TypeOK
<1>2. PICK t \in [0..Len(inbox) -> Position] :
        /\ Through(t, b, inbox)
        /\ phase # "gone" =>
             \E u \in [0..Len(outbox) -> Position] :
               /\ Through(u, position, outbox)
               /\ \A k \in 1..Len(outbox) :
                    outbox[k].type = "bestmove" => outbox[k].move \in Legal[u[k - 1]]
               /\ u[Len(outbox)] = t[Len(inbox)]
  BY DEF BoardsMeet
<1>3. t[n] = b
  BY <1>2, InboxConstant
<1> DEFINE s == [k \in 0..n |-> b']
<1>4. s \in [0..n -> Position] /\ \A k \in 0..n : s[k] = b'
  BY <1>1
<1>5. \A k \in 1..n : inbox[k] \in Message
  BY <1>0, ElementOfSeq
<1> HIDE DEF s
<1>6. Through(s, b', inbox)
  <2>1. ASSUME NEW k \in 1..n
        PROVE  s[k] = Effect(s[k - 1], inbox[k])
    <3>1. k \in 0..n /\ k - 1 \in 0..n /\ s[k] = b' /\ s[k - 1] = b'
      BY <1>1, <1>4
    <3>2. inbox[k].type \notin {"ucinewgame", "position", "bestmove"}
      BY DEF Harmless
    <3> QED
      BY <1>1, <1>5, <3>1, <3>2, EffectFacts
  <2>2. s[0] = b'
    BY <1>1, <1>4
  <2> QED
    BY <2>1, <2>2 DEF Through
<1>7. ASSUME phase # "gone"
      PROVE  \E v \in [0..Len(q) -> Position] :
               /\ Through(v, position, q)
               /\ \A k \in 1..Len(q) : q[k].type = "bestmove" => q[k].move \in Legal[v[k - 1]]
               /\ v[Len(q)] = s[n]
  <2>1. PICK u \in [0..Len(outbox) -> Position] :
          /\ Through(u, position, outbox)
          /\ \A k \in 1..Len(outbox) :
               outbox[k].type = "bestmove" => outbox[k].move \in Legal[u[k - 1]]
          /\ u[Len(outbox)] = b
    BY <1>2, <1>3, <1>7
  <2>2. PICK v \in [0..Len(Append(outbox, ans)) -> Position] :
          /\ Through(v, position, Append(outbox, ans))
          /\ \A k \in 0..Len(outbox) : v[k] = u[k]
          /\ v[Len(Append(outbox, ans))] = Effect(u[Len(outbox)], ans)
    <3> HIDE DEF ans
    <3> QED
      BY <1>0, <2>1, ThroughAnswered
  <2>3. /\ m \in Nat /\ Len(q) = m + 1 /\ q[m + 1] = ans
        /\ \A k \in 1..m : q[k] = outbox[k]
    <3> HIDE DEF ans
    <3> QED
      BY <1>0, Appended
  <2>4. Effect(u[Len(outbox)], ans) = b'
    BY <2>1 DEF Effect
  <2>5. v[Len(q)] = s[n]
    BY <1>1, <1>4, <2>2, <2>4
  <2>6. ASSUME NEW k \in 1..Len(q), q[k].type = "bestmove"
        PROVE  q[k].move \in Legal[v[k - 1]]
    <3>1. CASE k \in 1..m
      <4>1. q[k] = outbox[k] /\ v[k - 1] = u[k - 1]
        BY <2>2, <2>3, <3>1
      <4> QED
        BY <2>1, <2>6, <3>1, <4>1
    <3>2. CASE k = m + 1
      <4>1. q[k] = ans /\ v[k - 1] = u[m]
        BY <2>2, <2>3, <3>2
      <4> QED
        BY <2>1, <4>1
    <3> QED
      BY <2>3, <3>1, <3>2
  <2> QED
    BY <2>2, <2>5, <2>6
<1>8. \A k \in 1..n : inbox[k].type # "go"
  BY DEF Harmless
<1> HIDE DEF q, n
<1>9. \E x \in [0..Len(inbox') -> Position] :
        /\ Through(x, b', inbox')
        /\ \A k \in 1..Len(inbox') : inbox'[k].type = "go" => Legal[x[k]] # {}
        /\ phase' # "gone" =>
             \E v \in [0..Len(outbox') -> Position] :
               /\ Through(v, position', outbox')
               /\ \A k \in 1..Len(outbox') :
                    outbox'[k].type = "bestmove" => outbox'[k].move \in Legal[v[k - 1]]
               /\ v[Len(outbox')] = x[Len(inbox')]
  BY <1>1, <1>4, <1>6, <1>7, <1>8 DEF n
<1> QED
  BY <1>9 DEF BoardsMeet, Through

(* The client takes the step that it is told of.                           *)
LEMMA BoardsReceived ==
  ASSUME TypeOK, BoardsMeet, UNCHANGED <<inbox, b>>, outbox # <<>>, outbox' = Tail(outbox),
         phase' = "gone" <=> phase = "gone",
         phase # "gone" => position' = Effect(position, Head(outbox))
  PROVE  BoardsMeet'
<1>0. outbox \in Seq(Answer)
  BY DEF TypeOK
<1>1. PICK t \in [0..Len(inbox) -> Position] :
        /\ Through(t, b, inbox)
        /\ \A k \in 1..Len(inbox) : inbox[k].type = "go" => Legal[t[k]] # {}
        /\ phase # "gone" =>
             \E u \in [0..Len(outbox) -> Position] :
               /\ Through(u, position, outbox)
               /\ \A k \in 1..Len(outbox) :
                    outbox[k].type = "bestmove" => outbox[k].move \in Legal[u[k - 1]]
               /\ u[Len(outbox)] = t[Len(inbox)]
  BY DEF BoardsMeet
<1>2. ASSUME phase # "gone"
      PROVE  \E v \in [0..Len(Tail(outbox)) -> Position] :
               /\ Through(v, position', Tail(outbox))
               /\ \A k \in 1..Len(Tail(outbox)) :
                    Tail(outbox)[k].type = "bestmove" => Tail(outbox)[k].move \in Legal[v[k - 1]]
               /\ v[Len(Tail(outbox))] = t[Len(inbox)]
  <2>1. PICK u \in [0..Len(outbox) -> Position] :
          /\ Through(u, position, outbox)
          /\ \A k \in 1..Len(outbox) :
               outbox[k].type = "bestmove" => outbox[k].move \in Legal[u[k - 1]]
          /\ u[Len(outbox)] = t[Len(inbox)]
    BY <1>1, <1>2
  <2>2. PICK v \in [0..Len(Tail(outbox)) -> Position] :
          /\ Through(v, Effect(position, Head(outbox)), Tail(outbox))
          /\ \A k \in 0..Len(Tail(outbox)) : v[k] = u[k + 1]
          /\ v[Len(Tail(outbox))] = u[Len(outbox)]
    BY <1>0, <2>1, ThroughReceived
  <2>3. /\ Len(outbox) \in Nat /\ Len(Tail(outbox)) = Len(outbox) - 1
        /\ \A k \in 1..(Len(outbox) - 1) : Tail(outbox)[k] = outbox[k + 1]
    BY <1>0, Taken
  <2>4. ASSUME NEW k \in 1..Len(Tail(outbox)), Tail(outbox)[k].type = "bestmove"
        PROVE  Tail(outbox)[k].move \in Legal[v[k - 1]]
    <3>1. /\ k + 1 \in 1..Len(outbox) /\ (k + 1) - 1 = k /\ k - 1 \in 0..Len(Tail(outbox))
          /\ (k - 1) + 1 = k /\ Tail(outbox)[k] = outbox[k + 1]
      BY <2>3
    <3>2. v[k - 1] = u[k]
      BY <2>2, <3>1
    <3>3. outbox[k + 1].move \in Legal[u[(k + 1) - 1]]
      BY <2>1, <2>4, <3>1
    <3> QED
      BY <3>1, <3>2, <3>3
  <2>5. Through(v, position', Tail(outbox))
    BY <1>2, <2>2
  <2> QED
    BY <2>1, <2>2, <2>4, <2>5
<1>3. \E x \in [0..Len(inbox') -> Position] :
        /\ Through(x, b', inbox')
        /\ \A k \in 1..Len(inbox') : inbox'[k].type = "go" => Legal[x[k]] # {}
        /\ phase' # "gone" =>
             \E v \in [0..Len(outbox') -> Position] :
               /\ Through(v, position', outbox')
               /\ \A k \in 1..Len(outbox') :
                    outbox'[k].type = "bestmove" => outbox'[k].move \in Legal[v[k - 1]]
               /\ v[Len(outbox')] = x[Len(inbox')]
  BY <1>1, <1>2
<1> QED
  BY <1>3 DEF BoardsMeet, Through

(***************************************************************************)
(* The client.                                                             *)
(***************************************************************************)

(* What is in a queue after something was added.                           *)
LEMMA InboxAppended ==
  ASSUME TypeOK, NEW msg \in Message, inbox' = Append(inbox, msg)
  PROVE  /\ Len(inbox) \in Nat /\ Len(inbox') = Len(inbox) + 1
         /\ \A k \in 1..Len(inbox) : inbox'[k] = inbox[k]
         /\ \E k \in 1..Len(inbox') : inbox'[k] = msg
         /\ \A k \in 1..Len(inbox') :
              inbox'[k] = msg \/ \E j \in 1..Len(inbox) : inbox'[k] = inbox[j]
<1>1. inbox \in Seq(Message)
  BY DEF TypeOK
<1> QED
  BY <1>1, Appended

LEMMA SendMInv ==
  ASSUME TypeOK, MInv, running, NEW msg \in Message, inbox' = Append(inbox, msg),
         UNCHANGED <<server, engine, outbox>>, Client_OK', phase # "gone",
         InOrder', InPhase', BoardsMeet',
         msg.type \notin Harmless => phase # "stopping",
         phase = "stopping" => phase' \in {"stopping", "gone"},
         Patient /\ program = "rollerball" /\ msg.type = "stop" => found /\ game # "none"
  PROVE  MInv'
<1>1. UNCHANGED <<program, b, net, process, game, search, best_move, copy, found>>
  BY DEF server, engine
<1>2. InOrder /\ InPhase /\ OneMove /\ OnBoard /\ Finishing
  BY DEF MInv
<1>3. \A k \in 1..Len(inbox') :
        inbox'[k] = msg \/ \E j \in 1..Len(inbox) : inbox'[k] = inbox[j]
  BY InboxAppended
<1>4. OneMove'
  BY <1>1, <1>2, <1>3 DEF OneMove
<1>5. OnBoard'
  BY <1>1, <1>2 DEF OnBoard
<1>6. Finishing'
  BY <1>1, <1>2, <1>3 DEF Finishing
<1> QED
  BY <1>1, <1>4, <1>5, <1>6 DEF MInv, running

LEMMA SendFacts ==
  ASSUME NEW type, NEW last, Send(type, last)
  PROVE  /\ running /\ inbox' = Append(inbox, [type |-> type, last |-> last])
         /\ UNCHANGED <<server, engine, outbox>>
         /\ UNCHANGED <<program, b, net, process, game, search, best_move, copy, found>>
BY DEF Send, Arrive, server, engine

(* A client at its own or the opponent's turn to move: the server is idle. *)
LEMMA IdleFacts ==
  ASSUME IInv, MInv, running, phase \in {"opponent", "engine"}
  PROVE  /\ game = "none" /\ net # "joining"
         /\ \A k \in 1..Len(inbox) : inbox[k].type \notin {"go", "stop"}
         /\ \A k \in 1..Len(outbox) : outbox[k].type # "bestmove"
<1>1. InPhase /\ OneMove
  BY DEF MInv
<1>2. \A k \in 1..Len(outbox) : outbox[k].type # "bestmove"
  BY <1>1, NoMoveOnWay
<1>3. net = "joining" => game # "none"
  BY DEF IInv, StopNotLost
<1> QED
  BY <1>1, <1>2, <1>3 DEF InPhase

(* A message of the game is sent: a new one, its start, or a move.         *)
LEMMA SendGameMInv ==
  ASSUME IInv, MInv, running, phase \in {"opponent", "engine"},
         NEW msg \in Message, msg.type \in {"ucinewgame", "position"},
         inbox' = Append(inbox, msg), UNCHANGED <<server, engine, outbox>>,
         phase' \in {"opponent", "engine"}, position' = Effect(position, msg)
  PROVE  MInv'
<1>1. UNCHANGED <<b, net, process, game>>
  BY DEF server, engine
<1>2. TypeOK /\ Client_OK /\ InOrder /\ InPhase /\ BoardsMeet
  BY DEF IInv, MInv
<1>3. /\ game = "none" /\ net # "joining"
      /\ \A k \in 1..Len(inbox) : inbox[k].type \notin {"go", "stop"}
      /\ \A k \in 1..Len(outbox) : outbox[k].type # "bestmove"
  BY IdleFacts
<1>4. InOrder'
  BY <1>1, <1>2, <1>3, InOrderAppend
<1>5. BoardsMeet'
  BY <1>1, <1>2, <1>3, BoardsAppend
<1>6. InPhase'
  <2>1. \A k \in 1..Len(inbox') : inbox'[k].type \notin {"go", "stop"}
    BY <1>2, <1>3, InboxAppended
  <2> QED
    BY <1>1, <1>3, <2>1 DEF InPhase
<1>7. Client_OK'
  BY <1>2, EffectFacts DEF Client_OK
<1> QED
  BY <1>2, <1>4, <1>5, <1>6, <1>7, SendMInv

LEMMA GameMInv ==
  ASSUME IInv, MInv, SendNewGame \/ SendStart \/ SendMove
  PROVE  MInv'
<1>0. position \in Position /\ Legal[position] \subseteq MoveCode
  BY ServerAssumption DEF MInv, Client_OK
<1>1. CASE SendNewGame
  <2> DEFINE msg == [type |-> "ucinewgame", last |-> NoMove]
  <2>1. msg \in Message /\ msg.type = "ucinewgame" /\ Effect(position, msg) = StartPosition
    BY DEF Message, Plain, Effect
  <2>2. /\ running /\ inbox' = Append(inbox, msg) /\ UNCHANGED <<server, engine, outbox>>
        /\ phase \in {"opponent", "engine"} /\ phase' \in {"opponent", "engine"}
        /\ position' = StartPosition
    BY <1>1, SendFacts DEF SendNewGame
  <2> HIDE DEF msg
  <2> QED
    BY <2>1, <2>2, SendGameMInv
<1>2. CASE SendStart
  <2> DEFINE msg == [type |-> "position", last |-> NoMove]
  <2>1. msg \in Message /\ msg.type = "position" /\ Effect(position, msg) = position
    BY DEF Message, Effect
  <2>2. /\ running /\ inbox' = Append(inbox, msg) /\ UNCHANGED <<server, engine, outbox>>
        /\ phase = "engine" /\ phase' = phase /\ position' = position
    BY <1>2, SendFacts DEF SendStart, client
  <2> HIDE DEF msg
  <2> QED
    BY <2>1, <2>2, SendGameMInv
<1>3. CASE SendMove
  <2>1. PICK m \in Legal[position] : Send("position", m) /\ position' = Do[position][m]
    BY <1>3 DEF SendMove
  <2> DEFINE msg == [type |-> "position", last |-> m]
  <2>2. m \in MoveCode /\ m # NoMove
    BY <1>0, ServerAssumption
  <2>3. msg \in Message /\ msg.type = "position" /\ Effect(position, msg) = Do[position][m]
    BY <2>2 DEF Message, Effect
  <2>4. /\ running /\ inbox' = Append(inbox, msg) /\ UNCHANGED <<server, engine, outbox>>
        /\ phase = "opponent" /\ phase' = "engine"
    BY <1>3, <2>1, SendFacts DEF SendMove
  <2> HIDE DEF msg
  <2> QED
    BY <2>1, <2>3, <2>4, SendGameMInv
<1> QED
  BY <1>1, <1>2, <1>3

(* A search is asked for.                                                  *)
LEMMA GoMInv ==
  ASSUME IInv, MInv, SendGo
  PROVE  MInv'
<1> DEFINE msg == [type |-> "go", last |-> NoMove]
<1>1. /\ running /\ inbox' = Append(inbox, msg) /\ UNCHANGED <<server, engine, outbox>>
      /\ UNCHANGED <<b, net, process, game, position>>
      /\ phase = "engine" /\ phase' = "thinking" /\ Legal[position] # {}
  BY SendFacts DEF SendGo
<1>2. msg \in Message /\ msg.type = "go"
  BY DEF Message, Plain
<1> HIDE DEF msg
<1>3. TypeOK /\ Client_OK /\ InOrder /\ InPhase /\ BoardsMeet
  BY <1>1 DEF IInv, MInv
<1>4. /\ game = "none" /\ net # "joining"
      /\ \A k \in 1..Len(inbox) : inbox[k].type \notin {"go", "stop"}
      /\ \A k \in 1..Len(outbox) : outbox[k].type # "bestmove"
  BY <1>1, IdleFacts
<1>5. InOrder'
  BY <1>1, <1>2, <1>3, <1>4, InOrderAppend
<1>6. BoardsMeet'
  BY <1>1, <1>2, <1>3, <1>4, BoardsAppend
<1>7. InPhase'
  <2>1. \A k \in 1..Len(inbox') : inbox'[k].type # "stop"
    BY <1>1, <1>2, <1>3, <1>4, InboxAppended
  <2>2. \E k \in 1..Len(inbox') : inbox'[k].type = "go"
    BY <1>1, <1>2, <1>3, InboxAppended
  <2>3. net' = "ready"
    BY <1>1, <1>3, <1>4 DEF TypeOK
  <2> QED
    BY <1>1, <2>1, <2>2, <2>3 DEF InPhase
<1>8. Client_OK'
  BY <1>1, <1>3 DEF Client_OK
<1> QED
  BY <1>1, <1>2, <1>3, <1>5, <1>6, <1>7, <1>8, SendMInv

(* It is told to stop.                                                     *)
LEMMA StopMInv ==
  ASSUME IInv, MInv, SendStop
  PROVE  MInv'
<1> DEFINE msg == [type |-> "stop", last |-> NoMove]
<1>1. /\ running /\ inbox' = Append(inbox, msg) /\ UNCHANGED <<server, engine, outbox>>
      /\ UNCHANGED <<b, net, process, game, position>>
      /\ phase = "thinking" /\ phase' = "stopping"
      /\ Patient /\ program = "rollerball" => found /\ game # "none"
  BY SendFacts DEF SendStop
<1>2. msg \in Message /\ msg.type = "stop"
  BY DEF Message, Plain
<1> HIDE DEF msg
<1>3. TypeOK /\ Client_OK /\ InOrder /\ InPhase /\ BoardsMeet
  BY <1>1 DEF IInv, MInv
<1>4. /\ net # "joining" /\ \A k \in 1..Len(inbox) : inbox[k].type # "stop"
      /\ game # "none" \/ \E k \in 1..Len(inbox) : inbox[k].type = "go"
  BY <1>1, <1>3 DEF InPhase
<1>5. InOrder'
  BY <1>1, <1>2, <1>3, <1>4, InOrderAppend
<1>6. BoardsMeet'
  BY <1>1, <1>2, <1>3, <1>4, BoardsAppend
<1>7. InPhase'
  BY <1>1 DEF InPhase
<1>8. Client_OK'
  BY <1>1, <1>3 DEF Client_OK
<1> QED
  BY <1>1, <1>2, <1>3, <1>5, <1>6, <1>7, <1>8, SendMInv

(* A ping or a quit.                                                       *)
LEMMA HarmlessMInv ==
  ASSUME IInv, MInv, SendPing \/ SendQuit
  PROVE  MInv'
<1>1. PICK type \in Harmless :
        /\ phase # "gone" /\ Send(type, NoMove) /\ UNCHANGED position
        /\ phase' = IF type = "quit" THEN "gone" ELSE phase
  BY DEF SendPing, SendQuit, Harmless, client
<1> DEFINE msg == [type |-> type, last |-> NoMove]
<1>2. /\ running /\ inbox' = Append(inbox, msg) /\ UNCHANGED <<server, engine, outbox>>
      /\ UNCHANGED <<b, net, process, game>>
  BY <1>1, SendFacts
<1>3. msg \in Message /\ msg.type = type /\ msg.type \in Harmless
      /\ msg.type # "empty"
      /\ msg.type \notin {"go", "stop", "ucinewgame", "position"}
  BY <1>1 DEF Message, Plain, Harmless
<1> HIDE DEF msg
<1>4. TypeOK /\ Client_OK /\ InOrder /\ InPhase /\ BoardsMeet
  BY <1>2 DEF IInv, MInv
<1>5. InOrder'
  BY <1>1, <1>2, <1>3, <1>4, InOrderAppend
<1>6. BoardsMeet'
  BY <1>1, <1>2, <1>3, <1>4, BoardsAppend
<1>7. InPhase'
  <2>1. phase' # "gone" => phase' = phase
    BY <1>1
  <2>2. /\ \A k \in 1..Len(inbox') :
              inbox'[k] = msg \/ \E j \in 1..Len(inbox) : inbox'[k] = inbox[j]
        /\ \A k \in 1..Len(inbox) : k \in 1..Len(inbox') /\ inbox'[k] = inbox[k]
    BY <1>2, <1>3, <1>4, InboxAppended
  <2>3. CASE phase' = "gone"
    BY <2>3 DEF InPhase
  <2>4. CASE phase' = phase
    BY <1>2, <1>3, <1>4, <2>2, <2>4 DEF InPhase
  <2> QED
    BY <2>1, <2>3, <2>4
<1>8. Client_OK'
  BY <1>1, <1>4 DEF Client_OK
<1> QED
  BY <1>1, <1>2, <1>3, <1>4, <1>5, <1>6, <1>7, <1>8, SendMInv

(* An answer is received.                                                  *)
LEMMA ReceiveMInv ==
  ASSUME IInv, MInv, Receive
  PROVE  MInv'
<1>1. /\ outbox # <<>> /\ outbox' = Tail(outbox) /\ UNCHANGED <<inbox, server, engine>>
      /\ UNCHANGED <<program, b, net, process, game, search, best_move, copy, found>>
  BY DEF Receive, Deliver, server, engine
<1>2. TypeOK /\ Client_OK /\ outbox \in Seq(Answer) /\ position \in Position
  BY DEF IInv, MInv, TypeOK, Client_OK
<1>3. /\ Len(outbox) \in Nat /\ Len(outbox) > 0 /\ Len(outbox') = Len(outbox) - 1
      /\ Head(outbox) = outbox[1] /\ Head(outbox) \in Answer
      /\ \A k \in 1..(Len(outbox) - 1) : outbox'[k] = outbox[k + 1]
  BY <1>1, <1>2, Taken
<1>4. Effect(position, Head(outbox)) \in Position
  BY <1>2, <1>3, EffectFacts
<1>5. phase # "gone" => position' = Effect(position, Head(outbox))
  <2>1. CASE Head(outbox).type = "bestmove"
    BY <2>1 DEF Receive, Effect
  <2>2. CASE Head(outbox).type # "bestmove"
    <3>1. Head(outbox).type \notin {"ucinewgame", "position", "bestmove"}
      BY <1>3, <2>2 DEF Answer
    <3> QED
      BY <1>2, <1>3, <2>2, <3>1, EffectFacts DEF Receive, client
  <2> QED
    BY <2>1, <2>2
<1>6. phase = "gone" => phase' = "gone" /\ position' = position
  BY DEF Receive, client
<1>7. Client_OK' /\ (phase' = "gone" <=> phase = "gone")
  BY <1>2, <1>4, <1>5, <1>6 DEF Client_OK, Receive, client
<1>8. ASSUME running
      PROVE  InOrder' /\ InPhase' /\ OneMove' /\ OnBoard' /\ Finishing' /\ BoardsMeet'
  <2>1. InOrder /\ InPhase /\ OneMove /\ OnBoard /\ Finishing /\ BoardsMeet
    BY <1>8 DEF MInv
  <2>2. BoardsMeet'
    BY <1>1, <1>2, <1>5, <1>7, <2>1, BoardsReceived
  <2>3. InOrder' /\ OnBoard' /\ Finishing'
    BY <1>1, <1>7, <2>1 DEF InOrder, OnBoard, Finishing
  <2>4. CASE Head(outbox).type = "bestmove" /\ phase # "gone"
    <3>1. phase' = "opponent"
      BY <2>4 DEF Receive
    <3>2. 1 \in 1..Len(outbox) /\ outbox[1].type = "bestmove"
      BY <1>3, <2>4
    <3>3. /\ game = "none" /\ \A i \in 1..Len(inbox) : inbox[i].type \in Harmless
          /\ \A j \in 1..Len(outbox) : outbox[j].type = "bestmove" => j = 1
      BY <2>1, <3>2 DEF OneMove
    <3>4. \A k \in 1..Len(outbox') : outbox'[k].type # "bestmove"
      <4>1. \A k \in 1..Len(outbox') :
              k + 1 \in 1..Len(outbox) /\ k + 1 # 1 /\ outbox'[k] = outbox[k + 1]
        BY <1>3
      <4> QED
        BY <3>3, <4>1
    <3>5. OneMove'
      BY <3>4 DEF OneMove
    <3>6. InPhase'
      BY <1>1, <3>1, <3>3 DEF InPhase, Harmless
    <3> QED
      BY <2>2, <2>3, <3>5, <3>6
  <2>5. CASE ~(Head(outbox).type = "bestmove" /\ phase # "gone")
    <3>1. phase' = phase
      BY <2>5 DEF Receive, client
    <3>2. InPhase'
      BY <1>1, <2>1, <3>1 DEF InPhase
    <3>3. \A k \in 1..Len(outbox') : k + 1 \in 1..Len(outbox) /\ outbox'[k] = outbox[k + 1]
      BY <1>3
    <3>4. OneMove'
      <4>1. ASSUME NEW k \in 1..Len(outbox'), outbox'[k].type = "bestmove"
            PROVE  /\ game = "none" /\ phase \in {"stopping", "gone"}
                   /\ \A i \in 1..Len(inbox) : inbox[i].type \in Harmless
                   /\ \A j \in 1..Len(outbox') : outbox'[j].type = "bestmove" => j = k
        <5>1. k + 1 \in 1..Len(outbox) /\ outbox[k + 1].type = "bestmove"
          BY <3>3, <4>1
        <5>2. /\ game = "none" /\ phase \in {"stopping", "gone"}
              /\ \A i \in 1..Len(inbox) : inbox[i].type \in Harmless
              /\ \A j \in 1..Len(outbox) : outbox[j].type = "bestmove" => j = k + 1
          BY <2>1, <5>1 DEF OneMove
        <5>3. \A j \in 1..Len(outbox') : outbox'[j].type = "bestmove" => j + 1 = k + 1
          BY <3>3, <5>2
        <5> QED
          BY <5>2, <5>3
      <4> QED
        BY <1>1, <3>1, <4>1 DEF OneMove
    <3> QED
      BY <2>2, <2>3, <3>2, <3>4
  <2> QED
    BY <2>4, <2>5
<1> QED
  BY <1>1, <1>6, <1>7, <1>8 DEF MInv, running

(***************************************************************************)
(* The network thread.                                                     *)
(***************************************************************************)

(* A handler has taken its message and done what Effect says.              *)
LEMMA HandledFacts ==
  ASSUME IInv, MInv, running, inbox # <<>>, inbox' = Tail(inbox), UNCHANGED client,
         b' = Effect(b, Head(inbox)), net = "ready",
         \/ outbox' = outbox
         \/ \E ans \in Answer : ans.type # "bestmove" /\ outbox' = Append(outbox, ans),
         game # "none" => game' # "none",
         Head(inbox).type = "go" <=> (game = "none" /\ game' # "none"),
         net' = IF Head(inbox).type = "stop" THEN "joining" ELSE "ready"
  PROVE  InOrder' /\ InPhase' /\ OneMove' /\ BoardsMeet'
<1>1. TypeOK /\ InOrder /\ InPhase /\ OneMove /\ BoardsMeet
  BY DEF IInv, MInv
<1>2. UNCHANGED <<position, phase>>
  BY DEF client
<1>3. InOrder'
  BY <1>1, <1>2, InOrderTail
<1>4. BoardsMeet'
  BY <1>1, <1>2, BoardsTail
<1>5. /\ Len(inbox) \in Nat /\ Len(inbox) > 0 /\ Len(inbox') = Len(inbox) - 1
      /\ Head(inbox) = inbox[1] /\ 1 \in 1..Len(inbox)
      /\ \A k \in 1..(Len(inbox) - 1) : inbox'[k] = inbox[k + 1]
  <2>1. inbox \in Seq(Message)
    BY <1>1 DEF TypeOK
  <2> QED
    BY <2>1, Taken
<1>6. \A k \in 1..Len(inbox') : k + 1 \in 1..Len(inbox) /\ inbox'[k] = inbox[k + 1]
  BY <1>5
<1>7. InPhase'
  <2>1. CASE phase \in {"opponent", "engine"}
    <3>1. game = "none" /\ \A k \in 1..Len(inbox) : inbox[k].type \notin {"go", "stop"}
      BY <1>1, <2>1 DEF InPhase
    <3>2. game' = "none" /\ \A k \in 1..Len(inbox') : inbox'[k].type \notin {"go", "stop"}
      BY <1>5, <1>6, <3>1
    <3> QED
      BY <1>2, <2>1, <3>2 DEF InPhase
  <2>2. CASE phase = "thinking"
    <3>1. /\ \A k \in 1..Len(inbox) : inbox[k].type # "stop"
          /\ game # "none" \/ \E k \in 1..Len(inbox) : inbox[k].type = "go"
      BY <1>1, <2>2 DEF InPhase
    <3>2. net' = "ready" /\ \A k \in 1..Len(inbox') : inbox'[k].type # "stop"
      BY <1>5, <1>6, <3>1
    <3>3. ASSUME game' = "none"
          PROVE  \E k \in 1..Len(inbox') : inbox'[k].type = "go"
      <4>1. PICK k \in 1..Len(inbox) : inbox[k].type = "go"
        BY <3>1, <3>3
      <4>2. k # 1
        BY <1>5, <3>1, <3>3, <4>1
      <4>3. k - 1 \in 1..Len(inbox') /\ (k - 1) + 1 = k
        BY <1>5, <4>2
      <4> QED
        BY <1>6, <4>1, <4>3
    <3> QED
      BY <1>2, <2>2, <3>2, <3>3 DEF InPhase
  <2>3. CASE phase \notin {"opponent", "engine", "thinking"}
    BY <1>2, <2>3 DEF InPhase
  <2> QED
    BY <2>1, <2>2, <2>3
<1>8. OneMove'
  <2>1. \A k \in 1..Len(outbox') : outbox'[k].type = "bestmove" =>
          k \in 1..Len(outbox) /\ outbox'[k] = outbox[k]
    <3>1. CASE outbox' = outbox
      BY <3>1
    <3>2. ASSUME NEW ans \in Answer, ans.type # "bestmove", outbox' = Append(outbox, ans)
          PROVE  \A k \in 1..Len(outbox') : outbox'[k].type = "bestmove" =>
                   k \in 1..Len(outbox) /\ outbox'[k] = outbox[k]
      <4>1. outbox \in Seq(Answer)
        BY <1>1 DEF TypeOK
      <4>2. /\ Len(outbox) \in Nat /\ Len(outbox') = Len(outbox) + 1
            /\ \A k \in 1..Len(outbox) : outbox'[k] = outbox[k]
            /\ outbox'[Len(outbox) + 1] = ans
        BY <3>2, <4>1, Appended
      <4> QED
        BY <3>2, <4>2
    <3> QED
      BY <3>1, <3>2
  <2>2. ASSUME NEW k \in 1..Len(outbox'), outbox'[k].type = "bestmove"
        PROVE  /\ game' = "none" /\ phase' \in {"stopping", "gone"}
               /\ \A i \in 1..Len(inbox') : inbox'[i].type \in Harmless
               /\ \A j \in 1..Len(outbox') : outbox'[j].type = "bestmove" => j = k
    <3>1. k \in 1..Len(outbox) /\ outbox[k].type = "bestmove"
      BY <2>1, <2>2
    <3>2. /\ game = "none" /\ phase \in {"stopping", "gone"}
          /\ \A i \in 1..Len(inbox) : inbox[i].type \in Harmless
          /\ \A j \in 1..Len(outbox) : outbox[j].type = "bestmove" => j = k
      BY <1>1, <3>1 DEF OneMove
    <3>3. game' = "none"
      BY <1>5, <3>2 DEF Harmless
    <3> QED
      BY <1>2, <1>6, <2>1, <3>2, <3>3
  <2> QED
    BY <2>2 DEF OneMove
<1> QED
  BY <1>3, <1>4, <1>7, <1>8

(* The message at the head of the queue comes at the right time.           *)
LEMMA HeadFacts ==
  ASSUME IInv, MInv, running, NEW type, Handle(type)
  PROVE  /\ inbox # <<>> /\ inbox' = Tail(inbox) /\ net = "ready" /\ UNCHANGED program
         /\ Head(inbox) \in Message /\ Head(inbox).type = type
         /\ game # "none" => type \in Harmless \cup {"stop"}
         /\ type = "stop" =>
              game # "none" /\ (Patient /\ program = "rollerball" => found)
         /\ type = "go" => Legal[b] # {}
         /\ type = "quit" => phase = "gone"
         /\ type # "empty"
         /\ \A k \in 1..Len(inbox') : \E j \in 1..Len(inbox) : inbox'[k] = inbox[j]
<1>1. TypeOK /\ InOrder /\ Finishing /\ BoardsMeet
  BY DEF IInv, MInv
<1>2. inbox # <<>> /\ inbox' = Tail(inbox) /\ net = "ready" /\ UNCHANGED program
      /\ Head(inbox).type = type
  BY DEF Handle
<1>3. /\ Len(inbox) \in Nat /\ Len(inbox) > 0 /\ Len(inbox') = Len(inbox) - 1
      /\ Head(inbox) = inbox[1] /\ Head(inbox) \in Message /\ 1 \in 1..Len(inbox)
      /\ \A k \in 1..(Len(inbox) - 1) : inbox'[k] = inbox[k + 1]
  <2>1. inbox \in Seq(Message)
    BY <1>1 DEF TypeOK
  <2> QED
    BY <1>2, <2>1, Taken
<1>4. type = "stop" => game # "none"
  <2>1. 1..(1 - 1) = {}
    OBVIOUS
  <2> QED
    BY <1>1, <1>2, <1>3, <2>1 DEF InOrder
<1>5. type = "go" => Legal[b] # {}
  <2>1. PICK t \in [0..Len(inbox) -> Position] :
          /\ Through(t, b, inbox)
          /\ \A k \in 1..Len(inbox) : inbox[k].type = "go" => Legal[t[k]] # {}
    BY <1>1 DEF BoardsMeet
  <2>2. t[1] = Effect(t[1 - 1], inbox[1]) /\ t[0] = b
    BY <1>3, <2>1 DEF Through
  <2>3. b \in Position
    BY <1>1 DEF TypeOK
  <2>4. type = "go" => t[1] = b
    <3>1. inbox[1] \in Message \cup Answer /\ 1 - 1 = 0
      BY <1>3
    <3> QED
      BY <1>2, <1>3, <2>2, <2>3, <3>1, EffectFacts
  <2> QED
    BY <1>2, <1>3, <2>1, <2>4
<1>6. /\ game # "none" => type \in Harmless \cup {"stop"}
      /\ type = "quit" => phase = "gone"
      /\ type # "empty"
  BY <1>1, <1>2, <1>3 DEF InOrder
<1>7. \A k \in 1..Len(inbox') : \E j \in 1..Len(inbox) : inbox'[k] = inbox[j]
  <2>1. \A k \in 1..Len(inbox') : k + 1 \in 1..Len(inbox) /\ inbox'[k] = inbox[k + 1]
    BY <1>3
  <2> QED
    BY <2>1
<1>8. type = "stop" => (Patient /\ program = "rollerball" => found)
  BY <1>1, <1>2, <1>3 DEF Finishing
<1> QED
  BY <1>2, <1>3, <1>4, <1>5, <1>6, <1>7, <1>8

(* uci, isready, and what the server does not know.                        *)
LEMMA PlainMInv ==
  ASSUME IInv, MInv, UNCHANGED client, on_uci \/ on_isready \/ unsupported
  PROVE  MInv'
<1>1. PICK type \in {"uci", "isready", "unsupported"} :
        /\ Handle(type) /\ UNCHANGED <<server, engine>>
        /\ \/ outbox' = outbox
           \/ \E ans \in Answer : ans.type # "bestmove" /\ outbox' = Append(outbox, ans)
  <2>1. CASE on_uci
    <3>1. [type |-> "uciok", move |-> NoMove] \in Answer
      BY DEF Answer
    <3> QED
      BY <2>1, <3>1 DEF on_uci, Broadcast
  <2>2. CASE on_isready
    <3>1. [type |-> "readyok", move |-> NoMove] \in Answer
      BY DEF Answer
    <3> QED
      BY <2>2, <3>1 DEF on_isready, Broadcast
  <2>3. CASE unsupported
    BY <2>3 DEF unsupported
  <2> QED
    BY <2>1, <2>2, <2>3
<1>2. running /\ UNCHANGED <<program, b, net, process, game, search, best_move, copy, found>>
  BY <1>1 DEF Handle, server, engine
<1>3. /\ inbox # <<>> /\ inbox' = Tail(inbox) /\ net = "ready"
      /\ Head(inbox) \in Message /\ Head(inbox).type = type
      /\ \A k \in 1..Len(inbox') : \E j \in 1..Len(inbox) : inbox'[k] = inbox[j]
  BY <1>1, <1>2, HeadFacts
<1>4. Head(inbox).type \notin {"go", "stop", "ucinewgame", "position", "bestmove"}
  BY <1>3
<1>5. b' = Effect(b, Head(inbox))
  BY <1>2, <1>3, <1>4, EffectFacts DEF IInv, TypeOK
<1>6. InOrder' /\ InPhase' /\ OneMove' /\ BoardsMeet'
  BY <1>1, <1>2, <1>3, <1>4, <1>5, HandledFacts
<1>7. OnBoard' /\ Finishing'
  BY <1>2, <1>3 DEF MInv, OnBoard, Finishing
<1> QED
  BY <1>2, <1>6, <1>7 DEF MInv, running, client, Client_OK

(* The board is written while there is no search.                          *)
LEMMA WriteMInv ==
  ASSUME IInv, MInv, UNCHANGED client, on_ucinewgame \/ on_position
  PROVE  MInv'
<1>1. PICK type \in {"ucinewgame", "position"} :
        Handle(type) /\ UNCHANGED <<net, process, outbox>>
  BY DEF on_ucinewgame, on_position
<1>2. running
  BY <1>1 DEF Handle
<1>3. /\ inbox # <<>> /\ inbox' = Tail(inbox) /\ net = "ready" /\ UNCHANGED program
      /\ Head(inbox) \in Message /\ Head(inbox).type = type
      /\ game # "none" => type \in Harmless \cup {"stop"}
      /\ \A k \in 1..Len(inbox') : \E j \in 1..Len(inbox) : inbox'[k] = inbox[j]
  BY <1>1, <1>2, HeadFacts
<1>4. game = "none" /\ Head(inbox).type \notin {"go", "stop", "bestmove"}
  BY <1>3 DEF Harmless
<1>5. /\ UNCHANGED <<game, search, best_move, found>> /\ b' = Effect(b, Head(inbox))
  <2>1. CASE on_ucinewgame
    BY <2>1 DEF on_ucinewgame, Handle, WriteBoard, Effect
  <2>2. CASE on_position
    <3>1. Head(inbox).type = "position"
      BY <2>2 DEF on_position, Handle
    <3> QED
      BY <2>2, <3>1 DEF on_position, WriteBoard, Effect, engine
  <2> QED
    BY <2>1, <2>2
<1>6. InOrder' /\ InPhase' /\ OneMove' /\ BoardsMeet'
  BY <1>1, <1>2, <1>3, <1>4, <1>5, HandledFacts
<1>7. OnBoard' /\ Finishing'
  BY <1>2, <1>3, <1>4, <1>5 DEF MInv, OnBoard, Finishing
<1> QED
  BY <1>1, <1>6, <1>7 DEF MInv, running, client, Client_OK

(* There is no thread when one is started, ...                             *)
LEMMA on_goMInv ==
  ASSUME IInv, MInv, UNCHANGED client, on_go
  PROVE  MInv'
<1>1. Handle("go") /\ running /\ search' = TRUE
      /\ UNCHANGED <<b, net, outbox, best_move, copy>>
  BY DEF on_go, Handle
<1>2. /\ inbox # <<>> /\ inbox' = Tail(inbox) /\ net = "ready" /\ UNCHANGED program
      /\ Head(inbox) \in Message /\ Head(inbox).type = "go" /\ Legal[b] # {}
      /\ game = "none"
      /\ \A k \in 1..Len(inbox') : \E j \in 1..Len(inbox) : inbox'[k] = inbox[j]
  BY <1>1, HeadFacts DEF Harmless
<1>3. game' = "started" /\ found' = FALSE /\ UNCHANGED process
  BY <1>2 DEF on_go
<1>4. b' = Effect(b, Head(inbox))
  BY <1>1, <1>2, EffectFacts DEF IInv, TypeOK
<1>5. InOrder' /\ InPhase' /\ OneMove' /\ BoardsMeet'
  BY <1>1, <1>2, <1>3, <1>4, HandledFacts
<1>6. OnBoard' /\ Finishing'
  BY <1>1, <1>2, <1>3 DEF MInv, OnBoard, Finishing
<1> QED
  BY <1>3, <1>5, <1>6 DEF MInv, running, client, Client_OK

(* ... and one when it is joined.                                          *)
LEMMA on_stopMInv ==
  ASSUME IInv, MInv, UNCHANGED client, on_stop
  PROVE  MInv'
<1>1. Handle("stop") /\ running /\ search' = FALSE
      /\ UNCHANGED <<b, outbox, game, best_move, copy, found>>
  BY DEF on_stop, Handle
<1>2. /\ inbox # <<>> /\ inbox' = Tail(inbox) /\ net = "ready" /\ UNCHANGED program
      /\ Head(inbox) \in Message /\ Head(inbox).type = "stop"
      /\ game # "none" /\ (Patient /\ program = "rollerball" => found)
      /\ \A k \in 1..Len(inbox') : \E j \in 1..Len(inbox) : inbox'[k] = inbox[j]
  BY <1>1, HeadFacts
<1>3. net' = "joining" /\ UNCHANGED process
  BY <1>2 DEF on_stop
<1>4. b' = Effect(b, Head(inbox))
  BY <1>1, <1>2, EffectFacts DEF IInv, TypeOK
<1>5. InOrder' /\ InPhase' /\ OneMove' /\ BoardsMeet'
  BY <1>1, <1>2, <1>3, <1>4, HandledFacts
<1>6. OnBoard' /\ Finishing'
  BY <1>1, <1>2, <1>3 DEF MInv, OnBoard, Finishing
<1> QED
  BY <1>3, <1>5, <1>6 DEF MInv, running, client, Client_OK

LEMMA on_quitMInv ==
  ASSUME IInv, MInv, UNCHANGED client, on_quit
  PROVE  MInv'
<1>1. Handle("quit") /\ running /\ process' = "exited"
  BY DEF on_quit, Handle
<1>2. phase = "gone"
  BY <1>1, HeadFacts
<1> QED
  BY <1>1, <1>2 DEF MInv, running, client, Client_OK

(* The client sends no empty message.                                      *)
LEMMA emptyMInv ==
  ASSUME IInv, MInv, empty
  PROVE  FALSE
<1>1. Handle("empty") /\ running
  BY DEF empty, Handle
<1> QED
  BY <1>1, HeadFacts

(* The search has been joined.  It was asked for on a board with a legal   *)
(* move, and if it has found one, that is what is played.                  *)
LEMMA JoinedMInv ==
  ASSUME IInv, MInv, UNCHANGED client, on_stop_joined
  PROVE  MInv'
<1>1. /\ running /\ net = "joining" /\ game = "finished" /\ game' = "none" /\ net' = "ready"
      /\ UNCHANGED <<program, inbox, search, best_move, copy, found>>
      /\ UNCHANGED <<position, phase>>
  BY DEF on_stop_joined, client
<1>2. TypeOK /\ Client_OK /\ InOrder /\ InPhase /\ OneMove /\ OnBoard /\ Finishing /\ BoardsMeet
  BY <1>1 DEF IInv, MInv
<1>3. Legal[b] # {} /\ (found => best_move \in Legal[b])
  BY <1>1, <1>2 DEF OnBoard
<1>4. Patient => found
  <2>1. ~search
    BY <1>1 DEF IInv, StopNotLost
  <2>2. program \in {"rollerball", "rollerball_py"}
    BY <1>2, ServerAssumption DEF TypeOK
  <2> QED
    BY <1>1, <1>2, <2>1, <2>2 DEF Finishing
<1>5. \/ ~Patient /\ process' = "illegal best move"
      \/ MoveChecked /\ PlayBest
  BY <1>3, <1>4 DEF on_stop_joined, MoveChecked, Fail
<1>6. CASE ~Patient /\ process' = "illegal best move"
  BY <1>1, <1>2, <1>6 DEF MInv, running, Client_OK
<1>7. CASE MoveChecked /\ PlayBest
  <2>1. /\ best_move \in Legal[b] /\ b' = Do[b][best_move]
        /\ Broadcast("bestmove", best_move) /\ UNCHANGED process
    BY <1>7 DEF MoveChecked, PlayBest
  <2>2. \A k \in 1..Len(inbox) : inbox[k].type \in Harmless
    BY <1>1, <1>2 DEF InOrder
  <2>3. phase \in {"stopping", "gone"}
    BY <1>1, <1>2 DEF Client_OK, InPhase
  <2>4. BoardsMeet'
    BY <1>1, <1>2, <2>1, <2>2, BoardsPlayed
  <2>5. InOrder' /\ InPhase'
    BY <1>1, <1>2, <2>2, <2>3 DEF InOrder, InPhase, Harmless
  <2>6. OnBoard' /\ Finishing'
    BY <1>1, <1>2, <2>2 DEF OnBoard, Finishing, Harmless
  <2>7. OneMove'
    <3> DEFINE ans == [type |-> "bestmove", move |-> best_move]
    <3>1. outbox \in Seq(Answer) /\ ans \in Answer /\ outbox' = Append(outbox, ans)
      BY <1>2, <2>1 DEF TypeOK, Answer, Broadcast
    <3> HIDE DEF ans
    <3>2. /\ Len(outbox) \in Nat /\ Len(outbox') = Len(outbox) + 1
          /\ \A k \in 1..Len(outbox) : outbox'[k] = outbox[k]
      BY <3>1, Appended
    <3>3. \A k \in 1..Len(outbox') : outbox'[k].type = "bestmove" => k = Len(outbox')
      BY <1>1, <1>2, <3>2 DEF OneMove
    <3> QED
      BY <1>1, <2>2, <2>3, <3>3 DEF OneMove
  <2> QED
    BY <1>1, <1>2, <2>1, <2>4, <2>5, <2>6, <2>7 DEF MInv, running, Client_OK
<1> QED
  BY <1>5, <1>6, <1>7

LEMMA NetworkMInv ==
  ASSUME IInv, MInv, UNCHANGED client, Network
  PROVE  MInv'
BY PlainMInv, WriteMInv, on_goMInv, on_stopMInv, JoinedMInv, on_quitMInv, emptyMInv
   DEF Network

(***************************************************************************)
(* The game thread.                                                        *)
(***************************************************************************)

(* A step of the search moves no message and no piece.                     *)
LEMMA SearchMInv ==
  ASSUME IInv, MInv, running, game # "none", game' # "none",
         UNCHANGED <<client, program, b, net, process, inbox, outbox, search>>,
         OnBoard', Finishing'
  PROVE  MInv'
<1>1. InOrder /\ InPhase /\ OneMove /\ BoardsMeet /\ Client_OK /\ UNCHANGED <<position, phase>>
  BY DEF MInv, client
<1>2. InOrder' /\ InPhase' /\ OneMove'
  BY <1>1 DEF InOrder, InPhase, OneMove
<1>3. BoardsMeet' /\ Client_OK'
  BY <1>1 DEF BoardsMeet, Through, Client_OK
<1> QED
  BY <1>2, <1>3 DEF MInv, running

LEMMA StepFacts ==
  ASSUME NEW from, Step(from)
  PROVE  running /\ game = from /\ UNCHANGED <<program, b, net, process, inbox, outbox, search>>
BY DEF Step, server

(* The board is copied as it is, because nobody writes it meanwhile, and   *)
(* the moves of the search are those of the board.                         *)
LEMMA ThreadMInv ==
  ASSUME IInv, MInv, UNCHANGED client, GameThread
  PROVE  MInv'
<1>0. TypeOK /\ InHand
  BY DEF IInv
<1>1. running /\ game # "none"
  BY StepFacts DEF GameThread, CopyBoard, BoardCopied, Deepen, Order_Children, Evaluate, Store,
                   EndIteration, find_best_move
<1>2. Legal[b] # {} /\ OnBoard /\ Finishing
  BY <1>1 DEF MInv, OnBoard
<1>3. b \in Position /\ b # Torn /\ program \in {"rollerball", "rollerball_py"}
  BY <1>0, ServerAssumption DEF TypeOK
<1>4. game # "started" => copy = b /\ copy # Torn /\ RootMoves = {Legal[b]}
  BY <1>1, <1>2, <1>3 DEF OnBoard, RootMoves
<1>5. CASE CopyBoard
  BY <1>0, <1>2, <1>5, StepFacts, SearchMInv DEF CopyBoard, OnBoard, Finishing
<1>6. CASE BoardCopied
  BY <1>0, <1>2, <1>6, StepFacts, SearchMInv DEF BoardCopied, OnBoard, Finishing
<1>7. CASE Deepen
  BY <1>0, <1>2, <1>7, StepFacts, SearchMInv DEF Deepen, OnBoard, Finishing
<1>8. CASE Order_Children
  <2>1. game' = "finished" => ~search
    BY <1>2, <1>4, <1>8 DEF Order_Children, Step
  <2>2. game = "ordering" /\ game' \in {"finished", "evaluating"}
        /\ UNCHANGED <<best_move, copy, found>>
    BY <1>8 DEF Order_Children, Step
  <2> QED
    BY <1>2, <1>8, <2>1, <2>2, StepFacts, SearchMInv DEF Order_Children, OnBoard, Finishing
<1>9. CASE Evaluate
  <2>1. game' = "finished" => ~search
    BY <1>9 DEF Evaluate
  <2>2. game = "evaluating" /\ game' \in {"finished", "storing", "iterated", "evaluating"}
        /\ UNCHANGED <<best_move, copy, found>>
    BY <1>9 DEF Evaluate, Step
  <2> QED
    BY <1>2, <1>9, <2>1, <2>2, StepFacts, SearchMInv DEF Evaluate, OnBoard, Finishing
<1>10. CASE Store
  <2>1. optimum \in Legal[b]
    BY <1>0, <1>4, <1>10 DEF Store, Step, InHand
  <2>2. game = "storing" /\ game' \in {"iterated", "evaluating"}
        /\ best_move' = optimum /\ found' = TRUE /\ UNCHANGED copy
    BY <1>10 DEF Store, Step
  <2> QED
    BY <1>2, <1>10, <2>1, <2>2, StepFacts, SearchMInv DEF Store, OnBoard, Finishing
<1>11. CASE EndIteration
  <2>1. optimum \in Legal[b]
    BY <1>0, <1>4, <1>11 DEF EndIteration, Step, InHand
  <2>2. game = "iterated" /\ game' \in {"deepening", "finished"} /\ (game' = "finished" => ~search)
        /\ best_move' \in {optimum, best_move} /\ UNCHANGED <<copy, found>>
    BY <1>11 DEF EndIteration, Step
  <2> QED
    BY <1>2, <1>11, <2>1, <2>2, StepFacts, SearchMInv DEF EndIteration, OnBoard, Finishing
<1>12. CASE find_best_move
  <2>1. game = "deepening" /\ program = "rollerball_py"
        /\ UNCHANGED <<program, b, net, inbox, outbox, search, copy>>
    BY <1>12 DEF find_best_move
  <2>2. PICK m \in Legal[b] : Chosen(m)
    BY <1>2, <1>4, <1>12, <2>1 DEF find_best_move
  <2>3. best_move' = m /\ found' = TRUE /\ game' = "finished" /\ UNCHANGED process
    BY <2>2 DEF Chosen
  <2>4. OnBoard' /\ Finishing'
    BY <1>2, <1>4, <2>1, <2>2, <2>3 DEF OnBoard, Finishing
  <2> QED
    BY <1>1, <2>1, <2>3, <2>4, SearchMInv
<1> QED
  BY <1>5, <1>6, <1>7, <1>8, <1>9, <1>10, <1>11, <1>12 DEF GameThread

(***************************************************************************)
(* The theorems.                                                           *)
(***************************************************************************)
LEMMA InitMInv == MInit => IInv /\ MInv
<1> SUFFICES ASSUME MInit PROVE IInv /\ MInv
  OBVIOUS
<1>1. IInv
  BY InitIInv DEF MInit
<1>2. /\ b = StartPosition /\ position = StartPosition /\ inbox = <<>> /\ outbox = <<>>
      /\ net = "ready" /\ process = "running" /\ game = "none" /\ found = FALSE
      /\ phase \in {"opponent", "engine"} /\ StartPosition \in Position
  BY ServerAssumption DEF MInit, Init
<1>3. Len(inbox) = 0 /\ Len(outbox) = 0 /\ 1..0 = {}
  BY <1>2
<1>4. InOrder /\ InPhase /\ OneMove /\ OnBoard /\ Finishing /\ Client_OK
  BY <1>2, <1>3 DEF InOrder, InPhase, OneMove, OnBoard, Finishing, Client_OK
<1>5. BoardsMeet
  <2> DEFINE t == [k \in 0..0 |-> StartPosition]
  <2>1. t \in [0..Len(inbox) -> Position] /\ t \in [0..Len(outbox) -> Position]
        /\ t[0] = StartPosition
    BY <1>2, <1>3
  <2> HIDE DEF t
  <2>2. Through(t, b, inbox) /\ Through(t, position, outbox)
    BY <1>2, <1>3, <2>1 DEF Through
  <2> QED
    BY <1>3, <2>1, <2>2 DEF BoardsMeet
<1> QED
  BY <1>1, <1>2, <1>4, <1>5 DEF MInv

(* What the client does, any client of the server may do.                  *)
LEMMA StepOfServer ==
  ASSUME Client_OK, MNext
  PROVE  Next
<1>1. ASSUME NEW type, NEW last, Send(type, last), [type |-> type, last |-> last] \in Message
      PROVE  Next
  BY <1>1 DEF Send, Next
<1>2. \A type \in Plain : [type |-> type, last |-> NoMove] \in Message
  BY DEF Message
<1>3. \A m \in MoveCode \cup {NoMove} : [type |-> "position", last |-> m] \in Message
  BY DEF Message
<1>4. Legal[position] \subseteq MoveCode
  BY ServerAssumption DEF Client_OK
<1>5. CASE SendNewGame \/ SendGo \/ SendStop \/ SendPing \/ SendQuit
  BY <1>1, <1>2, <1>5 DEF SendNewGame, SendGo, SendStop, SendPing, SendQuit, Plain
<1>6. CASE SendStart \/ SendMove
  BY <1>1, <1>3, <1>4, <1>6 DEF SendStart, SendMove
<1>7. CASE Receive \/ Network \/ GameThread
  BY <1>7 DEF Receive, Next
<1> QED
  BY <1>5, <1>6, <1>7 DEF MNext, Client

LEMMA StepMInv == IInv /\ MInv /\ [MNext]_mvars => IInv' /\ MInv'
<1> SUFFICES ASSUME IInv, MInv, [MNext]_mvars PROVE IInv' /\ MInv'
  OBVIOUS
<1>1. CASE MNext
  <2>1. IInv'
    BY <1>1, StepOfServer, StepIInv DEF MInv
  <2>2. CASE Client
    <3>1. CASE SendNewGame \/ SendStart \/ SendMove
      BY <2>1, <3>1, GameMInv
    <3>2. CASE SendGo
      BY <2>1, <3>2, GoMInv
    <3>3. CASE SendStop
      BY <2>1, <3>3, StopMInv
    <3>4. CASE SendPing \/ SendQuit
      BY <2>1, <3>4, HarmlessMInv
    <3> QED
      BY <2>2, <3>1, <3>2, <3>3, <3>4 DEF Client
  <2> QED
    BY <1>1, <2>1, <2>2, ReceiveMInv, NetworkMInv, ThreadMInv DEF MNext
<1>2. CASE UNCHANGED mvars
  <2>1. UNCHANGED uvars /\ UNCHANGED <<inbox, outbox>>
    BY <1>2 DEF mvars, uvars
  <2>2. UNCHANGED <<program, b, net, process, game, search, best_move, copy, found, position, phase>>
    BY <1>2 DEF mvars, uvars, server, engine, client
  <2>3. IInv'
    BY <2>1, StepIInv
  <2>4. Client_OK' /\ (running' = running) /\ InOrder' = InOrder /\ InPhase' = InPhase
        /\ OneMove' = OneMove /\ OnBoard' = OnBoard /\ Finishing' = Finishing
    BY <2>1, <2>2 DEF MInv, Client_OK, running, InOrder, InPhase, OneMove, OnBoard, Finishing
  <2>5. BoardsMeet => BoardsMeet'
    BY <2>1, <2>2 DEF BoardsMeet, Through
  <2> QED
    BY <2>2, <2>3, <2>4, <2>5 DEF MInv
<1> QED
  BY <1>1, <1>2

(* The invariant of the match: the queues of the client and the server, in *)
(* whatever order the two threads and the connection empty them.           *)
THEOREM MatchInductive == MSafe => [](IInv /\ MInv)
BY InitMInv, StepMInv, PTL DEF MSafe

(* The boards of src/uciws.cpp and of the client never drift apart         *)
(* (on_position and on_stop), whether or not the client is patient.        *)
THEOREM StaysInStep == MSafe => []InStep
<1>1. MInv => InStep
  BY DEF MInv, BoardsMeet, InStep
<1> QED
  BY <1>1, MatchInductive, PTL

(* A search is on the very position the client asked about (on_go).        *)
THEOREM SearchIsOfTheGame == MSafe => []SearchesTheGame
<1>1. IInv /\ MInv => SearchesTheGame
  <2> SUFFICES ASSUME IInv, MInv, running, phase \in {"thinking", "stopping"},
                      game \notin {"none", "started"}
               PROVE  copy = position
    BY DEF SearchesTheGame
  <2>1. TypeOK /\ InOrder /\ OneMove /\ OnBoard /\ BoardsMeet
    BY DEF IInv, MInv
  <2>2. /\ \A k \in 1..Len(inbox) : inbox[k].type \in Harmless \cup {"stop"}
        /\ \A k \in 1..Len(outbox) : outbox[k].type # "bestmove"
        /\ copy = b
    BY <2>1 DEF InOrder, OneMove, OnBoard
  <2>3. PICK t \in [0..Len(inbox) -> Position] :
          /\ Through(t, b, inbox)
          /\ \E u \in [0..Len(outbox) -> Position] :
               Through(u, position, outbox) /\ u[Len(outbox)] = t[Len(inbox)]
    BY <2>1 DEF BoardsMeet
  <2>4. t[Len(inbox)] = b
    BY <2>1, <2>2, <2>3, InboxConstant
  <2>5. \A u \in [0..Len(outbox) -> Position] :
          Through(u, position, outbox) => u[Len(outbox)] = position
    BY <2>1, <2>2, AnswersConstant
  <2> QED
    BY <2>2, <2>3, <2>4, <2>5
<1> QED
  BY <1>1, MatchInductive, PTL

(* A client that lets a search find a first move never ends the process:   *)
(* every join has a thread, no thread is overwritten, and the assertions   *)
(* of on_stop hold.                                                        *)
THEOREM ServerStaysUp ==
  ASSUME Patient
  PROVE  MSafe => []StaysUp
<1>1. MInv => StaysUp
  BY DEF MInv, StaysUp
<1> QED
  BY <1>1, MatchInductive, PTL

(***************************************************************************)
(* The refinement.                                                         *)
(***************************************************************************)

(* The only step of the session that the client does not take itself: a    *)
(* move comes while it waits for one, and it is legal in its game.         *)
LEMMA ReceivedLegal ==
  ASSUME IInv, MInv, running, phase # "gone", outbox # <<>>, Head(outbox).type = "bestmove"
  PROVE  phase = "stopping" /\ Head(outbox).move \in Legal[position]
<1>1. TypeOK /\ OneMove /\ BoardsMeet
  BY DEF IInv, MInv
<1>2. outbox \in Seq(Answer)
  BY <1>1 DEF TypeOK
<1>3. 1 \in 1..Len(outbox) /\ Head(outbox) = outbox[1]
  BY <1>2, Taken
<1>4. PICK u \in [0..Len(outbox) -> Position] :
        /\ Through(u, position, outbox)
        /\ \A k \in 1..Len(outbox) :
             outbox[k].type = "bestmove" => outbox[k].move \in Legal[u[k - 1]]
  BY <1>1 DEF BoardsMeet
<1>5. outbox[1].move \in Legal[u[1 - 1]] /\ u[0] = position /\ 1 - 1 = 0
  BY <1>3, <1>4 DEF Through
<1> QED
  BY <1>1, <1>3, <1>5 DEF OneMove

(* Every step that the client sees is a step of UCISession: a stop is      *)
(* answered by one move, legal in the game as the client knows it.         *)
THEOREM MatchRefinesSession ==
  ASSUME Patient
  PROVE  MSafe => Session!Safe
<1>1. MInit => Session!Init
  BY DEF MInit, Session!Init
<1>2. IInv /\ MInv /\ [MNext]_mvars => [Session!Next]_(Session!svars)
  <2> SUFFICES ASSUME IInv, MInv, [MNext]_mvars
               PROVE  [Session!Next]_(Session!svars)
    OBVIOUS
  <2>1. UNCHANGED client => UNCHANGED Session!svars
    BY DEF client, Session!svars
  <2>2. CASE SendNewGame
    BY <2>2 DEF SendNewGame, Session!Next, Session!NewGame
  <2>3. CASE SendMove
    BY <2>3 DEF SendMove, Session!Next, Session!OpponentMoves
  <2>4. CASE SendGo
    BY <2>4 DEF SendGo, Session!Next, Session!Go
  <2>5. CASE SendStop
    BY <2>5 DEF SendStop, Session!Next, Session!Stop
  <2>6. CASE SendQuit
    BY <2>6 DEF SendQuit, Session!Next, Session!Quit
  <2>7. CASE Receive
    <3>1. CASE Head(outbox).type = "bestmove" /\ phase # "gone"
      <4>1. running
        BY <3>1 DEF MInv, running
      <4>2. phase = "stopping" /\ Head(outbox).move \in Legal[position]
        BY <2>7, <3>1, <4>1, ReceivedLegal DEF Receive
      <4>3. position' = Do[position][Head(outbox).move] /\ phase' = "opponent"
        BY <2>7, <3>1 DEF Receive
      <4> QED
        BY <4>2, <4>3 DEF Session!Next, Session!BestMove
    <3>2. CASE ~(Head(outbox).type = "bestmove" /\ phase # "gone")
      BY <2>1, <2>7, <3>2 DEF Receive
    <3> QED
      BY <3>1, <3>2
  <2>8. CASE SendStart \/ SendPing
    BY <2>1, <2>8 DEF SendStart, SendPing
  <2>9. CASE (Network \/ GameThread) /\ UNCHANGED client
    BY <2>1, <2>9
  <2>10. CASE UNCHANGED mvars
    BY <2>1, <2>10 DEF mvars
  <2> QED
    BY <2>2, <2>3, <2>4, <2>5, <2>6, <2>7, <2>8, <2>9, <2>10 DEF MNext, Client
<1> QED
  BY <1>1, <1>2, MatchInductive, PTL DEF MSafe, Session!Safe
=============================================================================
