-------------------------- MODULE WebsocketServer --------------------------
(***************************************************************************)
(* The connections: WebsocketServer of src/server.cpp and the threads that *)
(* UCIWSServer::start (src/uciws.cpp) builds around it.                    *)
(*                                                                         *)
(* The main thread registers the handlers by posting to the event loop of  *)
(* the network thread, starts that thread, and runs a loop of its own in   *)
(* which it logs how many connections there are.  The network thread       *)
(* accepts, reads and closes connections and runs the handlers.  Both look *)
(* at openConnections, under a mutex: a step here is a critical section.   *)
(*                                                                         *)
(* asio and websocketpp are external.  What is used of them: a loop runs   *)
(* what was posted before it looks at its sockets; a connection whose peer *)
(* leaves passes through several turns of the loop before the close        *)
(* handler runs, in which turns of other connections come between; send    *)
(* throws on a connection that is not open; no handler of the library      *)
(* catches, so the exception ends the network thread and with it the       *)
(* process.                                                                *)
(***************************************************************************)
EXTENDS Naturals, Sequences, FiniteSets

CONSTANTS
  Conn,         \* connections, each opened at most once
  MaxMessages   \* bound: messages of each client

ASSUME ConnectionAssumption == IsFiniteSet(Conn) /\ MaxMessages \in Nat

Handler == {"connect", "disconnect", "message"}

VARIABLES
  main,             \* the handlers the main thread has still to register
  main_evt_loop,    \* what was posted to it
  reported,         \* the number of connections last logged
  net,              \* the network thread: [at, conn]
  eventLoop,        \* what was posted to it
  handlers,         \* the handlers registered
  openConnections,
  state,            \* of each connection, as websocketpp sees it
  peer,             \* of each connection: "away", "there" or "left"
  inbox,            \* messages of each client, not read yet
  asked,            \* how many each client has sent
  answers,          \* history: the clients connected at each broadcast
  received,         \* the broadcasts sent to each client
  process

sockets == <<peer, inbox, asked>>
wvars == <<main, main_evt_loop, reported, net, eventLoop, handlers, openConnections,
           state, sockets, answers, received, process>>

running == process = "running"
Unborn == [at |-> "none", conn |-> {}]
Idle == [at |-> "loop", conn |-> {}]
Elements(s) == {s[k] : k \in DOMAIN s}

(***************************************************************************)
(* The main thread: start.                                                 *)
(***************************************************************************)

(* Mutant: the network thread is started before the last registration. *)
Registered_NotQuite == Len(main) <= 1
Registered == main = <<>>

Register ==
  /\ running
  /\ main # <<>>
  /\ eventLoop' = Append(eventLoop, Head(main))
  /\ main' = Tail(main)
  /\ UNCHANGED <<main_evt_loop, reported, net, handlers, openConnections, state, sockets,
                 answers, received, process>>

StartThread ==
  /\ running
  /\ Registered /\ net = Unborn
  /\ net' = Idle
  /\ UNCHANGED <<main, main_evt_loop, reported, eventLoop, handlers, openConnections, state,
                 sockets, answers, received, process>>

(* numConnections, and the line it is logged in. *)
Log ==
  /\ running
  /\ main = <<>> /\ net # Unborn /\ main_evt_loop # <<>>
  /\ reported' = Len(openConnections)
  /\ main_evt_loop' = Tail(main_evt_loop)
  /\ UNCHANGED <<main, net, eventLoop, handlers, openConnections, state, sockets, answers,
                 received, process>>

(***************************************************************************)
(* The network thread.                                                     *)
(***************************************************************************)
RunPosted ==
  /\ running
  /\ net = Idle /\ eventLoop # <<>>
  /\ handlers' = handlers \cup {Head(eventLoop)}
  /\ eventLoop' = Tail(eventLoop)
  /\ UNCHANGED <<main, main_evt_loop, reported, net, openConnections, state, sockets, answers,
                 received, process>>

(* A turn of the loop for connection c. *)
Turn(c, from) ==
  /\ running
  /\ net = Idle /\ eventLoop = <<>>
  /\ state[c] = from
  /\ UNCHANGED <<main, main_evt_loop, reported, eventLoop, handlers>>

(* onOpen up to the end of its critical section. *)
onOpen(c) ==
  /\ Turn(c, "none")
  /\ peer[c] # "away"
  /\ state' = [state EXCEPT ![c] = "open"]
  /\ openConnections' = Append(openConnections, c)
  /\ net' = [at |-> "connect", conn |-> {c}]
  /\ UNCHANGED <<sockets, answers, received, process>>

(* Mutant: the loop stops at the first connection. *)
Reached_First(list) == IF list = <<>> THEN {} ELSE {Head(list)}
Reached(list) == Elements(list)

(* broadcastMessage, on the network thread like its callers.  The first    *)
(* connection that is not open makes it throw.                             *)
Broadcast ==
  LET list == openConnections
      bad == {k \in DOMAIN list : state[list[k]] # "open"}
      sent == IF bad = {} THEN Reached(list)
              ELSE {list[j] : j \in {i \in DOMAIN list : \A k \in bad : i < k}}
      answer == Len(answers) + 1
  IN  /\ received' = [c \in Conn |-> IF c \in sent THEN Append(received[c], answer)
                                     ELSE received[c]]
      /\ answers' = Append(answers, {c \in Conn : state[c] = "open"})
      /\ process' = IF bad = {} THEN "running" ELSE "terminated"

(* onMessage and the handler of uci or isready. *)
onMessage(c) ==
  /\ Turn(c, "open")
  /\ inbox[c] # <<>> /\ Head(inbox[c]) = "isready"
  /\ inbox' = [inbox EXCEPT ![c] = Tail(inbox[c])]
  /\ Broadcast
  /\ UNCHANGED <<openConnections, state, peer, asked, net>>

(* onMessage and the handler of stop, which waits for the game thread      *)
(* before it answers.                                                      *)
onStop(c) ==
  /\ Turn(c, "open")
  /\ inbox[c] # <<>> /\ Head(inbox[c]) = "stop"
  /\ inbox' = [inbox EXCEPT ![c] = Tail(inbox[c])]
  /\ net' = [at |-> "joining", conn |-> {c}]
  /\ UNCHANGED <<openConnections, state, peer, asked, answers, received, process>>

Joined ==
  /\ running
  /\ net.at = "joining"
  /\ net' = Idle
  /\ Broadcast
  /\ UNCHANGED <<main, main_evt_loop, reported, eventLoop, handlers, openConnections, state,
                 sockets>>

(* The peer's close frame is read and answered. *)
CloseFrame(c) ==
  /\ Turn(c, "open")
  /\ peer[c] = "left" /\ inbox[c] = <<>>
  /\ state' = [state EXCEPT ![c] = "closing"]
  /\ UNCHANGED <<openConnections, sockets, net, answers, received, process>>

(* The answer is written, or the connection broke without a close frame. *)
Terminate(c) ==
  /\ \/ Turn(c, "closing")
     \/ Turn(c, "open") /\ peer[c] = "left" /\ inbox[c] = <<>>
  /\ state' = [state EXCEPT ![c] = "closed"]
  /\ UNCHANGED <<openConnections, sockets, net, answers, received, process>>

(* Mutants: the first connection is taken for the one that closed; the     *)
(* vector keeps its length.                                                *)
Erase_First(list, c) == Tail(list)
Erase_NoResize(list, c) ==
  LET kept == SelectSeq(list, LAMBDA d : d # c)
  IN  [k \in DOMAIN list |-> IF k \in DOMAIN kept THEN kept[k] ELSE {}]
Erase(list, c) ==
  LET kept[k \in 0..Len(list)] ==
        IF k = 0 THEN <<>>
        ELSE IF list[k] = c THEN kept[k - 1] ELSE Append(kept[k - 1], list[k])
  IN  kept[Len(list)]

(* onClose up to the end of its critical section; no handle in the list    *)
(* has expired, for a connection lives until its close handler returns.    *)
onClose(c) ==
  /\ Turn(c, "closed")
  /\ openConnections' = Erase(openConnections, c)
  /\ state' = [state EXCEPT ![c] = "gone"]
  /\ net' = [at |-> "disconnect", conn |-> {c}]
  /\ UNCHANGED <<sockets, answers, received, process>>

(* Mutant: only new connections are logged. *)
RunHandlers_Opened ==
  /\ running
  /\ net.at \in {"connect", "disconnect"}
  /\ main_evt_loop' = IF net.at = "connect" /\ net.at \in handlers
                      THEN Append(main_evt_loop, net.at) ELSE main_evt_loop
  /\ net' = Idle
  /\ UNCHANGED <<main, reported, eventLoop, handlers, openConnections, state, sockets,
                 answers, received, process>>

(* The rest of onOpen and onClose. *)
RunHandlers ==
  /\ running
  /\ net.at \in {"connect", "disconnect"}
  /\ main_evt_loop' = IF net.at \in handlers THEN Append(main_evt_loop, net.at)
                                             ELSE main_evt_loop
  /\ net' = Idle
  /\ UNCHANGED <<main, reported, eventLoop, handlers, openConnections, state, sockets,
                 answers, received, process>>

(***************************************************************************)
(* The clients.                                                            *)
(***************************************************************************)
Client(c) ==
  /\ running
  /\ \/ /\ peer[c] = "away"
        /\ net # Unborn
        /\ peer' = [peer EXCEPT ![c] = "there"]
        /\ UNCHANGED <<inbox, asked>>
     \/ /\ peer[c] = "there" /\ state[c] = "open"
        /\ peer' = [peer EXCEPT ![c] = "left"]
        /\ UNCHANGED <<inbox, asked>>
     \/ /\ peer[c] = "there" /\ state[c] = "open"
        /\ asked[c] < MaxMessages
        /\ \E m \in {"isready", "stop"} : inbox' = [inbox EXCEPT ![c] = Append(inbox[c], m)]
        /\ asked' = [asked EXCEPT ![c] = asked[c] + 1]
        /\ UNCHANGED peer
  /\ UNCHANGED <<main, main_evt_loop, reported, net, eventLoop, handlers, openConnections,
                 state, answers, received, process>>

(***************************************************************************)
(* The specification.                                                      *)
(***************************************************************************)
Init ==
  /\ main = <<"connect", "disconnect", "message">> /\ main_evt_loop = <<>> /\ reported = 0
  /\ net = Unborn /\ eventLoop = <<>> /\ handlers = {}
  /\ openConnections = <<>>
  /\ state = [c \in Conn |-> "none"] /\ peer = [c \in Conn |-> "away"]
  /\ inbox = [c \in Conn |-> <<>>] /\ asked = [c \in Conn |-> 0]
  /\ answers = <<>> /\ received = [c \in Conn |-> <<>>]
  /\ process = "running"

Main == Register \/ StartThread \/ Log

NetworkTurn(c) ==
  onOpen(c) \/ onMessage(c) \/ onStop(c) \/ CloseFrame(c) \/ Terminate(c) \/ onClose(c)

Network == RunPosted \/ Joined \/ RunHandlers \/ \E c \in Conn : NetworkTurn(c)

Next == Main \/ Network \/ \E c \in Conn : Client(c)

Safe == Init /\ [][Next]_wvars

(* The threads are scheduled, and epoll reports every ready socket. *)
Spec == /\ Safe /\ WF_wvars(Main) /\ WF_wvars(RunPosted \/ Joined \/ RunHandlers)
        /\ \A c \in Conn : SF_wvars(NetworkTurn(c))

(***************************************************************************)
(* Properties.                                                             *)
(***************************************************************************)

TypeOK ==
  /\ main \in Seq(Handler) /\ main_evt_loop \in Seq(Handler) /\ reported \in Nat
  /\ net \in [at : {"none", "loop", "joining"} \cup Handler, conn : SUBSET Conn]
  /\ eventLoop \in Seq(Handler) /\ handlers \subseteq Handler
  /\ openConnections \in Seq(Conn)
  /\ state \in [Conn -> {"none", "open", "closing", "closed", "gone"}]
  /\ peer \in [Conn -> {"away", "there", "left"}]
  /\ inbox \in [Conn -> Seq({"isready", "stop"})] /\ asked \in [Conn -> 0..MaxMessages]
  /\ answers \in Seq(SUBSET Conn) /\ received \in [Conn -> Seq(Nat)]
  /\ process \in {"running", "terminated"}

(* The handlers are registered from another thread, but no event of a      *)
(* connection ever misses one of them.                                     *)
NoEventMissed == (\E c \in Conn : state[c] # "none") => handlers = Handler

(* openConnections has every connection once from its onOpen to its        *)
(* onClose.                                                                *)
ListExact ==
  /\ \A j, k \in DOMAIN openConnections :
       openConnections[j] = openConnections[k] => j = k
  /\ Elements(openConnections) = {c \in Conn : state[c] \in {"open", "closing", "closed"}}

(* The main thread logs late, and sometimes a count of connections that    *)
(* came and went since; once it has nothing left to log, the last count    *)
(* that it logged is right.                                                *)
LastCountRight ==
  running /\ main_evt_loop = <<>> /\ net = Idle => reported = Len(openConnections)

(* As long as the server runs, every connection was sent every answer      *)
(* since its onOpen, in the order of the broadcasts.                       *)
NoGap ==
  running => \A c \in Elements(openConnections) :
    /\ Elements(received[c]) = {k \in DOMAIN answers : c \in answers[k]}
    /\ \A j, k \in DOMAIN received[c] : j < k => received[c][j] < received[c][k]

(* A connection that was left is forgotten, if the server lives.           *)
Forgotten ==
  \A c \in Conn : peer[c] = "left" ~> (c \notin Elements(openConnections) \/ ~running)

(* server.hpp:61 -- "Sends a message to all connected clients".            *)
SentToAll ==
  [][answers' # answers =>
       \A c \in Conn : state[c] = "open" => received'[c] # received[c]]_wvars
=============================================================================
