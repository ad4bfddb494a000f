# Rollerball bot: specifications, model checking and proofs

The repository is a bot for Rollerball, a chess variant played clockwise round
a ring: a 7 x 7 board without its 3 x 3 middle, six men a side. A tournament
client connects over a websocket and talks a subset of UCI; the bot keeps the
game on a board of its own, searches on a second thread until it is told to
stop, and answers with a move.

This directory models that program in TLA+, checks the models with TLC and
proves the central parts with TLAPS. Paths below are relative to the repository.

## 1. Inventory

| part | state it keeps | operations | what makes it correct |
|---|---|---|---|
| Board (`src/board.hpp`, `src/board.cpp`) | list of 12 piece squares, the position in four rotated arrays, side to move, the last captured piece and its place in the list | `Board()`, `copy`, `do_move`, `_do_move`, `_undo_last_move`; a second `undo_last_move` in `src/engine.cpp` | list and arrays always show one position; undo inverts do, whatever was done in between |
| Move generator (`src/board.cpp`) | none (constant tables); works on a mutated copy | four generators for the bottom side, rotation to and from it, `in_check`, `get_legal_moves` | the moves are those of the game, on every side; trying moves in place does not influence later tries |
| Search (`src/engine.cpp`) | a copy of the board, the recursion's locals, window, cut-off depth | `find_best_move`, `search_move`, `MAX_VAL`, `MIN_VAL`, `move_and_eval`, `Order_Children` | it leaves the board as it found it, uses no value of an interrupted call, finds the minimax move, ends when told to |
| Evaluation (`src/engine.cpp:13-461`) | weights | features, weighted sum, network | depends on the position alone, favours neither colour |
| UCI server (`src/uciws.cpp`) | the game's board `b`, the engine's `search` flag and `best_move`, the game thread | one handler per message: uci, isready, ucinewgame, position, go, stop, quit | its board stays in step with the client's game; a stop is answered by a legal move; only quit ends it, or a client that breaks the order of messages or stops too early |
| Websocket server (`src/server.cpp`, `src/server.hpp`, `start` of `src/uciws.cpp`) | open connections, handler lists, two event loops, a mutex | registration, open, close, message, broadcast, logging | no event misses its handler; the list has the open connections; a broadcast reaches all of them |
| Move strings (`src/board.cpp:327-357`) | none | packing in 16 bits, to and from text | a move means the same to both engines |
| Python engine (`src/engine_py.cpp`, `src/engine.py`) | as the search | `find_best_move` | as the search, but for the strength of the move |
| the rest | | `rollerball.cpp` (main), bindings, training drivers, printing, vendored asio / websocketpp / popl | |

Interaction: the *main thread* registers the handlers by posting to the event
loop of the *network thread*, starts it, and then logs connections in a loop of
its own. The network thread calls the message handler. `on_go` starts the *game
thread*, which copies `b` and searches the copy; the two share the atomics
`search` and `best_move`, and, during the copy, `b` itself, without a lock.
`on_stop` clears the flag, joins the game thread (blocking the network thread
and with it every connection), checks `best_move` by two assertions (the
Makefile does not disable them), plays it on `b` and broadcasts it.

The hard behaviours: do and undo nested to any depth on one board with room
for a single captured piece; the same position stored five times; hand-written
tables for a ring with four corners; the unlocked copy; a stop that comes before
the first move was stored, or in the middle of a recursion whose every caller
must then drop the value it gets; windows cut by evaluations that may be
different on the next visit; handlers registered from another thread; a
broadcast that throws half-way. `PROJECT.json` lists each at its line under
"hazards", with the properties that cover it.

## 2. Modules

| module | models |
|---|---|
| `Board.tla` | the data and every operation that changes it, for any geometry (squares, rotations and men are constants) |
| `Game.tla` | the server's board next to the search's board, with the frames of `move_and_eval` as an explicit stack |
| `MoveGen.tla` | the generator with the source's tables; `get_legal_moves` on a mutated copy |
| `MoveCodec.tla` | 16-bit moves, their rotation and their text, bit by bit |
| `MoveRules.tla` | a geometric definition of the moves, and what it means that the generator keeps it |
| `MoveGenInputs.tla` | the inputs the two are compared on: any man anywhere, and men in its way |
| `Rollerball.tla` | `Game` restricted to the moves `MoveGen` returns; refines `Game` |
| `Evaluation.tla` | `prepare_features` and the weighted sum, on the boards of `Rollerball` |
| `Search.tla` | `search_move`, `MAX_VAL`, `MIN_VAL`, `move_and_eval`, `Order_Children` with windows, cut-off and the flag, on abstract positions; implements the game thread of `UCIWSServer` |
| `UCIWSServer.tla` | all handlers, the network thread, the game thread with the outer loop of `search_move` or the Python engine; messages arrive in any order |
| `UCISession.tla` | abstract: what a client may expect |
| `UCIMatch.tla` | `UCIWSServer` with a client that plays games; implements `UCISession` |
| `WebsocketServer.tla` | main and network thread, connections, handlers, broadcasts |
| `BoardProofs`, `GameProofs` | proofs: boards and the search's line, for any geometry |
| `MoveGenProofs` | proofs about any board: what the generator reads, the loop of `get_legal_moves`, half a turn, and the geometric rules |
| `MoveGenInputsProofs` | proofs: the same for the inputs of `MoveGenInputs` |
| `RollerballProofs` | proofs: `Rollerball` and `Evaluation`; the refinement of `Game` |
| `SearchProofs` | proofs: alpha-beta, the move chosen; `Search` is the game thread of `UCIWSServer` |
| `UCIProofs` | proofs: the server with any client, and with one that plays; the refinement of `UCISession` |
| `WebsocketProofs` | proofs: handlers, connections, broadcasts |
| `MC*.tla`, `*.cfg` | instances for TLC |

How they fit: `Rollerball` is `Game` with the real generator (proved), and
`Game` leaves open which moves are tried. `Search` says which are tried and in
which windows, on positions without a board; that the board is the right one at
every call is what `Game` is about. `UCIWSServer` leaves open how root moves
compare; `Search` implements its game thread (proved). `WebsocketServer` delivers the
messages `UCIWSServer` handles one at a time.

### Board and Game

A `U8` of the board is the set of its flags, a move a record of two squares and
a promotion flag. `_do_move`, `_undo_last_move` and the rest keep their names
and are functions from a board to a board; `undo_last_move` is the copy in
`engine.cpp`, which flips the turn as well. The four arrays are one function
from orientations to arrays, and `Write` does the four writes at four indices.

In `Game`, `Play` is the `do_move` of `on_stop` and `on_position`, `NewGame` is
`on_ucinewgame`, `StartSearch` the copy in `find_best_move`. `Descend` is
`move_and_eval` up to its recursive call, with its two locals pushed as a
frame; `Backtrack` is the rest of it, restoring the locals and undoing.
`Probe` is one turn of the loop of `Order_Children`, do and undo at once.
`before` and `root` are history variables. Which moves are tried is left open
up to `IsCandidate`, the facts every generated move has (a live man of the side
to move, not onto one of its own, promotion of pawns only). So every order in
which alpha-beta could visit and cut moves is included. `on_position` plays
what it is sent without looking at it: the theorems about the server's board
are about opponents that send moves of this kind, which every legal one is.

The two copies of the undo restore a promoted pawn wrongly (section 5), so "the
same position" is `Similar`: equality after `Norm` has removed the rook and
bishop flags of a square that has the pawn flag.

### MoveGen, MoveRules, MoveCodec and Rollerball

The tables are copied number by number, the generators condensed to rays.
`MoveGenAssumption` states the little that the generator takes for granted of
the tables it is given: rotations stay on the `Track` and can be turned back,
and each side has an orientation that brings it to the bottom.

`MoveRules` defines the moves again, without a table: a square is a point, each
point of the ring has a clockwise direction `Forward`, and rays are straight
lines that turn a corner (rooks) or bounce off a wall (bishops). It is written
from what the tables amount to, and serves as their cross-check: every
man, on every side, follows one rule. `FollowsRules` compares the two for a man
on a board; flags that an undone promotion has left on a pawn do not count.

`get_legal_moves` folds `TryMove` over the pseudolegal moves on one copy, as the
loop does; the fold's order stands for the order of the hash set.
`Rollerball` gives `Game` the real board (64 indices, dead pieces at 63) and
only plays, descends and probes legal moves. A game first follows a script, so
that runs start near what matters and not 40 plies away from it; a script
with an illegal move would be a deadlock, which these runs check for.

`MoveCodec` has the move as the number it is: packed by the generator in the
orientation of a side, turned by `transform_moves`, printed by `move_to_str`,
read by the other engine's `str_to_move`. A string is a sequence of character
codes, because the property is about the conversion.

### Evaluation

`prepare_features` and `WSum::evaluate` with the weights `find_best_move` uses.
The sum is kept exact, as an integer number of fiftieths and a fraction, where
the code has doubles; `AtLeast` compares two of them. `connected_pawns` reads a
variable without a value and is dropped by the code, so it is left out.

### Search

The calls that have not returned are the sequence `line`, the innermost first
and `search_move` last. A frame has the position, the depth `i`, the window, the
best value so far and the moves left. `Enter` is `MAX_VAL` or `MIN_VAL` up to
its loop, `Call` the part of `move_and_eval` before its call, `ReturnedInner` and
`ReturnedRoot` what callers do with a value. The flag is looked at where the
code looks; `Order_Children` may see it cleared half-way and return an empty
list, which the caller takes for a finished game, so that the value it returns
can be anything in `Stray`. `ClearFlag` is the network thread.

A position is abstract: `Children` are its legal moves, `Evals` the values
`evaluate` may give it. There may be several, because undone promotions change
the flags and the flags the evaluation (section 5): each visit gets any of them.
`Lo` and `Hi` are minimax with all evaluations lowest or highest; a value is
right to depth d if it is between them. Values are integers: the search only
compares them. The order of moves is any order consistent with some choice of
their evaluations, which covers the hash set and the unstable sort.

`MCSearch` puts many small games in one set of positions, so one run searches
all of them: three moves with two replies each; trees of four plies, which take
two iterations; the same with evaluations that differ from visit to visit,
white to move; games that are over at once or after a move. Leaves that can be
exchanged are sorted.

### UCIWSServer, UCIMatch, UCISession

One action per handler; `on_stop` is split at the join. `process` says how the
process ended: quit, an assertion, or `std::terminate` (an exception out of
`join`, or a `go` over a joinable thread, or an exception of the Python
engine) or a read through a null pointer: an empty message has no tokens, and
`handle_message` compares the first of them (`empty`). `program` says which of the two programs of the Makefile runs; it
never changes. The game thread goes through copying, the loop test, root
ordering, evaluation, store and end of iteration, and looks at the flag where
the code does; in `rollerball_py` it takes a random move instead and does not
look. A write to `b` during the copy makes the copy `Torn`, on which any moves
may be found. `best_move` starts with any value: the code never initialises it.
How root moves compare is left open: an evaluated move improves on the optimum
or not, but the first of an iteration always does, evaluations being finite
numbers. `Search` implements this (`IsGameThread`), black's additional
evaluation of its first move included. Positions are abstract: a function gives
each its legal moves, and `do_move` with any other move is defined too, as in
the code.

The client in `UCIMatch` is not in the repository. It does what the handlers
presuppose: it sends the game after each opponent's move (the last move is the
only one read), asks for no search in a finished game, and stops every search
once. `Patient` says that it lets a search find a first move before it stops;
this is an assumption about time, which the engine cannot enforce. The Python
engine does not need it: it always waits for its choice.

`UCISession` has a position and a mode. `UCIMatch` implements it with the
client's position, and the phases "opponent" and "engine" to move as "idle".

### WebsocketServer

A step is a critical section or a callback. Main thread: `Register` (one
`eventLoop.post`), `StartThread`, `Log` (which counts the connections when it
gets to it). Network thread: `RunPosted`, `onOpen` and `onClose` up to the end
of their critical sections, `RunHandlers` for the rest, `onMessage`, and `onStop`
and `Joined` for a handler that waits. `Broadcast` is the loop over the
connections with its `send`, which throws at the first that is not open. The
events of asio and websocketpp are external, modelled from what the code
expects: posted work runs before sockets are looked at, a connection passes
through closing and closed in separate turns of the loop, nobody catches.

## 3. Runs

| run | bounds | distinct states | shows |
|---|---|---|---|
| `game` | 4 squares, 2 orientations, 3 men of which one can be promoted and one captured; 2 plies, searches 2 deep | 31416 | `IInv` of the proofs, part by part, and `BacktrackRestores` |
| `movegen` | every man on every square, up to 2 blockers of either colour, placed where the man could go | 25760 | the generator equals the geometric rules; half a turn exchanges the colours |
| `movestrings` | every man on every square, up to 1 blocker (which only takes moves away) | 3712 | a move survives packing, turning, printing and reading |
| `positions` | from the start, around promotions and around a mate; every first move of a search | 1781 | `Rollerball` implements `Game!Spec`; every man follows the geometric rules; legality is decided exactly; the evaluation favours no colour, puts mates first, and sees the game played |
| `endings` | three scripts (promotion with and without capture; before and after a mate), searches 2 deep | 20394 | kings live, no side is left in check, and the search has exactly the moves that are legal on a fresh board |
| `search` | four families of trees of up to 19 nodes, 4 plies and 2 iterations | 116622 | what `MAX_VAL` and `MIN_VAL` return agrees with minimax as far as the window asks; the move stored is the best of those tried, whenever it is stopped; an iteration finds a minimax move; it ends when told; it is the game thread of the server |
| `server` | 4 positions, 2 moves, one message and one answer under way, both programs | 185120 | any client: the flag stays cleared until the join, moves stored come from the copy, `on_stop` returns, and the process ends only for one of the causes of `EndsForCause` |
| `match` | 5 positions, 3 moves, 2 messages under way, both programs | 37947 | boards in step, the search works on the position asked about, nothing crashes, `UCISession` is implemented, with its liveness |
| `websocket` | 2 connections, 2 messages each | 28679 | handlers come first, the list is exact, the last count is right, nobody misses an answer, everybody who left is forgotten |
| `early_stop` | as `match`, impatient client, `rollerball` | | violation, see section 5 |
| `undo_promotion` | as `game` | | violation, see section 5 |
| `broadcast_throws` | 3 connections, 1 message each | | violation, see section 5 |

Why the bounds suffice: two nested frames are enough for one capture to
overwrite another's memory and for a promotion to be probed under it; a ray has
at most one effective blocker before and one behind it, and rook and bishop rays
are independent; a tree of four plies has windows closed by a grandparent, in
both colours, and an optimum left from the iteration before; two messages under
way put a stop behind the go it belongs to and a go behind its position; the
last position has no moves, and of every other some move is illegal, so an old
`best_move` can be wrong; two connections can be open, closing and closed in
any combination while the other one asks. Depth, geometry, trees, games and
connections are unbounded in the proofs. `MaxPly`, `MaxLine`, `MaxFree`,
`MaxBlockers`, `MaxCutoff`, `MaxInbox`, `MaxOutbox` and `MaxMessages` are all
the bounds there are.

Deadlock is not checked where the system may stop: blockers run out, the
process exits, the search has been told to end, all clients have left.

Fairness:

* `UCIWSServer`, `UCIMatch`: weak fairness of the network thread, of the game
  thread, each as a whole, and of the delivery of answers. Both are
  operating-system threads that never wait but for the join, which is enabled
  when the game thread has finished. Nothing is assumed of the client: it need
  never send anything.
* `Search`: weak fairness of the search alone. `Stops` assumes that the flag is
  cleared, `IterationEnds` does not.
* `WebsocketServer`: weak fairness of the main thread and of the network thread's
  own work, and strong fairness of the turns of each connection: another
  connection's turn disables this one's for a moment, and epoll reports every
  socket that is ready, in every round. Clients need do nothing.

## 4. Proofs

Every theorem holds for all values of the constants that satisfy the named
assumptions of its module, which TLC evaluates on the real tables in every run
that extends it. No bound is used: the counters may be anything.

**Board and game** (`BoardProofs`, `GameProofs`; `BoardAssumption`: each
orientation permutes the squares, the home orientation is the identity, men
start on different squares with one colour and one type; `NoBoardAssumption`).

* `Inductive`: `Spec => []IInv`. `IInv` is types, consistency of both boards,
  cleanness of the server's, and for the search's line: each frame was a
  candidate move on a consistent board (`before`), holds the captured piece of
  *that* move, and led to a board `Similar` to where the next frame began; the
  outermost frame began at the root. Consistency alone is not inductive: an
  undo keeps it only if the restored capture belongs to the move undone, which
  is what the frames say.
* `TypeCorrect`, `ServerBoard`, `ServerClean`, `SearchBoard`, `SearchLine`,
  `SearchRestores` and the action property `Backtracking` follow from it.
* The lemmas: `DoMoveConsistent` (a candidate move keeps a board consistent),
  `UndoInverts` (with the right capture restored, undo after do is the
  identity up to `Norm`), `SimilarEquivalence`, `WriteFacts` (one write
  reaches all orientations alike), `InitialBoardFacts`.

**Generator** (`MoveGenProofs`, `MoveGenInputsProofs`; in addition
`MoveGenAssumption`; `HalfTurnAssumption`: half a turn of the board commutes
with the rotations; `QuarterAssumption`: each orientation is the plane turned by
so many quarters). Of every board, for any number of men on it.

* What a man may do depends only on which squares are empty and which are of
  its colour (`BottomFacts`, `PieceMoves`), so leftover flags on pawns change
  no move (`SideMoves`, `SameChecks`, `SimilarMen`), and every generated move is
  a candidate in `Game`'s sense (`GeneratedCandidate`).
* `GeneratorRules`: a man goes exactly where the geometry lets it go. The
  geometry is the same on all sides: `Forward`, straight rays, corners, bounces
  and steps all commute with a quarter of a turn (`QuarterForward`,
  `QuarterStraight`, `QuarterRook`, `QuarterWalk`, `QuarterDestinations`). For the
  ten squares of the bottom side the tables and region tests are compared with
  it: lanes and the corner for rooks (`RookPoints`), three diagonals and where
  they bounce for bishops (`UpLeft`, `DownLeft`, `UpRight`, `TableWalks`,
  `BishopPoints`), neighbours for kings and pawns. `Sweep` stops where
  a ray of points does (`SweepPoints`); the square that comes twice in the code's
  rook ray, at the corner, changes nothing (`ReachedRepeated`), nor does a ray
  that is the beginning of another (`ReachedPrefix`).
  `TurnShown` and `TurnDestinations` take a man of another side there and its
  moves back.
* `TurnedPieceMoves`: after half a turn with the colours exchanged a man has the
  turned moves, and promotes where it should.
* `GeneratorMatchesRules` and `NeitherSideFavoured` are `MatchesRules` and
  `HalfTurn` of the run, with any number of blockers. They rest on
  `InputsInductive`: the four arrays show one position, with one man or none on
  a square.

**Games and evaluation** (`RollerballProofs`; in addition `StartAssumption`: a new
game does not begin in check; for `Antisymmetric` and `MateIsBest`,
`EvaluationAssumption`: twelve pieces, black's first, the same for both sides).
For every script, every number of moves and every depth.

* `get_legal_moves` tries moves on one board, in some order, each on top of
  what the undo of the last one left. `LoopFacts` follows the fold over a set
  of unknown size, by induction on its cardinality (`TurnsExist`): every board
  on the way is `Similar` to the first. Hence `LegalExact`: the result is the
  set of moves that leave the king safe on a fresh copy, whatever the order.
* `RInductive`: `RSpec => [](IInv /\ RInv)`. `RInv` says of both boards, and
  of the board before every move of the line, that they are `Proper`: men are
  on the track or dead, kings are not dead, and the side that has just moved
  is not in check. The last part is what keeps kings alive: a king is captured
  only by a man that attacked it before, so "kings live" alone is not
  inductive. It also needs the boards *below* the line, for after an undo they
  are the ones in use.
* `RefinesGame`: `RSpec => Spec`; so all of the above holds of real games.
  `KingsStay`, `NobodyLeftInCheck` and `LegalMovesAreExact` follow from `RInv`.
* `EveryManFollowsRules`: the boards of games and searches are such that
  `GeneratorRules` applies to every man on them, at any depth.
* `SearchSeesThePosition`, `EvaluatesThePosition`: the search's board is
  `Similar` to one on which only the line was played (`ReplayFacts`, by
  induction along the line), so it has its legal moves, its checks and, without
  the flags, its features.
* `MateComesFirst`: men counted per kind and distances are bounded
  (`CountsBound`, `NearBound`, `MaterialBound`), a mate weighs more
  (`MateValue`), and `AtLeast`, which is written for numbers of 32 bits, is the
  exact comparison of the two fractions (`ComparesValues`).
* `NeitherColourFavoured`: on every consistent board on the track, turned by half
  a turn with the colours exchanged, each man has the turned moves
  (`TurnedPieceMoves`), checks and legal moves are the turned ones
  (`TurnedCheck`, `TurnedTrial`, `TurnedLegal`), counts and distances are
  exchanged (`TurnedCount`, `TurnedNear`), and the value is the opposite
  (`TurnedValue`).

**Alpha-beta** (`SearchProofs`; `SearchAssumption`: the players alternate, a
position has finitely many moves, evaluations are finite, `Lo` and `Hi` are the
minimax values).

* `AlphaBetaSound`: `Safe => []ReturnSound`, with `SearchInductive` for the
  invariant. For each call in its loop (`InLoop`): the far end of the window is
  the caller's, the near end is the better of the caller's and the best value
  so far; the best is no worse than every move tried, and, if it is inside the
  window, no better than some move. That is enough when the loop ends or is cut
  (`LoopReturns`, `LoopIsCut`); an interrupted call is excluded because it has
  seen the flag cleared, and the flag is never set again (`search` in
  `ReturnSound`). Depths come from `i` alone: a caller's value is for one move
  less.
* `StopsWithBest`, `FindsMinimax`: `BestOfTried` and
  `IterationExact`, from `ChoiceInductive`: the moves left are distinct and are
  those not tried, and the optimum is the end of the window they have narrowed.
  They assume `Steady`: a root in which *black* is to play has replies of one
  value each. White needs no assumption. Black's window is narrowed by a first
  evaluation of its first move that is then repeated; if the second is different,
  it can be cut and stored all the same. With evaluations that drift TLC finds
  such a search, of four plies; no document promises otherwise, so it is not
  among the findings, and the run gives drifting evaluations to white only.
* `SearchIsGameThread`: `Safe => IsGameThread`, the refinement of the game
  thread of `UCIWSServer`, without `Steady`: the shape of the search does not
  depend on its values. `HandInductive` says what a step of the thread must know:
  the moves left are not evaluated yet, and the optimum is in `best_move` or
  the iteration has none.

**Server** (`UCIProofs`; `ServerAssumption`): `ServerTypes`,
`FlagStaysCleared`, `StoresLegalMoves`, `EndsOnlyForCause`, with any client,
for both programs, from `ServerInductive`. The invariant adds that between two
stops the flag tells whether there is a thread (`OneSearch`), what the game
thread has in hand (`InHand`: moves to be evaluated or stored are legal on the
copy, or the copy is torn) and what it has stored (`InStore`: `best_move` is
legal on the copy from the first store to the join, and `engine.py` ends with
one). `EndsOnlyForCause` needs all of them: a `go` finds a thread only where the
flag is set, a `stop` finds none only where it is not, and a search that has
stored a move fails no assertion of `on_stop` unless the board was written
after it was copied.

**Server and client** (`UCIProofs`): `MatchInductive`, `MSafe => [](IInv /\
MInv)`. `MInv` describes the queues in each phase of the client: which messages
may be under way in which order (`InOrder`, `InPhase`), that at most one best
move is, and only to a client that waits (`OneMove`), what the copy and
`best_move` are while a search of this game runs or waits to be joined
(`OnBoard`, `Finishing`), and that there is a sequence of boards from `b` along
the messages and one from `position` along the answers that end in the same
board (`BoardsMeet`; each move of the second is legal where it arrives). From
it, for games of any length:

* `StaysInStep`, `SearchIsOfTheGame`, for every client of the kind modelled;
* `ServerStaysUp` and `MatchRefinesSession` for one that is `Patient`: the
  process ends by quit alone, and the server, its threads and the connection
  implement the safety part of `UCISession`. Without `Patient` both are false:
  section 5.

**Connections** (`WebsocketProofs`; `ConnectionAssumption`): `HandlersFirst` and
`CountedRight`, from `ThreadsInductive`: each handler is still to be registered,
posted or registered, and no connection is looked at before all are; a list
that was not the one counted last will be counted. `WellTyped`, `ListIsExact`,
`NobodyLeftOut`, from `ConnectionsInductive`: its `Gapless` is `NoGap` of *all*
connections, open or not, for one that is opened must not have answers yet
and one that closes may still be on the list a broadcast goes through.

Only model-checked:

* Liveness: `Stops`, `IterationEnds`, `StopReturns`, `Forgotten`, the fairness of
  `UCISession`. It is out of the prover's reach.
* `SameMove`: it is about the bits of a move, and the prover has no theory of
  `Bitwise`; TLC sees every move that can be generated.

Induction: the library's induction theorems take an operator and cannot be
used, so proofs along a queue, a line or a loop go by the least number, or a
smallest set, for which the claim fails (`Least`, `LeastNumber`, `SmallerSet`).

## 5. Findings

* **early_stop.** `on_stop` reads `best_move` whether or not this search has
  stored one. It has no initial value and `on_go` does not reset it. A stop
  that is handled before the first root move has been evaluated fails
  `assert(legal_moves.count(move) > 0)` (`src/uciws.cpp:137`). Depth of the
  first evaluation and speed decide how likely that is.
* **undo_promotion.** `((piecetype & (WHITE | BLACK)) ^ ROOK) | PAWN`
  (`src/board.cpp:604`, `src/engine.cpp:859`) sets the flag it means to remove.
  The pawn that comes back is a pawn and a rook. Its moves stay those of a pawn
  (`SearchSeesTheGame`), but `prepare_features` counts it as a rook too
  (`src/engine.cpp:320`), for every move evaluated after the promotion was
  tried. Nothing else of undone moves reaches the evaluation
  (`EvaluatesTheGame`), and moves that are played leave no such pawn
  (`ServerClean`).
* **broadcast_throws.** `src/server.hpp:61` promises a message to all connected
  clients. `broadcastMessage` sends to one after the other, and `send` throws
  for a connection that has begun to close and is still on the list; the others
  get nothing, and the exception, which nobody catches, ends the network thread
  and the process. A tournament with one client that never leaves early does
  not meet it.

The comment at `src/uciws.cpp:63` says that the handlers run on the main
thread's loop. Those for connecting and disconnecting post there; the message
handler runs where it is called, on the network thread. It follows that a
handler that waits for the game thread holds up every connection, for as long
as the search takes to notice the flag (`Stops`, `StopReturns`, `Forgotten`).

## 6. Not modelled, and the plan

Not modelled, and why:

* `src/include/`: asio, websocketpp and popl, third-party code, which is all but
  about 2800 of the 217000 lines. What the program uses of them is
  modelled as external in `WebsocketServer`. The share of the whole tree that
  the models cover is small for this reason alone; of the program's own code
  they leave out what follows.
* The neural network, weight files, weight updates and `get_margin_score` of
  `src/engine.cpp`: floating point that the server does not reach (it always
  plays with `WSum` and the weights in the source).
* `src/bindings.cpp` (renames methods of `Board`) and a build or installation
  without Python.
* `rollerball.cpp` (reads a port), printing (output only), and the training
  drivers `test.cpp`, `test_2.cpp` (they include a header that is not there).

What is left of the plan: a Python engine whose choice is followed in as much
detail as the search's. Every safety property that the runs check is a theorem,
but for `SameMove`.
