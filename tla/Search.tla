------------------------------- MODULE Search -------------------------------
(***************************************************************************)
(* The search of src/engine.cpp: search_move deepens two moves at a time   *)
(* until the flag search is cleared by another thread; in every iteration  *)
(* it evaluates each root move with MIN_VAL and MAX_VAL, which call each   *)
(* other through move_and_eval.  The calls that have not returned are the  *)
(* variable line, the innermost first and search_move itself last; done    *)
(* and undone moves are pushes and pops (Game.tla has the board itself).   *)
(*                                                                         *)
(* Every call looks at the flag when it starts and after every call it     *)
(* makes.  If it is cleared it returns 0, or the evaluation of a position  *)
(* it believes to have no moves, because Order_Children then returns an    *)
(* empty list.  Such a value must never be used.                           *)
(*                                                                         *)
(* The evaluation of a position is not always the same: the flags undone   *)
(* promotions leave behind reach it (Evaluation.tla).  Evals[p] is the set *)
(* of values p can be given; Lo and Hi are the minimax values when every   *)
(* position is given its lowest and its highest.  A move is identified     *)
(* with the position it leads to.                                          *)
(***************************************************************************)
EXTENDS Integers, Sequences, FiniteSets, Functions

CONSTANTS
  Position,
  WhiteToPlay,  \* the positions in which white is to play
  Children,     \* Children[p]: where the legal moves of p lead
  Evals,        \* Evals[p]: what evaluate can return for p
  Infinity,     \* DBL_MAX
  Stray,        \* what an interrupted call can return
  Roots,        \* the positions searched
  NoMove,
  MaxCutoff,    \* bound: cutoff of the last iteration
  Lo, Hi        \* Lo[d][p]: minimax over d moves, with the lowest evaluations

Depth == 0..(MaxCutoff + 1)

MaxOf(x, y) == IF x < y THEN y ELSE x
MinOf(x, y) == IF x < y THEN x ELSE y

IsMax(v, S) == v \in S /\ \A x \in S : x <= v
IsMin(v, S) == v \in S /\ \A x \in S : v <= x

(* Minimax to a depth, with evaluations the extreme of Evals. *)
IsMinimax(V, Extreme(_, _)) ==
  /\ V \in [Depth -> [Position -> Int]]
  /\ \A d \in Depth, p \in Position :
       IF d = 0 \/ Children[p] = {} THEN Extreme(V[d][p], Evals[p])
       ELSE LET replies == {V[d - 1][c] : c \in Children[p]}
            IN  IF p \in WhiteToPlay THEN IsMax(V[d][p], replies)
                                     ELSE IsMin(V[d][p], replies)

ASSUME SearchAssumption ==
  /\ WhiteToPlay \subseteq Position /\ Roots \subseteq Position
  /\ Children \in [Position -> SUBSET Position]
  /\ \A p \in Position : /\ IsFiniteSet(Children[p])
                         /\ \A c \in Children[p] : c \in WhiteToPlay <=> p \notin WhiteToPlay
  /\ Infinity \in Int /\ Stray \subseteq Int /\ 0 \in Stray
  /\ Evals \in [Position -> SUBSET Int]
  /\ \A p \in Position : \A v \in Evals[p] : -Infinity < v /\ v < Infinity
  /\ MaxCutoff \in Nat /\ NoMove \notin Position
  /\ IsMinimax(Lo, IsMin) /\ IsMinimax(Hi, IsMax)

VARIABLES
  search,     \* Engine::search
  best_move,  \* Engine::best_move
  pc,         \* where the game thread is
  cutoff,
  line,       \* the calls that have not returned, innermost first
  ret,        \* what the last call returned
  optimum     \* [movement, eval] of search_move

vars == <<search, best_move, pc, cutoff, line, ret, optimum>>

(***************************************************************************)
(* Order_Children: the legal moves in the order of their evaluations, from *)
(* the highest for white and from the lowest for black; the order of equal *)
(* ones is that of a hash set and of an unstable sort.                     *)
(***************************************************************************)
Valuations(S) == {e \in [S -> UNION {Evals[c] : c \in S}] : \A c \in S : e[c] \in Evals[c]}

Before(p, x, y) == IF p \in WhiteToPlay THEN x >= y ELSE x <= y

Orders == [p \in Position |->
  LET C == Children[p]
  IN  {s \in [1..Cardinality(C) -> C] :
         /\ \A c \in C : \E k \in DOMAIN s : s[k] = c
         /\ \E e \in Valuations(C) :
              \A k \in DOMAIN s \ {1} : Before(p, e[s[k - 1]], e[s[k]])}]

(* Mutant: the compiler has read the flag before the loop. *)
Interrupted_Never == FALSE
Interrupted == ~search

(* It gives up with an empty list if it sees the flag cleared. *)
Order_Children(p) == Orders[p] \cup (IF search THEN {} ELSE {<<>>})

(* Mutant: the best of no moves is a draw. *)
Worst_Zero(p) == 0
Worst(p) == IF p \in WhiteToPlay THEN -Infinity ELSE Infinity

Node(p, i, alpha, beta, moves) ==
  [at |-> p, i |-> i, alpha |-> alpha, beta |-> beta, best |-> Worst(p),
   rest |-> moves, probe |-> FALSE]

(***************************************************************************)
(* search_move.                                                            *)
(***************************************************************************)
Root == line[Len(line)]

While ==
  /\ pc = "while"
  /\ Interrupted \/ cutoff <= MaxCutoff
  /\ pc' = IF Interrupted THEN "done" ELSE "order"
  /\ UNCHANGED <<search, best_move, cutoff, line, ret, optimum>>

(* Mutant: an iteration starts from the optimum of the last. *)
OrderRoot_NoReset ==
  /\ pc = "order"
  /\ \E moves \in Order_Children(Root.at) :
       IF moves = <<>>
       THEN pc' = "done" /\ UNCHANGED <<line, optimum>>
       ELSE LET white == Root.at \in WhiteToPlay
            IN  /\ line' = <<[Node(Root.at, -1, -Infinity, Infinity, moves)
                                 EXCEPT !.probe = ~white]>>
                /\ UNCHANGED optimum
                /\ pc' = "call"
  /\ UNCHANGED <<search, best_move, cutoff, ret>>

(* Black evaluates the first move once more than white, before the loop;   *)
(* only then does it reset the optimum.                                    *)
OrderRoot ==
  /\ pc = "order"
  /\ \E moves \in Order_Children(Root.at) :
       IF moves = <<>>
       THEN pc' = "done" /\ UNCHANGED <<line, optimum>>
       ELSE LET white == Root.at \in WhiteToPlay
            IN  /\ line' = <<[Node(Root.at, -1, -Infinity, Infinity, moves)
                                 EXCEPT !.probe = ~white]>>
                /\ optimum' = IF white THEN [optimum EXCEPT !.eval = -Infinity] ELSE optimum
                /\ pc' = "call"
  /\ UNCHANGED <<search, best_move, cutoff, ret>>

(***************************************************************************)
(* move_and_eval, MAX_VAL and MIN_VAL.                                     *)
(***************************************************************************)
Caller == Head(line)

Return(v) ==
  /\ ret' = v
  /\ line' = Tail(line)
  /\ pc' = "returned"

(* move_and_eval plays the move and undoes it around the call. *)
Call ==
  /\ pc = "call"
  /\ IF ~Interrupted
     THEN /\ line' = <<Node(Head(Caller.rest), Caller.i + 1, Caller.alpha, Caller.beta, <<>>)>>
                       \o line
          /\ pc' = "enter" /\ UNCHANGED ret
     ELSE pc' = "returned" /\ ret' = 0 /\ UNCHANGED line
  /\ UNCHANGED <<search, best_move, cutoff, optimum>>

(* From the entry of MAX_VAL or MIN_VAL to its loop.  The flag may be      *)
(* cleared while the moves are ordered: the empty list that results is     *)
(* taken for mate or stalemate.  They are ordered twice, the second time   *)
(* for nothing; the flag is looked at before and after.                    *)
Enter ==
  /\ pc = "enter"
  /\ LET f == Head(line)
     IN  \/ Interrupted /\ Return(0)
         \/ \E moves \in Order_Children(f.at) :
              IF moves = <<>>
              THEN \E v \in IF Children[f.at] = {} THEN Evals[f.at] ELSE Stray : Return(v)
              ELSE IF f.i = cutoff
              THEN \E v \in Evals[f.at] : Return(v)
              ELSE /\ ~Interrupted
                   /\ line' = <<[f EXCEPT !.rest = moves]>> \o Tail(line)
                   /\ pc' = "call" /\ UNCHANGED ret
  /\ UNCHANGED <<search, best_move, cutoff, optimum>>

(* A value narrows the window and improves the best. *)
Narrow(f, v) ==
  IF f.at \in WhiteToPlay THEN [f EXCEPT !.alpha = MaxOf(f.alpha, v)]
                          ELSE [f EXCEPT !.beta = MinOf(f.beta, v)]

(* Mutant: the last move evaluated is the best. *)
Improves_Always(p, v, best) == TRUE
Improves(p, v, best) == IF p \in WhiteToPlay THEN best < v ELSE v < best

Closed(f) == f.alpha >= f.beta

(* Mutant: the index of the loop is not incremented. *)
Advance_Not(f) == f
Advance(f) == [f EXCEPT !.rest = Tail(f.rest)]

ReturnedInner ==
  /\ pc = "returned" /\ Len(line) > 1
  /\ LET f == Narrow(Caller, ret)
         best == IF Improves(f.at, ret, f.best) THEN ret ELSE f.best
     IN  IF Interrupted THEN Return(0)
         ELSE IF Closed(f) THEN Return(ret)
         ELSE IF Len(f.rest) = 1 THEN Return(best)
         ELSE /\ line' = <<[Advance(f) EXCEPT !.best = best]>> \o Tail(line)
              /\ pc' = "call" /\ UNCHANGED ret
  /\ UNCHANGED <<search, best_move, cutoff, optimum>>

(* The loop of search_move never cuts: one end of its window is infinite. *)
ReturnedRoot ==
  /\ pc = "returned" /\ Len(line) = 1
  /\ LET f == Narrow(Root, ret)
     IN  IF Interrupted
         THEN pc' = "done" /\ UNCHANGED <<line, optimum>>
         ELSE IF f.probe
         THEN /\ line' = <<[f EXCEPT !.probe = FALSE]>>
              /\ optimum' = [optimum EXCEPT !.eval = Infinity]
              /\ pc' = "call"
         ELSE /\ line' = <<Advance(f)>>
              /\ IF Improves(f.at, ret, optimum.eval)
                 THEN optimum' = [movement |-> Head(f.rest), eval |-> ret] /\ pc' = "store"
                 ELSE /\ UNCHANGED optimum
                      /\ pc' = IF Len(f.rest) = 1 THEN "iterated" ELSE "call"
  /\ UNCHANGED <<search, best_move, cutoff, ret>>

Store ==
  /\ pc = "store"
  /\ best_move' = optimum.movement
  /\ pc' = IF Root.rest = <<>> THEN "iterated" ELSE "call"
  /\ UNCHANGED <<search, cutoff, line, ret, optimum>>

EndIteration ==
  /\ pc = "iterated"
  /\ IF ~Interrupted
     THEN best_move' = optimum.movement /\ cutoff' = cutoff + 2 /\ pc' = "while"
     ELSE pc' = "done" /\ UNCHANGED <<best_move, cutoff>>
  /\ UNCHANGED <<search, line, ret, optimum>>

(* on_stop, on the network thread. *)
ClearFlag ==
  /\ search
  /\ search' = FALSE
  /\ UNCHANGED <<best_move, pc, cutoff, line, ret, optimum>>

(***************************************************************************)
(* The specification: search_move is entered with the flag set, or cleared *)
(* already if the stop came first.                                         *)
(***************************************************************************)
Init ==
  /\ search \in BOOLEAN
  /\ best_move = NoMove
  /\ pc = "while" /\ cutoff = 1 /\ ret = 0
  /\ \E p \in Roots : /\ line = <<Node(p, -1, -Infinity, Infinity, <<>>)>>
                       /\ optimum = [movement |-> NoMove, eval |-> Worst(p)]

SearchMove ==
  \/ While \/ OrderRoot \/ Call \/ Enter \/ ReturnedInner \/ ReturnedRoot
  \/ Store \/ EndIteration

Next == SearchMove \/ ClearFlag

Safe == Init /\ [][Next]_vars

Spec == Safe /\ WF_vars(SearchMove)

(***************************************************************************)
(* Properties.                                                             *)
(***************************************************************************)

Frame == [at : Position, i : -1..MaxCutoff, alpha : Int, beta : Int, best : Int,
          rest : Seq(Position), probe : BOOLEAN]

TypeOK ==
  /\ search \in BOOLEAN
  /\ best_move \in Position \cup {NoMove}
  /\ pc \in {"while", "order", "call", "enter", "returned", "store", "iterated", "done"}
  /\ cutoff \in 1..(MaxCutoff + 2)
  /\ line \in Seq(Frame) /\ line # <<>>
  /\ ret \in Int
  /\ optimum \in [movement : Position \cup {NoMove}, eval : Int]

(* MAX_VAL and MIN_VAL agree with minimax as far as their window asks:     *)
(* below beta what they return is no underestimate, above alpha no         *)
(* overestimate, of the value of the move g has called them for, to the    *)
(* depth that is left.                                                     *)
Sound(v, g, n) ==
  LET child == Head(g.rest)
      depth == n - (g.i + 1)
  IN  /\ v < g.beta => Lo[depth][child] <= v
      /\ v > g.alpha => v <= Hi[depth][child]

(* Only a call during which the flag was cleared may return anything else. *)
ReturnSound == pc = "returned" /\ search => Sound(ret, Caller, cutoff)

Tried(f) == {c \in Children[f.at] : \A k \in DOMAIN f.rest : f.rest[k] # c}

(* No move of S is certainly better at p than m, searched to a depth. *)
BestOf(m, S, p, depth) ==
  \A c \in S : IF p \in WhiteToPlay THEN Lo[depth][c] <= Hi[depth][m]
                                    ELSE Lo[depth][m] <= Hi[depth][c]

(* An iteration has a best move, and search_move may be about to end.      *)
HasBest ==
  /\ pc \in {"call", "enter", "returned", "iterated"} \/ (pc = "done" /\ Root.rest # <<>>)
  /\ ~Root.probe
  /\ optimum.eval \notin {-Infinity, Infinity}

(* Whenever search_move is stopped, even with a call half done, the move   *)
(* it leaves is the best of those this iteration has evaluated, and none   *)
(* of them was judged by a value of the interrupted call.                  *)
BestOfTried ==
  HasBest => /\ best_move = optimum.movement
             /\ best_move \in Tried(Root)
             /\ BestOf(best_move, Tried(Root), Root.at, cutoff)

(* An iteration that ends leaves a minimax move of its depth.              *)
IterationExact ==
  [][cutoff' # cutoff => BestOf(best_move', Children[Root.at], Root.at, cutoff)]_vars

(***************************************************************************)
(* Why ReturnSound holds: what is true of a call that has not returned.    *)
(***************************************************************************)
Finite(v) == -Infinity < v /\ v < Infinity

Window(f) == -Infinity <= f.alpha /\ f.alpha < f.beta /\ f.beta <= Infinity

(* The call f was made by g... *)
Called(f, g) ==
  /\ g.rest # <<>> /\ f.at = Head(g.rest) /\ f.at \in Children[g.at]
  /\ f.i = g.i + 1 /\ ~f.probe

(* ... has just been made... *)
Entered(f, g) == f.alpha = g.alpha /\ f.beta = g.beta /\ f.best = Worst(f.at)

(* ... or is in its loop: the best is as good as every move tried, and if  *)
(* it is inside the window of g it is no better than some move.            *)
InLoop(f, g, n) ==
  /\ f.i < n
  /\ f.best = Worst(f.at) \/ Finite(f.best)
  /\ IF f.at \in WhiteToPlay
     THEN /\ f.beta = g.beta /\ f.alpha = MaxOf(g.alpha, f.best)
          /\ \A c \in Tried(f) : Lo[n - f.i - 1][c] <= f.best
          /\ g.alpha < f.best => \E c \in Children[f.at] : f.best <= Hi[n - f.i - 1][c]
     ELSE /\ f.alpha = g.alpha /\ f.beta = MinOf(g.beta, f.best)
          /\ \A c \in Tried(f) : f.best <= Hi[n - f.i - 1][c]
          /\ f.best < g.beta => \E c \in Children[f.at] : Lo[n - f.i - 1][c] <= f.best

LineOK ==
  /\ Root.i = -1
  /\ IF Root.at \in WhiteToPlay THEN Root.beta = Infinity ELSE Root.alpha = -Infinity
  /\ \A k \in DOMAIN line :
       /\ Window(line[k])
       /\ \A j \in DOMAIN line[k].rest : line[k].rest[j] \in Children[line[k].at]
  /\ \A k \in 1..(Len(line) - 1) :
       /\ Called(line[k], line[k + 1])
       /\ k > 1 \/ pc # "enter" => InLoop(line[k], line[k + 1], cutoff)
  /\ pc = "enter" => Len(line) > 1 /\ Entered(line[1], line[2])

(* Where the thread is, and what it has. *)
PlaceOK ==
  /\ Len(line) > 1 => pc \in {"call", "enter", "returned"}
  /\ pc \in {"call", "returned"} => Caller.rest # <<>>
  /\ pc \notin {"while", "done"} => cutoff <= MaxCutoff
  /\ pc = "enter" => Head(line).i <= cutoff
  /\ pc = "returned" /\ search => Finite(ret)

IInv == TypeOK /\ PlaceOK /\ LineOK /\ ReturnSound

(***************************************************************************)
(* Why BestOfTried and IterationExact hold: the moves left are those not   *)
(* tried, and the optimum is the end of the window that the values of      *)
(* those tried have narrowed.  Black's window is narrowed by its first     *)
(* move twice; if the values differ the second is cut and stored all the   *)
(* same, so what black may be asked to choose from must have one value.    *)
(***************************************************************************)
Steady ==
  \A p \in Roots \ WhiteToPlay, d \in Depth : \A c \in Children[p] : Lo[d][c] = Hi[d][c]

NoneTried(f, o, n) ==
  /\ Tried(f) = {}
  /\ IF f.probe THEN f.at \notin WhiteToPlay /\ f.beta = Infinity
     ELSE /\ o.eval = Worst(f.at)
          /\ IF f.at \in WhiteToPlay THEN f.alpha = -Infinity
                                     ELSE f.beta = Hi[n][Head(f.rest)]

Chosen(f, o, n) ==
  /\ ~f.probe /\ o.movement \in Tried(f) /\ Finite(o.eval)
  /\ IF f.at \in WhiteToPlay
     THEN /\ f.alpha = o.eval /\ o.eval <= Hi[n][o.movement]
          /\ \A c \in Tried(f) : Lo[n][c] <= o.eval
     ELSE /\ f.beta = o.eval /\ Lo[n][o.movement] <= o.eval
          /\ \A c \in Tried(f) : o.eval <= Hi[n][c]

Iterating ==
  pc \in {"call", "enter", "returned", "store", "iterated"} \/ (pc = "done" /\ Root.rest # <<>>)

ChoiceOK ==
  /\ Root.at \in Roots
  /\ pc \in {"while", "order", "iterated"} => Root.rest = <<>>
  /\ Iterating =>
       /\ cutoff <= MaxCutoff /\ IsInjective(Root.rest)
       /\ \/ NoneTried(Root, optimum, cutoff) /\ pc \notin {"store", "iterated"}
          \/ Chosen(Root, optimum, cutoff) /\ (pc # "store" => best_move = optimum.movement)

(* The search, whose every step is one of the calls, ends if it is told to *)
(* (what StopReturns of UCIWSServer.tla rests on)...                       *)
Stops == ~search ~> pc = "done"

(* ... and an iteration ends if it is left alone.                          *)
IterationEnds == pc = "order" ~> pc \in {"while", "done"}

(***************************************************************************)
(* The game thread of UCIWSServer.tla knows nothing of values: it may keep *)
(* or replace its optimum with every root move.  This search is one.       *)
(***************************************************************************)
Thread == INSTANCE UCIWSServer WITH
  StartPosition <- CHOOSE p \in Roots : TRUE, MoveCode <- Position, Legal <- Children,
  Do <- [p \in Position |-> [m \in Position |-> m]], Torn <- NoMove,
  Programs <- {"rollerball"}, MaxInbox <- 0, MaxOutbox <- 0, program <- "rollerball",
  b <- Root.at, inbox <- <<>>, outbox <- <<>>, net <- "ready", process <- "running",
  game <- CASE pc = "while" -> "deepening"
            [] pc = "order" -> "ordering"
            [] pc \in {"call", "enter", "returned"} -> "evaluating"
            [] pc = "store" -> "storing"
            [] pc = "iterated" -> "iterated"
            [] pc = "done" -> "finished",
  copy <- Root.at,
  untried <- {Root.rest[k] : k \in DOMAIN Root.rest},
  optimum <- IF Root.probe \/ optimum.eval \in {-Infinity, Infinity}
             THEN NoMove ELSE optimum.movement,
  found <- best_move # NoMove

(* Every step of the search is a step of that thread, or none of its       *)
(* business, or the stop.                                                  *)
IsGameThread ==
  [][Thread!GameThread \/ UNCHANGED Thread!uvars \/ search' # search]_vars
=============================================================================
