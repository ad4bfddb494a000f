---------------------------- MODULE SearchProofs ----------------------------
(***************************************************************************)
(* The recursion of MAX_VAL and MIN_VAL computes minimax as far as its     *)
(* window asks, on every tree of moves, to every depth, with evaluations   *)
(* that may differ from visit to visit, and wherever it is interrupted.    *)
(* On these grounds the move search_move leaves is the best of those       *)
(* tried, and after an iteration the best of all.                          *)
(***************************************************************************)
EXTENDS Search, SequenceTheorems, FiniteSetTheorems, TLAPS

(***************************************************************************)
(* Minimax.                                                                *)
(***************************************************************************)

(* Values are compared in chains.                                          *)
LEMMA Chain ==
  ASSUME NEW x \in Int, NEW y \in Int, NEW z \in Int, x <= y, y <= z
  PROVE  x <= z
OBVIOUS

(* What is assumed, in the form the provers can use.                       *)
LEMMA Bounds ==
  /\ MaxCutoff \in Nat /\ Infinity \in Int /\ -Infinity \in Int
  /\ \A p \in Position : Children[p] \subseteq Position /\ IsFiniteSet(Children[p])
  /\ \A p \in Position : \A v \in Evals[p] : v \in Int /\ Finite(v)
  /\ \A d \in Depth, p \in Position : Lo[d][p] \in Int /\ Hi[d][p] \in Int
  /\ Stray \subseteq Int /\ 0 \in Stray /\ Roots \subseteq Position /\ NoMove \notin Position
<1>1. Lo \in [Depth -> [Position -> Int]] /\ Hi \in [Depth -> [Position -> Int]]
  BY SearchAssumption DEF IsMinimax
<1>2. Children \in [Position -> SUBSET Position] /\ Evals \in [Position -> SUBSET Int]
  BY SearchAssumption
<1>3. \A p \in Position : \A v \in Evals[p] : v \in Int
  BY <1>2
<1>4. \A p \in Position : Children[p] \subseteq Position /\ IsFiniteSet(Children[p])
  BY <1>2, SearchAssumption
<1> QED
  BY <1>1, <1>3, <1>4, SearchAssumption DEF Finite

(* Where minimax evaluates.                                                *)
LEMMA LeafValues ==
  ASSUME NEW p \in Position, NEW d \in Depth, d = 0 \/ Children[p] = {},
         NEW v \in Evals[p]
  PROVE  Lo[d][p] <= v /\ v <= Hi[d][p]
<1>1. IsMin(Lo[d][p], Evals[p])
  BY SearchAssumption DEF IsMinimax
<1>2. IsMax(Hi[d][p], Evals[p])
  BY SearchAssumption DEF IsMinimax
<1> QED
  BY <1>1, <1>2 DEF IsMin, IsMax

(* Where white is to play it takes the highest of the replies...           *)
LEMMA WhiteValues ==
  ASSUME NEW p \in Position, p \in WhiteToPlay, NEW d \in Depth \ {0}, Children[p] # {}
  PROVE  /\ \E c \in Children[p] : Lo[d][p] = Lo[d - 1][c]
         /\ \A c \in Children[p] : Hi[d - 1][c] <= Hi[d][p]
<1>1. IsMax(Lo[d][p], {Lo[d - 1][c] : c \in Children[p]})
  BY SearchAssumption DEF IsMinimax
<1>2. IsMax(Hi[d][p], {Hi[d - 1][c] : c \in Children[p]})
  BY SearchAssumption DEF IsMinimax
<1> QED
  BY <1>1, <1>2 DEF IsMax

(* ... and where black is, the lowest.                                     *)
LEMMA BlackValues ==
  ASSUME NEW p \in Position, p \notin WhiteToPlay, NEW d \in Depth \ {0}, Children[p] # {}
  PROVE  /\ \E c \in Children[p] : Hi[d][p] = Hi[d - 1][c]
         /\ \A c \in Children[p] : Lo[d][p] <= Lo[d - 1][c]
<1>1. IsMin(Lo[d][p], {Lo[d - 1][c] : c \in Children[p]})
  BY SearchAssumption DEF IsMinimax
<1>2. IsMin(Hi[d][p], {Hi[d - 1][c] : c \in Children[p]})
  BY SearchAssumption DEF IsMinimax
<1> QED
  BY <1>1, <1>2 DEF IsMin

(***************************************************************************)
(* Moves and frames.                                                       *)
(***************************************************************************)

(* An order of the moves has all of them and nothing else.                 *)
LEMMA OrderFacts ==
  ASSUME NEW p \in Position, NEW s \in Orders[p]
  PROVE  /\ s \in Seq(Position)
         /\ \A j \in DOMAIN s : s[j] \in Children[p]
         /\ \A c \in Children[p] : \E j \in DOMAIN s : s[j] = c
<1> DEFINE C == Children[p]
<1>1. C \subseteq Position /\ Cardinality(C) \in Nat
  BY Bounds, FS_CardinalityType
<1>2. s \in [1..Cardinality(C) -> C] /\ \A c \in C : \E k \in DOMAIN s : s[k] = c
  BY DEF Orders
<1>3. s \in Seq(C)
  BY <1>1, <1>2, SeqDef
<1>4. s \in Seq(Position)
  BY <1>1, <1>3, SeqMonotonic
<1> QED
  BY <1>2, <1>4

(* Fields of a call.                                                       *)
LEMMA FrameTypes ==
  ASSUME NEW f \in Frame
  PROVE  /\ f.at \in Position /\ f.i \in Int /\ f.alpha \in Int /\ f.beta \in Int
         /\ f.best \in Int /\ f.rest \in Seq(Position) /\ f.probe \in BOOLEAN
BY Bounds DEF Frame

(* The first of the moves left, and the others.                            *)
LEMMA RestFacts ==
  ASSUME NEW s \in Seq(Position), s # <<>>
  PROVE  /\ Head(s) \in Position /\ Head(s) = s[1] /\ 1 \in DOMAIN s
         /\ Tail(s) \in Seq(Position)
         /\ DOMAIN s = 1..Len(s) /\ Len(s) \in Nat \ {0}
         /\ DOMAIN Tail(s) = 1..(Len(s) - 1)
         /\ \A j \in 1..(Len(s) - 1) : Tail(s)[j] = s[j + 1]
         /\ Tail(s) = <<>> <=> Len(s) = 1
<1>1. Len(s) \in Nat \ {0} /\ DOMAIN s = 1..Len(s)
  BY EmptySeq, LenProperties
<1>2. /\ Head(s) \in Position /\ Tail(s) \in Seq(Position) /\ Len(Tail(s)) = Len(s) - 1
      /\ \A j \in 1..Len(Tail(s)) : Tail(s)[j] = s[j + 1]
  BY HeadTailProperties
<1>3. DOMAIN Tail(s) = 1..(Len(s) - 1)
  BY <1>2, LenProperties
<1>4. Tail(s) = <<>> <=> Len(s) = 1
  BY <1>1, <1>2, EmptySeq
<1> QED
  BY <1>1, <1>2, <1>3, <1>4

LEMMA LenEmpty == Len(<<>>) = 0
BY EmptySeq

(* A call goes on top of the line.                                         *)
LEMMA PushFacts ==
  ASSUME NEW f \in Frame, NEW l \in Seq(Frame)
  PROVE  /\ <<f>> \o l \in Seq(Frame)
         /\ Len(<<f>> \o l) = Len(l) + 1
         /\ (<<f>> \o l)[1] = f
         /\ \A k \in 2..(Len(l) + 1) : (<<f>> \o l)[k] = l[k - 1]
<1>1. <<f>> \in Seq(Frame) /\ Len(<<f>>) = 1 /\ <<f>>[1] = f
  OBVIOUS
<1>2. Len(l) \in Nat
  BY LenProperties
<1> QED
  BY <1>1, <1>2, ConcatProperties

(* And comes off it.                                                       *)
LEMMA PopFacts ==
  ASSUME NEW l \in Seq(Frame), l # <<>>
  PROVE  /\ Len(l) \in Nat \ {0} /\ DOMAIN l = 1..Len(l)
         /\ \A k \in 1..Len(l) : l[k] \in Frame
         /\ Head(l) = l[1]
         /\ Tail(l) \in Seq(Frame)
         /\ Len(Tail(l)) = Len(l) - 1
         /\ \A k \in 1..(Len(l) - 1) : Tail(l)[k] = l[k + 1]
<1>1. Len(l) \in Nat \ {0} /\ DOMAIN l = 1..Len(l)
  BY EmptySeq, LenProperties
<1> QED
  BY <1>1, HeadTailProperties, ElementOfSeq

(***************************************************************************)
(* The loop of MAX_VAL and MIN_VAL.                                        *)
(***************************************************************************)
Better(f, v) == IF Improves(f.at, v, f.best) THEN v ELSE f.best

(* What is neither the first nor in the rest is nowhere.                   *)
LEMMA NotInRest ==
  ASSUME NEW s \in Seq(Position), s # <<>>, NEW c, c # Head(s),
         \A j \in DOMAIN Tail(s) : Tail(s)[j] # c
  PROVE  \A k \in DOMAIN s : s[k] # c
<1> SUFFICES ASSUME NEW k \in 1..Len(s) PROVE s[k] # c
  BY RestFacts
<1>1. Len(s) \in Nat \ {0} /\ Head(s) = s[1]
  BY RestFacts
<1>2. CASE k = 1
  BY <1>1, <1>2
<1>3. CASE k # 1
  <2>1. k - 1 \in 1..(Len(s) - 1) /\ s[(k - 1) + 1] = s[k]
    BY <1>1, <1>3
  <2>2. k - 1 \in DOMAIN Tail(s) /\ Tail(s)[k - 1] = s[k]
    BY <2>1, RestFacts
  <2> QED
    BY <2>2
<1> QED
  BY <1>2, <1>3

(* A move that has a value is tried; no other becomes so.                  *)
LEMMA TriedFacts ==
  ASSUME NEW f \in Frame, f.rest # <<>>, NEW h, h.at = f.at, h.rest = Tail(f.rest)
  PROVE  Tried(h) \subseteq Tried(f) \cup {Head(f.rest)}
<1> SUFFICES ASSUME NEW c \in Tried(h), c # Head(f.rest)
             PROVE  c \in Tried(f)
  OBVIOUS
<1>1. f.rest \in Seq(Position)
  BY FrameTypes
<1>2. c \in Children[f.at] /\ \A j \in DOMAIN Tail(f.rest) : Tail(f.rest)[j] # c
  BY DEF Tried
<1>3. \A k \in DOMAIN f.rest : f.rest[k] # c
  BY <1>1, <1>2, NotInRest
<1> QED
  BY <1>2, <1>3 DEF Tried

(* With the last of the moves, all are tried.                              *)
LEMMA AllTried ==
  ASSUME NEW f \in Frame, f.rest # <<>>, Len(f.rest) = 1
  PROVE  Children[f.at] \subseteq Tried(f) \cup {Head(f.rest)}
<1>1. f.rest \in Seq(Position)
  BY FrameTypes
<1>2. DOMAIN f.rest = {1} /\ Head(f.rest) = f.rest[1]
  BY <1>1, RestFacts
<1> QED
  BY <1>2 DEF Tried

(* Before its first move a call has tried none.                            *)
LEMMA LoopStarts ==
  ASSUME NEW f \in Frame, NEW g \in Frame, NEW n \in Int, NEW s \in Orders[f.at],
         f.i < n, Entered(f, g), Window(g)
  PROVE  InLoop([f EXCEPT !.rest = s], g, n)
<1> DEFINE h == [f EXCEPT !.rest = s]
<1>1. /\ h.at = f.at /\ h.i = f.i /\ h.rest = s /\ h.best = f.best
      /\ h.alpha = f.alpha /\ h.beta = f.beta
  BY DEF Frame
<1>2. \A c \in Children[f.at] : \E j \in DOMAIN s : s[j] = c
  BY FrameTypes, OrderFacts
<1>3. Tried(h) = {}
  BY <1>1, <1>2 DEF Tried
<1>4. /\ f.best = Worst(f.at) /\ f.alpha = g.alpha /\ f.beta = g.beta
      /\ g.alpha \in Int /\ g.beta \in Int /\ Infinity \in Int
      /\ -Infinity <= g.alpha /\ g.beta <= Infinity
  BY FrameTypes, Bounds DEF Entered, Window
<1>5. MaxOf(g.alpha, -Infinity) = g.alpha /\ MinOf(g.beta, Infinity) = g.beta
  BY <1>4 DEF MaxOf, MinOf
<1>6. CASE f.at \in WhiteToPlay
  BY <1>1, <1>3, <1>4, <1>5, <1>6 DEF InLoop, Worst
<1>7. CASE f.at \notin WhiteToPlay
  BY <1>1, <1>3, <1>4, <1>5, <1>7 DEF InLoop, Worst
<1> QED
  BY <1>6, <1>7

(* What the loop of f knows once the first of its moves has the value v.   *)
LEMMA ValueFacts ==
  ASSUME NEW f \in Frame, NEW g \in Frame, NEW n \in 1..MaxCutoff,
         f.rest # <<>>, f.i \in 0..(n - 1), Head(f.rest) \in Children[f.at],
         InLoop(f, g, n), Window(f), Window(g),
         NEW v \in Int, Finite(v), Sound(v, f, n)
  PROVE  LET best == Better(f, v)
             T == Tried(f) \cup {Head(f.rest)}
             d == n - f.i - 1
             h == Narrow(f, v)
         IN  /\ d \in Depth /\ best \in Int /\ Finite(best)
             /\ IF f.at \in WhiteToPlay
                THEN /\ h.beta = g.beta /\ h.alpha = MaxOf(g.alpha, best)
                     /\ v < g.beta => \A c \in T : Lo[d][c] <= best
                     /\ g.alpha < best => \E c \in Children[f.at] : best <= Hi[d][c]
                ELSE /\ h.alpha = g.alpha /\ h.beta = MinOf(g.beta, best)
                     /\ g.alpha < v => \A c \in T : best <= Hi[d][c]
                     /\ best < g.beta => \E c \in Children[f.at] : Lo[d][c] <= best
<1> DEFINE best == Better(f, v)
           T == Tried(f) \cup {Head(f.rest)}
           d == n - f.i - 1
           h == Narrow(f, v)
           m == Head(f.rest)
<1>1. /\ f.at \in Position /\ f.i \in Int /\ f.alpha \in Int /\ f.beta \in Int /\ f.best \in Int
      /\ g.alpha \in Int /\ g.beta \in Int /\ Infinity \in Int /\ MaxCutoff \in Nat
  BY FrameTypes, Bounds
<1>2. d \in Depth /\ n - (f.i + 1) = d
  BY <1>1 DEF Depth
<1>3. T \subseteq Children[f.at] /\ Children[f.at] \subseteq Position
  BY <1>1, Bounds DEF Tried
<1>4. \A c \in Children[f.at] : Lo[d][c] \in Int /\ Hi[d][c] \in Int
  <2> HIDE DEF T, d, best, h, m
  <2> QED
    BY <1>2, <1>3, Bounds
<1>5. /\ v < f.beta => Lo[d][m] <= v
      /\ v > f.alpha => v <= Hi[d][m]
  BY <1>2 DEF Sound
<1>6. CASE f.at \in WhiteToPlay
  <2>1. /\ f.best = -Infinity \/ Finite(f.best)
        /\ f.beta = g.beta /\ f.alpha = MaxOf(g.alpha, f.best)
        /\ \A c \in Tried(f) : Lo[d][c] <= f.best
        /\ g.alpha < f.best => \E c \in Children[f.at] : f.best <= Hi[d][c]
    BY <1>6 DEF InLoop, Worst
  <2>2. best = IF f.best < v THEN v ELSE f.best
    BY <1>6 DEF Better, Improves
  <2>3. best \in Int /\ Finite(best) /\ f.best <= best /\ v <= best
    BY <1>1, <2>1, <2>2 DEF Finite
  <2>4. h.beta = g.beta /\ h.alpha = MaxOf(f.alpha, v)
    BY <1>6, <2>1 DEF Narrow, Frame
  <2>5. MaxOf(f.alpha, v) = MaxOf(g.alpha, best)
    BY <1>1, <2>1, <2>2 DEF MaxOf
  <2>6. v < g.beta => \A c \in T : Lo[d][c] <= best
    <3> SUFFICES ASSUME v < g.beta, NEW c \in T PROVE Lo[d][c] <= best
      OBVIOUS
    <3>1. Lo[d][c] <= f.best \/ Lo[d][c] <= v
      BY <1>5, <2>1
    <3>2. Lo[d][c] \in Int
      BY <1>3, <1>4
    <3> QED
      BY <1>1, <2>3, <3>1, <3>2
  <2>7. ASSUME g.alpha < best PROVE \E c \in Children[f.at] : best <= Hi[d][c]
    <3>1. CASE f.best < v
      <4>1. best = v /\ f.alpha < v
        BY <1>1, <2>1, <2>2, <2>7, <3>1 DEF MaxOf
      <4> QED
        BY <1>5, <4>1
    <3>2. CASE ~(f.best < v)
      BY <2>1, <2>2, <2>7, <3>2
    <3> QED
      BY <3>1, <3>2
  <2> QED
    BY <1>2, <1>6, <2>3, <2>4, <2>5, <2>6, <2>7
<1>7. CASE f.at \notin WhiteToPlay
  <2>1. /\ f.best = Infinity \/ Finite(f.best)
        /\ f.alpha = g.alpha /\ f.beta = MinOf(g.beta, f.best)
        /\ \A c \in Tried(f) : f.best <= Hi[d][c]
        /\ f.best < g.beta => \E c \in Children[f.at] : Lo[d][c] <= f.best
    BY <1>7 DEF InLoop, Worst
  <2>2. best = IF v < f.best THEN v ELSE f.best
    BY <1>7 DEF Better, Improves
  <2>3. best \in Int /\ Finite(best) /\ best <= f.best /\ best <= v
    BY <1>1, <2>1, <2>2 DEF Finite
  <2>4. h.alpha = g.alpha /\ h.beta = MinOf(f.beta, v)
    BY <1>7, <2>1 DEF Narrow, Frame
  <2>5. MinOf(f.beta, v) = MinOf(g.beta, best)
    BY <1>1, <2>1, <2>2 DEF MinOf
  <2>6. g.alpha < v => \A c \in T : best <= Hi[d][c]
    <3> SUFFICES ASSUME g.alpha < v, NEW c \in T PROVE best <= Hi[d][c]
      OBVIOUS
    <3>1. f.best <= Hi[d][c] \/ v <= Hi[d][c]
      BY <1>1, <1>5, <2>1
    <3>2. Hi[d][c] \in Int
      BY <1>3, <1>4
    <3> QED
      BY <1>1, <2>3, <3>1, <3>2
  <2>7. ASSUME best < g.beta PROVE \E c \in Children[f.at] : Lo[d][c] <= best
    <3>1. CASE v < f.best
      <4>1. best = v /\ v < f.beta
        BY <1>1, <2>1, <2>2, <2>7, <3>1 DEF MinOf
      <4> QED
        BY <1>5, <4>1
    <3>2. CASE ~(v < f.best)
      BY <2>1, <2>2, <2>7, <3>2
    <3> QED
      BY <3>1, <3>2
  <2> QED
    BY <1>2, <1>7, <2>3, <2>4, <2>5, <2>6, <2>7
<1> QED
  BY <1>6, <1>7

(* An open window leaves v on the inner side of it.                        *)
LEMMA NarrowFacts ==
  ASSUME NEW f \in Frame, NEW v \in Int, Finite(v), Window(f)
  PROVE  LET h == Narrow(f, v)
         IN  /\ h \in Frame /\ h.at = f.at /\ h.i = f.i /\ h.rest = f.rest
             /\ h.best = f.best /\ h.probe = f.probe
             /\ h.alpha \in Int /\ h.beta \in Int
             /\ -Infinity <= h.alpha /\ h.beta <= Infinity
             /\ IF f.at \in WhiteToPlay
                THEN h.beta = f.beta /\ v <= h.alpha /\ f.alpha <= h.alpha
                     /\ (Closed(h) => f.beta <= v)
                ELSE h.alpha = f.alpha /\ h.beta <= v /\ h.beta <= f.beta
                     /\ (Closed(h) => v <= f.alpha)
             /\ ~Closed(h) => Window(h)
<1> DEFINE h == Narrow(f, v)
<1>1. /\ f.alpha \in Int /\ f.beta \in Int /\ Infinity \in Int
      /\ -Infinity <= f.alpha /\ f.alpha < f.beta /\ f.beta <= Infinity
  BY FrameTypes, Bounds DEF Window
<1>2. CASE f.at \in WhiteToPlay
  <2>1. h = [f EXCEPT !.alpha = MaxOf(f.alpha, v)]
    BY <1>2 DEF Narrow
  <2>2. MaxOf(f.alpha, v) \in Int
    BY <1>1 DEF MaxOf
  <2>3. /\ h \in Frame /\ h.at = f.at /\ h.i = f.i /\ h.rest = f.rest
        /\ h.best = f.best /\ h.probe = f.probe /\ h.beta = f.beta
        /\ h.alpha = MaxOf(f.alpha, v)
    BY <2>1, <2>2 DEF Frame
  <2>4. v <= h.alpha /\ f.alpha <= h.alpha /\ (h.alpha = f.alpha \/ h.alpha = v)
    BY <1>1, <2>3 DEF MaxOf
  <2> QED
    BY <1>1, <1>2, <2>2, <2>3, <2>4 DEF Closed, Window, Finite
<1>3. CASE f.at \notin WhiteToPlay
  <2>1. h = [f EXCEPT !.beta = MinOf(f.beta, v)]
    BY <1>3 DEF Narrow
  <2>2. MinOf(f.beta, v) \in Int
    BY <1>1 DEF MinOf
  <2>3. /\ h \in Frame /\ h.at = f.at /\ h.i = f.i /\ h.rest = f.rest
        /\ h.best = f.best /\ h.probe = f.probe /\ h.alpha = f.alpha
        /\ h.beta = MinOf(f.beta, v)
    BY <2>1, <2>2 DEF Frame
  <2>4. h.beta <= v /\ h.beta <= f.beta /\ (h.beta = f.beta \/ h.beta = v)
    BY <1>1, <2>3 DEF MinOf
  <2> QED
    BY <1>1, <1>3, <2>2, <2>3, <2>4 DEF Closed, Window, Finite
<1> QED
  BY <1>2, <1>3

(* The loop goes on with the next move...                                  *)
Forward(f, v) == [Advance(Narrow(f, v)) EXCEPT !.best = Better(f, v)]

LEMMA LoopGoesOn ==
  ASSUME NEW f \in Frame, NEW g \in Frame, NEW n \in 1..MaxCutoff,
         f.rest # <<>>, f.i \in 0..(n - 1), Head(f.rest) \in Children[f.at],
         InLoop(f, g, n), Window(f), Window(g),
         NEW v \in Int, Finite(v), Sound(v, f, n), ~Closed(Narrow(f, v))
  PROVE  LET h == Forward(f, v)
         IN  /\ h \in Frame /\ InLoop(h, g, n) /\ Window(h) /\ h.at = f.at
             /\ h.i = f.i /\ h.rest = Tail(f.rest) /\ h.probe = f.probe
<1> DEFINE k == Narrow(f, v)
           best == Better(f, v)
           d == n - f.i - 1
           T == Tried(f) \cup {Head(f.rest)}
<1>1. /\ k \in Frame /\ k.at = f.at /\ k.i = f.i /\ k.rest = f.rest /\ k.probe = f.probe
      /\ Window(k) /\ k.alpha < k.beta /\ k.alpha \in Int /\ k.beta \in Int
  BY NarrowFacts DEF Window
<1>2. best \in Int /\ Finite(best) /\ d \in Depth
  BY ValueFacts
<1>3. Tail(f.rest) \in Seq(Position)
  BY FrameTypes, RestFacts
<1>4. f.i < n /\ g.alpha \in Int /\ g.beta \in Int /\ f.alpha \in Int /\ f.beta \in Int
  BY FrameTypes, Bounds
<1>5. ASSUME f.at \in WhiteToPlay
      PROVE  /\ k.beta = g.beta /\ k.alpha = MaxOf(g.alpha, best)
             /\ \A c \in T : Lo[d][c] <= best
             /\ g.alpha < best => \E c \in Children[f.at] : best <= Hi[d][c]
  <2>1. k.beta = g.beta /\ v <= k.alpha
    BY <1>5, NarrowFacts DEF InLoop
  <2>2. v < g.beta
    BY <1>1, <1>4, <2>1
  <2> QED
    BY <1>5, <2>1, <2>2, ValueFacts
<1>6. ASSUME f.at \notin WhiteToPlay
      PROVE  /\ k.alpha = g.alpha /\ k.beta = MinOf(g.beta, best)
             /\ \A c \in T : best <= Hi[d][c]
             /\ best < g.beta => \E c \in Children[f.at] : Lo[d][c] <= best
  <2>1. k.alpha = g.alpha /\ k.beta <= v
    BY <1>6, NarrowFacts DEF InLoop
  <2>2. g.alpha < v
    BY <1>1, <1>4, <2>1
  <2> QED
    BY <1>6, <2>1, <2>2, ValueFacts
<1> DEFINE h == Forward(f, v)
<1>7. /\ h \in Frame /\ h.at = f.at /\ h.i = f.i /\ h.alpha = k.alpha /\ h.beta = k.beta
      /\ h.rest = Tail(f.rest) /\ h.best = best /\ h.probe = f.probe
  BY <1>1, <1>2, <1>3 DEF Forward, Advance, Frame
<1>8. Tried(h) \subseteq T
  BY <1>7, TriedFacts
<1>9. InLoop(h, g, n)
  BY <1>2, <1>4, <1>5, <1>6, <1>7, <1>8 DEF InLoop
<1> QED
  BY <1>1, <1>7, <1>9 DEF Window

(* The depth that is left for f, and for the moves of f.                   *)
LEMMA DepthFacts ==
  ASSUME NEW n \in 1..MaxCutoff, NEW i \in 0..(n - 1)
  PROVE  /\ n - i \in Depth \ {0} /\ n - i - 1 \in Depth
         /\ n - (i + 1) = n - i - 1 /\ (n - i) - 1 = n - i - 1
BY Bounds DEF Depth

(* What it takes for g to be given a sound value by f.                     *)
LEMMA SoundFacts ==
  ASSUME NEW f, NEW g, NEW n, NEW v, Called(f, g),
         v < g.beta => Lo[n - f.i][f.at] <= v,
         g.alpha < v => v <= Hi[n - f.i][f.at]
  PROVE  Sound(v, g, n)
<1>1. Head(g.rest) = f.at /\ n - (g.i + 1) = n - f.i
  BY DEF Called
<1> QED
  BY <1>1 DEF Sound

(* ... or returns the best of all, once it has been through them...        *)
LEMMA LoopReturns ==
  ASSUME NEW f \in Frame, NEW g \in Frame, NEW n \in 1..MaxCutoff, Called(f, g),
         f.rest # <<>>, f.i \in 0..(n - 1), Head(f.rest) \in Children[f.at],
         InLoop(f, g, n), Window(f), Window(g),
         NEW v \in Int, Finite(v), Sound(v, f, n), ~Closed(Narrow(f, v)), Len(f.rest) = 1
  PROVE  Better(f, v) \in Int /\ Finite(Better(f, v)) /\ Sound(Better(f, v), g, n)
<1> DEFINE k == Narrow(f, v)
           best == Better(f, v)
           D == n - f.i
           T == Tried(f) \cup {Head(f.rest)}
<1>1. best \in Int /\ Finite(best)
  BY ValueFacts
<1>2. /\ f.at \in Position /\ f.i \in Int /\ g.i \in Int /\ MaxCutoff \in Nat
      /\ g.alpha \in Int /\ g.beta \in Int /\ f.alpha \in Int /\ f.beta \in Int
  BY FrameTypes, Bounds
<1>3. D \in Depth \ {0} /\ D - 1 \in Depth
  BY DepthFacts
<1>4. Children[f.at] # {} /\ Children[f.at] \subseteq T
  BY AllTried
<1>5. /\ \A c \in Children[f.at] : Lo[D - 1][c] \in Int /\ Hi[D - 1][c] \in Int
      /\ Lo[D][f.at] \in Int /\ Hi[D][f.at] \in Int
  BY <1>1, <1>2, <1>3, Bounds
<1>6. k.alpha < k.beta /\ k.alpha \in Int /\ k.beta \in Int
  BY NarrowFacts DEF Window
<1>7. CASE f.at \in WhiteToPlay
  <2>1. v < g.beta
    BY <1>2, <1>6, <1>7, NarrowFacts DEF InLoop
  <2>2. /\ \A c \in T : Lo[D - 1][c] <= best
        /\ g.alpha < best => \E c \in Children[f.at] : best <= Hi[D - 1][c]
    BY <1>7, <2>1, ValueFacts
  <2>3. Lo[D][f.at] <= best
    <3>1. \E c \in Children[f.at] : Lo[D][f.at] = Lo[D - 1][c]
      BY <1>2, <1>3, <1>4, <1>7, WhiteValues
    <3> QED
      BY <1>4, <2>2, <3>1
  <2>4. ASSUME g.alpha < best PROVE best <= Hi[D][f.at]
    <3>1. PICK c \in Children[f.at] : best <= Hi[D - 1][c]
      BY <2>2, <2>4
    <3>2. Hi[D - 1][c] <= Hi[D][f.at]
      BY <1>2, <1>3, <1>4, <1>7, WhiteValues
    <3>3. best \in Int /\ Hi[D - 1][c] \in Int /\ Hi[D][f.at] \in Int
      BY <1>1, <1>5
    <3> HIDE DEF best, D, k, T
    <3> QED
      BY <3>1, <3>2, <3>3, Chain
  <2> QED
    BY <1>1, <2>3, <2>4, SoundFacts
<1>8. CASE f.at \notin WhiteToPlay
  <2>1. g.alpha < v
    BY <1>2, <1>6, <1>8, NarrowFacts DEF InLoop
  <2>2. /\ \A c \in T : best <= Hi[D - 1][c]
        /\ best < g.beta => \E c \in Children[f.at] : Lo[D - 1][c] <= best
    BY <1>8, <2>1, ValueFacts
  <2>3. best <= Hi[D][f.at]
    <3>1. \E c \in Children[f.at] : Hi[D][f.at] = Hi[D - 1][c]
      BY <1>2, <1>3, <1>4, <1>8, BlackValues
    <3> QED
      BY <1>4, <2>2, <3>1
  <2>4. ASSUME best < g.beta PROVE Lo[D][f.at] <= best
    <3>1. PICK c \in Children[f.at] : Lo[D - 1][c] <= best
      BY <2>2, <2>4
    <3>2. Lo[D][f.at] <= Lo[D - 1][c]
      BY <1>2, <1>3, <1>4, <1>8, BlackValues
    <3>3. best \in Int /\ Lo[D - 1][c] \in Int /\ Lo[D][f.at] \in Int
      BY <1>1, <1>5
    <3> HIDE DEF best, D, k, T
    <3> QED
      BY <3>1, <3>2, <3>3, Chain
  <2> QED
    BY <1>1, <2>3, <2>4, SoundFacts
<1> QED
  BY <1>7, <1>8

(* ... or is cut off with a value outside of its caller's window.          *)
LEMMA LoopIsCut ==
  ASSUME NEW f \in Frame, NEW g \in Frame, NEW n \in 1..MaxCutoff, Called(f, g),
         f.rest # <<>>, f.i \in 0..(n - 1), Head(f.rest) \in Children[f.at],
         InLoop(f, g, n), Window(f), Window(g),
         NEW v \in Int, Finite(v), Sound(v, f, n), Closed(Narrow(f, v))
  PROVE  Sound(v, g, n)
<1> DEFINE D == n - f.i
           m == Head(f.rest)
<1>1. /\ f.at \in Position /\ f.i \in Int /\ g.i \in Int /\ MaxCutoff \in Nat
      /\ g.alpha \in Int /\ g.beta \in Int /\ f.alpha \in Int /\ f.beta \in Int
      /\ m \in Position /\ Children[f.at] # {} /\ f.alpha < f.beta
  BY FrameTypes, RestFacts, Bounds DEF Window
<1>2. D \in Depth \ {0} /\ D - 1 \in Depth /\ n - (f.i + 1) = D - 1
  BY DepthFacts
<1>3. /\ Lo[D - 1][m] \in Int /\ Hi[D - 1][m] \in Int
      /\ Lo[D][f.at] \in Int /\ Hi[D][f.at] \in Int
  BY <1>1, <1>2, Bounds
<1>4. CASE f.at \in WhiteToPlay
  <2>1. f.beta = g.beta /\ f.beta <= v
    BY <1>4, NarrowFacts DEF InLoop
  <2>2. v <= Hi[D - 1][m]
    BY <1>1, <1>2, <2>1 DEF Sound
  <2>3. Hi[D - 1][m] <= Hi[D][f.at]
    BY <1>1, <1>2, <1>4, WhiteValues
  <2>4. v <= Hi[D][f.at]
    <3> HIDE DEF D, m
    <3> QED
      BY <1>3, <2>2, <2>3, Chain
  <2>5. ~(v < g.beta)
    BY <1>1, <2>1
  <2> QED
    BY <2>4, <2>5, SoundFacts
<1>5. CASE f.at \notin WhiteToPlay
  <2>1. f.alpha = g.alpha /\ v <= f.alpha
    BY <1>5, NarrowFacts DEF InLoop
  <2>2. Lo[D - 1][m] <= v
    BY <1>1, <1>2, <2>1 DEF Sound
  <2>3. Lo[D][f.at] <= Lo[D - 1][m]
    BY <1>1, <1>2, <1>5, BlackValues
  <2>4. Lo[D][f.at] <= v
    <3> HIDE DEF D, m
    <3> QED
      BY <1>3, <2>2, <2>3, Chain
  <2>5. ~(g.alpha < v)
    BY <1>1, <2>1
  <2> QED
    BY <2>4, <2>5, SoundFacts
<1> QED
  BY <1>4, <1>5

(***************************************************************************)
(* The inductive invariant, step by step.                                  *)
(***************************************************************************)

(* The calls on the line are frames, and their moves are children.         *)
LEMMA LineFacts ==
  ASSUME IInv
  PROVE  /\ line \in Seq(Frame) /\ line # <<>>
         /\ Len(line) \in Nat \ {0} /\ DOMAIN line = 1..Len(line)
         /\ Root = line[Len(line)] /\ Root \in Frame
         /\ Caller = line[1] /\ Caller \in Frame
         /\ cutoff \in Int /\ ret \in Int
         /\ \A k \in 1..Len(line) :
              /\ line[k] \in Frame /\ Window(line[k])
              /\ line[k].rest # <<>> => Head(line[k].rest) \in Children[line[k].at]
<1>1. line \in Seq(Frame) /\ line # <<>> /\ cutoff \in Int /\ ret \in Int
  BY Bounds DEF IInv, TypeOK
<1>2. /\ Len(line) \in Nat \ {0} /\ DOMAIN line = 1..Len(line) /\ Head(line) = line[1]
      /\ \A k \in 1..Len(line) : line[k] \in Frame
  BY <1>1, PopFacts
<1>3. \A k \in 1..Len(line) :
        /\ Window(line[k])
        /\ \A j \in DOMAIN line[k].rest : line[k].rest[j] \in Children[line[k].at]
  BY <1>2 DEF IInv, LineOK
<1>4. \A k \in 1..Len(line) :
        line[k].rest # <<>> => Head(line[k].rest) \in Children[line[k].at]
  BY <1>2, <1>3, FrameTypes, RestFacts
<1> QED
  BY <1>1, <1>2, <1>3, <1>4 DEF Root, Caller

(* The depth of a call is where it is on the line.                         *)
LEMMA Below ==
  ASSUME IInv, NEW k \in 1..Len(line), k < Len(line)
  PROVE  /\ k + 1 \in 1..Len(line)
         /\ Called(line[k], line[k + 1])
         /\ k > 1 \/ pc # "enter" => InLoop(line[k], line[k + 1], cutoff)
<1>1. Len(line) \in Nat /\ k \in 1..(Len(line) - 1) /\ k + 1 \in 1..Len(line)
  BY LineFacts
<1> QED
  BY <1>1 DEF IInv, LineOK

(* A call returns.                                                         *)
LEMMA ReturnIInv ==
  ASSUME IInv, Len(line) > 1, NEW v \in Int, Return(v),
         UNCHANGED <<search, best_move, cutoff, optimum>>,
         search => Finite(v) /\ Sound(v, line[2], cutoff)
  PROVE  IInv'
<1>1. /\ line \in Seq(Frame) /\ line # <<>> /\ Len(line) \in Nat \ {0, 1}
      /\ ret' = v /\ line' = Tail(line) /\ pc' = "returned" /\ cutoff' = cutoff
  BY LineFacts DEF Return
<1>2. /\ line' \in Seq(Frame) /\ Len(line') = Len(line) - 1 /\ line' # <<>>
      /\ \A k \in 1..Len(line') : line'[k] = line[k + 1]
      /\ DOMAIN line' = 1..Len(line')
  <2>1. /\ line' \in Seq(Frame) /\ Len(line') = Len(line) - 1
        /\ \A k \in 1..(Len(line) - 1) : line'[k] = line[k + 1]
    BY <1>1, PopFacts
  <2>2. Len(line') # 0
    BY <1>1, <2>1
  <2>3. line' # <<>>
    BY <2>2, LenEmpty
  <2> QED
    BY <2>1, <2>3, PopFacts
<1>3. Head(line') = line[2] /\ Root' = Root
  <2>1. Head(line') = line'[1] /\ line'[1] = line[2]
    BY <1>1, <1>2, PopFacts
  <2>2. line'[Len(line')] = line[Len(line)]
    BY <1>1, <1>2
  <2> QED
    BY <2>1, <2>2 DEF Root
<1>4. pc \in {"call", "enter", "returned"} /\ cutoff <= MaxCutoff
  BY <1>1 DEF IInv, PlaceOK
<1>5. Called(line[1], line[2])
  BY <1>1, Below
<1>6. TypeOK'
  BY <1>1, <1>2 DEF IInv, TypeOK
<1>7. PlaceOK'
  BY <1>1, <1>3, <1>4, <1>5 DEF PlaceOK, Caller, Called
<1>8. LineOK'
  <2>1. \A k \in 1..(Len(line') - 1) :
          /\ Called(line'[k], line'[k + 1])
          /\ InLoop(line'[k], line'[k + 1], cutoff)
    <3> SUFFICES ASSUME NEW k \in 1..(Len(line') - 1)
                 PROVE  /\ Called(line'[k], line'[k + 1])
                        /\ InLoop(line'[k], line'[k + 1], cutoff)
      OBVIOUS
    <3>1. /\ k + 1 \in 1..Len(line) /\ k + 1 < Len(line) /\ k + 1 > 1
          /\ line'[k] = line[k + 1] /\ line'[k + 1] = line[(k + 1) + 1]
      BY <1>1, <1>2
    <3> QED
      BY <3>1, Below
  <2>2. \A k \in DOMAIN line' :
          /\ Window(line'[k])
          /\ \A j \in DOMAIN line'[k].rest : line'[k].rest[j] \in Children[line'[k].at]
    BY <1>1, <1>2, LineFacts DEF IInv, LineOK
  <2> QED
    BY <1>1, <1>3, <2>1, <2>2 DEF IInv, LineOK
<1>9. ReturnSound'
  BY <1>1, <1>3 DEF ReturnSound, Caller
<1> QED
  BY <1>6, <1>7, <1>8, <1>9 DEF IInv

(* The moves a call has still to try are children.                         *)
MovesOf(f) == \A j \in DOMAIN f.rest : f.rest[j] \in Children[f.at]

(* They are so still when the first of them has been tried.                *)
LEMMA TailMoves ==
  ASSUME NEW f \in Frame, MovesOf(f), f.rest # <<>>, NEW h, h.at = f.at, h.rest = Tail(f.rest)
  PROVE  MovesOf(h)
<1>1. f.rest \in Seq(Position)
  BY FrameTypes
<1>2. /\ DOMAIN f.rest = 1..Len(f.rest) /\ Len(f.rest) \in Nat
      /\ DOMAIN Tail(f.rest) = 1..(Len(f.rest) - 1)
      /\ \A j \in 1..(Len(f.rest) - 1) : Tail(f.rest)[j] = f.rest[j + 1]
  BY <1>1, RestFacts
<1> SUFFICES ASSUME NEW j \in 1..(Len(f.rest) - 1) PROVE Tail(f.rest)[j] \in Children[f.at]
  BY <1>2 DEF MovesOf
<1>3. j + 1 \in DOMAIN f.rest /\ Tail(f.rest)[j] = f.rest[j + 1]
  BY <1>2
<1> QED
  BY <1>3 DEF MovesOf

(* The innermost call is at its next move.                                 *)
LEMMA TopIInv ==
  ASSUME IInv, Len(line) > 1, NEW f \in Frame, line' = <<f>> \o Tail(line), pc' = "call",
         UNCHANGED <<search, best_move, cutoff, ret, optimum>>,
         f.at = line[1].at, f.i = line[1].i, f.probe = line[1].probe, f.rest # <<>>,
         MovesOf(f), Window(f), InLoop(f, line[2], cutoff)
  PROVE  IInv'
<1>1. /\ line \in Seq(Frame) /\ line # <<>> /\ Len(line) \in Nat \ {0, 1}
      /\ Tail(line) \in Seq(Frame) /\ Len(Tail(line)) = Len(line) - 1
      /\ \A k \in 1..(Len(line) - 1) : Tail(line)[k] = line[k + 1]
  BY LineFacts, PopFacts
<1>2. /\ line' \in Seq(Frame) /\ Len(line') = Len(line) /\ line'[1] = f
      /\ \A k \in 2..Len(line) : line'[k] = line[k]
  <2>1. /\ line' \in Seq(Frame) /\ Len(line') = (Len(line) - 1) + 1 /\ line'[1] = f
        /\ \A k \in 2..((Len(line) - 1) + 1) : line'[k] = Tail(line)[k - 1]
    BY <1>1, PushFacts
  <2>2. \A k \in 2..Len(line) : line'[k] = line[k]
    <3> SUFFICES ASSUME NEW k \in 2..Len(line) PROVE line'[k] = line[k]
      OBVIOUS
    <3>1. k - 1 \in 1..(Len(line) - 1) /\ (k - 1) + 1 = k /\ k \in 2..((Len(line) - 1) + 1)
      BY <1>1
    <3> QED
      BY <1>1, <2>1, <3>1
  <2> QED
    BY <1>1, <2>1, <2>2
<1>3. line' # <<>> /\ DOMAIN line' = 1..Len(line) /\ Head(line') = f /\ Root' = Root
  <2>1. line' # <<>>
    BY <1>1, <1>2, LenEmpty
  <2>2. line'[Len(line')] = line[Len(line)]
    BY <1>1, <1>2
  <2> QED
    BY <1>2, <2>1, <2>2, PopFacts DEF Root
<1>4. TypeOK'
  BY <1>2, <1>3 DEF IInv, TypeOK
<1>5. PlaceOK'
  <2>1. cutoff <= MaxCutoff
    BY <1>1 DEF IInv, PlaceOK
  <2> QED
    BY <1>3, <2>1 DEF PlaceOK, Caller
<1>6. LineOK'
  <2>1. \A k \in 1..(Len(line') - 1) :
          Called(line'[k], line'[k + 1]) /\ InLoop(line'[k], line'[k + 1], cutoff)
    <3> SUFFICES ASSUME NEW k \in 1..(Len(line') - 1)
                 PROVE  Called(line'[k], line'[k + 1]) /\ InLoop(line'[k], line'[k + 1], cutoff)
      OBVIOUS
    <3>1. k \in 1..Len(line) /\ k < Len(line) /\ line'[k + 1] = line[k + 1]
      BY <1>1, <1>2
    <3>2. CASE k = 1
      <4>1. Called(line[1], line[2])
        BY <3>1, <3>2, Below
      <4> QED
        BY <1>2, <3>1, <3>2, <4>1 DEF Called
    <3>3. CASE k # 1
      <4>1. line'[k] = line[k] /\ k > 1
        BY <1>2, <3>1, <3>3
      <4> QED
        BY <3>1, <4>1, Below
    <3> QED
      BY <3>2, <3>3
  <2>2. \A k \in DOMAIN line' : Window(line'[k]) /\ MovesOf(line'[k])
    <3> SUFFICES ASSUME NEW k \in 1..Len(line) PROVE Window(line'[k]) /\ MovesOf(line'[k])
      BY <1>3
    <3>1. k = 1 \/ line'[k] = line[k]
      BY <1>1, <1>2
    <3> QED
      BY <1>2, <3>1, LineFacts DEF IInv, LineOK, MovesOf
  <2> QED
    BY <1>1, <1>3, <2>1, <2>2 DEF IInv, LineOK, MovesOf
<1> QED
  BY <1>4, <1>5, <1>6 DEF IInv, ReturnSound

(* A call is made.                                                         *)
LEMMA PushIInv ==
  ASSUME IInv, pc = "call", ~Interrupted, Call
  PROVE  IInv'
<1> DEFINE g == line[1]
           f == Node(Head(g.rest), g.i + 1, g.alpha, g.beta, <<>>)
<1>1. /\ line \in Seq(Frame) /\ line # <<>> /\ Len(line) \in Nat \ {0}
      /\ Caller = g /\ g \in Frame /\ g.rest # <<>> /\ Window(g)
      /\ Head(g.rest) \in Children[g.at] /\ cutoff \in 1..MaxCutoff
  BY LineFacts, Bounds DEF IInv, PlaceOK, TypeOK
<1>2. /\ line' = <<f>> \o line /\ pc' = "enter"
      /\ UNCHANGED <<search, best_move, cutoff, ret, optimum>>
  BY <1>1 DEF Call
<1>3. g.i \in -1..(cutoff - 1)
  <2>1. g.i \in -1..MaxCutoff
    BY <1>1 DEF Frame
  <2>2. CASE Len(line) = 1
    <3>1. Root = g /\ Root.i = -1
      BY <2>2, LineFacts DEF IInv, LineOK
    <3> QED
      BY <1>1, <3>1
  <2>3. CASE Len(line) # 1
    <3>0. \A l \in Nat \ {0} : l # 1 => 1 \in 1..l /\ 1 < l
      OBVIOUS
    <3>1. 1 \in 1..Len(line) /\ 1 < Len(line)
      BY <1>1, <2>3, <3>0
    <3>2. InLoop(line[1], line[1 + 1], cutoff)
      BY <1>1, <3>1, Below
    <3>3. g.i < cutoff
      BY <3>2 DEF InLoop
    <3> QED
      BY <1>1, <2>1, <3>3, Bounds
  <2> QED
    BY <2>2, <2>3
<1>4. f \in Frame /\ f.at = Head(g.rest) /\ f.i = g.i + 1 /\ f.alpha = g.alpha
      /\ f.beta = g.beta /\ f.best = Worst(f.at) /\ f.rest = <<>> /\ ~f.probe
  <2>1. Head(g.rest) \in Position /\ g.alpha \in Int /\ g.beta \in Int
    BY <1>1, FrameTypes, RestFacts
  <2>2. Worst(Head(g.rest)) \in Int /\ g.i + 1 \in -1..MaxCutoff /\ <<>> \in Seq(Position)
    BY <1>1, <1>3, Bounds, EmptySeq DEF Worst
  <2> QED
    BY <2>1, <2>2 DEF Node, Frame
<1>5. /\ line' \in Seq(Frame) /\ Len(line') = Len(line) + 1 /\ line'[1] = f
      /\ \A k \in 2..(Len(line) + 1) : line'[k] = line[k - 1]
  BY <1>1, <1>2, <1>4, PushFacts
<1>6. line' # <<>> /\ DOMAIN line' = 1..Len(line') /\ Head(line') = f /\ Root' = Root
      /\ line'[2] = g
  <2>1. line' # <<>>
    BY <1>1, <1>5, LenEmpty
  <2>0. Len(line) \in Nat \ {0}
    BY <1>1
  <2>2. line'[Len(line')] = line[Len(line)] /\ line'[2] = line[1]
    BY <1>5, <2>0
  <2> QED
    BY <1>5, <2>1, <2>2, PopFacts DEF Root
<1>7. TypeOK'
  BY <1>2, <1>5, <1>6 DEF IInv, TypeOK
<1>8. PlaceOK'
  BY <1>1, <1>2, <1>3, <1>4, <1>6 DEF PlaceOK, Caller
<1>9. LineOK'
  <2>1. \A k \in 1..(Len(line') - 1) :
          /\ Called(line'[k], line'[k + 1])
          /\ k > 1 => InLoop(line'[k], line'[k + 1], cutoff)
    <3> SUFFICES ASSUME NEW k \in 1..(Len(line') - 1)
                 PROVE  /\ Called(line'[k], line'[k + 1])
                        /\ k > 1 => InLoop(line'[k], line'[k + 1], cutoff)
      OBVIOUS
    <3>1. CASE k = 1
      BY <1>1, <1>4, <1>5, <1>6, <3>1 DEF Called
    <3>2. CASE k # 1
      <4>1. k - 1 \in 1..Len(line) /\ k - 1 < Len(line) /\ line'[k] = line[k - 1]
            /\ line'[k + 1] = line[(k - 1) + 1]
        BY <1>1, <1>5, <3>2
      <4> QED
        BY <1>1, <4>1, Below
    <3> QED
      BY <3>1, <3>2
  <2>2. \A k \in DOMAIN line' : Window(line'[k]) /\ MovesOf(line'[k])
    <3> SUFFICES ASSUME NEW k \in 1..Len(line') PROVE Window(line'[k]) /\ MovesOf(line'[k])
      BY <1>6
    <3>1. CASE k = 1
      <4>1. MovesOf(f)
        BY <1>4 DEF MovesOf
      <4>2. Window(f)
        BY <1>1, <1>4 DEF Window
      <4> QED
        BY <1>5, <3>1, <4>1, <4>2
    <3>2. CASE k # 1
      <4>1. k - 1 \in 1..Len(line) /\ line'[k] = line[k - 1]
        BY <1>1, <1>5, <3>2
      <4> QED
        BY <4>1, LineFacts DEF IInv, LineOK, MovesOf
    <3> QED
      BY <3>1, <3>2
  <2>3. Entered(line'[1], line'[2]) /\ Len(line') > 1
    <3>1. Entered(line'[1], line'[2])
      BY <1>4, <1>5, <1>6 DEF Entered
    <3> QED
      BY <1>1, <1>5, <3>1
  <2>4. Root'.i = -1 /\ IF Root'.at \in WhiteToPlay THEN Root'.beta = Infinity
                                                   ELSE Root'.alpha = -Infinity
    BY <1>6 DEF IInv, LineOK
  <2> HIDE DEF f, g
  <2> QED
    BY <1>2, <2>1, <2>2, <2>3, <2>4 DEF LineOK, MovesOf
<1> QED
  BY <1>2, <1>7, <1>8, <1>9 DEF IInv, ReturnSound

(* The depth of the call that is about to return or to take its next move. *)
LEMMA InnerFacts ==
  ASSUME IInv, Len(line) > 1
  PROVE  /\ line[1] \in Frame /\ line[2] \in Frame /\ Caller = line[1] /\ Head(line) = line[1]
         /\ Called(line[1], line[2]) /\ Window(line[1]) /\ Window(line[2])
         /\ line[1].i \in 0..MaxCutoff /\ cutoff \in 1..MaxCutoff
         /\ pc \in {"call", "enter", "returned"} /\ line[1].i = line[2].i + 1
<1>1. Len(line) \in Nat /\ 1 \in 1..Len(line) /\ 2 \in 1..Len(line) /\ 1 < Len(line)
  BY LineFacts
<1>2. line[1] \in Frame /\ line[2] \in Frame /\ Window(line[1]) /\ Window(line[2])
      /\ Caller = line[1]
  BY <1>1, LineFacts
<1>3. Called(line[1], line[2])
  BY <1>1, Below
<1>4. line[1].i \in -1..MaxCutoff /\ line[2].i \in -1..MaxCutoff /\ MaxCutoff \in Nat
  BY <1>2, Bounds DEF Frame
<1>5. line[1].i = line[2].i + 1
  BY <1>3 DEF Called
<1>6. pc \in {"call", "enter", "returned"} /\ cutoff <= MaxCutoff /\ cutoff \in 1..(MaxCutoff + 2)
  BY <1>1 DEF IInv, PlaceOK, TypeOK
<1> QED
  BY <1>2, <1>3, <1>4, <1>5, <1>6 DEF Caller

(* An evaluation is the value of a position with nothing left to search.   *)
LEMMA EvaluationSound ==
  ASSUME IInv, Len(line) > 1, pc = "enter",
         Children[line[1].at] = {} \/ line[1].i = cutoff, NEW v \in Evals[line[1].at]
  PROVE  v \in Int /\ Finite(v) /\ Sound(v, line[2], cutoff)
<1> DEFINE f == line[1]
<1>1. f.at \in Position /\ Called(f, line[2]) /\ f.i \in 0..MaxCutoff /\ cutoff \in 1..MaxCutoff
      /\ MaxCutoff \in Nat
  BY InnerFacts, FrameTypes, Bounds
<1>2. f.i <= cutoff
  BY InnerFacts DEF IInv, PlaceOK
<1>3. cutoff - f.i \in Depth /\ (f.i = cutoff => cutoff - f.i = 0)
  BY <1>1, <1>2 DEF Depth
<1>4. Lo[cutoff - f.i][f.at] <= v /\ v <= Hi[cutoff - f.i][f.at]
  BY <1>1, <1>3, LeafValues
<1> QED
  BY <1>1, <1>4, SoundFacts, Bounds

(* With the flag set there is no empty list of moves but the right one.    *)
LEMMA EmptyOrder ==
  ASSUME NEW p \in Position, search, <<>> \in Order_Children(p)
  PROVE  Children[p] = {}
<1>1. <<>> \in Orders[p]
  BY DEF Order_Children
<1>2. \A c \in Children[p] : \E j \in DOMAIN <<>> : <<>>[j] = c
  BY <1>1, OrderFacts
<1>3. DOMAIN <<>> = {}
  OBVIOUS
<1> QED
  BY <1>2, <1>3

(* MAX_VAL or MIN_VAL is entered.                                          *)
LEMMA EnterIInv ==
  ASSUME IInv, Enter
  PROVE  IInv'
<1> DEFINE f == line[1]
<1>1. Len(line) > 1 /\ pc = "enter" /\ Entered(f, line[2]) /\ f.i <= cutoff
  BY LineFacts DEF Enter, IInv, LineOK, PlaceOK, Caller
<1>2. /\ Head(line) = f /\ f \in Frame /\ line[2] \in Frame /\ f.at \in Position
      /\ Window(f) /\ Window(line[2]) /\ Called(f, line[2]) /\ cutoff \in Int
      /\ search \in BOOLEAN /\ f.i \in Int
  BY <1>1, InnerFacts, FrameTypes DEF IInv, TypeOK
<1>3. UNCHANGED <<search, best_move, cutoff, optimum>>
  BY DEF Enter
<1>4. CASE Interrupted /\ Return(0)
  BY <1>1, <1>3, <1>4, ReturnIInv DEF Interrupted
<1>5. ASSUME <<>> \in Order_Children(f.at),
             NEW v \in IF Children[f.at] = {} THEN Evals[f.at] ELSE Stray, Return(v)
      PROVE  IInv'
  <2>1. v \in Int /\ (search => Finite(v) /\ Sound(v, line[2], cutoff))
    <3>1. CASE Children[f.at] = {}
      BY <1>1, <1>5, <3>1, EvaluationSound
    <3>2. CASE Children[f.at] # {}
      BY <1>2, <1>5, <3>2, EmptyOrder, Bounds
    <3> QED
      BY <3>1, <3>2
  <2> QED
    BY <1>1, <1>3, <1>5, <2>1, ReturnIInv
<1>6. ASSUME f.i = cutoff, NEW v \in Evals[f.at], Return(v)
      PROVE  IInv'
  <2>1. v \in Int /\ Finite(v) /\ Sound(v, line[2], cutoff)
    BY <1>1, <1>6, EvaluationSound
  <2> QED
    BY <1>1, <1>3, <1>6, <2>1, ReturnIInv
<1>7. ASSUME NEW moves \in Order_Children(f.at), moves # <<>>, f.i # cutoff,
             line' = <<[f EXCEPT !.rest = moves]>> \o Tail(line), pc' = "call", ret' = ret
      PROVE  IInv'
  <2> DEFINE h == [f EXCEPT !.rest = moves]
  <2>1. moves \in Orders[f.at]
    BY <1>7 DEF Order_Children
  <2>2. moves \in Seq(Position) /\ \A j \in DOMAIN moves : moves[j] \in Children[f.at]
    BY <1>2, <2>1, OrderFacts
  <2>3. /\ h \in Frame /\ h.at = f.at /\ h.i = f.i /\ h.probe = f.probe /\ h.rest = moves
        /\ h.alpha = f.alpha /\ h.beta = f.beta
    BY <1>2, <2>2 DEF Frame
  <2>4. InLoop(h, line[2], cutoff)
    <3>1. f.i < cutoff
      BY <1>1, <1>2, <1>7
    <3> HIDE DEF f
    <3> QED
      BY <1>1, <1>2, <2>1, <3>1, LoopStarts DEF h
  <2>5. MovesOf(h) /\ Window(h)
    BY <1>2, <2>2, <2>3 DEF MovesOf, Window
  <2> QED
    BY <1>1, <1>3, <1>7, <2>3, <2>4, <2>5, TopIInv
<1> QED
  BY <1>2, <1>4, <1>5, <1>6, <1>7 DEF Enter

(* A value comes back to MAX_VAL or MIN_VAL.                               *)
LEMMA ReturnedInnerIInv ==
  ASSUME IInv, ReturnedInner
  PROVE  IInv'
<1> DEFINE f == line[1]
           g == line[2]
           best == Better(f, ret)
<1>1. /\ pc = "returned" /\ Len(line) > 1 /\ UNCHANGED <<search, best_move, cutoff, optimum>>
      /\ search \in BOOLEAN
  BY DEF ReturnedInner, IInv, TypeOK
<1>2. /\ f \in Frame /\ g \in Frame /\ Caller = f /\ Called(f, g) /\ Window(f) /\ Window(g)
      /\ f.i \in 0..MaxCutoff /\ cutoff \in 1..MaxCutoff /\ MaxCutoff \in Nat /\ ret \in Int
  BY <1>1, InnerFacts, LineFacts, Bounds
<1>3. f.rest # <<>> /\ f.rest \in Seq(Position) /\ Head(f.rest) \in Children[f.at] /\ MovesOf(f)
  BY <1>1, <1>2, LineFacts, FrameTypes DEF IInv, PlaceOK, LineOK, MovesOf
<1>4. InLoop(f, g, cutoff) /\ f.i \in 0..(cutoff - 1)
  <2>1. 1 \in 1..Len(line) /\ 1 < Len(line)
    BY <1>1, LineFacts
  <2>2. InLoop(line[1], line[1 + 1], cutoff)
    BY <1>1, <2>1, Below
  <2> QED
    BY <1>2, <2>2 DEF InLoop
<1>5. CASE Interrupted
  <2>1. Return(0)
    BY <1>1, <1>5 DEF ReturnedInner
  <2> QED
    BY <1>1, <1>5, <2>1, ReturnIInv DEF Interrupted
<1>6. CASE ~Interrupted
  <2>1. search /\ Finite(ret) /\ Sound(ret, f, cutoff)
    BY <1>1, <1>2, <1>6 DEF Interrupted, IInv, PlaceOK, ReturnSound
  <2>2. /\ Narrow(f, ret).at = f.at /\ Narrow(f, ret).rest = f.rest
        /\ Narrow(f, ret).best = f.best
    BY <1>2, <2>1, NarrowFacts
  <2>3. \/ Closed(Narrow(f, ret)) /\ Return(ret)
        \/ ~Closed(Narrow(f, ret)) /\ Len(f.rest) = 1 /\ Return(best)
        \/ /\ ~Closed(Narrow(f, ret)) /\ Len(f.rest) # 1
           /\ line' = <<[Advance(Narrow(f, ret)) EXCEPT !.best = best]>> \o Tail(line)
           /\ pc' = "call" /\ ret' = ret
    BY <1>1, <1>2, <1>6, <2>2 DEF ReturnedInner, Better
  <2>4. CASE Closed(Narrow(f, ret)) /\ Return(ret)
    <3>1. Sound(ret, g, cutoff)
      BY <1>2, <1>3, <1>4, <2>1, <2>4, LoopIsCut
    <3> QED
      BY <1>1, <1>2, <2>1, <2>4, <3>1, ReturnIInv
  <2>5. CASE ~Closed(Narrow(f, ret)) /\ Len(f.rest) = 1 /\ Return(best)
    <3>1. best \in Int /\ Finite(best) /\ Sound(best, g, cutoff)
      BY <1>2, <1>3, <1>4, <2>1, <2>5, LoopReturns
    <3> QED
      BY <1>1, <2>5, <3>1, ReturnIInv
  <2>6. CASE /\ ~Closed(Narrow(f, ret)) /\ Len(f.rest) # 1
             /\ line' = <<[Advance(Narrow(f, ret)) EXCEPT !.best = best]>> \o Tail(line)
             /\ pc' = "call" /\ ret' = ret
    <3> DEFINE h == Forward(f, ret)
    <3>1. /\ h \in Frame /\ InLoop(h, g, cutoff) /\ Window(h) /\ h.at = f.at
          /\ h.i = f.i /\ h.rest = Tail(f.rest) /\ h.probe = f.probe
      <4>1. ~Closed(Narrow(f, ret)) /\ f.i \in 0..(cutoff - 1) /\ cutoff \in 1..MaxCutoff
            /\ ret \in Int /\ InLoop(f, g, cutoff)
        BY <1>2, <1>4, <2>6
      <4>2. f.rest # <<>> /\ Head(f.rest) \in Children[f.at]
        BY <1>3
      <4>3. f \in Frame /\ g \in Frame /\ Window(f) /\ Window(g)
        BY <1>2
      <4> HIDE DEF f, g
      <4> QED
        BY <2>1, <4>1, <4>2, <4>3, LoopGoesOn
    <3>2. h.rest # <<>>
      BY <1>3, <2>6, <3>1, RestFacts
    <3>3. MovesOf(h)
      BY <1>2, <1>3, <3>1, TailMoves
    <3>4. line' = <<h>> \o Tail(line) /\ pc' = "call"
          /\ UNCHANGED <<search, best_move, cutoff, ret, optimum>>
      BY <1>1, <2>6 DEF Forward
    <3> QED
      BY <1>1, <3>1, <3>2, <3>3, <3>4, TopIInv
  <2> QED
    BY <2>3, <2>4, <2>5, <2>6
<1> QED
  BY <1>5, <1>6

(* The flag is cleared, or a call is answered at once because it is.       *)
LEMMA StillIInv ==
  ASSUME IInv, UNCHANGED <<cutoff, line>>, pc' = "enter" <=> pc = "enter",
         TypeOK', PlaceOK', search' => UNCHANGED <<search, pc, ret>>
  PROVE  IInv'
<1>1. LineOK'
  <2>1. Root' = Root
    BY DEF Root
  <2> QED
    BY <2>1 DEF IInv, LineOK
<1>2. ReturnSound'
  BY DEF IInv, ReturnSound, Caller
<1> QED
  BY <1>1, <1>2 DEF IInv

LEMMA CallIInv ==
  ASSUME IInv, Call
  PROVE  IInv'
<1>1. pc = "call"
  BY DEF Call
<1>2. CASE ~Interrupted
  BY <1>1, <1>2, PushIInv
<1>3. CASE Interrupted
  <2>1. /\ UNCHANGED <<search, best_move, cutoff, optimum, line>>
        /\ pc' = "returned" /\ ret' = 0 /\ ~search
    BY <1>3 DEF Call, Interrupted
  <2>2. TypeOK'
    BY <2>1 DEF IInv, TypeOK
  <2>3. PlaceOK'
    BY <1>1, <2>1 DEF IInv, PlaceOK, Caller
  <2> QED
    BY <1>1, <2>1, <2>2, <2>3, StillIInv
<1> QED
  BY <1>2, <1>3

(***************************************************************************)
(* The steps of search_move itself, with nothing but its own frame left.   *)
(***************************************************************************)

(* One end of the window of search_move is infinite.                       *)
OpenEnd(f) == IF f.at \in WhiteToPlay THEN f.beta = Infinity ELSE f.alpha = -Infinity

LEMMA SoleIInv ==
  ASSUME NEW f \in Frame, TypeOK', Len(line') = 1, line'[1] = f,
         f.i = -1, OpenEnd(f), Window(f), MovesOf(f), pc' \notin {"enter", "returned"},
         pc' = "call" => f.rest # <<>>, pc' \notin {"while", "done"} => cutoff' <= MaxCutoff
  PROVE  IInv'
<1>1. Root' = f
  BY DEF Root
<1>2. DOMAIN line' = {1} /\ Caller' = f
  <2>1. line' \in Seq(Frame) /\ line' # <<>>
    BY DEF TypeOK
  <2>2. DOMAIN line' = 1..1 /\ Head(line') = line'[1]
    BY <2>1, PopFacts
  <2> QED
    BY <2>2 DEF Caller
<1>3. PlaceOK'
  BY <1>2 DEF PlaceOK
<1>4. LineOK'
  <2>1. 1..(Len(line') - 1) = {}
    OBVIOUS
  <2> QED
    BY <1>1, <1>2, <2>1 DEF LineOK, OpenEnd, MovesOf
<1> QED
  BY <1>3, <1>4 DEF IInv, ReturnSound

(* Where search_move itself is, there is nothing else.                     *)
LEMMA SoleFacts ==
  ASSUME IInv, Len(line) = 1 \/ pc \notin {"call", "enter", "returned"}
  PROVE  /\ Len(line) = 1 /\ line[1] = Root /\ Caller = Root /\ Root \in Frame
         /\ Root.at \in Position /\ Root.rest \in Seq(Position)
         /\ Root.i = -1 /\ OpenEnd(Root) /\ Window(Root) /\ MovesOf(Root)
<1>1. ASSUME pc \notin {"call", "enter", "returned"}
      PROVE  Len(line) = 1
  <2>1. line \in Seq(Frame) /\ Len(line) \in Nat \ {0}
    BY LineFacts
  <2>2. ~(Len(line) > 1)
    BY <1>1 DEF IInv, PlaceOK
  <2>3. \A n \in Nat \ {0} : ~(n > 1) => n = 1
    OBVIOUS
  <2> QED
    BY <2>1, <2>2, <2>3, Zenon
<1>2. line[1] = Root /\ Caller = Root /\ Root \in Frame /\ Window(Root) /\ DOMAIN line = 1..1
      /\ Len(line) = 1
  BY <1>1, LineFacts
<1>3. Root.i = -1 /\ OpenEnd(Root) /\ MovesOf(Root)
  BY <1>2 DEF IInv, LineOK, OpenEnd, MovesOf
<1> QED
  BY <1>2, <1>3, FrameTypes

(* The loop of search_move, the store and the end of an iteration leave    *)
(* its frame alone.                                                        *)
LEMMA SameLine ==
  ASSUME IInv, Len(line) = 1 \/ pc \notin {"call", "enter", "returned"},
         line' = line, TypeOK', pc' \notin {"enter", "returned"},
         pc' = "call" => Root.rest # <<>>, pc' \notin {"while", "done"} => cutoff' <= MaxCutoff
  PROVE  IInv'
<1>1. line'[1] = Root /\ Len(line') = 1
  BY SoleFacts
<1> QED
  BY <1>1, SoleFacts, SoleIInv

LEMMA WhileIInv ==
  ASSUME IInv, While
  PROVE  IInv'
<1>1. /\ pc = "while" /\ pc' \in {"done", "order"} /\ line' = line /\ cutoff' = cutoff
      /\ pc' = "order" => cutoff' <= MaxCutoff
  BY DEF While
<1>2. TypeOK'
  BY <1>1 DEF IInv, TypeOK, While
<1> QED
  BY <1>1, <1>2, SameLine

LEMMA StoreIInv ==
  ASSUME IInv, Store
  PROVE  IInv'
<1>1. /\ pc = "store" /\ line' = line /\ cutoff' = cutoff /\ pc' \in {"iterated", "call"}
      /\ pc' = "call" => Root.rest # <<>>
  BY DEF Store
<1>2. TypeOK'
  BY <1>1 DEF IInv, TypeOK, Store
<1>3. cutoff <= MaxCutoff
  BY <1>1 DEF IInv, PlaceOK
<1> QED
  BY <1>1, <1>2, <1>3, SameLine

LEMMA EndIterationIInv ==
  ASSUME IInv, EndIteration
  PROVE  IInv'
<1>1. pc = "iterated" /\ line' = line /\ pc' \in {"while", "done"}
  BY DEF EndIteration
<1>2. cutoff \in 1..MaxCutoff
  BY <1>1, Bounds DEF IInv, TypeOK, PlaceOK
<1>3. TypeOK'
  BY <1>1, <1>2, Bounds DEF IInv, TypeOK, EndIteration
<1> QED
  BY <1>1, <1>3, SameLine

(* -Infinity < Infinity: there is an evaluation between them.              *)
LEMMA WidestWindow ==
  ASSUME NEW p \in Position
  PROVE  Window(Node(p, -1, -Infinity, Infinity, <<>>)) /\ -Infinity < Infinity
<1>1. 0 \in Depth
  BY Bounds DEF Depth
<1>2. IsMin(Lo[0][p], Evals[p])
  BY <1>1, SearchAssumption DEF IsMinimax
<1>3. Finite(Lo[0][p]) /\ Lo[0][p] \in Int
  BY <1>2, Bounds DEF IsMin
<1>4. -Infinity < Infinity
  BY <1>3, Bounds DEF Finite
<1> QED
  BY <1>4, Bounds DEF Window, Node

LEMMA OrderRootIInv ==
  ASSUME IInv, OrderRoot
  PROVE  IInv'
<1>1. /\ pc = "order" /\ UNCHANGED <<search, best_move, cutoff, ret>>
      /\ cutoff <= MaxCutoff /\ Root.at \in Position /\ -Infinity < Infinity
  BY SoleFacts, WidestWindow DEF OrderRoot, IInv, PlaceOK
<1>2. PICK moves \in Order_Children(Root.at) :
        IF moves = <<>>
        THEN pc' = "done" /\ UNCHANGED <<line, optimum>>
        ELSE LET white == Root.at \in WhiteToPlay
             IN  /\ line' = <<[Node(Root.at, -1, -Infinity, Infinity, moves)
                                  EXCEPT !.probe = ~white]>>
                 /\ optimum' = IF white THEN [optimum EXCEPT !.eval = -Infinity] ELSE optimum
                 /\ pc' = "call"
  BY DEF OrderRoot
<1>3. CASE moves = <<>>
  <2>1. TypeOK'
    BY <1>1, <1>2, <1>3 DEF IInv, TypeOK
  <2> QED
    BY <1>1, <1>2, <1>3, <2>1, SameLine
<1>4. CASE moves # <<>>
  <2> DEFINE f == [Node(Root.at, -1, -Infinity, Infinity, moves)
                      EXCEPT !.probe = ~(Root.at \in WhiteToPlay)]
  <2>1. moves \in Seq(Position) /\ \A j \in DOMAIN moves : moves[j] \in Children[Root.at]
    BY <1>1, <1>2, <1>4, OrderFacts DEF Order_Children
  <2>2. Worst(Root.at) \in Int /\ -1 \in -1..MaxCutoff
    BY Bounds DEF Worst
  <2>3. /\ f \in Frame /\ f.at = Root.at /\ f.i = -1 /\ f.rest = moves
        /\ f.alpha = -Infinity /\ f.beta = Infinity
    BY <1>1, <2>1, <2>2, Bounds DEF Node, Frame
  <2>4. OpenEnd(f) /\ Window(f) /\ MovesOf(f)
    BY <1>1, <2>1, <2>3, Bounds DEF OpenEnd, Window, MovesOf
  <2>5. line' = <<f>> /\ pc' = "call"
    BY <1>2, <1>4
  <2>6. line' \in Seq(Frame) /\ Len(line') = 1 /\ line'[1] = f /\ line' # <<>>
    BY <2>3, <2>5
  <2>7. optimum' \in [movement : Position \cup {NoMove}, eval : Int]
    BY <1>2, <1>4, Bounds DEF IInv, TypeOK
  <2>8. TypeOK'
    BY <1>1, <2>5, <2>6, <2>7 DEF IInv, TypeOK
  <2> QED
    BY <1>1, <1>4, <2>3, <2>4, <2>5, <2>6, <2>8, SoleIInv
<1> QED
  BY <1>3, <1>4

LEMMA ReturnedRootIInv ==
  ASSUME IInv, ReturnedRoot
  PROVE  IInv'
<1> DEFINE f == Narrow(Root, ret)
<1>1. /\ pc = "returned" /\ Len(line) = 1 /\ UNCHANGED <<search, best_move, cutoff, ret>>
      /\ cutoff <= MaxCutoff /\ ret \in Int
  BY DEF ReturnedRoot, IInv, PlaceOK, TypeOK
<1>2. /\ Root \in Frame /\ Root.rest \in Seq(Position) /\ Root.rest # <<>> /\ Root.i = -1
      /\ OpenEnd(Root) /\ Window(Root) /\ MovesOf(Root)
  BY <1>1, SoleFacts DEF IInv, PlaceOK
<1>3. CASE Interrupted
  <2>1. pc' = "done" /\ UNCHANGED <<line, optimum>>
    BY <1>3 DEF ReturnedRoot
  <2>2. TypeOK'
    BY <1>1, <2>1 DEF IInv, TypeOK
  <2> QED
    BY <1>1, <2>1, <2>2, SameLine
<1>4. CASE ~Interrupted
  <2>1. Finite(ret)
    BY <1>1, <1>4 DEF IInv, PlaceOK, Interrupted
  <2>2. /\ f \in Frame /\ f.at = Root.at /\ f.i = -1 /\ f.rest = Root.rest /\ f.probe = Root.probe
        /\ ~Closed(f) /\ Window(f) /\ OpenEnd(f)
    <3>1. ~Closed(f)
      BY <1>1, <1>2, <2>1, NarrowFacts, FrameTypes, Bounds DEF OpenEnd, Finite
    <3> QED
      BY <1>1, <1>2, <2>1, <3>1, NarrowFacts DEF OpenEnd
  <2>3. MovesOf(f) /\ f.rest # <<>> /\ f.rest \in Seq(Position)
    BY <1>2, <2>2 DEF MovesOf
  <2>4. CASE Root.probe
    <3> DEFINE h == [f EXCEPT !.probe = FALSE]
    <3>1. line' = <<h>> /\ optimum' = [optimum EXCEPT !.eval = Infinity] /\ pc' = "call"
      BY <1>4, <2>2, <2>4 DEF ReturnedRoot
    <3>2. /\ h \in Frame /\ h.at = f.at /\ h.i = -1 /\ h.rest = f.rest
          /\ h.alpha = f.alpha /\ h.beta = f.beta
      BY <2>2 DEF Frame
    <3>3. OpenEnd(h) /\ Window(h) /\ MovesOf(h)
      BY <2>2, <2>3, <3>2 DEF OpenEnd, Window, MovesOf
    <3>4. line' \in Seq(Frame) /\ Len(line') = 1 /\ line'[1] = h /\ line' # <<>>
      BY <3>1, <3>2
    <3>5. TypeOK'
      BY <1>1, <3>1, <3>4, Bounds DEF IInv, TypeOK
    <3> QED
      BY <1>1, <2>3, <3>1, <3>2, <3>3, <3>4, <3>5, SoleIInv
  <2>5. CASE ~Root.probe
    <3> DEFINE h == Advance(f)
    <3>1. /\ line' = <<h>>
          /\ \/ optimum' = [movement |-> Head(f.rest), eval |-> ret] /\ pc' = "store"
             \/ /\ optimum' = optimum
                /\ pc' = IF Len(f.rest) = 1 THEN "iterated" ELSE "call"
      BY <1>4, <2>2, <2>5 DEF ReturnedRoot
    <3>2. /\ Head(f.rest) \in Position /\ Tail(f.rest) \in Seq(Position)
          /\ Len(f.rest) # 1 => Tail(f.rest) # <<>>
      BY <2>3, RestFacts
    <3>3. /\ h \in Frame /\ h.at = f.at /\ h.i = -1 /\ h.rest = Tail(f.rest)
          /\ h.alpha = f.alpha /\ h.beta = f.beta
      BY <2>2, <3>2 DEF Advance, Frame
    <3>4. OpenEnd(h) /\ Window(h) /\ MovesOf(h)
      <4>1. MovesOf(h)
        BY <2>2, <2>3, <3>3, TailMoves
      <4> QED
        BY <2>2, <3>3, <4>1 DEF OpenEnd, Window
    <3>5. line' \in Seq(Frame) /\ Len(line') = 1 /\ line'[1] = h /\ line' # <<>>
      BY <3>1, <3>3
    <3>6. TypeOK'
      <4>1. TypeOK /\ cutoff' = cutoff /\ search' = search /\ best_move' = best_move /\ ret' = ret
        BY <1>1 DEF IInv
      <4>2. optimum' \in [movement : Position \cup {NoMove}, eval : Int]
        BY <1>1, <3>1, <3>2, <4>1 DEF TypeOK
      <4> HIDE DEF f, h
      <4> QED
        BY <3>1, <3>5, <4>1, <4>2 DEF TypeOK
    <3>7. pc' \in {"store", "iterated", "call"} /\ (pc' = "call" => h.rest # <<>>)
      BY <3>1, <3>2, <3>3
    <3> QED
      BY <1>1, <3>3, <3>4, <3>5, <3>6, <3>7, SoleIInv
  <2> QED
    BY <2>4, <2>5
<1> QED
  BY <1>3, <1>4

LEMMA ClearFlagIInv ==
  ASSUME IInv, ClearFlag
  PROVE  IInv'
<1>1. ~search' /\ UNCHANGED <<best_move, pc, cutoff, line, ret, optimum>>
  BY DEF ClearFlag
<1>2. TypeOK'
  BY <1>1 DEF IInv, TypeOK, ClearFlag
<1>3. PlaceOK'
  BY <1>1 DEF IInv, PlaceOK, Caller
<1> QED
  BY <1>1, <1>2, <1>3, StillIInv

LEMMA InitIInv ==
  ASSUME Init
  PROVE  IInv
<1>1. PICK p \in Roots :
        /\ line = <<Node(p, -1, -Infinity, Infinity, <<>>)>>
        /\ optimum = [movement |-> NoMove, eval |-> Worst(p)]
  BY DEF Init
<1> DEFINE f == Node(p, -1, -Infinity, Infinity, <<>>)
<1>2. p \in Position /\ Worst(p) \in Int /\ -1 \in -1..MaxCutoff /\ <<>> \in Seq(Position)
  BY Bounds DEF Worst
<1>3. /\ f \in Frame /\ f.at = p /\ f.i = -1 /\ f.alpha = -Infinity /\ f.beta = Infinity
      /\ f.rest = <<>> /\ Window(f)
  BY <1>2, Bounds, WidestWindow DEF Node, Frame
<1>4. line \in Seq(Frame) /\ Len(line) = 1 /\ line[1] = f /\ line # <<>> /\ Head(line) = f
  BY <1>1, <1>3
<1>5. TypeOK
  BY <1>1, <1>2, <1>4, Bounds DEF Init, TypeOK
<1>6. PlaceOK
  BY <1>4 DEF Init, PlaceOK
<1>7. LineOK
  <2>1. Root = f
    BY <1>4 DEF Root
  <2>2. DOMAIN line = {1} /\ 1..(Len(line) - 1) = {} /\ DOMAIN f.rest = {}
    BY <1>1, <1>3, <1>4
  <2> QED
    BY <1>3, <1>4, <2>1, <2>2 DEF LineOK, Init
<1> QED
  BY <1>5, <1>6, <1>7 DEF IInv, ReturnSound, Init

LEMMA StepIInv ==
  ASSUME IInv, [Next]_vars
  PROVE  IInv'
<1>1. CASE UNCHANGED vars
  BY <1>1 DEF vars, IInv, TypeOK, PlaceOK, LineOK, ReturnSound, Root, Caller
<1>2. CASE Next
  BY <1>2, WhileIInv, OrderRootIInv, CallIInv, EnterIInv, ReturnedInnerIInv,
     ReturnedRootIInv, StoreIInv, EndIterationIInv, ClearFlagIInv DEF Next, SearchMove
<1> QED
  BY <1>1, <1>2

(***************************************************************************)
(* The theorems.                                                           *)
(***************************************************************************)

(* What IInv says of the calls that have not returned holds of every tree  *)
(* of moves, to every depth.                                               *)
THEOREM SearchInductive == Safe => []IInv
<1>1. Init => IInv
  BY InitIInv
<1>2. IInv /\ [Next]_vars => IInv'
  BY StepIInv
<1> QED
  BY <1>1, <1>2, PTL DEF Safe

(* The variables of the search have their types.                           *)
THEOREM SearchTypes == Safe => []TypeOK
<1>1. IInv => TypeOK
  BY DEF IInv
<1> QED
  BY <1>1, SearchInductive, PTL

(* MAX_VAL and MIN_VAL, whatever they have cut off, agree with minimax as  *)
(* far as the window they were called with asks, unless the flag was       *)
(* cleared while they ran (src/engine.cpp, 741-836).                       *)
THEOREM AlphaBetaSound == Safe => []ReturnSound
<1>1. IInv => ReturnSound
  BY DEF IInv
<1> QED
  BY <1>1, SearchInductive, PTL

(***************************************************************************)
(* Moves.                                                                  *)
(***************************************************************************)

(* An order of the moves has none twice.                                   *)
LEMMA OrderDistinct ==
  ASSUME NEW p \in Position, NEW s \in Orders[p]
  PROVE  IsInjective(s)
<1> DEFINE C == Children[p]
           D == 1..Cardinality(C)
<1>1. Cardinality(C) \in Nat
  BY Bounds, FS_CardinalityType
<1>2. s \in [D -> C] /\ \A c \in C : \E k \in DOMAIN s : s[k] = c
  BY DEF Orders
<1>3. s \in Surjection(D, C)
  BY <1>2 DEF Surjection
<1>4. IsFiniteSet(D) /\ Cardinality(D) = Cardinality(C)
  BY <1>1, FS_Interval
<1>5. s \in Injection(D, C)
  BY <1>3, <1>4, FS_SurjSameCardinalityImpliesInj
<1> QED
  BY <1>5 DEF Injection

(* Of different moves, the others do not contain the first.                *)
LEMMA TailDistinct ==
  ASSUME NEW s \in Seq(Position), s # <<>>, IsInjective(s)
  PROVE  IsInjective(Tail(s)) /\ \A j \in DOMAIN Tail(s) : Tail(s)[j] # Head(s)
<1>1. /\ DOMAIN s = 1..Len(s) /\ Len(s) \in Nat \ {0} /\ DOMAIN Tail(s) = 1..(Len(s) - 1)
      /\ \A j \in 1..(Len(s) - 1) : Tail(s)[j] = s[j + 1]
      /\ Head(s) = s[1]
  BY RestFacts
<1>2. \A j, k \in 1..Len(s) : s[j] = s[k] => j = k
  BY <1>1 DEF IsInjective
<1>3. ASSUME NEW j \in 1..(Len(s) - 1), NEW k \in 1..(Len(s) - 1), Tail(s)[j] = Tail(s)[k]
      PROVE  j = k
  <2>1. j + 1 \in 1..Len(s) /\ k + 1 \in 1..Len(s) /\ s[j + 1] = s[k + 1]
    BY <1>1, <1>3
  <2>2. j + 1 = k + 1
    BY <1>2, <2>1
  <2> QED
    BY <2>2
<1>4. ASSUME NEW j \in 1..(Len(s) - 1)
      PROVE  Tail(s)[j] # Head(s)
  <2>1. j + 1 \in 1..Len(s) /\ 1 \in 1..Len(s) /\ j + 1 # 1 /\ Tail(s)[j] = s[j + 1]
    BY <1>1
  <2> QED
    BY <1>1, <1>2, <2>1
<1> QED
  BY <1>1, <1>3, <1>4 DEF IsInjective

(* A move that has a value is tried, and with it those tried before.       *)
LEMMA TriedExactly ==
  ASSUME NEW f \in Frame, f.rest # <<>>, IsInjective(f.rest), MovesOf(f),
         NEW h, h.at = f.at, h.rest = Tail(f.rest)
  PROVE  Tried(h) = Tried(f) \cup {Head(f.rest)}
<1>1. f.rest \in Seq(Position)
  BY FrameTypes
<1>2. /\ DOMAIN f.rest = 1..Len(f.rest) /\ Len(f.rest) \in Nat \ {0} /\ 1 \in DOMAIN f.rest
      /\ DOMAIN Tail(f.rest) = 1..(Len(f.rest) - 1) /\ Head(f.rest) = f.rest[1]
      /\ \A j \in 1..(Len(f.rest) - 1) : Tail(f.rest)[j] = f.rest[j + 1]
  BY <1>1, RestFacts
<1>3. Tried(h) \subseteq Tried(f) \cup {Head(f.rest)}
  BY TriedFacts
<1>4. Head(f.rest) \in Tried(h)
  <2>1. Head(f.rest) \in Children[f.at]
    BY <1>2 DEF MovesOf
  <2> QED
    BY <1>1, <2>1, TailDistinct DEF Tried
<1>5. ASSUME NEW c \in Tried(f)
      PROVE  c \in Tried(h)
  <2>1. c \in Children[f.at] /\ \A k \in 1..Len(f.rest) : f.rest[k] # c
    BY <1>2 DEF Tried
  <2>2. \A j \in 1..(Len(f.rest) - 1) : j + 1 \in 1..Len(f.rest)
    BY <1>2
  <2>3. \A j \in DOMAIN Tail(f.rest) : Tail(f.rest)[j] # c
    BY <1>2, <2>1, <2>2
  <2> QED
    BY <2>1, <2>3 DEF Tried
<1> QED
  BY <1>3, <1>4, <1>5

(***************************************************************************)
(* The loop of search_move.                                                *)
(***************************************************************************)

(* The frame and the optimum after a value has been weighed.               *)
Weighed(f, v) == Advance(Narrow(f, v))
Weigh(f, o, v) ==
  IF Improves(f.at, v, o.eval) THEN [movement |-> Head(f.rest), eval |-> v] ELSE o

(* White: its own end of the window is the best so far.                    *)
LEMMA WhiteChooses ==
  ASSUME NEW f \in Frame, f.at \in WhiteToPlay, f.rest # <<>>, IsInjective(f.rest), MovesOf(f),
         f.i = -1, OpenEnd(f), ~f.probe, NEW n \in 1..MaxCutoff,
         NEW o \in [movement : Position \cup {NoMove}, eval : Int],
         NoneTried(f, o, n) \/ Chosen(f, o, n),
         NEW v \in Int, Finite(v), Sound(v, f, n)
  PROVE  Chosen(Weighed(f, v), Weigh(f, o, v), n)
<1> DEFINE h == Weighed(f, v)
           w == Weigh(f, o, v)
           c == Head(f.rest)
<1>1. /\ h.at = f.at /\ h.rest = Tail(f.rest) /\ h.probe = f.probe
      /\ h.alpha = MaxOf(f.alpha, v) /\ h.beta = f.beta
  BY DEF Weighed, Advance, Narrow, Frame
<1>2. Tried(h) = Tried(f) \cup {c}
  BY <1>1, TriedExactly
<1>3. /\ f.alpha \in Int /\ f.beta = Infinity /\ f.rest \in Seq(Position) /\ o.eval \in Int
      /\ -Infinity \in Int /\ Infinity \in Int
  BY FrameTypes, Bounds DEF OpenEnd
<1>4. n \in Depth /\ n - (f.i + 1) = n
  BY Bounds DEF Depth
<1>5. /\ Lo[n][c] <= v
      /\ f.alpha < v => v <= Hi[n][c]
  BY <1>3, <1>4 DEF Sound, Finite
<1>6. Tried(f) \subseteq Position /\ c \in Position
  BY <1>3, Bounds, FrameTypes, RestFacts DEF Tried
<1>7. \A x \in Position : Lo[n][x] \in Int /\ Hi[n][x] \in Int
  BY <1>4, Bounds
<1>8. CASE o.eval < v
  <2>1. w = [movement |-> c, eval |-> v]
    BY <1>8 DEF Weigh, Improves
  <2>2. f.alpha < v /\ \A x \in Tried(f) : Lo[n][x] <= v
    <3>1. CASE NoneTried(f, o, n)
      BY <1>3, <3>1 DEF NoneTried, Finite
    <3>2. CASE Chosen(f, o, n)
      BY <1>3, <1>6, <1>7, <1>8, <3>2 DEF Chosen
    <3> QED
      BY <3>1, <3>2
  <2>3. h.alpha = v
    BY <1>1, <1>3, <2>2 DEF MaxOf
  <2> QED
    BY <1>1, <1>2, <1>5, <2>1, <2>2, <2>3 DEF Chosen
<1>9. CASE ~(o.eval < v)
  <2>1. w = o
    BY <1>9 DEF Weigh, Improves
  <2>2. Chosen(f, o, n)
    BY <1>3, <1>9 DEF NoneTried, Worst, Finite
  <2>3. f.alpha = o.eval /\ v <= o.eval
    BY <1>3, <1>9, <2>2 DEF Chosen
  <2>4. h.alpha = o.eval
    BY <1>1, <1>3, <2>3 DEF MaxOf
  <2>5. Lo[n][c] <= o.eval
    BY <1>3, <1>5, <1>6, <1>7, <2>3
  <2> QED
    BY <1>1, <1>2, <2>1, <2>2, <2>4, <2>5 DEF Chosen
<1> QED
  BY <1>8, <1>9

(* Black: its end of the window is the best so far, or the value of the    *)
(* first move, evaluated before.                                           *)
LEMMA BlackChooses ==
  ASSUME NEW f \in Frame, f.at \notin WhiteToPlay, f.rest # <<>>, IsInjective(f.rest), MovesOf(f),
         f.i = -1, OpenEnd(f), ~f.probe, NEW n \in 1..MaxCutoff,
         \A c \in Children[f.at] : Lo[n][c] = Hi[n][c],
         NEW o \in [movement : Position \cup {NoMove}, eval : Int],
         NoneTried(f, o, n) \/ Chosen(f, o, n),
         NEW v \in Int, Finite(v), Sound(v, f, n)
  PROVE  Chosen(Weighed(f, v), Weigh(f, o, v), n)
<1> DEFINE h == Weighed(f, v)
           w == Weigh(f, o, v)
           c == Head(f.rest)
<1>1. /\ h.at = f.at /\ h.rest = Tail(f.rest) /\ h.probe = f.probe
      /\ h.beta = MinOf(f.beta, v) /\ h.alpha = f.alpha
  BY DEF Weighed, Advance, Narrow, Frame
<1>2. Tried(h) = Tried(f) \cup {c}
  BY <1>1, TriedExactly
<1>3. /\ f.beta \in Int /\ f.alpha = -Infinity /\ f.rest \in Seq(Position) /\ o.eval \in Int
      /\ -Infinity \in Int /\ Infinity \in Int
  BY FrameTypes, Bounds DEF OpenEnd
<1>4. n \in Depth /\ n - (f.i + 1) = n
  BY Bounds DEF Depth
<1>5. /\ v <= Hi[n][c]
      /\ v < f.beta => Lo[n][c] <= v
  BY <1>3, <1>4 DEF Sound, Finite
<1>6. Tried(f) \subseteq Children[f.at] /\ Children[f.at] \subseteq Position /\ c \in Position
  BY <1>3, Bounds, FrameTypes, RestFacts DEF Tried
<1>7. \A x \in Position : Lo[n][x] \in Int /\ Hi[n][x] \in Int
  BY <1>4, Bounds
<1>8. c \in Children[f.at] /\ Lo[n][c] = Hi[n][c]
  BY <1>3, RestFacts DEF MovesOf
<1>9. CASE v < o.eval
  <2>1. w = [movement |-> c, eval |-> v]
    BY <1>9 DEF Weigh, Improves
  <2>2. Lo[n][c] <= v /\ h.beta = v /\ \A x \in Tried(f) : v <= Hi[n][x]
    <3>1. CASE NoneTried(f, o, n)
      <4>1. f.beta = Hi[n][c] /\ Tried(f) = {}
        BY <3>1 DEF NoneTried
      <4> QED
        BY <1>1, <1>3, <1>5, <1>6, <1>7, <1>8, <4>1 DEF MinOf
    <3>2. CASE Chosen(f, o, n)
      <4>1. f.beta = o.eval /\ \A x \in Tried(f) : o.eval <= Hi[n][x]
        BY <3>2 DEF Chosen
      <4> QED
        BY <1>1, <1>3, <1>5, <1>6, <1>7, <1>9, <4>1 DEF MinOf
    <3> QED
      BY <3>1, <3>2
  <2> QED
    BY <1>1, <1>2, <1>5, <2>1, <2>2 DEF Chosen
<1>10. CASE ~(v < o.eval)
  <2>1. w = o
    BY <1>10 DEF Weigh, Improves
  <2>2. Chosen(f, o, n)
    BY <1>3, <1>10 DEF NoneTried, Worst, Finite
  <2>3. f.beta = o.eval /\ o.eval <= v
    BY <1>3, <1>10, <2>2 DEF Chosen
  <2>4. h.beta = o.eval
    BY <1>1, <1>3, <2>3 DEF MinOf
  <2>5. o.eval <= Hi[n][c]
    BY <1>3, <1>5, <1>6, <1>7, <2>3
  <2> QED
    BY <1>1, <1>2, <2>1, <2>2, <2>4, <2>5 DEF Chosen
<1> QED
  BY <1>9, <1>10

(***************************************************************************)
(* The frame of search_move while calls are made under it.                 *)
(***************************************************************************)

(* It stays at the end of the line when a call is put before it...         *)
LEMMA PushKeeps ==
  ASSUME NEW f, NEW l \in Seq(Frame), l # <<>>
  PROVE  (<<f>> \o l)[Len(<<f>> \o l)] = l[Len(l)]
<1> DEFINE S == Frame \cup {f}
<1>1. <<f>> \in Seq(S) /\ Len(<<f>>) = 1 /\ l \in Seq(S)
  BY SeqMonotonic
<1>2. Len(l) \in Nat \ {0}
  BY PopFacts
<1> QED
  BY <1>1, <1>2, ConcatProperties

(* ... and when one is taken away.                                         *)
LEMMA PopKeeps ==
  ASSUME NEW l \in Seq(Frame), Len(l) > 1
  PROVE  Tail(l) \in Seq(Frame) /\ Tail(l) # <<>> /\ Tail(l)[Len(Tail(l))] = l[Len(l)]
<1>1. l # <<>>
  BY LenEmpty
<1>2. /\ Len(l) \in Nat \ {0} /\ Tail(l) \in Seq(Frame) /\ Len(Tail(l)) = Len(l) - 1
      /\ \A k \in 1..(Len(l) - 1) : Tail(l)[k] = l[k + 1]
  BY <1>1, PopFacts
<1>3. Len(l) - 1 \in 1..(Len(l) - 1) /\ (Len(l) - 1) + 1 = Len(l)
  BY <1>2
<1>4. Tail(l) # <<>>
  <2>1. Len(Tail(l)) # 0
    BY <1>2
  <2> QED
    BY <2>1, LenEmpty
<1> QED
  BY <1>2, <1>3, <1>4

Inner == {"call", "enter", "returned"}

(* No step of MAX_VAL, MIN_VAL or move_and_eval touches what search_move   *)
(* has.                                                                    *)
LEMMA InnerKeeps ==
  ASSUME IInv, Call \/ Enter \/ ReturnedInner
  PROVE  /\ Root' = Root /\ pc \in Inner /\ pc' \in Inner
         /\ UNCHANGED <<best_move, cutoff, optimum>>
<1>1. line \in Seq(Frame) /\ line # <<>>
  BY LineFacts
<1>2. CASE Call
  <2>1. line' = line \/ \E f : line' = <<f>> \o line
    BY <1>2 DEF Call
  <2>2. Root' = Root
    BY <1>1, <2>1, PushKeeps DEF Root
  <2> QED
    BY <1>2, <2>2 DEF Call, Inner
<1>3. CASE Enter \/ ReturnedInner
  <2>1. Len(line) > 1
    BY <1>3, LineFacts DEF IInv, LineOK, Enter, ReturnedInner
  <2>2. /\ line' = Tail(line) \/ \E f : line' = <<f>> \o Tail(line)
        /\ pc \in Inner /\ pc' \in Inner /\ UNCHANGED <<best_move, cutoff, optimum>>
    <3>1. CASE Enter
      BY <3>1, Zenon DEF Enter, Return, Inner
    <3>2. CASE ReturnedInner
      BY <3>2, Zenon DEF ReturnedInner, Return, Inner
    <3> QED
      BY <1>3, <3>1, <3>2
  <2>3. Root' = Root
    <3>1. Tail(line) \in Seq(Frame) /\ Tail(line) # <<>> /\ Tail(line)[Len(Tail(line))] = Root
      BY <1>1, <2>1, PopKeeps DEF Root
    <3>2. CASE line' = Tail(line)
      BY <3>1, <3>2 DEF Root
    <3>3. CASE \E f : line' = <<f>> \o Tail(line)
      BY <3>1, <3>3, PushKeeps DEF Root
    <3> QED
      BY <2>2, <3>2, <3>3
  <2> QED
    BY <2>2, <2>3
<1> QED
  BY <1>2, <1>3

(* What is left as it is, at another place of the iteration.               *)
LEMMA ChoiceStays ==
  ASSUME ChoiceOK, Root' = Root, UNCHANGED <<cutoff, optimum>>, Iterating,
         pc \in Inner => best_move' = best_move /\ pc' \in Inner \cup {"done"},
         pc \notin Inner => pc = "store" /\ best_move' = optimum.movement
                            /\ pc' = IF Root.rest = <<>> THEN "iterated" ELSE "call"
  PROVE  ChoiceOK'
<1>1. /\ Root.at \in Roots /\ IsInjective(Root.rest) /\ cutoff <= MaxCutoff
      /\ \/ NoneTried(Root, optimum, cutoff) /\ pc \notin {"store", "iterated"}
         \/ Chosen(Root, optimum, cutoff) /\ (pc # "store" => best_move = optimum.movement)
  BY DEF ChoiceOK
<1>2. Root'.at \in Roots /\ IsInjective(Root'.rest) /\ cutoff' <= MaxCutoff
  BY <1>1
<1>3. pc' \in {"while", "order", "iterated"} => Root'.rest = <<>>
  BY DEF Inner
<1>4. \/ NoneTried(Root', optimum', cutoff') /\ pc' \notin {"store", "iterated"}
      \/ Chosen(Root', optimum', cutoff') /\ (pc' # "store" => best_move' = optimum'.movement)
  BY <1>1 DEF Inner
<1> QED
  BY <1>2, <1>3, <1>4 DEF ChoiceOK

(* What ends with no moves left is no iteration.                           *)
LEMMA ChoiceEnds ==
  ASSUME ChoiceOK, Root' = Root, pc \in {"while", "order", "iterated"},
         pc' \in {"while", "order", "done"}
  PROVE  ChoiceOK'
<1>1. Root'.at \in Roots /\ Root'.rest = <<>>
  BY DEF ChoiceOK
<1>2. ~Iterating'
  BY <1>1 DEF Iterating
<1> QED
  BY <1>1, <1>2 DEF ChoiceOK

(* An iteration begins with no move tried.                                 *)
LEMMA OrderRootChooses ==
  ASSUME IInv, ChoiceOK, OrderRoot
  PROVE  ChoiceOK'
<1>1. /\ pc = "order" /\ UNCHANGED <<search, best_move, cutoff, ret>>
      /\ Root.at \in Position /\ Root.at \in Roots /\ cutoff <= MaxCutoff
  BY SoleFacts DEF OrderRoot, ChoiceOK, IInv, PlaceOK
<1>2. PICK moves \in Order_Children(Root.at) :
        IF moves = <<>>
        THEN pc' = "done" /\ UNCHANGED <<line, optimum>>
        ELSE LET white == Root.at \in WhiteToPlay
             IN  /\ line' = <<[Node(Root.at, -1, -Infinity, Infinity, moves)
                                  EXCEPT !.probe = ~white]>>
                 /\ optimum' = IF white THEN [optimum EXCEPT !.eval = -Infinity] ELSE optimum
                 /\ pc' = "call"
  BY DEF OrderRoot
<1>3. CASE moves = <<>>
  BY <1>1, <1>2, <1>3, ChoiceEnds DEF Root
<1>4. CASE moves # <<>>
  <2> DEFINE f == [Node(Root.at, -1, -Infinity, Infinity, moves)
                      EXCEPT !.probe = ~(Root.at \in WhiteToPlay)]
  <2>1. moves \in Orders[Root.at]
    BY <1>2, <1>4 DEF Order_Children
  <2>2. IsInjective(moves) /\ \A c \in Children[Root.at] : \E j \in DOMAIN moves : moves[j] = c
    BY <1>1, <2>1, OrderDistinct, OrderFacts
  <2>3. /\ f.at = Root.at /\ f.rest = moves /\ f.probe = (Root.at \notin WhiteToPlay)
        /\ f.alpha = -Infinity /\ f.beta = Infinity
    BY DEF Node
  <2>4. Tried(f) = {}
    BY <2>2, <2>3 DEF Tried
  <2>5. line' = <<f>> /\ pc' = "call"
    BY <1>2, <1>4
  <2>6. Root' = f
    BY <2>5 DEF Root
  <2>7. Root.at \in WhiteToPlay => optimum'.eval = -Infinity
    BY <1>2, <1>4 DEF IInv, TypeOK
  <2>8. NoneTried(f, optimum', cutoff')
    BY <2>3, <2>4, <2>7 DEF NoneTried, Worst
  <2> HIDE DEF f
  <2> QED
    BY <1>1, <2>2, <2>3, <2>5, <2>6, <2>8 DEF ChoiceOK
<1> QED
  BY <1>3, <1>4

(* search_move weighs the value of a move.                                 *)
LEMMA ReturnedRootChooses ==
  ASSUME IInv, ChoiceOK, ReturnedRoot, Steady
  PROVE  ChoiceOK'
<1> DEFINE f == Narrow(Root, ret)
<1>1. /\ pc = "returned" /\ Len(line) = 1 /\ UNCHANGED <<search, best_move, cutoff, ret>>
      /\ cutoff \in 1..MaxCutoff /\ ret \in Int
  BY Bounds DEF ReturnedRoot, IInv, PlaceOK, TypeOK
<1>2. /\ Root \in Frame /\ Root.rest \in Seq(Position) /\ Root.rest # <<>> /\ Root.i = -1
      /\ OpenEnd(Root) /\ Window(Root) /\ MovesOf(Root) /\ Caller = Root
      /\ optimum \in [movement : Position \cup {NoMove}, eval : Int]
  BY <1>1, SoleFacts DEF IInv, PlaceOK, TypeOK
<1>3. /\ Root.at \in Roots /\ IsInjective(Root.rest) /\ Iterating
      /\ \/ NoneTried(Root, optimum, cutoff)
         \/ Chosen(Root, optimum, cutoff) /\ best_move = optimum.movement
  BY <1>1 DEF ChoiceOK, Iterating
<1>4. CASE Interrupted
  <2>1. pc' = "done" /\ UNCHANGED <<line, optimum>>
    BY <1>4 DEF ReturnedRoot
  <2> QED
    BY <1>1, <1>3, <2>1, ChoiceStays DEF Root, Inner
<1>5. CASE ~Interrupted
  <2>1. Finite(ret) /\ Sound(ret, Root, cutoff)
    BY <1>1, <1>2, <1>5 DEF IInv, PlaceOK, ReturnSound, Interrupted
  <2>2. f.probe = Root.probe /\ f.rest = Root.rest /\ f.at = Root.at
    BY <1>1, <1>2, <2>1, NarrowFacts
  <2>3. Root.at \notin WhiteToPlay =>
          \A c \in Children[Root.at] : Lo[cutoff][c] = Hi[cutoff][c]
    BY <1>1, <1>3, Bounds DEF Steady, Depth
  <2>4. CASE Root.probe
    <3> DEFINE h == [f EXCEPT !.probe = FALSE]
    <3>1. line' = <<h>> /\ optimum' = [optimum EXCEPT !.eval = Infinity] /\ pc' = "call"
      BY <1>5, <2>2, <2>4 DEF ReturnedRoot
    <3>2. Root.at \notin WhiteToPlay /\ Root.beta = Infinity /\ Tried(Root) = {}
      BY <1>3, <2>4 DEF NoneTried, Chosen
    <3>3. /\ h.at = Root.at /\ h.rest = Root.rest /\ h.probe = FALSE
          /\ h.beta = MinOf(Root.beta, ret)
      BY <1>2, <3>2 DEF Narrow, Frame
    <3>4. h.beta = Hi[cutoff][Head(Root.rest)]
      <4> DEFINE c == Head(Root.rest)
      <4>1. c \in Children[Root.at] /\ c \in Position /\ Lo[cutoff][c] = Hi[cutoff][c]
        BY <1>2, <2>3, <3>2, RestFacts DEF MovesOf
      <4>2. cutoff \in Depth /\ cutoff - (Root.i + 1) = cutoff
        BY <1>1, <1>2, Bounds DEF Depth
      <4>3. Lo[cutoff][c] \in Int /\ Hi[cutoff][c] \in Int /\ Infinity \in Int
        BY <4>1, <4>2, Bounds
      <4>4. Lo[cutoff][c] <= ret /\ ret <= Hi[cutoff][c]
        BY <1>2, <2>1, <3>2, <4>2 DEF Sound, Finite, OpenEnd
      <4> QED
        BY <1>1, <2>1, <3>2, <3>3, <4>1, <4>3, <4>4 DEF MinOf, Finite
    <3>5. Tried(h) = {} /\ Root' = h /\ optimum'.eval = Infinity
      BY <1>2, <3>1, <3>2, <3>3 DEF Tried, Root
    <3>6. NoneTried(h, optimum', cutoff')
      BY <1>1, <3>2, <3>3, <3>4, <3>5 DEF NoneTried, Worst
    <3> HIDE DEF h
    <3> QED
      BY <1>1, <1>3, <3>1, <3>3, <3>5, <3>6 DEF ChoiceOK
  <2>5. CASE ~Root.probe
    <3> DEFINE h == Weighed(Root, ret)
               o == Weigh(Root, optimum, ret)
    <3>1. /\ line' = <<h>> /\ optimum' = o
          /\ \/ pc' = "store"
             \/ /\ o = optimum /\ ~Improves(Root.at, ret, optimum.eval)
                /\ pc' = IF Len(Root.rest) = 1 THEN "iterated" ELSE "call"
      BY <1>5, <2>2, <2>5 DEF ReturnedRoot, Weighed, Weigh
    <3>2. Chosen(h, o, cutoff)
      BY <1>1, <1>2, <1>3, <2>1, <2>3, <2>5, WhiteChooses, BlackChooses
    <3>3. h.at = Root.at /\ h.rest = Tail(Root.rest)
      BY <2>2 DEF Weighed, Advance, Narrow, Frame
    <3>4. IsInjective(h.rest) /\ (Len(Root.rest) = 1 => h.rest = <<>>)
      BY <1>2, <1>3, <3>3, TailDistinct, RestFacts
    <3>5. pc' # "store" => best_move = optimum.movement
      <4>1. NoneTried(Root, optimum, cutoff) => Improves(Root.at, ret, optimum.eval)
        BY <1>1, <2>1, <2>5, Bounds DEF NoneTried, Improves, Worst, Finite
      <4> QED
        BY <1>3, <3>1, <4>1
    <3>6. Root' = h
      BY <3>1 DEF Root
    <3> HIDE DEF h, o
    <3> QED
      BY <1>1, <1>3, <3>1, <3>2, <3>3, <3>4, <3>5, <3>6 DEF ChoiceOK
  <2> QED
    BY <2>4, <2>5
<1> QED
  BY <1>4, <1>5

LEMMA InitChooses ==
  ASSUME Init
  PROVE  ChoiceOK
<1>1. PICK p \in Roots : line = <<Node(p, -1, -Infinity, Infinity, <<>>)>>
  BY DEF Init
<1>2. Root.at = p /\ Root.rest = <<>>
  BY <1>1 DEF Root, Node
<1> QED
  BY <1>2 DEF ChoiceOK, Iterating, Init

LEMMA StepChooses ==
  ASSUME Steady, IInv, ChoiceOK, [Next]_vars
  PROVE  ChoiceOK'
<1>1. CASE UNCHANGED vars \/ ClearFlag
  BY <1>1 DEF vars, ClearFlag, ChoiceOK, Iterating, NoneTried, Chosen, Tried, Root
<1>2. CASE While
  BY <1>2, ChoiceEnds DEF While, Root
<1>3. CASE OrderRoot
  BY <1>3, OrderRootChooses
<1>4. CASE Call \/ Enter \/ ReturnedInner
  <2>1. /\ Root' = Root /\ pc \in Inner /\ pc' \in Inner
        /\ UNCHANGED <<best_move, cutoff, optimum>>
    BY <1>4, InnerKeeps
  <2>2. Iterating
    BY <2>1 DEF Iterating, Inner
  <2> QED
    BY <2>1, <2>2, ChoiceStays
<1>5. CASE ReturnedRoot
  BY <1>5, ReturnedRootChooses
<1>6. CASE Store
  BY <1>6, ChoiceStays DEF Store, Root, Iterating, Inner
<1>7. CASE EndIteration
  BY <1>7, ChoiceEnds DEF EndIteration, Root
<1> QED
  BY <1>1, <1>2, <1>3, <1>4, <1>5, <1>6, <1>7 DEF Next, SearchMove

(***************************************************************************)
(* The theorems.                                                           *)
(***************************************************************************)

(* What search_move has at every step of an iteration, on every tree of    *)
(* moves: of white's searches whatever the evaluations, of black's if they *)
(* are steady.                                                             *)
THEOREM ChoiceInductive == Steady /\ Safe => [](IInv /\ ChoiceOK)
<1> SUFFICES ASSUME Steady
             PROVE  Safe => [](IInv /\ ChoiceOK)
  OBVIOUS
<1>1. Init => ChoiceOK
  BY InitChooses
<1>2. IInv /\ ChoiceOK /\ [Next]_vars => ChoiceOK'
  BY StepChooses
<1> QED
  BY <1>1, <1>2, SearchInductive, PTL DEF Safe

(* The optimum is no worse than any move that is tried.                    *)
LEMMA ChosenIsBest ==
  ASSUME NEW f \in Frame, NEW n \in 1..MaxCutoff,
         NEW o \in [movement : Position \cup {NoMove}, eval : Int], Chosen(f, o, n)
  PROVE  o.movement \in Tried(f) /\ BestOf(o.movement, Tried(f), f.at, n)
<1>1. Tried(f) \subseteq Position /\ n \in Depth /\ o.eval \in Int
  BY FrameTypes, Bounds DEF Tried, Depth
<1>2. \A x \in Tried(f) : Lo[n][x] \in Int /\ Hi[n][x] \in Int
  BY <1>1, Bounds
<1> QED
  BY <1>1, <1>2 DEF Chosen, BestOf

(* Wherever search_move is stopped, best_move is the best of the moves     *)
(* this iteration has evaluated (src/engine.cpp, 609-737).                 *)
THEOREM StopsWithBest == Steady /\ Safe => []BestOfTried
<1>1. ASSUME IInv, ChoiceOK
      PROVE  BestOfTried
  <2> SUFFICES ASSUME HasBest
               PROVE  /\ best_move = optimum.movement /\ best_move \in Tried(Root)
                      /\ BestOf(best_move, Tried(Root), Root.at, cutoff)
    BY DEF BestOfTried
  <2>1. Iterating /\ pc # "store"
    BY <1>1 DEF HasBest, Iterating
  <2>2. Chosen(Root, optimum, cutoff) /\ best_move = optimum.movement
    BY <1>1, <2>1 DEF ChoiceOK, HasBest, NoneTried, Worst
  <2>3. cutoff \in 1..MaxCutoff
    BY <1>1, <2>1, Bounds DEF IInv, TypeOK, ChoiceOK
  <2> QED
    BY <1>1, <2>2, <2>3, LineFacts, ChosenIsBest DEF IInv, TypeOK
<1> QED
  BY <1>1, ChoiceInductive, PTL

(* An iteration that ends has found a minimax move of its depth            *)
(* (src/engine.cpp, 632-733).                                              *)
THEOREM FindsMinimax == Steady /\ Safe => IterationExact
<1>1. ASSUME IInv, ChoiceOK, [Next]_vars, cutoff' # cutoff
      PROVE  BestOf(best_move', Children[Root.at], Root.at, cutoff)
  <2>1. EndIteration
    BY <1>1 DEF Next, SearchMove, While, OrderRoot, Call, Enter, ReturnedInner, ReturnedRoot,
       Store, ClearFlag, vars
  <2>2. pc = "iterated" /\ best_move' = optimum.movement
    BY <1>1, <2>1 DEF EndIteration
  <2>3. Root.rest = <<>> /\ Chosen(Root, optimum, cutoff)
    BY <1>1, <2>2 DEF ChoiceOK, Iterating
  <2>4. Tried(Root) = Children[Root.at]
    BY <2>3 DEF Tried
  <2>5. cutoff \in 1..MaxCutoff
    BY <1>1, <2>2, Bounds DEF IInv, TypeOK, PlaceOK
  <2> QED
    BY <1>1, <2>2, <2>3, <2>4, <2>5, LineFacts, ChosenIsBest DEF IInv, TypeOK
<1>2. IInv /\ ChoiceOK /\ [Next]_vars =>
        [cutoff' # cutoff => BestOf(best_move', Children[Root.at], Root.at, cutoff)]_vars
  BY <1>1
<1> QED
  BY <1>2, ChoiceInductive, PTL DEF Safe, IterationExact

(***************************************************************************)
(* The game thread of UCIWSServer.tla.  That the search is one does not    *)
(* depend on its values: the evaluations need not be steady.               *)
(***************************************************************************)

(* The moves left are not evaluated yet, and the optimum is one of the     *)
(* others and in best_move, or the iteration has none yet.                 *)
HandOK ==
  /\ pc \in {"while", "order", "iterated"} => Root.rest = <<>>
  /\ Iterating => IsInjective(Root.rest) /\ (Root.probe => Root.at \notin WhiteToPlay)
  /\ pc \in {"store", "iterated"} => ~Root.probe
  /\ pc \in Inner \cup {"store", "iterated"} /\ ~Root.probe =>
       \/ optimum.eval = Worst(Root.at) /\ pc \notin {"store", "iterated"}
       \/ /\ Finite(optimum.eval) /\ optimum.movement # NoMove
          /\ pc # "store" => best_move # NoMove

(* An order of the moves has been made, or been given up.                  *)
LEMMA OrderRootHand ==
  ASSUME IInv, HandOK, OrderRoot
  PROVE  /\ HandOK'
         /\ \/ /\ pc' = "done" /\ UNCHANGED <<line, optimum>>
               /\ ~search \/ Children[Root.at] = {}
            \/ /\ pc' = "call" /\ Root'.at = Root.at /\ optimum'.movement = optimum.movement
               /\ Children[Root.at] # {}
               /\ {Root'.rest[k] : k \in DOMAIN Root'.rest} = Children[Root.at]
               /\ Root'.probe \/ optimum'.eval \in {-Infinity, Infinity}
<1>1. /\ pc = "order" /\ UNCHANGED <<search, best_move, cutoff, ret>> /\ Root.at \in Position
      /\ Root.rest = <<>>
  BY SoleFacts DEF OrderRoot, HandOK
<1>2. PICK moves \in Order_Children(Root.at) :
        IF moves = <<>>
        THEN pc' = "done" /\ UNCHANGED <<line, optimum>>
        ELSE LET white == Root.at \in WhiteToPlay
             IN  /\ line' = <<[Node(Root.at, -1, -Infinity, Infinity, moves)
                                  EXCEPT !.probe = ~white]>>
                 /\ optimum' = IF white THEN [optimum EXCEPT !.eval = -Infinity] ELSE optimum
                 /\ pc' = "call"
  BY DEF OrderRoot
<1>3. CASE moves = <<>>
  <2>1. ~search \/ Children[Root.at] = {}
    BY <1>1, <1>2, <1>3, EmptyOrder
  <2>2. Root' = Root /\ pc' = "done"
    BY <1>2, <1>3 DEF Root
  <2>3. HandOK'
    BY <1>1, <2>2 DEF HandOK, Iterating, Inner
  <2> QED
    BY <1>2, <1>3, <2>1, <2>3
<1>4. CASE moves # <<>>
  <2> DEFINE f == [Node(Root.at, -1, -Infinity, Infinity, moves)
                      EXCEPT !.probe = ~(Root.at \in WhiteToPlay)]
  <2>1. moves \in Orders[Root.at]
    BY <1>2, <1>4 DEF Order_Children
  <2>2. /\ IsInjective(moves) /\ moves \in Seq(Position)
        /\ \A j \in DOMAIN moves : moves[j] \in Children[Root.at]
        /\ \A c \in Children[Root.at] : \E j \in DOMAIN moves : moves[j] = c
    BY <1>1, <2>1, OrderDistinct, OrderFacts
  <2>3. f.at = Root.at /\ f.rest = moves /\ f.probe = (Root.at \notin WhiteToPlay)
    BY DEF Node
  <2>4. line' = <<f>> /\ pc' = "call"
    BY <1>2, <1>4
  <2>5. Root' = f
    BY <2>4 DEF Root
  <2>6. /\ optimum'.movement = optimum.movement
        /\ Root.at \in WhiteToPlay => optimum'.eval = -Infinity
    BY <1>2, <1>4 DEF IInv, TypeOK
  <2> HIDE DEF f
  <2>7. HandOK'
    BY <2>2, <2>3, <2>4, <2>5, <2>6 DEF HandOK, Inner, Worst
  <2>8. {moves[k] : k \in DOMAIN moves} = Children[Root.at]
    BY <2>2
  <2>9. Children[Root.at] # {}
    BY <1>4, <2>2, RestFacts
  <2> QED
    BY <2>3, <2>4, <2>5, <2>6, <2>7, <2>8, <2>9
<1> QED
  BY <1>3, <1>4

(* The value of a move has come, or an interrupted call has returned.      *)
LEMMA ReturnedRootHand ==
  ASSUME IInv, HandOK, ReturnedRoot
  PROVE  /\ HandOK'
         /\ pc = "returned" /\ Root'.at = Root.at /\ UNCHANGED <<search, best_move>>
         /\ \/ ~search /\ pc' = "done" /\ UNCHANGED <<line, optimum>>
            \/ /\ search /\ Root.probe /\ ~Root'.probe /\ pc' = "call"
               /\ Root'.rest = Root.rest /\ optimum'.eval = Infinity
            \/ /\ search /\ ~Root.probe /\ ~Root'.probe /\ Root.rest # <<>>
               /\ Root.rest \in Seq(Position) /\ IsInjective(Root.rest)
               /\ Root'.rest = Tail(Root.rest)
               /\ \/ /\ optimum'.movement = Head(Root.rest) /\ Finite(optimum'.eval)
                     /\ pc' = "store"
                  \/ /\ optimum' = optimum /\ Finite(optimum.eval)
                     /\ pc' = IF Len(Root.rest) = 1 THEN "iterated" ELSE "call"
<1> DEFINE f == Narrow(Root, ret)
<1>1. /\ pc = "returned" /\ Len(line) = 1 /\ UNCHANGED <<search, best_move, cutoff, ret>>
      /\ ret \in Int /\ Infinity \in Int
  BY Bounds DEF ReturnedRoot, IInv, TypeOK
<1>2. /\ Root \in Frame /\ Root.at \in Position /\ Root.rest \in Seq(Position) /\ Root.rest # <<>>
      /\ Window(Root)
      /\ optimum \in [movement : Position \cup {NoMove}, eval : Int]
  BY <1>1, SoleFacts DEF IInv, PlaceOK, TypeOK
<1>3. IsInjective(Root.rest) /\ (Root.probe => Root.at \notin WhiteToPlay)
  BY <1>1 DEF HandOK, Iterating
<1>4. CASE Interrupted
  <2>1. pc' = "done" /\ UNCHANGED <<line, optimum>>
    BY <1>4 DEF ReturnedRoot
  <2>2. Root' = Root
    BY <2>1 DEF Root
  <2>3. HandOK'
    BY <1>3, <2>1, <2>2 DEF HandOK, Inner
  <2> QED
    BY <1>1, <1>4, <2>1, <2>2, <2>3 DEF Interrupted
<1>5. CASE ~Interrupted
  <2>1. Finite(ret)
    BY <1>1, <1>5 DEF IInv, PlaceOK, Interrupted
  <2>2. f.probe = Root.probe /\ f.rest = Root.rest /\ f.at = Root.at
    BY <1>1, <1>2, <2>1, NarrowFacts
  <2>3. CASE Root.probe
    <3> DEFINE h == [f EXCEPT !.probe = FALSE]
    <3>1. line' = <<h>> /\ optimum' = [optimum EXCEPT !.eval = Infinity] /\ pc' = "call"
      BY <1>5, <2>2, <2>3 DEF ReturnedRoot
    <3>2. h.at = Root.at /\ h.rest = Root.rest /\ h.probe = FALSE
      BY <1>2, <2>2 DEF Narrow, Frame
    <3>3. Root' = h /\ optimum'.eval = Infinity
      BY <1>2, <3>1 DEF Root
    <3> HIDE DEF h
    <3>4. HandOK'
      BY <1>3, <2>3, <3>1, <3>2, <3>3 DEF HandOK, Inner, Worst
    <3> QED
      BY <1>1, <1>5, <2>3, <3>1, <3>2, <3>3, <3>4 DEF Interrupted
  <2>4. CASE ~Root.probe
    <3> DEFINE h == Advance(f)
    <3>1. /\ line' = <<h>>
          /\ \/ /\ Improves(Root.at, ret, optimum.eval) /\ pc' = "store"
                /\ optimum' = [movement |-> Head(Root.rest), eval |-> ret]
             \/ /\ ~Improves(Root.at, ret, optimum.eval) /\ optimum' = optimum
                /\ pc' = IF Len(Root.rest) = 1 THEN "iterated" ELSE "call"
      BY <1>5, <2>2, <2>4 DEF ReturnedRoot
    <3>2. h.at = Root.at /\ h.rest = Tail(Root.rest) /\ h.probe = FALSE
      BY <1>2, <2>2, <2>4 DEF Advance, Narrow, Frame
    <3>3. Root' = h
      BY <3>1 DEF Root
    <3> HIDE DEF h
    <3>4. IsInjective(h.rest) /\ (Len(Root.rest) = 1 => h.rest = <<>>) /\ Head(Root.rest) # NoMove
      BY <1>2, <1>3, <3>2, TailDistinct, RestFacts, SearchAssumption
    <3>5. CASE pc' = "store"
      <4>1. optimum'.movement = Head(Root.rest) /\ optimum'.eval = ret
        BY <3>1, <3>5
      <4>2. HandOK'
        BY <2>1, <3>2, <3>3, <3>4, <3>5, <4>1 DEF HandOK, Inner
      <4> QED
        BY <1>1, <1>2, <1>3, <1>5, <2>1, <2>4, <3>2, <3>3, <3>5, <4>1, <4>2 DEF Interrupted
    <3>6. CASE pc' # "store"
      <4>1. /\ ~Improves(Root.at, ret, optimum.eval) /\ optimum' = optimum
            /\ pc' = IF Len(Root.rest) = 1 THEN "iterated" ELSE "call"
        BY <3>1, <3>6
      <4>2. optimum.eval # Worst(Root.at)
        BY <1>1, <2>1, <4>1 DEF Improves, Worst, Finite
      <4>3. Finite(optimum.eval) /\ optimum.movement # NoMove /\ best_move # NoMove
        BY <1>1, <2>4, <4>2 DEF HandOK, Inner
      <4>4. HandOK'
        BY <1>1, <3>2, <3>3, <3>4, <4>1, <4>3 DEF HandOK, Inner
      <4> QED
        BY <1>1, <1>2, <1>3, <1>5, <2>4, <3>2, <3>3, <4>1, <4>3, <4>4 DEF Interrupted
    <3> QED
      BY <3>5, <3>6
  <2> QED
    BY <2>3, <2>4
<1> QED
  BY <1>4, <1>5

LEMMA StepHand ==
  ASSUME IInv, HandOK, [Next]_vars
  PROVE  HandOK'
<1>1. CASE UNCHANGED vars \/ ClearFlag
  BY <1>1 DEF vars, ClearFlag, HandOK, Iterating, Inner, Root
<1>2. CASE While
  BY <1>2 DEF While, HandOK, Iterating, Inner, Root
<1>3. CASE OrderRoot
  BY <1>3, OrderRootHand
<1>4. CASE Call \/ Enter \/ ReturnedInner
  <2>1. /\ Root' = Root /\ pc \in Inner /\ pc' \in Inner
        /\ UNCHANGED <<best_move, cutoff, optimum>>
    BY <1>4, InnerKeeps
  <2> QED
    BY <2>1 DEF HandOK, Iterating, Inner
<1>5. CASE ReturnedRoot
  BY <1>5, ReturnedRootHand
<1>6. CASE Store
  <2>1. /\ pc = "store" /\ best_move' = optimum.movement /\ Root' = Root /\ optimum' = optimum
        /\ pc' = IF Root.rest = <<>> THEN "iterated" ELSE "call"
    BY <1>6 DEF Store, Root
  <2> QED
    BY <2>1 DEF HandOK, Iterating, Inner
<1>7. CASE EndIteration
  <2>1. pc = "iterated" /\ pc' \in {"while", "done"} /\ Root' = Root
    BY <1>7 DEF EndIteration, Root
  <2> QED
    BY <2>1 DEF HandOK, Iterating, Inner
<1> QED
  BY <1>1, <1>2, <1>3, <1>4, <1>5, <1>6, <1>7 DEF Next, SearchMove

LEMMA InitHand ==
  ASSUME Init
  PROVE  HandOK
<1>1. PICK p \in Roots : line = <<Node(p, -1, -Infinity, Infinity, <<>>)>>
  BY DEF Init
<1>2. Root.rest = <<>>
  BY <1>1 DEF Root, Node
<1> QED
  BY <1>2 DEF HandOK, Iterating, Inner, Init

(* What is left of different moves when the first is taken.                *)
LEMMA LeftFacts ==
  ASSUME NEW r \in Seq(Position), r # <<>>, IsInjective(r)
  PROVE  /\ Head(r) \in {r[k] : k \in DOMAIN r}
         /\ {Tail(r)[k] : k \in DOMAIN Tail(r)} = {r[k] : k \in DOMAIN r} \ {Head(r)}
         /\ {r[k] : k \in DOMAIN r} = {Head(r)} <=> Len(r) = 1
<1>1. /\ Head(r) = r[1] /\ 1 \in DOMAIN r /\ DOMAIN r = 1..Len(r) /\ Len(r) \in Nat \ {0}
      /\ DOMAIN Tail(r) = 1..(Len(r) - 1)
      /\ \A j \in 1..(Len(r) - 1) : Tail(r)[j] = r[j + 1]
  BY RestFacts
<1>2. \A j \in DOMAIN Tail(r) : Tail(r)[j] # Head(r)
  BY TailDistinct
<1>3. \A j \in DOMAIN Tail(r) : Tail(r)[j] \in {r[k] : k \in DOMAIN r}
  <2>1. \A j \in 1..(Len(r) - 1) : j + 1 \in 1..Len(r)
    BY <1>1
  <2> QED
    BY <1>1, <2>1
<1>4. \A k \in DOMAIN r : r[k] # Head(r) => \E j \in DOMAIN Tail(r) : Tail(r)[j] = r[k]
  <2>1. ASSUME NEW c, c # Head(r), \A j \in DOMAIN Tail(r) : Tail(r)[j] # c
        PROVE  \A k \in DOMAIN r : r[k] # c
    BY <2>1, NotInRest
  <2> QED
    BY <2>1
<1>5. {Tail(r)[k] : k \in DOMAIN Tail(r)} = {r[k] : k \in DOMAIN r} \ {Head(r)}
  BY <1>2, <1>3, <1>4
<1>6. Len(r) = 1 <=> DOMAIN Tail(r) = {}
  <2>1. Len(r) # 1 => 1 \in 1..(Len(r) - 1)
    BY <1>1
  <2>2. 1..(1 - 1) = {}
    OBVIOUS
  <2> QED
    BY <1>1, <2>1, <2>2
<1>7. {r[k] : k \in DOMAIN r} = {Head(r)} <=> {Tail(r)[k] : k \in DOMAIN Tail(r)} = {}
  <2>1. Head(r) \in {r[k] : k \in DOMAIN r}
    BY <1>1
  <2> QED
    BY <1>5, <2>1
<1>8. {Tail(r)[k] : k \in DOMAIN Tail(r)} = {} <=> DOMAIN Tail(r) = {}
  OBVIOUS
<1> QED
  BY <1>1, <1>5, <1>6, <1>7, <1>8

THEOREM HandInductive == Safe => [](IInv /\ HandOK)
<1>1. Init => HandOK
  BY InitHand
<1>2. IInv /\ HandOK /\ [Next]_vars => HandOK'
  BY StepHand
<1> QED
  BY <1>1, <1>2, SearchInductive, PTL DEF Safe

(* Nothing of the server or of its board changes in the game thread.       *)
LEMMA SameThread ==
  ASSUME Root' = Root, UNCHANGED <<search, best_move, optimum>>,
         pc' = pc \/ (pc \in Inner /\ pc' \in Inner)
  PROVE  UNCHANGED Thread!uvars
BY DEF Thread!uvars, Thread!server, Thread!engine, Inner

LEMMA FiniteFacts ==
  ASSUME NEW v \in Int, Finite(v)
  PROVE  v \notin {-Infinity, Infinity}
BY Bounds DEF Finite

(* Every step of search_move is one that UCIWSServer.tla allows its game   *)
(* thread.                                                                 *)
LEMMA StepIsThread ==
  ASSUME IInv, HandOK, [Next]_vars
  PROVE  Thread!GameThread \/ UNCHANGED Thread!uvars \/ search' # search
<1>0. optimum.eval \in Int /\ optimum'.eval \in Int
  BY StepIInv DEF IInv, TypeOK
<1>1. CASE UNCHANGED vars
  BY <1>1, SameThread DEF vars, Root
<1>2. CASE ClearFlag
  BY <1>2 DEF ClearFlag
<1>3. CASE While
  <2>1. /\ pc = "while" /\ pc' = IF search THEN "order" ELSE "done"
        /\ Root' = Root /\ UNCHANGED <<search, best_move, optimum>>
    BY <1>3 DEF While, Interrupted, Root
  <2>2. Thread!Deepen
    BY <2>1 DEF Thread!Deepen, Thread!Step, Thread!server, Thread!running
  <2> QED
    BY <2>2 DEF Thread!GameThread
<1>4. CASE Call \/ Enter \/ ReturnedInner
  BY <1>4, InnerKeeps, SameThread
<1>5. CASE Store
  <2>1. /\ pc = "store" /\ best_move' = optimum.movement /\ Root' = Root
        /\ pc' = IF Root.rest = <<>> THEN "iterated" ELSE "call"
        /\ UNCHANGED <<search, optimum>>
    BY <1>5 DEF Store, Root
  <2>2. /\ ~Root.probe /\ optimum.eval \notin {-Infinity, Infinity}
        /\ optimum.movement # NoMove
    BY <1>0, <2>1, FiniteFacts DEF HandOK, Inner
  <2>3. Root.rest = <<>> <=> {Root.rest[k] : k \in DOMAIN Root.rest} = {}
    <3>1. Root.rest \in Seq(Position)
      BY LineFacts, FrameTypes
    <3>2. Root.rest # <<>> => 1 \in DOMAIN Root.rest
      BY <3>1, RestFacts
    <3>3. DOMAIN <<>> = {}
      OBVIOUS
    <3> QED
      BY <3>2, <3>3
  <2>4. Thread!Store
    BY <2>1, <2>2, <2>3 DEF Thread!Store, Thread!Step, Thread!server, Thread!running
  <2> QED
    BY <2>4 DEF Thread!GameThread
<1>6. CASE EndIteration
  <2>1. /\ pc = "iterated" /\ Root' = Root /\ UNCHANGED <<search, optimum>>
        /\ IF search THEN best_move' = optimum.movement /\ pc' = "while"
                     ELSE pc' = "done" /\ UNCHANGED best_move
    BY <1>6 DEF EndIteration, Interrupted, Root
  <2>2. /\ ~Root.probe /\ optimum.eval \notin {-Infinity, Infinity}
        /\ optimum.movement # NoMove /\ best_move # NoMove
    BY <1>0, <2>1, FiniteFacts DEF HandOK, Inner
  <2>3. Thread!EndIteration
    BY <2>1, <2>2 DEF Thread!EndIteration, Thread!Step, Thread!server, Thread!running
  <2> QED
    BY <2>3 DEF Thread!GameThread
<1>7. CASE OrderRoot
  <2>1. pc = "order" /\ UNCHANGED <<search, best_move>>
    BY <1>7 DEF OrderRoot
  <2>2. Root.at \in Position /\ Root.at # NoMove
    BY LineFacts, FrameTypes, SearchAssumption
  <2>3. Thread!RootMoves = {Children[Root.at]}
    BY <2>2 DEF Thread!RootMoves
  <2>4. Thread!Order_Children
    <3>1. CASE /\ pc' = "done" /\ UNCHANGED <<line, optimum>>
               /\ ~search \/ Children[Root.at] = {}
      <4>1. Root' = Root
        BY <3>1 DEF Root
      <4> QED
        BY <2>1, <2>3, <3>1, <4>1
           DEF Thread!Order_Children, Thread!Step, Thread!server, Thread!running
    <3>2. CASE /\ pc' = "call" /\ Root'.at = Root.at /\ optimum'.movement = optimum.movement
               /\ Children[Root.at] # {}
               /\ {Root'.rest[k] : k \in DOMAIN Root'.rest} = Children[Root.at]
               /\ Root'.probe \/ optimum'.eval \in {-Infinity, Infinity}
      BY <2>1, <2>3, <3>2
         DEF Thread!Order_Children, Thread!Step, Thread!server, Thread!running
    <3> QED
      BY <1>7, <3>1, <3>2, OrderRootHand
  <2> QED
    BY <2>4 DEF Thread!GameThread
<1>8. CASE ReturnedRoot
  <2>1. pc = "returned" /\ Root'.at = Root.at /\ UNCHANGED <<search, best_move>>
    BY <1>8, ReturnedRootHand
  <2>2. CASE ~search /\ pc' = "done" /\ UNCHANGED <<line, optimum>>
    <3>1. Root' = Root
      BY <2>2 DEF Root
    <3>2. Thread!Evaluate
      BY <2>1, <2>2, <3>1 DEF Thread!Evaluate, Thread!Step, Thread!server, Thread!running
    <3> QED
      BY <3>2 DEF Thread!GameThread
  <2>3. CASE /\ Root.probe /\ ~Root'.probe /\ pc' = "call"
             /\ Root'.rest = Root.rest /\ optimum'.eval = Infinity
    BY <2>1, <2>3 DEF Thread!uvars, Thread!server, Thread!engine
  <2>4. CASE /\ search /\ ~Root.probe /\ ~Root'.probe /\ Root.rest # <<>>
             /\ Root.rest \in Seq(Position) /\ IsInjective(Root.rest)
             /\ Root'.rest = Tail(Root.rest)
             /\ \/ /\ optimum'.movement = Head(Root.rest) /\ Finite(optimum'.eval)
                   /\ pc' = "store"
                \/ /\ optimum' = optimum /\ Finite(optimum.eval)
                   /\ pc' = IF Len(Root.rest) = 1 THEN "iterated" ELSE "call"
    <3> DEFINE r == Root.rest
               m == Head(r)
               left == {r[k] : k \in DOMAIN r}
    <3>1. m \in left /\ {Tail(r)[k] : k \in DOMAIN Tail(r)} = left \ {m}
      BY <2>4, LeftFacts
    <3>2. left = {m} <=> Len(r) = 1
      BY <2>4, LeftFacts
    <3>3. Thread!Step("evaluating")
      BY <2>1, <2>4 DEF Thread!Step, Thread!server, Thread!running
    <3>5. {Root'.rest[k] : k \in DOMAIN Root'.rest} = left \ {m}
      BY <2>4, <3>1
    <3> HIDE DEF m, left
    <3>4. Thread!Evaluate
      <4>1. CASE /\ optimum'.movement = m /\ Finite(optimum'.eval) /\ pc' = "store"
        <5>1. optimum'.eval \notin {-Infinity, Infinity}
          BY <1>0, <4>1, FiniteFacts
        <5>2. /\ search /\ pc' = "store" /\ ~Root'.probe /\ optimum'.movement = m
              /\ Root'.at = Root.at /\ best_move' = best_move
          BY <2>1, <2>4, <4>1
        <5> QED
          BY <3>1, <3>3, <3>5, <5>1, <5>2 DEF Thread!Evaluate, left
      <4>2. CASE /\ optimum' = optimum /\ Finite(optimum.eval)
                 /\ pc' = IF Len(r) = 1 THEN "iterated" ELSE "call"
        <5>1. optimum.eval \notin {-Infinity, Infinity} /\ optimum.movement # NoMove
          BY <1>0, <2>1, <2>4, <4>2, FiniteFacts DEF HandOK, Inner, Worst
        <5>2. /\ search /\ ~Root.probe /\ ~Root'.probe /\ optimum' = optimum
              /\ Root'.at = Root.at /\ best_move' = best_move
          BY <2>1, <2>4, <4>2
        <5>3. pc' = IF left = {m} THEN "iterated" ELSE "call"
          BY <3>2, <4>2
        <5> QED
          BY <3>1, <3>3, <3>5, <5>1, <5>2, <5>3 DEF Thread!Evaluate, left
      <4> QED
        BY <2>4, <4>1, <4>2 DEF m
    <3> QED
      BY <3>4 DEF Thread!GameThread
  <2> QED
    BY <1>8, <2>2, <2>3, <2>4, ReturnedRootHand
<1> QED
  BY <1>1, <1>2, <1>3, <1>4, <1>5, <1>6, <1>7, <1>8 DEF Next, SearchMove

(* The search of src/engine.cpp is a game thread of src/uciws.cpp as       *)
(* UCIWSServer.tla has it, whatever the game, the depth and the values.    *)
THEOREM SearchIsGameThread == Safe => IsGameThread
<1>1. IInv /\ HandOK /\ [Next]_vars =>
        [Thread!GameThread \/ UNCHANGED Thread!uvars \/ search' # search]_vars
  BY StepIsThread
<1> QED
  BY <1>1, HandInductive, PTL DEF Safe, IsGameThread
=============================================================================
