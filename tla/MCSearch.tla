------------------------------ MODULE MCSearch ------------------------------
(***************************************************************************)
(* Small games to search.  A position is a pair of a setting -- a tree, the *)
(* evaluations of its leaves and a colour -- and a node of the tree, so     *)
(* that one run searches every tree under every assignment; the search      *)
(* cannot tell that there are others.                                       *)
(***************************************************************************)
EXTENDS Search, FiniteSetsExt

(* A game: the children of each node, of which 1 is the root; the          *)
(* evaluations a leaf can have; those of the other nodes, which only order *)
(* them; by how much an evaluation may be off; who may be to play at the   *)
(* root; where searches start.                                             *)
Game == [
  (* Two plies: three moves with two replies each.                         *)
  wide  |-> [tree |-> <<{2, 3, 4}, {5, 6}, {7, 8}, {9, 10}, {}, {}, {}, {}, {}, {}>>,
             values |-> {0, 1}, inner |-> [n \in 1..10 |-> 0], drift |-> 0,
             white |-> BOOLEAN, roots |-> {1}],
  (* Two moves, two replies, one answer to each and two replies to that.   *)
  deep  |-> [tree |-> <<{2, 3}, {4, 5}, {6, 7}, {8}, {9}, {10}, {11}, {12, 13}, {14, 15},
                        {16, 17}, {18, 19}, {}, {}, {}, {}, {}, {}, {}, {}>>,
             values |-> {0, 1}, inner |-> [n \in 1..19 |-> n % 3], drift |-> 0,
             white |-> BOOLEAN, roots |-> {1}],
  (* The same, for white, when no visit need agree with another.           *)
  drift |-> [tree |-> <<{2, 3}, {4, 5}, {6, 7}, {8}, {9}, {10}, {11}, {12, 13}, {14, 15},
                        {16, 17}, {18, 19}, {}, {}, {}, {}, {}, {}, {}, {}>>,
             values |-> {0, 2}, inner |-> [n \in 1..19 |-> n % 3], drift |-> 1,
             white |-> {TRUE}, roots |-> {1}],
  (* A move that ends the game, and one with two replies; no moves at all. *)
  small |-> [tree |-> <<{2, 3}, {}, {4, 5}, {}, {}>>,
             values |-> {0, 1}, inner |-> [n \in 1..5 |-> 0], drift |-> 0,
             white |-> BOOLEAN, roots |-> {1, 2}]]

CONSTANT Games  \* the names of those to search

Leaf(g) == {n \in DOMAIN g.tree : g.tree[n] = {}}

(* Exchanging siblings that the evaluations do not tell apart changes      *)
(* nothing, so they are sorted by what is below them.                      *)
Sorted(g, leaf) ==
  LET weight[n \in DOMAIN g.tree] ==
        IF g.tree[n] = {} THEN 1 + leaf[n] * leaf[n]
        ELSE MapThenSumSet(LAMBDA c : weight[c], g.tree[n])
  IN  \A n \in DOMAIN g.tree : \A l, k \in g.tree[n] :
        (/\ l < k
         /\ \/ {l, k} \subseteq Leaf(g)
            \/ {l, k} \cap Leaf(g) = {} /\ g.inner[l] = g.inner[k])
        => weight[l] <= weight[k]

Settings(name) ==
  LET g == Game[name]
  IN  [game : {name}, leaf : {x \in [Leaf(g) -> g.values] : Sorted(g, x)}, white : g.white]

Setting == UNION {Settings(name) : name \in Games}

Tree(p) == Game[p[1].game].tree
MCPosition == UNION {{x} \X DOMAIN Game[x.game].tree : x \in Setting}

EvenPly == [name \in Games |->
  LET T == Game[name].tree
      even[n \in DOMAIN T] == n = 1 \/ \E m \in DOMAIN T : n \in T[m] /\ ~even[m]
  IN  even]
MCWhiteToPlay == {p \in MCPosition : p[1].white = EvenPly[p[1].game][p[2]]}
MCChildren == [p \in MCPosition |-> {<<p[1], n>> : n \in Tree(p)[p[2]]}]
MCEvals == [p \in MCPosition |->
  LET g == Game[p[1].game]
  IN  IF Tree(p)[p[2]] = {} THEN {p[1].leaf[p[2]], p[1].leaf[p[2]] + g.drift}
      ELSE {g.inner[p[2]]}]
MCStray == {-5, 0, 5}
MCRoots == {p \in MCPosition : p[2] \in Game[p[1].game].roots}

MCLo[d \in Depth] == [p \in MCPosition |->
  IF d = 0 \/ MCChildren[p] = {} THEN Min(MCEvals[p])
  ELSE LET replies == {MCLo[d - 1][c] : c \in MCChildren[p]}
       IN  IF p \in MCWhiteToPlay THEN Max(replies) ELSE Min(replies)]
MCHi[d \in Depth] == [p \in MCPosition |->
  IF d = 0 \/ MCChildren[p] = {} THEN Max(MCEvals[p])
  ELSE LET replies == {MCHi[d - 1][c] : c \in MCChildren[p]}
       IN  IF p \in MCWhiteToPlay THEN Max(replies) ELSE Min(replies)]
=============================================================================
