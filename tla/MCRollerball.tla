---------------------------- MODULE MCRollerball ----------------------------
(***************************************************************************)
(* Scripts that take a game close to what rarely happens in a few moves.   *)
(* Squares are 8 * rank + file; RPlay allows legal moves only, and a       *)
(* script that stops half-way is a deadlock.                               *)
(***************************************************************************)
EXTENDS Rollerball

Moves(pairs) ==
  [k \in DOMAIN pairs |-> [p0 |-> pairs[k][1], p1 |-> pairs[k][2], promo |-> {}]]

(* From the first move on. *)
NewScript == <<>>

(* A white pawn on d7 can be promoted on e7, and on e6 by a capture. *)
CaptureScript == Moves(<<
  <<2,1>>, <<44,53>>, <<10,17>>, <<51,21>>, <<3,10>>, <<21,12>>, <<11,2>>,
  <<12,10>>, <<2,10>>, <<43,44>>, <<17,25>>, <<44,37>>, <<25,32>>, <<42,45>>,
  <<10,2>>, <<50,49>>, <<2,10>>, <<37,30>>, <<32,40>>, <<49,50>>, <<10,11>>,
  <<30,38>>, <<40,48>>, <<53,54>>, <<4,5>>, <<45,5>>, <<11,10>>, <<5,1>>,
  <<10,1>>, <<54,46>>, <<48,41>>, <<50,42>>, <<41,42>>, <<46,37>>, <<1,0>>,
  <<38,45>>, <<42,51>>, <<45,53>>>>)

(* White, to move, mates with f1a6. *)
MateScript == Moves(<<
  <<2,9>>, <<52,53>>, <<10,17>>, <<53,46>>, <<4,5>>, <<44,37>>, <<17,25>>,
  <<46,38>>, <<3,42>>, <<43,42>>>>)

(* Black is mated. *)
MatedScript == MateScript \o Moves(<< <<5,40>> >>)

Endings == {CaptureScript, MateScript, MatedScript}
AllScripts == {NewScript} \cup Endings
=============================================================================
