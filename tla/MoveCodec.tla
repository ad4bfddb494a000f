----------------------------- MODULE MoveCodec -----------------------------
(***************************************************************************)
(* The forms a move takes on its way from one engine's move generator to   *)
(* the other engine's board: a 16-bit number in the orientation of the     *)
(* side of the board it was generated on, the number turned back to        *)
(* board_0 (transform_moves), the text of a bestmove (move_to_str) with or *)
(* without the mark of a check, and the number the other server reads in   *)
(* its position message (str_to_move).  Elsewhere a move is a record; here *)
(* it is the bits.                                                         *)
(*                                                                         *)
(* A number holds the square moved from in bits 8 to 13, the square moved  *)
(* to in bits 0 to 5 and the promotion in bits 6 and 7.                    *)
(***************************************************************************)
EXTENDS MoveGen, Bitwise

PAWN_BISHOP == 2^6
PAWN_ROOK == 2^7
PromoBits(promo) == IF "BISHOP" \in promo THEN PAWN_BISHOP
                    ELSE IF "ROOK" \in promo THEN PAWN_ROOK ELSE 0

move_promo(p0, p1, pt) == ((p0 * 2^8) | p1) | pt
getp0(m) == (m \div 2^8) & 63
getp1(m) == m & 63
getpromo(m) == m & (PAWN_BISHOP | PAWN_ROOK)

transform_moves(moves, transform) ==
  {move_promo(transform[getp0(m)], transform[getp1(m)], getpromo(m)) : m \in moves}

(***************************************************************************)
(* Text.                                                                   *)
(***************************************************************************)
Chr == [a |-> 97, one |-> 49, b |-> 98, r |-> 114, plus |-> 43, hash |-> 35, minus |-> 45]

move_to_str(m) ==
  LET promo == getpromo(m)
  IN  <<Chr.a + getx(getp0(m)), Chr.one + gety(getp0(m)),
        Chr.a + getx(getp1(m)), Chr.one + gety(getp1(m))>>
      \o IF promo & PAWN_BISHOP # 0 THEN <<Chr.b>>
         ELSE IF promo & PAWN_ROOK # 0 THEN <<Chr.r>>
         ELSE <<>>

(* Whatever follows the squares, if it is not an r, is a bishop.           *)
str_to_move(s) ==
  LET promo == IF Len(s) <= 4 THEN 0 ELSE IF s[5] = Chr.r THEN PAWN_ROOK ELSE PAWN_BISHOP
  IN  move_promo(pos(s[1] - Chr.a, s[2] - Chr.one), pos(s[3] - Chr.a, s[4] - Chr.one), promo)

(* What the opponent is after the move: in check, mated, stalemated or     *)
(* none of these.                                                          *)
Suffix == {<<>>, <<Chr.plus>>, <<Chr.hash>>, <<Chr.minus>>}

(* Mutant: the text with the suffix is sent. *)
Answer_Marked(m, suffix) == move_to_str(m) \o suffix
(* on_stop makes a text with the suffix, str_move, and sends another. *)
Answer(m, suffix) == move_to_str(m)

(***************************************************************************)
(* The way of a move.                                                      *)
(***************************************************************************)

(* What the generator for the bottom of the board returns of a move, of a  *)
(* piece whose side is at the bottom in orientation v.                     *)
Generated(m, v) ==
  move_promo(RotTables[v][m.p0], RotTables[v][m.p1], PromoBits(m.promo))

(* A U16 that stands for the move. *)
Encodes(code, m) ==
  /\ 0 <= code /\ code < 2^16
  /\ getp0(code) = m.p0 /\ getp1(code) = m.p1 /\ getpromo(code) = PromoBits(m.promo)
=============================================================================
