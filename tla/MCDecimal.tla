------------------------------ MODULE MCDecimal ------------------------------
(***************************************************************************)
(* Words of eight bits with two ternary digits of fraction: every pair of  *)
(* operands, and every text of up to three digits of fraction, signed or   *)
(* not, whose integer part is at and around the limit.                     *)
(***************************************************************************)
EXTENDS Decimal

MCTexts ==
  LET Digit == 0..Ten - 1
  IN  [minus : BOOLEAN, whole : {0, 1, 13, 14, 15, 200}, sign : {-1, 0, 1},
       digits : {<<>>} \union UNION { [1..n -> Digit] : n \in 1..3 }]
=============================================================================
