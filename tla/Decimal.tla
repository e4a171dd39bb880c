------------------------------- MODULE Decimal -------------------------------
(***************************************************************************)
(* Decimal128 of exg-common (decimal.rs): a fixed-point number kept as an  *)
(* i128 scaled by 10^18.  Every price, quantity, fee and balance is one.   *)
(*                                                                         *)
(* A product or a scaled dividend that does not fit in one word takes the  *)
(* slow path: a double-word product put together from four half-word ones, *)
(* then a long division, one bit of the quotient at a time.  The steps of  *)
(* that division are the steps of this machine.                            *)
(*                                                                         *)
(* The width of a half word and the scale are parameters: the code is the  *)
(* instance HalfBits = 64, Ten = 10, ScaleDigits = 18.  TLC visits every   *)
(* pair of operands of a narrower one.  Option<Decimal128> is a set of at  *)
(* most one raw value, None being {}.                                      *)
(***************************************************************************)
EXTENDS Integers, Sequences
LOCAL INSTANCE SequencesExt

CONSTANTS HalfBits,     \* bits of a half word (64 in the code)
          Ten,          \* base of the digits
          ScaleDigits,  \* digits of the fraction
          Texts         \* the texts handed to from_str

Half     == 2 ^ HalfBits
Word     == Half * Half
WordBits == 2 * HalfBits
Scale    == Ten ^ ScaleDigits
MaxRaw   == Word \div 2 - 1
MinRaw   == -(Word \div 2)
Raw      == MinRaw .. MaxRaw

(***************************************************************************)
(* 10^18 is below 2^64, and 2^127 is not a multiple of it: no scaled       *)
(* dividend is i128::MIN, which the processor could not divide by -1.      *)
(***************************************************************************)
ASSUME DecimalAssumption ==
  /\ HalfBits \in Nat \ {0} /\ ScaleDigits \in Nat \ {0} /\ Ten \in Nat \ {0, 1}
  /\ Scale < Half
  /\ MinRaw % Scale # 0

VARIABLES pc,           \* "idle", "called", "divide", "narrow" or "done"
          op, a, b,     \* the call: checked_add, _sub, _mul or _div; from_str
          text,
          neg, d, lo,   \* of the long division: sign, divisor, low word
          rem, quot, i, \* remainder, quotient, bits still to bring down
          result        \* what the call returned

vars == <<pc, op, a, b, text, neg, d, lo, rem, quot, i, result>>
call == <<op, a, b, text>>
long == <<neg, d, lo, rem, quot, i>>

-----------------------------------------------------------------------------
(* One-word arithmetic.                                                    *)

Abs(x) == IF x < 0 THEN -x ELSE x

\* i128's `/`, which truncates towards zero.
Truncated(x, y) ==
  IF (x < 0) # (y < 0) THEN -(Abs(x) \div Abs(y)) ELSE Abs(x) \div Abs(y)

\* i128's checked operations: the value, if it is one of the type.
Checked(x) == {x} \cap Raw

-----------------------------------------------------------------------------
(* Two-word arithmetic.                                                    *)

\* Mutant: the carry out of the low word is lost.
NoLowCarryMutant(x, y) ==
  LET ll     == (x % Half) * (y % Half)
      midSum == (x % Half) * (y \div Half) + (x \div Half) * (y % Half)
  IN  [hi |-> (x \div Half) * (y \div Half) + midSum \div Half,
       lo |-> (ll + midSum * Half) % Word]

\* mul_u128: the double-word product of two words.
WideProduct(x, y) ==
  LET ll       == (x % Half) * (y % Half)
      lh       == (x % Half) * (y \div Half)
      hl       == (x \div Half) * (y % Half)
      hh       == (x \div Half) * (y \div Half)
      midSum   == (lh + hl) % Word
      midCarry == IF midSum < lh THEN 1 ELSE 0
      low      == (ll + midSum * Half) % Word
      lowCarry == IF low < ll THEN 1 ELSE 0
  IN  [hi |-> (hh + midSum \div Half + midCarry * Half + lowCarry) % Word,
       lo |-> low]

\* wide_mul_div's last lines: the magnitude of the quotient as an i128.
Narrowed(negative, magnitude) ==
  IF negative
  THEN IF magnitude > MaxRaw + 1 THEN {} ELSE {-magnitude}
  ELSE IF magnitude > MaxRaw THEN {} ELSE {magnitude}

-----------------------------------------------------------------------------
(* Texts.  A text is its sign, the number its integer part spells, and its *)
(* fraction: the digits and, because from_str hands the fraction to        *)
(* i128::from_str, a sign of its own (1, -1, or 0 for none).  A text of    *)
(* any other shape is refused and left out.                                *)

Value(digits) == FoldLeft(LAMBDA v, c : v * Ten + c, 0, digits)

\* Mutant: format!("{}") writes no leading zeros.
UnpaddedMutant(frac) ==
  LET digits == [k \in 1..ScaleDigits |-> (frac \div Ten ^ (ScaleDigits - k)) % Ten]
      first  == CHOOSE k \in 1..ScaleDigits :
                  /\ k = ScaleDigits \/ digits[k] # 0
                  /\ \A m \in 1..k - 1 : digits[m] = 0
  IN  SubSeq(digits, first, ScaleDigits)

\* The digits of a fraction, leading zeros included: format!("{:018}").
Padded(frac) ==
  [k \in 1..ScaleDigits |-> (frac \div Ten ^ (ScaleDigits - k)) % Ten]

\* trim_end_matches('0')
Trimmed(digits) ==
  LET last == CHOOSE k \in 0..Len(digits) :
                /\ k = 0 \/ digits[k] # 0
                /\ \A m \in k + 1..Len(digits) : digits[m] = 0
  IN  SubSeq(digits, 1, last)

Display(raw) ==
  [minus |-> raw < 0, whole |-> Abs(raw) \div Scale, sign |-> 0,
   digits |-> Trimmed(Padded(Abs(raw) % Scale))]

\* The fraction, cut or padded with zeros to ScaleDigits characters.
FractionValue(t) ==
  LET room == ScaleDigits - Abs(t.sign)
      kept == SubSeq(t.digits, 1, IF Len(t.digits) < room THEN Len(t.digits) ELSE room)
      magnitude == Value(kept) * Ten ^ (room - Len(kept))
  IN  IF t.sign = -1 THEN -magnitude ELSE magnitude

FromStr(t) ==
  { IF t.minus THEN -raw ELSE raw :
      raw \in UNION { Checked(v + FractionValue(t)) : v \in Checked(t.whole * Scale) } }

-----------------------------------------------------------------------------
Init ==
  /\ pc = "idle" /\ op = "none" /\ a = 0 /\ b = 0 /\ text = Display(0)
  /\ neg = FALSE /\ d = 1 /\ lo = 0 /\ rem = 0 /\ quot = 0 /\ i = 0
  /\ result = {}

Call(o, x, y) ==
  /\ pc' = "called" /\ op' = o /\ a' = x /\ b' = y
  /\ UNCHANGED <<text, result>> /\ UNCHANGED long

Return(r) == pc' = "done" /\ result' = r

\* checked_add and checked_sub.
AddOrSubtract ==
  /\ pc = "called" /\ op \in {"add", "sub"}
  /\ Return(Checked(IF op = "add" THEN a + b ELSE a - b))
  /\ UNCHANGED call /\ UNCHANGED long

\* checked_div's refusal of a zero divisor.
DivideByZero ==
  /\ pc = "called" /\ op = "div" /\ b = 0
  /\ Return({})
  /\ UNCHANGED call /\ UNCHANGED long

\* The factors and the divisor of the call: a * b / SCALE or a * SCALE / b.
Factor  == IF op = "mul" THEN b ELSE Scale
Divisor == IF op = "mul" THEN Scale ELSE b
Scaling == pc = "called" /\ (op = "mul" \/ (op = "div" /\ b # 0))

\* The product fits in a word.
FastPath ==
  /\ Scaling
  /\ \E product \in Checked(a * Factor) : Return({Truncated(product, Divisor)})
  /\ UNCHANGED call /\ UNCHANGED long

\* wide_mul_div up to the loop, with div_u256_by_u128's two shortcuts.
WideMultiply ==
  /\ Scaling
  /\ Checked(a * Factor) = {}
  /\ LET product == WideProduct(Abs(a), Abs(Factor))
         divisor == Abs(Divisor)
     IN  /\ neg' = ((a < 0) # ((Factor < 0) # (Divisor < 0)))
         /\ d' = divisor /\ lo' = product.lo /\ rem' = product.hi
         /\ \/ /\ product.hi = 0
               /\ pc' = "narrow" /\ quot' = product.lo \div divisor /\ i' = 0
            \/ /\ product.hi # 0 /\ product.hi >= divisor
               /\ pc' = "narrow" /\ quot' = Word - 1 /\ i' = 0
            \/ /\ product.hi # 0 /\ product.hi < divisor
               /\ pc' = "divide" /\ quot' = 0 /\ i' = WordBits
  /\ UNCHANGED call /\ UNCHANGED result

\* A turn of the loop: bring down a bit of lo, subtract if the divisor goes.
Goes(r, shifted) == r >= Word \div 2 \/ shifted >= d
DivideBit ==
  /\ pc = "divide" /\ i > 0
  /\ i' = i - 1
  /\ LET bit     == (lo \div 2 ^ (i - 1)) % 2
         shifted == ((2 * rem) % Word) + bit
     IN  IF Goes(rem, shifted)
         THEN rem' = (shifted - d) % Word /\ quot' = quot + 2 ^ (i - 1)
         ELSE rem' = shifted /\ quot' = quot
  /\ UNCHANGED <<pc, neg, d, lo, result>> /\ UNCHANGED call

Narrow ==
  /\ pc = "narrow" \/ (pc = "divide" /\ i = 0)
  /\ Return(Narrowed(neg, quot))
  /\ UNCHANGED call /\ UNCHANGED long

\* from_str.
Parse(t) ==
  /\ op' = "parse" /\ text' = t
  /\ Return(FromStr(t))
  /\ UNCHANGED <<a, b>> /\ UNCHANGED long

\* The caller takes the result; nothing of the call stays.
Take ==
  /\ pc = "done"
  /\ pc' = "idle" /\ op' = "none" /\ a' = 0 /\ b' = 0 /\ text' = Display(0)
  /\ neg' = FALSE /\ d' = 1 /\ lo' = 0 /\ rem' = 0 /\ quot' = 0 /\ i' = 0
  /\ result' = {}

Next ==
  \/ /\ pc = "idle"
     /\ \/ \E o \in {"add", "sub", "mul", "div"}, x, y \in Raw : Call(o, x, y)
        \/ \E t \in Texts : Parse(t)
  \/ AddOrSubtract \/ DivideByZero \/ FastPath \/ WideMultiply \/ DivideBit
  \/ Narrow \/ Take

Spec == Init /\ [][Next]_vars

-----------------------------------------------------------------------------
\* What a call is worth over the integers, computed without words.
Exactly ==
  CASE op = "add" -> a + b
    [] op = "sub" -> a - b
    [] op = "mul" -> Truncated(a * b, Scale)
    [] op = "div" -> Truncated(a * Scale, b)

(***************************************************************************)
(* checked_add, checked_sub, checked_mul and checked_div return the exact  *)
(* result, rounded towards zero, whenever it is a value of the type, and   *)
(* None otherwise, whichever path computed it: half-word products, their   *)
(* carries, the long division and the asymmetric range included.           *)
(***************************************************************************)
ArithmeticExact ==
  (pc = "done" /\ op \in {"add", "sub", "mul", "div"}) =>
     result = IF op = "div" /\ b = 0 THEN {} ELSE {Exactly} \cap Raw

(***************************************************************************)
(* A number survives serialisation: whatever an operation or from_str      *)
(* returned is displayed as a text that from_str reads back as the same    *)
(* number.  i128::MIN alone, whose magnitude is no i128, is refused.       *)
(***************************************************************************)
TextRoundTrip ==
  pc = "done" => \A raw \in result :
                    FromStr(Display(raw)) = IF raw = MinRaw THEN {} ELSE {raw}
=============================================================================
