-------------------------------- MODULE Numeric --------------------------------
(***************************************************************************)
(* NUMERIC values.  The server sends a two's complement number of one to   *)
(* five words, the most significant first, and the column says where the   *)
(* decimal point is.  src/src/types/numeric.rs has three decoders for it:  *)
(* one word or two for small precisions, up to four words, and words one   *)
(* by one for five; and one for the text a row may hold instead.  What     *)
(* they give is an f64, a fixed-width Decimal or exact text.               *)
(* src/src/types/exact_numeric.rs has a decoder of its own, converts what  *)
(* the others gave, and reads and writes the decimal text.                 *)
(*                                                                         *)
(* Word is the number of values of a word (2^32), MaxMantissa the bound of *)
(* the Decimal (2^96), Group the digits of a limb (10^9).  An f64 keeps    *)
(* every number of 15 digits, but not its scale: it is modelled as the     *)
(* shortest decimal that is the number, below FloatBound (10^15).  A       *)
(* precision up to 15 is called small; the server sends no number with     *)
(* more digits than its column's precision.                                *)
(***************************************************************************)
EXTENDS Integers, Sequences, SequencesExt, TLC

CONSTANTS
  Word, MaxMantissa, FloatBound,
  DecimalScale,    \* 28: the most a Decimal has after its point
  MaxCoefficient,  \* 10^38
  Scales, Group

VARIABLES
  words,  \* the words of the field, most significant first
  scale   \* digits after the decimal point

vars == <<words, scale>>

MaxWords == 5

\* A decimal text: its sign, the digits before and after the point.
Digits(n) ==  \* the decimal digits of n, at least one
  LET digits[k \in Nat] == IF k < 10 THEN <<k>> ELSE digits[k \div 10] \o <<k % 10>> IN digits[n]

Zeros(n) == [k \in 1 .. n |-> 0]

--------------------------------------------------------------------------------
(* numeric.rs *)

Unsigned(ws) ==
  LET value[k \in 0 .. Len(ws)] == IF k = 0 THEN 0 ELSE value[k - 1] * Word + ws[k] IN value[Len(ws)]

\* The fast path: the first word is signed, the second is not.
Short(ws) ==
  LET hi == IF ws[1] >= Word \div 2 THEN ws[1] - Word ELSE ws[1]
  IN IF Len(ws) = 1 THEN hi ELSE hi * Word + ws[2]

\* read_signed_i128: the words as one unsigned number, less 2^bits when the top bit is set.
ReadSigned(ws) ==
  IF Unsigned(ws) >= (Word ^ Len(ws)) \div 2 THEN Unsigned(ws) - Word ^ Len(ws) ELSE Unsigned(ws)

\* decode_wide_into: two's complement negation, the carry running from the last word.
Negated(ws) ==
  LET inverted == [k \in DOMAIN ws |-> Word - 1 - ws[k]]
      carry[k \in 1 .. Len(ws)] ==  \* the carry into word k
        IF k = Len(ws) THEN 1 ELSE IF carry[k + 1] = 1 /\ inverted[k + 1] = Word - 1 THEN 1 ELSE 0
  IN [k \in DOMAIN ws |-> (inverted[k] + carry[k]) % Word]

\* One round of its division by Group: the quotient's words and the remainder.
Divided(ws) ==
  LET rem[k \in 0 .. Len(ws)] == IF k = 0 THEN 0 ELSE (rem[k - 1] * Word + ws[k]) % Group
  IN [words |-> [k \in DOMAIN ws |-> ((rem[k - 1] * Word + ws[k]) \div Group) % Word],
      rem |-> rem[Len(ws)]]

\* Its digits: the groups below the first are padded with zeros.
WideDigits(ws) ==
  LET groups[n \in 0 .. MaxWords * Word] ==  \* groups of the number, least significant first
        IF n = 0 THEN [words |-> ws, digits |-> <<>>]
        ELSE LET g == groups[n - 1]
                 d == Divided(g.words)
             IN IF g.words = Zeros(Len(ws)) THEN g
                ELSE [words |-> d.words,
                      digits |-> (IF d.words = Zeros(Len(ws)) THEN Digits(d.rem)
                                  ELSE Zeros(Len(Digits(Group)) - 1 - Len(Digits(d.rem))) \o Digits(d.rem))
                                 \o g.digits]
      all == groups[MaxWords * Word].digits
  IN IF all = <<>> THEN <<0>> ELSE all

\* insert_decimal_point_in_place.
WithPoint(digits) ==
  IF scale = 0 THEN [int |-> digits, frac |-> <<>>]
  ELSE IF Len(digits) <= scale THEN [int |-> <<0>>, frac |-> Zeros(scale - Len(digits)) \o digits]
  ELSE [int |-> SubSeq(digits, 1, Len(digits) - scale),
        frac |-> SubSeq(digits, Len(digits) - scale + 1, Len(digits))]

Abs(n) == IF n < 0 THEN -n ELSE n

\* The shortest decimal that is coefficient / 10^sc.
Shortest(coefficient, sc) ==
  LET dropped == CHOOSE k \in 0 .. sc :
                   /\ coefficient % (10 ^ k) = 0
                   /\ k = sc \/ coefficient % (10 ^ (k + 1)) # 0
  IN [mantissa |-> coefficient \div (10 ^ dropped), scale |-> sc - dropped]

Number(coefficient) == [kind |-> "float"] @@ Shortest(coefficient, scale)

\* An f64 prints the number as it was sent: the scale has no trailing zero.
PrintsBack(coefficient) == Shortest(coefficient, scale).scale = scale

\* classify_numeric.
Classify(coefficient, exact, small) ==
  IF small /\ PrintsBack(coefficient) THEN Number(coefficient) ELSE exact

\* get_cs_numeric_into.  The fast path gives a Number where Decimal::from_f64 of
\* it has the scale of the column; whatever fits no Decimal is classified by its
\* text, and so is every number of five words.
GetNumeric(small) ==
  LET n == Len(words)
      fast == n <= 2 /\ small
      coefficient == IF fast THEN Short(words) ELSE ReadSigned(words)
      negative == words[1] >= Word \div 2
      wide == WideDigits(IF negative THEN Negated(words) ELSE words)
      point == IF n > 4 THEN WithPoint(wide) ELSE WithPoint(Digits(Abs(coefficient)))
      exact == [kind |-> "exact", neg |-> negative, int |-> point.int, frac |-> point.frac]
  IN IF n <= 4 /\ Abs(coefficient) < MaxMantissa /\ scale <= DecimalScale
     THEN IF fast /\ PrintsBack(coefficient) THEN Number(coefficient)
          ELSE [kind |-> "decimal", mantissa |-> coefficient, scale |-> scale]
     ELSE Classify(coefficient, exact, small)

--------------------------------------------------------------------------------
(* exact_numeric.rs *)

Failure == [kind |-> "error"]

\* NzNumeric::new.
New(coefficient, sc) ==
  IF Abs(coefficient) >= MaxCoefficient THEN Failure
  ELSE [kind |-> "numeric", coefficient |-> coefficient, scale |-> sc]

\* from_raw of a binary field: word by word, the first one signed.
FromWords ==
  LET value[k \in 1 .. Len(words)] ==
        IF k = 1 THEN IF words[1] >= Word \div 2 THEN words[1] - Word ELSE words[1]
        ELSE value[k - 1] * Word + words[k]
  IN New(value[Len(words)], scale)

\* from_str.
FromText(t) ==
  LET digits == t.int \o t.frac
      value[k \in 0 .. Len(digits)] == IF k = 0 THEN 0 ELSE value[k - 1] * 10 + digits[k]
  IN New(IF t.neg THEN -value[Len(digits)] ELSE value[Len(digits)], Len(t.frac))

\* Display.
Show(n) ==
  LET magnitude == Abs(n.coefficient)
      below == Digits(magnitude % (10 ^ n.scale))
  IN [neg |-> n.coefficient < 0,
      int |-> Digits(magnitude \div (10 ^ n.scale)),
      frac |-> IF n.scale = 0 THEN <<>> ELSE Zeros(n.scale - Len(below)) \o below]

\* from_sql: an f64 is refused.
FromSql(v) ==
  CASE v.kind = "exact" -> FromText(v)
    [] v.kind = "decimal" -> New(v.mantissa, v.scale)
    [] v.kind = "float" -> Failure

\* rust_decimal: what a Decimal keeps of a decimal with too long a scale.
Rounded(d) ==
  LET unit == 10 ^ (d.scale - DecimalScale)
      half == (Abs(d.mantissa) + unit \div 2) \div unit
  IN IF d.scale <= DecimalScale THEN d
     ELSE [d EXCEPT !.mantissa = IF @ < 0 THEN -half ELSE half, !.scale = DecimalScale]

\* from_raw of a value that was decoded before: an f64 goes through
\* Decimal::from_f64, which gives the shortest decimal of at most DecimalScale
\* digits after the point.
FromValue(v) ==
  IF v.kind = "float"
  THEN LET d == Shortest(Rounded(v).mantissa, Rounded(v).scale) IN New(d.mantissa, d.scale)
  ELSE FromSql(v)

\* parse_numeric_text of the text of n, for a column whose precision is unknown,
\* up to 15 (small), up to 28 (medium) or more (large).
ParseNumericText(n, precision) ==
  LET t == Show(n)
      decimal == [kind |-> "decimal", mantissa |-> n.coefficient, scale |-> n.scale]
  IN IF /\ precision \in {"unknown", "small"} /\ Abs(n.coefficient) < FloatBound
        /\ PrintsBack(n.coefficient)
     THEN Number(n.coefficient)
     ELSE IF precision \in {"small", "medium"} /\ Abs(Rounded(decimal).mantissa) < MaxMantissa
     THEN Rounded(decimal)
     ELSE [kind |-> "exact"] @@ t

--------------------------------------------------------------------------------
Init == words \in {<<w>> : w \in 0 .. Word - 1} /\ scale \in Scales

\* A longer number.
Extend(w) == Len(words) < MaxWords /\ words' = Append(words, w) /\ UNCHANGED scale

Next == \E w \in 0 .. Word - 1 : Extend(w)

Spec == Init /\ [][Next]_vars

--------------------------------------------------------------------------------
(* Properties *)

\* The number a NUMERIC field holds does not depend on who decodes it: the value
\* the row decoder makes (by the fast path, the i128 or the limb path, or from the
\* text of the number; as an f64, a Decimal or as text) converts to the same
\* coefficient and scale as the typed getter reads from the words.  The one
\* exception is the scale a Decimal cannot have, more than 28: there what comes
\* back by way of an f64 or a Decimal has another scale, and only exact text is
\* the number.  from_sql, which has no column type to go by, refuses an f64 and is
\* as exact otherwise; and NzNumeric's own text reads back as the number, the
\* trailing zeros of its scale kept.
NumericIsExact ==
  LET n == FromWords
      values == {GetNumeric(small) :
                   small \in {s \in BOOLEAN : s => Abs(ReadSigned(words)) < FloatBound}}
      texts == {ParseNumericText(n, precision) : precision \in
                  {p \in {"unknown", "small", "medium", "large"} :
                     p = "small" => Abs(n.coefficient) < FloatBound}}
      lossy(v) == v.kind # "exact" /\ scale > DecimalScale
  IN /\ \A v \in values \cup (IF n = Failure THEN {} ELSE texts) :
          /\ FromValue(v) = n <=> ~lossy(v)
          /\ FromSql(v) = IF v.kind = "float" THEN Failure ELSE FromValue(v)
     /\ n # Failure => FromText(Show(n)) = n
================================================================================
