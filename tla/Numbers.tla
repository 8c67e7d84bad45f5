------------------------------ MODULE Numbers ------------------------------
(***************************************************************************)
(* string-to-i32, -i64, -u32 and -u64: the runtime's (bbb_string.c) and    *)
(* the interpreter's (bcvm.c), which are meant to be the same.  A text is  *)
(* a sequence of symbols.  Limit64 stands for 2^63, the largest magnitude  *)
(* of a 64 bit number, Limit32 for 2^31, and MaxDigits for the 20 digits a *)
(* number may have.                                                        *)
(***************************************************************************)
EXTENDS Integers, Sequences

CONSTANTS Limit64, Limit32, MaxDigits,
          Numerals                                   \* the texts that are parsed
ASSUME WidthsAssumption ==
  /\ Limit64 \in Nat /\ Limit64 >= 9 /\ Limit32 \in 1 .. Limit64
  /\ MaxDigits \in Nat /\ Numerals \subseteq Seq(STRING)

VARIABLES numeral, parsed                            \* a text, and what the four functions return for it
numbers == << numeral, parsed >>

Digit == [c \in {"0", "1", "2", "3", "4", "5", "6", "7", "8", "9"} |->
            CASE c = "0" -> 0 [] c = "1" -> 1 [] c = "2" -> 2 [] c = "3" -> 3 [] c = "4" -> 4
              [] c = "5" -> 5 [] c = "6" -> 6 [] c = "7" -> 7 [] c = "8" -> 8 [] c = "9" -> 9]
Rejected == [ok |-> FALSE, value |-> 0]
Signed(s, signs) == s # << >> /\ Head(s) \in signs
\* What follows the sign, if there is one.
AfterSign(s, signs) == IF Signed(s, signs) THEN Tail(s) ELSE s

\* The magnitude is bounded before it is multiplied.
\* Mutant: it is bounded by the largest number only.
SignedStepUnchecked(acc, c) ==
  LET mag == IF c \in DOMAIN Digit THEN (acc.mag * 10 + Digit[c]) % (2 * Limit64) ELSE 0
  IN  IF acc.ok /\ c \in DOMAIN Digit /\ acc.n < MaxDigits THEN [ok |-> TRUE, mag |-> mag, n |-> acc.n + 1]
      ELSE [acc EXCEPT !.ok = FALSE]
SignedStep(acc, c) ==
  IF /\ acc.ok /\ c \in DOMAIN Digit /\ acc.n < MaxDigits
     /\ acc.mag <= (Limit64 - Digit[c]) \div 10
  THEN [ok |-> TRUE, mag |-> acc.mag * 10 + Digit[c], n |-> acc.n + 1]
  ELSE [acc EXCEPT !.ok = FALSE]
\* The loop's variables after each symbol.
Magnitudes(s) ==
  LET at[i \in 0 .. Len(s)] == IF i = 0 THEN [ok |-> s # << >>, mag |-> 0, n |-> 0] ELSE SignedStep(at[i - 1], s[i])
  IN  at
WithSign(r, neg) ==
  IF ~r.ok \/ (~neg /\ r.mag > Limit64 - 1) THEN Rejected
  ELSE [ok |-> TRUE, value |-> IF neg THEN -r.mag ELSE r.mag]
bc_parse_i64(s) ==
  LET digits == AfterSign(s, {"-", "+"}) IN WithSign(Magnitudes(digits)[Len(digits)], Signed(s, {"-"}))

\* An overflow is detected by the number getting smaller.
UnsignedStep(acc, c) ==
  LET next == (acc.value * 10 + Digit[c]) % (2 * Limit64)
  IN  IF acc.ok /\ c \in DOMAIN Digit /\ next >= acc.value THEN [ok |-> TRUE, value |-> next] ELSE Rejected
Wrapping(s) ==
  LET at[i \in 0 .. Len(s)] == IF i = 0 THEN [ok |-> s # << >>, value |-> 0] ELSE UnsignedStep(at[i - 1], s[i])
  IN  at
bc_parse_u64(s) == LET digits == AfterSign(s, {"+"}) IN Wrapping(digits)[Len(digits)]

Narrowed(r, lo, hi) == IF r.ok /\ r.value \in lo .. hi THEN r ELSE Rejected
bc_parse_number(s, k) ==
  CASE k = "i32" -> Narrowed(bc_parse_i64(s), -Limit32, Limit32 - 1)
    [] k = "i64" -> bc_parse_i64(s)
    [] k = "u32" -> Narrowed(bc_parse_u64(s), 0, 2 * Limit32 - 1)
    [] k = "u64" -> bc_parse_u64(s)

IntKinds == {"i32", "i64", "u32", "u64"}
Unparsed == << >>
NumbersInit == numeral \in Numerals /\ parsed = Unparsed
ParseNumber ==
  /\ parsed = Unparsed
  /\ parsed' = [k \in IntKinds |-> bc_parse_number(numeral, k)]
  /\ UNCHANGED numeral
NumbersSpec == NumbersInit /\ [][ParseNumber]_numbers

-----------------------------------------------------------------------------
\* What a text says, by the rule of the decimal system.
IsNumeral(ds) == ds # << >> /\ \A i \in 1 .. Len(ds) : ds[i] \in DOMAIN Digit
Decimal(ds) ==
  LET at[i \in 0 .. Len(ds)] == IF i = 0 THEN 0 ELSE at[i - 1] * 10 + Digit[ds[i]] IN at
NumeralValue(ds) == Decimal(ds)[Len(ds)]
InRange(v, k) ==
  CASE k = "i32" -> -Limit32 <= v /\ v < Limit32 [] k = "i64" -> -Limit64 <= v /\ v < Limit64
    [] k = "u32" -> 0 <= v /\ v < 2 * Limit32    [] k = "u64" -> 0 <= v /\ v < 2 * Limit64
SignedExact(s, k, r) ==
  LET ds == AfterSign(s, {"-", "+"})
      v  == IF Signed(s, {"-"}) THEN -NumeralValue(ds) ELSE NumeralValue(ds)
  IN  IF IsNumeral(ds) /\ Len(ds) <= MaxDigits /\ InRange(v, k) THEN r = [ok |-> TRUE, value |-> v] ELSE r = Rejected
UnsignedExact(s, k, r) ==
  LET ds == AfterSign(s, {"+"})
  IN  IF IsNumeral(ds) /\ InRange(NumeralValue(ds), k) THEN r = [ok |-> TRUE, value |-> NumeralValue(ds)] ELSE r = Rejected
\* The number does not fit, but never gets smaller as it wraps.
WrapsUnseen(s) ==
  LET ds == AfterSign(s, {"+"})
      wrapped(i) == Decimal(ds)[i] % (2 * Limit64)
  IN  /\ IsNumeral(ds) /\ NumeralValue(ds) >= 2 * Limit64
      /\ \A i \in 1 .. Len(ds) : wrapped(i) >= wrapped(i - 1)

\* "`ok` is false for anything malformed ... or a magnitude that doesn't fit
\* the target width" (bbb_string.h:69-73): what is no number, too long or out
\* of range is refused, with the value 0, and everything else has its own
\* value.
NumbersFit ==
  parsed # Unparsed =>
    /\ \A k \in {"i32", "i64"} : SignedExact(numeral, k, parsed[k])
    /\ \A k \in {"u32", "u64"} : UnsignedExact(numeral, k, parsed[k])

\* What the code keeps of that promise: signed numbers are parsed exactly, and
\* so are unsigned ones but for those that wrap without getting smaller, which
\* the overflow test of bbb_string.c and bcvm.c misses (see NumbersFit).
NumbersParse ==
  parsed # Unparsed =>
    /\ \A k \in {"i32", "i64"} : SignedExact(numeral, k, parsed[k])
    /\ ~WrapsUnseen(numeral) => \A k \in {"u32", "u64"} : UnsignedExact(numeral, k, parsed[k])
=============================================================================
