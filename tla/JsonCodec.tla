----------------------------- MODULE JsonCodec -----------------------------
(***************************************************************************)
(* How jsoncpp writes numbers and strings and how it reads them back       *)
(* (json_tool.h, the valueTo*String functions of json_writer.cpp and the   *)
(* decode* functions of OurReader, all in http/jsoncpp/jsoncpp.cpp).       *)
(*                                                                         *)
(* A document is a sequence of lexemes, records whose field c is their     *)
(* kind.  A numeral keeps its digits, a string the bytes between its       *)
(* quotes: what the conversions depend on.  White space is left out.       *)
(***************************************************************************)
EXTENDS JsonValue

Punct(c) == [c |-> c]
Word(c) == [c |-> c]        \* "true", "false", "null", "NaN", "inf", "-inf"
Numeral(neg, digits, frac, exp) ==
  [c |-> "num", neg |-> neg, digits |-> digits, frac |-> frac, exp |-> exp]
Quoted(raw) == [c |-> "str", raw |-> raw]

(***************************************************************************)
(* Numbers                                                                 *)
(***************************************************************************)
uintToString(n) ==
  LET digits[k \in 0 .. n] ==
        IF k < 10 THEN <<k>> ELSE Append(digits[k \div 10], k % 10)
  IN digits[n]

Magnitude(n) == CASE n = minLargestInt -> maxLargestInt + 1
                  [] n # minLargestInt /\ n < 0 -> -n
                  [] n >= 0 -> n

IntToString(n) == Numeral(n < 0, uintToString(Magnitude(n)), <<>>, "none")

(* valueToString(double, useSpecialFloats, precision): a finite double     *)
(* always shows that it is one; the others depend on useSpecialFloats.     *)
RealToString(r, useSpecialFloats) ==
  LET h == IF r.h < 0 THEN -r.h ELSE r.h
  IN CASE r.k = "finite" ->
            Numeral(r.h < 0, uintToString(h \div 2),
                    IF h % 2 = 0 THEN <<0>> ELSE <<5>>, "none")
       [] r.k = "nan" -> Word(IF useSpecialFloats THEN "NaN" ELSE "null")
       [] OTHER -> IF useSpecialFloats THEN Word(r.k)
                   ELSE Numeral(r.k = "-inf", <<1>>, <<>>, "huge")

DecimalValue(digits) ==
  FoldLeft(LAMBDA acc, d : acc * 10 + d, 0, digits)

Decoded(v) == [ok |-> TRUE, v |-> v]
NotDecoded == [ok |-> FALSE, v |-> Null]

(* OurReader::decodeDouble over sscanf("%lf"): an exponent without digits  *)
(* is not a number, a huge one reads as an infinity.                       *)
decodeDouble(l) ==
  LET h == 2 * DecimalValue(l.digits) + (IF l.frac = <<5>> THEN 1 ELSE 0)
  IN IF l.exp = "bad" THEN NotDecoded
     ELSE Decoded(RealValue(IF l.exp = "huge"
                            THEN Special(IF l.neg THEN "-inf" ELSE "inf")
                            ELSE Halves(IF l.neg THEN -h ELSE h)))

(* The value of a LargestUInt read as a LargestInt.                        *)
ToSigned(n) == LET m == n % (2 ^ LargestBits)
               IN IF m > maxLargestInt THEN m - 2 ^ LargestBits ELSE m

(* The digit loop of decodeNumber, with its test against the limit made    *)
(* before the multiplication; -1 when the numeral must be a double.        *)
(* Mutant: the last digit is not compared with that of the limit.          *)
AccumulateLoose(digits, maxIntegerValue) ==
  LET threshold == maxIntegerValue \div 10
      value[i \in 0 .. Len(digits)] ==
        IF i = 0 THEN 0
        ELSE LET v == value[i - 1]
             IN IF v = -1 \/ (v >= threshold /\ (v > threshold \/ i # Len(digits)))
                THEN -1
                ELSE (v * 10 + digits[i]) % (2 ^ LargestBits)
  IN value[Len(digits)]

Accumulate(digits, maxIntegerValue) ==
  LET threshold == maxIntegerValue \div 10
      value[i \in 0 .. Len(digits)] ==
        IF i = 0 THEN 0
        ELSE LET v == value[i - 1]
                 d == digits[i]
             IN IF v = -1 \/ (v >= threshold /\ (\/ v > threshold
                                                 \/ i # Len(digits)
                                                 \/ d > maxIntegerValue % 10))
                THEN -1
                ELSE (v * 10 + d) % (2 ^ LargestBits)
  IN value[Len(digits)]

(* OurReader::decodeNumber.  A lone minus sign reads as zero.              *)
decodeNumber(l) ==
  LET limit == IF l.neg THEN maxLargestInt + 1 ELSE maxLargestUInt
      value == Accumulate(l.digits, limit)
  IN IF l.frac # <<>> \/ l.exp # "none" \/ value = -1 THEN decodeDouble(l)
     ELSE IF l.neg THEN Decoded(IntValue(ToSigned(-ToSigned(value))))
     ELSE Decoded(IF value <= maxInt THEN IntValue(value) ELSE UIntValue(value))

(* Value::asString of a decoded number, used for numeric keys: the text of *)
(* the numeral it would be written as.                                     *)
NumeralText(l) ==
  (IF l.neg THEN <<45>> ELSE <<>>) \o [i \in DOMAIN l.digits |-> 48 + l.digits[i]]
    \o (IF l.frac = <<>> THEN <<>> ELSE <<46, 48 + l.frac[1]>>)
    \o (IF l.exp = "huge" THEN <<101, 43, 57, 57, 57, 57>> ELSE <<>>)
NumberText(v) ==
  IF v.t = "real" THEN NumeralText(RealToString(v.r, FALSE))
  ELSE NumeralText(IntToString(v.n))

(***************************************************************************)
(* Strings                                                                 *)
(***************************************************************************)
Quote == 34
Backslash == 92
(* The escapes of one letter: byte written |-> letter after the backslash. *)
ShortEscape == [b \in {34, 92, 8, 12, 10, 13, 9} |->
                  CASE b = 34 -> 34 [] b = 92 -> 92 [] b = 8 -> 98
                    [] b = 12 -> 102 [] b = 10 -> 110 [] b = 13 -> 114
                    [] b = 9 -> 116]

HexDigit(n) == IF n < 10 THEN 48 + n ELSE 55 + n

(* A byte as valueToQuotedStringN writes it.                               *)
EscapedByte(b) ==
  CASE b \in DOMAIN ShortEscape -> <<Backslash, ShortEscape[b]>>
    [] b \in 0 .. 31 \ DOMAIN ShortEscape ->
         <<Backslash, 117, 48, 48, HexDigit(b \div 16), HexDigit(b % 16)>>
    [] OTHER -> <<b>>

valueToQuotedStringN(s) ==
  Quoted(FlattenSeq([i \in DOMAIN s |-> EscapedByte(s[i])]))

(* The C-string variant stops at the first NUL byte.                       *)
CString(s) == IF \E i \in DOMAIN s : s[i] = 0
              THEN SubSeq(s, 1, (CHOOSE i \in DOMAIN s :
                                   s[i] = 0 /\ \A j \in 1 .. i - 1 : s[j] # 0) - 1)
              ELSE s
valueToQuotedString(s) == valueToQuotedStringN(CString(s))

(* Where readString, started after the opening quote q, meets the closing  *)
(* one; past the lexeme's bytes when no unescaped q is among them.         *)
ClosingQuote(raw, q) ==
  LET from[i \in 1 .. Len(raw) + 2] ==
        IF i > Len(raw) \/ raw[i] = q THEN i
        ELSE from[i + (IF raw[i] = Backslash THEN 2 ELSE 1)]
  IN from[1]

HexValue(b) == CASE b \in 48 .. 57 -> b - 48
                 [] b \in 65 .. 70 -> b - 55
                 [] b \in 97 .. 102 -> b - 87
                 [] OTHER -> -1

(* decodeUnicodeEscapeSequence: the four digits from i on, or -1.          *)
CodeUnit(raw, i) ==
  IF i + 3 > Len(raw) \/ \E j \in i .. i + 3 : HexValue(raw[j]) = -1 THEN -1
  ELSE FoldLeft(LAMBDA acc, b : acc * 16 + HexValue(b), 0,
                SubSeq(raw, i, i + 3))

(* decodeUnicodeCodePoint from the digits at i on: the code point and the  *)
(* number of bytes it took.  The second half of a surrogate pair is only   *)
(* masked, not checked to be one.                                          *)
CodePoint(raw, i) ==
  LET unit == CodeUnit(raw, i)
      pair == CodeUnit(raw, i + 6)
      high == unit \in 55296 .. 56319
  IN CASE ~high -> [cp |-> unit, n |-> 4]
       [] high -> IF /\ i + 9 <= Len(raw)
                     /\ raw[i + 4] = Backslash /\ raw[i + 5] = 117
                     /\ pair # -1
                  THEN [cp |-> 65536 + (unit % 1024) * 1024 + (pair % 1024),
                        n |-> 10]
                  ELSE [cp |-> -1, n |-> 0]

codePointToUTF8(cp) ==
  LET Low(n) == 128 + ((cp \div (64 ^ n)) % 64)
  IN CASE cp <= 127 -> <<cp>>
       [] cp \in 128 .. 2047 -> <<192 + (cp \div 64), Low(0)>>
       [] cp \in 2048 .. 65535 -> <<224 + (cp \div 4096), Low(1), Low(0)>>
       [] cp > 65535 -> <<240 + (cp \div 262144), Low(2), Low(1), Low(0)>>

(* The byte a one-letter escape stands for; a slash may be escaped too.    *)
Unescaped(e) == IF e = 47 THEN <<47>>
                ELSE LET B == {b \in DOMAIN ShortEscape : ShortEscape[b] = e}
                     IN IF B = {} THEN <<>> ELSE <<CHOOSE b \in B : TRUE>>

(* OurReader::decodeString, from[i] being the rest from byte i on.  A bare *)
(* double quote, possible between single quotes, ends the string.          *)
decodeString(l) ==
  LET raw == l.raw
      done == [ok |-> TRUE, s |-> <<>>]
      failed == [ok |-> FALSE, s |-> <<>>]
      Before(bytes, rest) == [ok |-> rest.ok, s |-> bytes \o rest.s]
      from[i \in 1 .. Len(raw) + 1] ==
        LET point == CodePoint(raw, i + 2)
        IN CASE i > Len(raw) -> done
             [] i <= Len(raw) /\ raw[i] = Quote -> done
             [] i <= Len(raw) /\ raw[i] \notin {Quote, Backslash} ->
                  Before(<<raw[i]>>, from[i + 1])
             [] i = Len(raw) /\ raw[i] = Backslash -> failed
             [] i < Len(raw) /\ raw[i] = Backslash ->
                  IF raw[i + 1] = 117
                  THEN IF point.cp = -1 THEN failed
                       ELSE Before(codePointToUTF8(point.cp), from[i + 2 + point.n])
                  ELSE IF Unescaped(raw[i + 1]) = <<>> THEN failed
                       ELSE Before(Unescaped(raw[i + 1]), from[i + 2])
  IN from[1]
=============================================================================
