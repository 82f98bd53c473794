---------------------------- MODULE JsonGrammar ----------------------------
(***************************************************************************)
(* The language JsonReader is meant to accept, defined on whole documents  *)
(* by recursion over their brackets and commas, without a stack, a current *)
(* position or a limit test.                                               *)
(***************************************************************************)
EXTENDS JsonReader

(* The number a numeral stands for: the exact integer when a LargestInt    *)
(* (negative) or a LargestUInt holds it, a double otherwise.               *)
Number(l) ==
  LET n == DecimalValue(l.digits)
      exact == /\ l.frac = <<>> /\ l.exp = "none"
               /\ n <= IF l.neg THEN -minLargestInt ELSE maxLargestUInt
  IN IF ~exact THEN {v.v : v \in {x \in {decodeDouble(l)} :
                       x.ok /\ ~(features.deprecated /\ l.exp = "huge")}}
     ELSE {CASE l.neg -> IntValue(-n)
             [] ~l.neg /\ n <= maxInt -> IntValue(n)
             [] ~l.neg /\ n > maxInt -> UIntValue(n)}

Leaf(l) ==
  LET t == TokenOf(l)
  IN CASE t = "num" -> Number(l)
       [] t = "str" -> IF decodeString(l).ok
                       THEN {StringValue(decodeString(l).s)} ELSE {}
       [] t \in {"true", "false", "null", "NaN", "inf", "-inf"} -> {Scalar(t)}
       [] OTHER -> {}

Commas(d) == {i \in 1 .. Len(d) : d[i].c = ","}
Before(d, i) == SubSeq(d, 1, i - 1)
After(d, i) == SubSeq(d, i + 1, Len(d))
Inner(d) == SubSeq(d, 2, Len(d) - 1)

MembersOf(pairs) ==
  [k \in {pairs[i][1] : i \in DOMAIN pairs} |->
     pairs[Max({i \in DOMAIN pairs : pairs[i][1] = k})][2]]

Distinct(pairs) == \A i, j \in DOMAIN pairs :
                     i # j => pairs[i][1] # pairs[j][1]

RECURSIVE Denoted(_), Elements(_), Pairs(_)
(* The values a sequence of lexemes stands for (at most one).              *)
Denoted(d) ==
  LET n == Len(d)
      Within(a, b) == n >= 2 /\ d[1].c = a /\ d[n].c = b
  IN CASE n = 0 -> IF features.allowDroppedNullPlaceholders THEN {Null} ELSE {}
       [] n = 1 -> Leaf(d[1])
       [] Within("[", "]") -> {ArrayValue([i \in 0 .. Len(e) - 1 |-> e[i + 1]]) :
                                 e \in IF n = 2 THEN {<<>>} ELSE Elements(Inner(d))}
       [] Within("{", "}") -> {ObjectValue(MembersOf(ps)) :
                                 ps \in IF n = 2 THEN {<<>>}
                                        ELSE {x \in Pairs(Inner(d)) :
                                                features.rejectDupKeys => Distinct(x)}}
       [] OTHER -> {}

Elements(d) ==
  {<<v>> : v \in Denoted(d)} \cup
  UNION {{<<v>> \o rest : v \in Denoted(Before(d, i)), rest \in Elements(After(d, i))} :
           i \in Commas(d)}

(* A comma may end an object whose last name is empty: the reader takes    *)
(* the empty name for that of an object without members.                   *)
Pairs(d) ==
  IF Len(d) < 2 \/ ~IsName(TokenOf(d[1])) THEN {}
  ELSE IF ~NameOf(d[1]).ok \/ d[2].c # ":" THEN {}
  ELSE LET k == NameOf(d[1]).s
           From(i) == SubSeq(d, 3, i)
       IN {<<<<k, v>>>> : v \in Denoted(From(Len(d)))} \cup
          UNION {{<<<<k, v>>>> \o rest : v \in Denoted(From(i - 1)),
                    rest \in Pairs(After(d, i)) \cup
                             (IF i = Len(d) /\ k = <<>> THEN {<<>>} ELSE {})} :
                   i \in Commas(d) \ {1, 2}}

(* What follows the value may be rejected, and so may a scalar root.       *)
TrailerAllowed(n) ==
  LET t == IF n < Len(doc) THEN TokenOf(doc[n + 1]) ELSE "end"
  IN ~(features.failIfExtra /\ t # "end" /\ (features.strictRoot \/ t # "error"))

Readings ==
  {v \in UNION {Denoted(SubSeq(doc, 1, n)) :
                  n \in {m \in 0 .. Len(doc) :
                           /\ TrailerAllowed(m)
                           /\ m = 0 => doc # <<>> /\ doc[1].c \in Separators}} :
     features.strictRoot => IsContainer(v)}

(***************************************************************************)
(* Properties                                                              *)
(***************************************************************************)
CommentFree == \A i \in DOMAIN doc : doc[i].c # "cmt"

(* On documents without comments the reader accepts the grammar, and       *)
(* nothing else, and the root is the value the grammar gives it.           *)
AcceptsItsGrammar ==
  Ended /\ CommentFree => Readings = IF status = "ok" THEN {root} ELSE {}
=============================================================================
