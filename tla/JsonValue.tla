----------------------------- MODULE JsonValue -----------------------------
(***************************************************************************)
(* Json::Value, the tree the HTTP server answers its registry with         *)
(* (http/jsoncpp/jsoncpp.cpp, json_value.cpp part).  A value is a record   *)
(* whose field t is its ValueType.  Arrays and objects are both std::map:  *)
(* an array maps the indices that were ever touched, so it may have gaps,  *)
(* and its size is one more than its highest index.                        *)
(*                                                                         *)
(* Strings are sequences of bytes.  A finite double is a number of halves: *)
(* that is enough to tell integral from fractional values and to sit on    *)
(* either side of every integer limit; rounding of large integers to       *)
(* doubles is kept only where a limit itself is rounded (InRangeLargest).  *)
(* An operation that throws (JSON_ASSERT_MESSAGE) yields ok = FALSE.       *)
(* Comments and source offsets are not part of a value here.               *)
(***************************************************************************)
EXTENDS Integers, FiniteSets, SequencesExt

CONSTANTS IntBits,       \* width of Int and UInt (32 in the code)
          LargestBits    \* width of LargestInt and LargestUInt (64)

ASSUME WidthAssumption == /\ IntBits \in Nat /\ LargestBits \in Nat
                          /\ 1 < IntBits /\ IntBits < LargestBits

\* Follows from the widths, by an induction the provers do not do.
ASSUME PowerAssumption == \A w \in {IntBits, LargestBits} :
                            1 < 2 ^ (w - 1) /\ 2 ^ (w - 1) < 2 ^ w

minInt == -(2 ^ (IntBits - 1))
maxInt == 2 ^ (IntBits - 1) - 1
maxUInt == 2 ^ IntBits - 1
minLargestInt == -(2 ^ (LargestBits - 1))
maxLargestInt == 2 ^ (LargestBits - 1) - 1
maxLargestUInt == 2 ^ LargestBits - 1

Halves(h) == [k |-> "finite", h |-> h]
Special(k) == [k |-> k, h |-> 0]        \* "nan", "inf" or "-inf"

Null == [t |-> "null"]
IntValue(n) == [t |-> "int", n |-> n]
UIntValue(n) == [t |-> "uint", n |-> n]
RealValue(r) == [t |-> "real", r |-> r]
BoolValue(b) == [t |-> "bool", b |-> b]
StringValue(s) == [t |-> "string", s |-> s]
ArrayValue(m) == [t |-> "array", elems |-> m]
ObjectValue(m) == [t |-> "object", members |-> m]
ValueTypes == <<"null", "int", "uint", "real", "string", "bool", "array",
                "object">>

(* Value::Value(ValueType).                                                *)
OfType(t) == CASE t = "null" -> Null
               [] t = "int" -> IntValue(0)
               [] t = "uint" -> UIntValue(0)
               [] t = "real" -> RealValue(Halves(0))
               [] t = "string" -> StringValue(<<>>)
               [] t = "bool" -> BoolValue(FALSE)
               [] t = "array" -> ArrayValue(<<>>)
               [] t = "object" -> ObjectValue(<<>>)

IsContainer(v) == v.t \in {"array", "object"}
IsNumeric(v) == v.t \in {"int", "uint", "real"}

(* The std::map of an array or an object.                                  *)
Map(v) == IF v.t = "array" THEN v.elems ELSE v.members
WithMap(v, m) == IF v.t = "array" THEN ArrayValue(m) ELSE ObjectValue(m)

(***************************************************************************)
(* Keys                                                                    *)
(***************************************************************************)
(* memcmp over the common length, then the length: strings and keys.       *)
BytesLess(a, b) ==
  \/ \E i \in 1 .. Len(a) : /\ i <= Len(b) /\ a[i] < b[i]
                            /\ \A j \in 1 .. i - 1 : a[j] = b[j]
  \/ Len(a) < Len(b) /\ \A j \in 1 .. Len(a) : a[j] = b[j]

(* The keys of a map in the order of CZString::operator<.                  *)
SortedKeys(v) ==
  IF v.t = "array"
  THEN SetToSortSeq(DOMAIN v.elems, <)
  ELSE SetToSortSeq(DOMAIN v.members, BytesLess)

(***************************************************************************)
(* Ranges and conversions                                                  *)
(***************************************************************************)
IsIntegral(r) == r.k = "finite" /\ r.h % 2 = 0

InRange(r, lo, hi) == r.k = "finite" /\ 2 * lo <= r.h /\ r.h <= 2 * hi

(* The largest limits are not doubles: InRange(d, min, max) compares with  *)
(* the limit rounded up to the next power of two.                          *)
InRangeLargest(r, lo, hi) == InRange(r, lo, hi + 1)

Truncated(r) == IF r.h >= 0 THEN r.h \div 2 ELSE -((-r.h) \div 2)

isInt(v) == \/ v.t \in {"int", "uint"} /\ v.n \in minInt .. maxInt
            \/ v.t = "real" /\ InRange(v.r, minInt, maxInt) /\ IsIntegral(v.r)

isUInt(v) == \/ v.t \in {"int", "uint"} /\ v.n \in 0 .. maxUInt
             \/ v.t = "real" /\ InRange(v.r, 0, maxUInt) /\ IsIntegral(v.r)

isInt64(v) == \/ v.t = "int"
              \/ v.t = "uint" /\ v.n <= maxLargestInt
              \/ /\ v.t = "real" /\ IsIntegral(v.r)
                 /\ 2 * minLargestInt <= v.r.h
                 /\ v.r.h < 2 * (maxLargestInt + 1)

isUInt64(v) == \/ v.t = "uint"
               \/ v.t = "int" /\ v.n >= 0
               \/ /\ v.t = "real" /\ IsIntegral(v.r)
                  /\ 0 <= v.r.h /\ v.r.h < 2 * (maxLargestUInt + 1)

Throws == [ok |-> FALSE, n |-> 0]
Returns(n) == [ok |-> TRUE, n |-> n]
Converted(holds, n) == IF holds THEN Returns(n) ELSE Throws
BoolToInt(b) == IF b THEN 1 ELSE 0

(* Mutant: asInt without its assertion for unsigned values.                *)
asIntUnchecked(v) ==
  CASE v.t = "int" -> Converted(isInt(v), v.n)
    [] v.t = "uint" -> Returns(v.n)
    [] v.t = "real" -> Converted(InRange(v.r, minInt, maxInt), Truncated(v.r))
    [] v.t = "null" -> Returns(0)
    [] v.t = "bool" -> Returns(BoolToInt(v.b))
    [] OTHER -> Throws

(* Value::asInt, asUInt, asInt64 and asUInt64.  A double is truncated.     *)
asInt(v) ==
  CASE v.t \in {"int", "uint"} -> Converted(isInt(v), v.n)
    [] v.t = "real" -> Converted(InRange(v.r, minInt, maxInt), Truncated(v.r))
    [] v.t = "null" -> Returns(0)
    [] v.t = "bool" -> Returns(BoolToInt(v.b))
    [] OTHER -> Throws

asUInt(v) ==
  CASE v.t \in {"int", "uint"} -> Converted(isUInt(v), v.n)
    [] v.t = "real" -> Converted(InRange(v.r, 0, maxUInt), Truncated(v.r))
    [] v.t = "null" -> Returns(0)
    [] v.t = "bool" -> Returns(BoolToInt(v.b))
    [] OTHER -> Throws

asInt64(v) ==
  CASE v.t = "int" -> Returns(v.n)
    [] v.t = "uint" -> Converted(isInt64(v), v.n)
    [] v.t = "real" -> Converted(InRangeLargest(v.r, minLargestInt,
                                                maxLargestInt),
                                 Truncated(v.r))
    [] v.t = "null" -> Returns(0)
    [] v.t = "bool" -> Returns(BoolToInt(v.b))
    [] OTHER -> Throws

asUInt64(v) ==
  CASE v.t = "uint" -> Returns(v.n)
    [] v.t = "int" -> Converted(isUInt64(v), v.n)
    [] v.t = "real" -> Converted(InRangeLargest(v.r, 0, maxLargestUInt),
                                 Truncated(v.r))
    [] v.t = "null" -> Returns(0)
    [] v.t = "bool" -> Returns(BoolToInt(v.b))
    [] OTHER -> Throws

(* Value::asDouble and asBool: whether they return, and whether the result *)
(* is zero, respectively false (all the callers in Value look at).         *)
asDouble(v) ==
  CASE v.t \in {"int", "uint"} -> [ok |-> TRUE, zero |-> v.n = 0]
    [] v.t = "real" -> [ok |-> TRUE, zero |-> v.r = Halves(0)]
    [] v.t = "null" -> [ok |-> TRUE, zero |-> TRUE]
    [] v.t = "bool" -> [ok |-> TRUE, zero |-> ~v.b]
    [] OTHER -> [ok |-> FALSE, zero |-> FALSE]

asBool(v) ==
  CASE v.t = "bool" -> [ok |-> TRUE, b |-> v.b]
    [] v.t = "null" -> [ok |-> TRUE, b |-> FALSE]
    [] v.t \in {"int", "uint"} -> [ok |-> TRUE, b |-> v.n # 0]
    [] v.t = "real" -> [ok |-> TRUE, b |-> v.r # Halves(0)]
    [] OTHER -> [ok |-> FALSE, b |-> FALSE]

isConvertibleTo(v, other) ==
  LET scalar == IsNumeric(v) \/ v.t = "bool" \/ v.t = "null"
  IN CASE other = "null" -> \/ IsNumeric(v) /\ asDouble(v).zero
                            \/ v.t = "bool" /\ ~v.b
                            \/ v.t = "string" /\ v.s = <<>>
                            \/ IsContainer(v) /\ DOMAIN Map(v) = {}
                            \/ v.t = "null"
       [] other = "int" -> \/ isInt(v) \/ v.t \in {"bool", "null"}
                           \/ v.t = "real" /\ InRange(v.r, minInt, maxInt)
       [] other = "uint" -> \/ isUInt(v) \/ v.t \in {"bool", "null"}
                            \/ v.t = "real" /\ InRange(v.r, 0, maxUInt)
       [] other \in {"real", "bool"} -> scalar
       [] other = "string" -> scalar \/ v.t = "string"
       [] other \in {"array", "object"} -> v.t \in {other, "null"}

(* isConvertibleTo tells which conversions return, and those return the    *)
(* number itself, truncated, within the range of the type.  Excluded is    *)
(* the double just above the largest integers, which the rounded limit of  *)
(* InRange lets pass.                                                      *)
ConversionsSound(v) ==
  /\ isConvertibleTo(v, "int") = asInt(v).ok
  /\ isConvertibleTo(v, "uint") = asUInt(v).ok
  /\ isConvertibleTo(v, "real") = asDouble(v).ok
  /\ isConvertibleTo(v, "bool") = asBool(v).ok
  /\ asInt(v).ok => asInt(v).n \in minInt .. maxInt
  /\ asUInt(v).ok => asUInt(v).n \in 0 .. maxUInt
  /\ isInt64(v) => asInt64(v).ok /\ asInt64(v).n \in minLargestInt .. maxLargestInt
  /\ isUInt64(v) => asUInt64(v).ok /\ asUInt64(v).n \in 0 .. maxLargestUInt
  /\ v.t = "real" /\ isInt(v) => 2 * asInt(v).n = v.r.h

(***************************************************************************)
(* Access                                                                  *)
(***************************************************************************)
(* One step of a path: the argument of operator[], an index or a key.      *)
AtIndex(i) == [kind |-> "index", index |-> i]
AtKey(k) == [kind |-> "key", key |-> k]
Slot(a) == IF a.kind = "index" THEN a.index ELSE a.key

(* The precondition both operator[] and find assert.                       *)
Accepts(v, a) ==
  v.t \in {"null", IF a.kind = "index" THEN "array" ELSE "object"}

(* Value::size.                                                            *)
Size(v) == CASE v.t = "array" -> IF v.elems = <<>> THEN 0
                                 ELSE Max(DOMAIN v.elems) + 1
             [] v.t = "object" -> Cardinality(DOMAIN v.members)
             [] OTHER -> 0

Found(v, a) == v.t # "null" /\ Slot(a) \in DOMAIN Map(v)

(* operator[] const: a missing entry reads as the null singleton.          *)
Lookup(v, a) == IF Found(v, a) THEN Map(v)[Slot(a)] ELSE Null

(* operator[] non-const: null becomes a container and a missing entry is   *)
(* inserted as null; assigning through it stores x.                        *)
Store(v, a, x) ==
  LET base == IF v.t # "null" THEN v
              ELSE OfType(IF a.kind = "index" THEN "array" ELSE "object")
      m == Map(base)
  IN WithMap(base, [k \in DOMAIN m \cup {Slot(a)} |->
                      IF k = Slot(a) THEN x ELSE m[k]])

Touch(v, a) == IF Found(v, a) THEN v ELSE Store(v, a, Null)

Append1(v, x) == Store(v, AtIndex(Size(v)), x)

(* Value::clear: the type stays.                                           *)
ClearOf(v) == IF IsContainer(v) THEN WithMap(v, <<>>) ELSE v

(* Value::resize.  Growing touches only the last index; shrinking erases,  *)
(* and then asserts that the size is the one asked for.                    *)
Resize(v, newSize) ==
  LET arr == IF v.t = "null" THEN ArrayValue(<<>>) ELSE v
      kept == {i \in DOMAIN arr.elems : i < newSize}
      cut == ArrayValue([i \in kept |-> arr.elems[i]])
  IN CASE newSize = 0 -> [ok |-> TRUE, v |-> ClearOf(arr)]
       [] newSize > Size(arr) ->
            [ok |-> TRUE, v |-> Touch(arr, AtIndex(newSize - 1))]
       [] OTHER -> [ok |-> Size(cut) = newSize, v |-> cut]

RemoveMember(v, k) ==
  WithMap(v, [x \in DOMAIN v.members \ {k} |-> v.members[x]])

(* Mutant: a gap above the index leaves the entry below it as it was.      *)
RemoveIndexGaps(v, i) ==
  LET last == Size(v) - 1
  IN ArrayValue([j \in {x \in DOMAIN v.elems : x < i} \cup (i .. last - 1) |->
                   IF j >= i /\ j + 1 \in DOMAIN v.elems THEN v.elems[j + 1]
                   ELSE Lookup(v, AtIndex(j))])

(* Value::removeIndex: the entries above the index move down one by one,   *)
(* a gap being filled with null on the way, and the last one is erased.    *)
RemoveIndex(v, i) ==
  LET last == Size(v) - 1
  IN ArrayValue([j \in {x \in DOMAIN v.elems : x < i} \cup (i .. last - 1) |->
                   IF j < i THEN v.elems[j] ELSE Lookup(v, AtIndex(j + 1))])

(* Value::getMemberNames.                                                  *)
MemberNames(v) == IF v.t = "null" THEN <<>> ELSE SortedKeys(v)
=============================================================================
