------------------------------ MODULE JsonTree ------------------------------
(***************************************************************************)
(* The operations of Json::Value and Json::Path that go through a whole    *)
(* tree of values: comparison, and access along a path.  They recurse over *)
(* the tree, which JsonValue, about one node of it, does not.              *)
(***************************************************************************)
EXTENDS JsonValue

(***************************************************************************)
(* Order and equality                                                      *)
(***************************************************************************)
RealLess(a, b) ==
  \/ a.k = "-inf" /\ b.k \in {"finite", "inf"}
  \/ a.k = "finite" /\ b.k = "inf"
  \/ a.k = "finite" /\ b.k = "finite" /\ a.h < b.h

RECURSIVE Less(_, _)
(* Mutant: the values are compared, their keys are not.                    *)
MapLessValues(a, b) ==
  LET ka == SortedKeys(a)
      kb == SortedKeys(b)
  IN \/ Len(ka) < Len(kb)
     \/ /\ Len(ka) = Len(kb)
        /\ \E i \in DOMAIN ka :
             /\ Less(Map(a)[ka[i]], Map(b)[kb[i]])
             /\ \A j \in 1 .. i - 1 : ~Less(Map(b)[kb[j]], Map(a)[ka[j]])

(* Two maps are ordered by their number of entries, then by their first    *)
(* differing (key, value) pair.                                            *)
MapLess(a, b) ==
  LET ka == SortedKeys(a)
      kb == SortedKeys(b)
      n == Len(ka)
      KeyLess(x, y) == IF a.t = "array" THEN x < y ELSE BytesLess(x, y)
      PairLess(x, i, y, j) ==
        \/ KeyLess(i, j)
        \/ i = j /\ Less(Map(x)[i], Map(y)[j])
  IN \/ n < Len(kb)
     \/ /\ n = Len(kb)
        /\ \E i \in 1 .. n :
             /\ PairLess(a, ka[i], b, kb[i])
             /\ \A j \in 1 .. i - 1 : /\ ~PairLess(a, ka[j], b, kb[j])
                                      /\ ~PairLess(b, kb[j], a, ka[j])

TypeIndex(v) == CHOOSE i \in 1 .. Len(ValueTypes) : ValueTypes[i] = v.t

(* Value::operator<: the type first, whatever the numbers are.             *)
Less(a, b) ==
  IF a.t # b.t THEN TypeIndex(a) < TypeIndex(b)
  ELSE CASE a.t = "null" -> FALSE
         [] a.t \in {"int", "uint"} -> a.n < b.n
         [] a.t = "real" -> RealLess(a.r, b.r)
         [] a.t = "bool" -> ~a.b /\ b.b
         [] a.t = "string" -> BytesLess(a.s, b.s)
         [] IsContainer(a) -> MapLess(a, b)

RECURSIVE HasNaN(_)
HasNaN(v) ==
  \/ v.t = "real" /\ v.r.k = "nan"
  \/ IsContainer(v) /\ \E k \in DOMAIN Map(v) : HasNaN(Map(v)[k])

(* Value::operator==: the same type and payload; a NaN equals nothing, and *)
(* a gap in an array differs from an explicit null in its place.           *)
Equal(a, b) == a = b /\ ~HasNaN(a)

(***************************************************************************)
(* Path                                                                    *)
(***************************************************************************)
RECURSIVE Resolve(_, _), Reachable(_, _), Put(_, _, _), CanMake(_, _)

(* Path::resolve(root, default) found something.                           *)
Reachable(v, path) ==
  path # <<>> =>
    LET a == Head(path)
    IN /\ IF a.kind = "index" THEN v.t = "array" /\ a.index < Size(v)
          ELSE v.t = "object" /\ Found(v, a)
       /\ Reachable(Lookup(v, a), Tail(path))

Resolve(v, path) == IF ~Reachable(v, path) THEN Null
                    ELSE IF path = <<>> THEN v
                    ELSE Resolve(Lookup(v, Head(path)), Tail(path))

(* Path::make: no operator[] on the way asserts.                           *)
CanMake(v, path) ==
  path # <<>> => /\ Accepts(v, Head(path))
                 /\ CanMake(Lookup(v, Head(path)), Tail(path))

(* The tree after make(root) = x.                                          *)
Put(v, path, x) ==
  IF path = <<>> THEN x
  ELSE Store(v, Head(path), Put(Lookup(v, Head(path)), Tail(path), x))
=============================================================================
