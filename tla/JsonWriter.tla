----------------------------- MODULE JsonWriter -----------------------------
(***************************************************************************)
(* The writers of http/jsoncpp/jsoncpp.cpp: FastWriter, StyledWriter       *)
(* (behind Value::toStyledString, which the HTTP server uses) and          *)
(* BuiltStyledStreamWriter (behind StreamWriterBuilder and operator<<).    *)
(* They yield lexemes: line breaks and indentation are left out, but not   *)
(* the decision between the one-line and the multi-line form of an array,  *)
(* because it is taken by writing the elements into childValues_ first,    *)
(* a member the nested arrays share.                                       *)
(*                                                                         *)
(* The options o of a writer: class, drop (dropNullPlaceholders), special  *)
(* (useSpecialFloats) and multiline (CommentStyle::All of the built one).  *)
(***************************************************************************)
EXTENDS JsonCodec

CONSTANT RightMargin     \* rightMargin_, 74 in the code

ScalarLexemes(v, o) ==
  CASE v.t = "null" -> IF o.drop THEN <<>> ELSE <<Word("null")>>
    [] v.t \in {"int", "uint"} -> <<IntToString(v.n)>>
    [] v.t = "real" -> <<RealToString(v.r, o.special)>>
    [] v.t = "string" -> <<valueToQuotedStringN(v.s)>>
    [] v.t = "bool" -> <<Word(IF v.b THEN "true" ELSE "false")>>

(* The name of a member: StyledWriter hands over a C string.               *)
NameLexeme(k, o) == IF o.class = "styled" THEN valueToQuotedString(k)
                    ELSE valueToQuotedStringN(k)

(* What an array shows at every index below its size.                      *)
DenseOf(v) == [i \in 1 .. Size(v) |-> Lookup(v, AtIndex(i - 1))]

(* The parts with commas between them.                                     *)
Commaed(parts) ==
  FlattenSeq([i \in DOMAIN parts |->
                IF i = 1 THEN parts[i] ELSE <<Punct(",")>> \o parts[i]])

(* FastWriter::writeValue.                                                 *)
RECURSIVE FastWrite(_, _)
FastWrite(v, o) ==
  CASE v.t = "array" ->
         <<Punct("[")>> \o Commaed([i \in DOMAIN DenseOf(v) |->
                                      FastWrite(DenseOf(v)[i], o)])
                        \o <<Punct("]")>>
    [] v.t = "object" ->
         LET names == MemberNames(v)
         IN <<Punct("{")>> \o Commaed([i \in DOMAIN names |->
                 <<NameLexeme(names[i], o), Punct(":")>>
                   \o FastWrite(v.members[names[i]], o)])
            \o <<Punct("}")>>
    [] OTHER -> ScalarLexemes(v, o)

(***************************************************************************)
(* The styled writers.  s holds document_, childValues_ and                *)
(* addChildValues_.                                                        *)
(***************************************************************************)
PushValue(s, part) ==
  IF s.adding THEN [s EXCEPT !.children = Append(@, part)]
  ELSE [s EXCEPT !.out = @ \o part]

Emit(s, part) == [s EXCEPT !.out = @ \o part]

(* The number of characters of a child value.                              *)
Width(l) == CASE l.c = "num" -> (IF l.neg THEN 1 ELSE 0) + Len(l.digits)
                                + (IF l.frac = <<>> THEN 0 ELSE 2)
                                + (IF l.exp = "huge" THEN 6 ELSE 0)
              [] l.c = "str" -> Len(l.raw) + 2
              [] l.c \in {"true", "null"} -> 4
              [] l.c = "false" -> 5
              [] l.c = "NaN" -> 3
              [] l.c = "inf" -> 8
              [] l.c = "-inf" -> 9
              [] OTHER -> 1
WidthOf(parts) == FoldLeft(LAMBDA acc, l : acc + Width(l), 0, FlattenSeq(parts))

RECURSIVE WriteValue(_, _, _), WriteElements(_, _, _, _), WriteMembers(_, _, _, _)

(* Mutant: addChildValues_ stays set after the elements are collected.     *)
IsMultilineStuck(v, o, s) ==
  LET nested == \E i \in DOMAIN DenseOf(v) : /\ IsContainer(DenseOf(v)[i])
                                             /\ Size(DenseOf(v)[i]) > 0
      cleared == [s EXCEPT !.children = <<>>]
      filled == FoldLeft(LAMBDA acc, x : WriteValue(x, o, acc),
                         [cleared EXCEPT !.adding = TRUE], DenseOf(v))
      width == 4 + (Size(v) - 1) * 2 + WidthOf(filled.children)
  IN IF nested \/ Size(v) * 3 >= RightMargin THEN [multi |-> TRUE, s |-> cleared]
     ELSE [multi |-> width >= RightMargin, s |-> filled]

(* isMultineArray: decides the form; if no element is a container with     *)
(* something in it, childValues_ holds the elements afterwards.            *)
IsMultiline(v, o, s) ==
  LET nested == \E i \in DOMAIN DenseOf(v) : /\ IsContainer(DenseOf(v)[i])
                                             /\ Size(DenseOf(v)[i]) > 0
      long == Size(v) * 3 >= RightMargin
      cleared == [s EXCEPT !.children = <<>>]
      filled == [FoldLeft(LAMBDA acc, x : WriteValue(x, o, acc),
                          [cleared EXCEPT !.adding = TRUE], DenseOf(v))
                   EXCEPT !.adding = FALSE]
      width == 4 + (Size(v) - 1) * 2 + WidthOf(filled.children)
  IN IF nested \/ long THEN [multi |-> TRUE, s |-> cleared]
     ELSE [multi |-> width >= RightMargin, s |-> filled]

(* writeArrayValue.  The built writer skips the test when it keeps all     *)
(* comments.                                                               *)
WriteArray(v, o, s) ==
  LET test == IF o.class = "built" /\ o.multiline
              THEN [multi |-> TRUE, s |-> s] ELSE IsMultiline(v, o, s)
      children == test.s.children
  IN CASE Size(v) = 0 -> PushValue(s, <<Punct("["), Punct("]")>>)
       [] Size(v) > 0 /\ test.multi /\ children = <<>> ->
            Emit(WriteElements(DenseOf(v), o, 1, Emit(test.s, <<Punct("[")>>)),
                 <<Punct("]")>>)
       [] OTHER ->
            Emit(test.s, <<Punct("[")>> \o Commaed(SubSeq(children, 1, Size(v)))
                         \o <<Punct("]")>>)

WriteElements(xs, o, i, s) ==
  LET written == WriteValue(xs[i], o, s)
  IN IF i = Len(xs) THEN written
     ELSE WriteElements(xs, o, i + 1, Emit(written, <<Punct(",")>>))

WriteMembers(v, o, i, s) ==
  LET names == MemberNames(v)
      named == Emit(s, <<NameLexeme(names[i], o), Punct(":")>>)
      written == WriteValue(v.members[names[i]], o, named)
  IN IF i = Len(names) THEN written
     ELSE WriteMembers(v, o, i + 1, Emit(written, <<Punct(",")>>))

(* StyledWriter::writeValue.                                               *)
WriteValue(v, o, s) ==
  CASE v.t = "array" -> WriteArray(v, o, s)
    [] v.t = "object" ->
         IF MemberNames(v) = <<>> THEN PushValue(s, <<Punct("{"), Punct("}")>>)
         ELSE Emit(WriteMembers(v, o, 1, Emit(s, <<Punct("{")>>)),
                   <<Punct("}")>>)
    [] OTHER -> PushValue(s, ScalarLexemes(v, o))

(* StyledWriter::write and BuiltStyledStreamWriter::write.                 *)
StyledWrite(v, o) ==
  WriteValue(v, o, [out |-> <<>>, children |-> <<>>, adding |-> FALSE]).out

Write(v, o) == IF o.class = "fast" THEN FastWrite(v, o) ELSE StyledWrite(v, o)

(* StreamWriterBuilder::newStreamWriter and its defaults.                  *)
BuiltWriter(commentStyle, dropNullPlaceholders, useSpecialFloats) ==
  [class |-> "built", drop |-> dropNullPlaceholders,
   special |-> useSpecialFloats, multiline |-> commentStyle = "All"]
DefaultStreamWriter == BuiltWriter("All", FALSE, FALSE)

FastWriter(dropNullPlaceholders) ==
  [class |-> "fast", drop |-> dropNullPlaceholders, special |-> FALSE,
   multiline |-> FALSE]
StyledWriter == [class |-> "styled", drop |-> FALSE, special |-> FALSE,
                 multiline |-> FALSE]
=============================================================================
