----------------------------- MODULE JsonReader -----------------------------
(***************************************************************************)
(* Json::OurReader, the recursive-descent parser behind CharReaderBuilder  *)
(* and operator>>, and Json::Reader, its deprecated predecessor with fewer *)
(* features and the same text but for two places (NumberOf, NameThrows),   *)
(* both in http/jsoncpp/jsoncpp.cpp.  A step reads one token; the call     *)
(* stack is `nodes`, one frame per pending readValue():                    *)
(*   arg    the slot of the parent the value goes to                       *)
(*   val    the value read so far                                          *)
(*   st     what the frame reads next: "value" (readValue), "first" and    *)
(*          "separator" (readArray), "name", "colon", "comma" and          *)
(*          "afterComment" (readObject), "recover" (recoverFromError),     *)
(*          "trailer" (parse, after the root)                              *)
(*   name   the last member name of an object                              *)
(*   start, limit   the value's offsets                                    *)
(* `ret` is the result a finished readValue() hands to its caller.         *)
(*                                                                         *)
(* The document is supplied lexeme by lexeme while it is read, so that all *)
(* documents are explored; positions count lexemes.  A reader may be used  *)
(* for any number of documents.  The text of error messages, white space   *)
(* and the attachment of comments to values are left out.                  *)
(***************************************************************************)
EXTENDS JsonCodec

CONSTANTS Settings,      \* the feature records a reader may be built with
          FirstLexemes,  \* what a document may start with
          Lexemes,       \* what it may go on with
          MaxDoc,        \* bound: lexemes in a supplied document
          MaxAfterError, \* bound: lexemes supplied beyond the first error
          MaxPushed      \* bound: errors added with pushError

VARIABLES features, doc, closed, cur, nodes, ret, errors, spans, root, status

ASSUME SettingsAssumption == \A f \in Settings : f.stackLimit \in Nat

readerVars == <<features, doc, closed, cur, nodes, ret, errors, spans, root,
                status>>

(* CharReaderBuilder::strictMode and setDefaults.                          *)
StrictMode ==
  [allowComments |-> FALSE, strictRoot |-> TRUE,
   allowDroppedNullPlaceholders |-> FALSE, allowNumericKeys |-> FALSE,
   allowSingleQuotes |-> FALSE, failIfExtra |-> TRUE, rejectDupKeys |-> TRUE,
   allowSpecialFloats |-> FALSE, stackLimit |-> 1000, deprecated |-> FALSE]

SetDefaults ==
  [allowComments |-> TRUE, strictRoot |-> FALSE,
   allowDroppedNullPlaceholders |-> FALSE, allowNumericKeys |-> FALSE,
   allowSingleQuotes |-> FALSE, failIfExtra |-> FALSE, rejectDupKeys |-> FALSE,
   allowSpecialFloats |-> FALSE, stackLimit |-> 1000, deprecated |-> FALSE]

(* Features::all and strictMode: what Json::Reader does not know is off.   *)
FeaturesAll == [SetDefaults EXCEPT !.deprecated = TRUE]
FeaturesStrict == [FeaturesAll EXCEPT !.allowComments = FALSE,
                                      !.strictRoot = TRUE]

(***************************************************************************)
(* Tokens                                                                  *)
(***************************************************************************)
Delimited(raw, q) == ClosingQuote(raw, q) = Len(raw) + 1

(* readToken: the type of a lexeme's token.  A single quote without        *)
(* allowSingleQuotes falls into the comment case, where it is an error.    *)
TokenOf(l) ==
  CASE l.c = "str" -> IF Delimited(l.raw, Quote) THEN "str" ELSE "error"
    [] l.c = "sq" -> IF features.allowSingleQuotes /\ Delimited(l.raw, 39)
                     THEN "str" ELSE "error"
    [] l.c \in {"NaN", "inf", "-inf"} ->
         IF features.allowSpecialFloats THEN l.c ELSE "error"
    [] OTHER -> l.c

(* decodeNumber of either reader: the stream Json::Reader takes a double   *)
(* from refuses one that is out of range.                                  *)
NumberOf(l) == IF features.deprecated /\ l.exp = "huge" THEN NotDecoded
               ELSE decodeNumber(l)

AtEnd == cur = Len(doc)
CanRead == ~AtEnd \/ closed
Token == IF AtEnd THEN "end" ELSE TokenOf(doc[cur + 1])
Lexeme == doc[cur + 1]
AfterToken == IF AtEnd THEN cur ELSE cur + 1

(***************************************************************************)
(* Frames                                                                  *)
(***************************************************************************)
Top == nodes[Len(nodes)]
Path(stack) == [i \in 1 .. Len(stack) - 1 |-> stack[i + 1].arg]
Replaced(f) == [nodes EXCEPT ![Len(nodes)] = f]

SpanOf(p) == IF p \in DOMAIN spans THEN spans[p] ELSE <<0, 0>>

(* nodes_.push(&currentValue()[arg]) from the frame f, which then waits    *)
(* in state st: an existing member keeps its value and offsets.            *)
Pushed(f, arg, st) ==
  LET p == Append(Path(nodes), arg)
  IN Append(Replaced([f EXCEPT !.val = Touch(f.val, arg), !.st = st]),
            [arg |-> arg, val |-> Lookup(f.val, arg), st |-> "value",
             name |-> <<>>, start |-> SpanOf(p)[1], limit |-> SpanOf(p)[2]])

RootFrame == [arg |-> AtIndex(0), val |-> Null, st |-> "value", name |-> <<>>,
              start |-> 0, limit |-> 0]

(* addError; by tells the errors of the parse from those of pushError.     *)
ErrorAt(s, l) == [start |-> s, limit |-> l, by |-> "parse"]

TokenError == Append(errors, ErrorAt(cur, AfterToken))

Reading(st) == /\ status = "reading" /\ ret = "none" /\ Top.st = st
               /\ CanRead

Init ==
  /\ features \in Settings
  /\ doc = <<>> /\ closed = TRUE /\ cur = 0
  /\ nodes = <<>> /\ ret = "none" /\ errors = <<>> /\ spans = <<>>
  /\ root = Null /\ status = "idle"

(* parse(): everything an earlier parse left behind is cleared.            *)
Parse(d, c) ==
  /\ status # "reading"
  /\ doc' = d /\ closed' = c /\ cur' = 0
  /\ nodes' = <<RootFrame>>
  /\ ret' = "none" /\ errors' = <<>> /\ spans' = <<>>
  /\ root' = Null /\ status' = "reading"
  /\ UNCHANGED features

(* The rest of the document, unknown until it is read.                     *)
Undecided == /\ status = "reading" /\ ~closed /\ AtEnd
             /\ ret = "none" \/ Top.st = "trailer"

Supply ==
  /\ Undecided
  /\ Len(doc) < MaxDoc
  /\ errors # <<>> => Len(doc) < errors[1].limit + MaxAfterError
  /\ \E l \in IF doc = <<>> THEN FirstLexemes ELSE Lexemes :
       /\ features.deprecated => l.c # "-inf"     \* two tokens for Json::Reader
       /\ doc' = Append(doc, l)
  /\ UNCHANGED <<features, closed, cur, nodes, ret, errors, spans, root, status>>

Finish ==
  /\ Undecided
  /\ closed' = TRUE
  /\ UNCHANGED <<features, doc, cur, nodes, ret, errors, spans, root, status>>

(***************************************************************************)
(* readValue                                                               *)
(***************************************************************************)
(* The value of the current frame is complete: val, from start to limit.   *)
Complete(val, start, limit) ==
  /\ nodes' = Replaced([Top EXCEPT !.val = val, !.start = start,
                                   !.limit = limit])
  /\ ret' = "ok"
  /\ UNCHANGED errors

Scalar(t) == CASE t = "true" -> BoolValue(TRUE)
               [] t = "false" -> BoolValue(FALSE)
               [] t = "null" -> Null
               [] t = "NaN" -> RealValue(Special("nan"))
               [] t \in {"inf", "-inf"} -> RealValue(Special(t))

Separators == {",", "}", "]"}

(* The token a value starts with, comments having been skipped.            *)
ReadValueToken(t) ==
  \/ /\ t \in {"{", "["}
     /\ nodes' = Replaced([Top EXCEPT
          !.val = OfType(IF t = "{" THEN "object" ELSE "array"),
          !.st = IF t = "{" THEN "name" ELSE "first",
          !.start = cur, !.name = <<>>])
     /\ cur' = AfterToken
     /\ UNCHANGED <<ret, errors>>
  \/ /\ t = "num" /\ NumberOf(Lexeme).ok
     /\ Complete(NumberOf(Lexeme).v, cur, AfterToken) /\ cur' = AfterToken
  \/ /\ t = "str" /\ decodeString(Lexeme).ok
     /\ Complete(StringValue(decodeString(Lexeme).s), cur, AfterToken)
     /\ cur' = AfterToken
  \/ /\ \/ t = "num" /\ ~NumberOf(Lexeme).ok
        \/ t = "str" /\ ~decodeString(Lexeme).ok
     /\ errors' = TokenError /\ ret' = "fail" /\ cur' = AfterToken
     /\ UNCHANGED nodes
  \/ /\ t \in {"true", "false", "null", "NaN", "inf", "-inf"}
     /\ Complete(Scalar(t), cur, AfterToken) /\ cur' = AfterToken
  \/ \* the token is un-read and stands for a dropped null
     /\ t \in Separators /\ features.allowDroppedNullPlaceholders
     /\ Complete(Null, cur - 1, cur)
     /\ UNCHANGED cur
  \/ /\ \/ t \in {":", "cmt", "error", "end"}
        \/ t \in Separators /\ ~features.allowDroppedNullPlaceholders
     /\ errors' = TokenError /\ ret' = "fail" /\ cur' = AfterToken
     /\ nodes' = Replaced([Top EXCEPT !.start = cur, !.limit = AfterToken])

TooDeep == Len(nodes) > features.stackLimit

ExceedStackLimit ==
  /\ status = "reading" /\ ret = "none" /\ Top.st = "value" /\ TooDeep
  /\ status' = "thrown" /\ closed' = TRUE
  /\ UNCHANGED <<features, doc, cur, nodes, ret, errors, spans, root>>

SkipComment(st) ==
  /\ Reading(st) /\ Token = "cmt"
  /\ cur' = AfterToken
  /\ UNCHANGED <<nodes, ret, errors>>

ReadValue ==
  /\ ~TooDeep
  /\ \/ SkipComment("value") /\ features.allowComments
     \/ /\ Reading("value") /\ ~(Token = "cmt" /\ features.allowComments)
        /\ ReadValueToken(Token)

(***************************************************************************)
(* readArray and readObject                                                *)
(***************************************************************************)
(* Mutant: setOffsetLimit is forgotten.                                    *)
CloseContainerNoLimit(result) ==
  /\ ret' = result /\ cur' = AfterToken
  /\ UNCHANGED <<nodes, errors>>

(* The container of the current frame ends with the token being read.      *)
CloseContainer(result) ==
  /\ nodes' = Replaced([Top EXCEPT !.limit = AfterToken])
  /\ ret' = result /\ cur' = AfterToken
  /\ UNCHANGED errors

Recovering(errs) ==
  /\ nodes' = Replaced([Top EXCEPT !.st = "recover"])
  /\ errors' = errs /\ cur' = AfterToken
  /\ UNCHANGED ret

Descend(f, arg, st, next) ==
  /\ nodes' = Pushed(f, arg, st) /\ cur' = next
  /\ UNCHANGED <<ret, errors>>

(* Only a bracket that follows at once makes the array empty.              *)
BeginArray ==
  /\ Reading("first")
  /\ \/ Token = "]" /\ CloseContainer("ok")
     \/ Token # "]" /\ Descend(Top, AtIndex(0), "separator", cur)

ReadSeparator ==
  \/ SkipComment("separator")
  \/ /\ Reading("separator") /\ Token # "cmt"
     /\ \/ Token = "," /\ Descend(Top, AtIndex(Size(Top.val)), "separator",
                                  AfterToken)
        \/ Token = "]" /\ CloseContainer("ok")
        \/ Token \notin {",", "]"} /\ Recovering(TokenError)

(* The name of a member, from a string or, if allowed, from a number.      *)
IsName(t) == t = "str" \/ (t = "num" /\ features.allowNumericKeys)
NameOf(l) == IF l.c = "num"
             THEN [ok |-> NumberOf(l).ok, s |-> NumberText(NumberOf(l).v)]
             ELSE decodeString(l)

(* Json::Reader takes the name from asCString(), which throws for numbers. *)
NameThrows ==
  /\ Reading("name") /\ Token = "num"
  /\ features.deprecated /\ features.allowNumericKeys /\ NumberOf(Lexeme).ok
  /\ status' = "thrown" /\ closed' = TRUE /\ cur' = AfterToken
  /\ UNCHANGED <<features, doc, nodes, ret, errors, spans, root>>

ReadName ==
  \/ SkipComment("name")
  \/ /\ Reading("name") /\ Token # "cmt"
     /\ LET empty == Token = "}" /\ Top.name = <<>>
        IN \/ empty /\ CloseContainer("ok")
           \/ /\ IsName(Token) /\ NameOf(Lexeme).ok
              /\ ~(features.deprecated /\ Token = "num")
              /\ nodes' = Replaced([Top EXCEPT !.name = NameOf(Lexeme).s,
                                               !.st = "colon"])
              /\ cur' = AfterToken
              /\ UNCHANGED <<ret, errors>>
           \/ IsName(Token) /\ ~NameOf(Lexeme).ok /\ Recovering(TokenError)
           \/ ~empty /\ ~IsName(Token) /\ Recovering(TokenError)

ReadColon ==
  /\ Reading("colon")
  /\ LET duplicate == /\ features.rejectDupKeys
                      /\ Found(Top.val, AtKey(Top.name))
     IN \/ Token # ":" /\ Recovering(TokenError)
        \/ /\ Token = ":" /\ duplicate      \* the error is at the name
           /\ Recovering(Append(errors, ErrorAt(cur - 1, cur)))
        \/ /\ Token = ":" /\ ~duplicate
           /\ Descend(Top, AtKey(Top.name), "comma", AfterToken)

(* After a comment, any token but the closing brace passes for the comma.  *)
ReadComma ==
  \/ /\ Reading("comma")
     /\ \/ Token = "}" /\ CloseContainer("ok")
        \/ /\ Token \in {",", "cmt"}
           /\ nodes' = Replaced([Top EXCEPT !.st =
                IF Token = "," THEN "name" ELSE "afterComment"])
           /\ cur' = AfterToken
           /\ UNCHANGED <<ret, errors>>
        \/ Token \notin {",", "}", "cmt"} /\ Recovering(TokenError)
  \/ SkipComment("afterComment")
  \/ /\ Reading("afterComment") /\ Token # "cmt"
     /\ \/ Token = "}" /\ CloseContainer("ok")
        \/ /\ Token # "}"
           /\ nodes' = Replaced([Top EXCEPT !.st = "name"])
           /\ cur' = AfterToken
           /\ UNCHANGED <<ret, errors>>

(* The bracket that ends the container of the current frame.               *)
Closing == IF Top.val.t = "object" THEN "}" ELSE "]"

(* Mutant: the end of the stream does not stop the recovery.               *)
RecoverForever ==
  /\ Reading("recover")
  /\ \/ Token = Closing /\ CloseContainer("fail")
     \/ /\ Token # Closing /\ cur' = AfterToken
        /\ UNCHANGED <<nodes, ret, errors>>

(* recoverFromError: skip to the bracket that would end the container.     *)
Recover ==
  /\ Reading("recover")
  /\ \/ Token \in {Closing, "end"} /\ CloseContainer("fail")
     \/ /\ Token \notin {Closing, "end"} /\ cur' = AfterToken
        /\ UNCHANGED <<nodes, ret, errors>>

(* readValue() returns into readArray or readObject, or into parse().      *)
Return ==
  /\ status = "reading" /\ ret # "none" /\ Top.st # "trailer"
  /\ LET child == Top
         p == Path(nodes)
         below == SubSeq(nodes, 1, Len(nodes) - 1)
         parent == below[Len(below)]
         \* the offsets of what the value held before are gone with it
         Inside(q) == /\ IsContainer(child.val)
                      /\ Accepts(child.val, q[Len(p) + 1])
                      /\ Found(child.val, q[Len(p) + 1])
         kept == {q \in DOMAIN spans : ~IsPrefix(p, q) \/ (q # p /\ Inside(q))}
     IN /\ spans' = [q \in kept \cup {p} |->
                       IF q = p THEN <<child.start, child.limit>> ELSE spans[q]]
        /\ IF Len(nodes) = 1
           THEN /\ nodes' = Replaced([child EXCEPT !.st = "trailer"])
                /\ root' = child.val
                /\ UNCHANGED ret
           ELSE /\ nodes' = [below EXCEPT ![Len(below)] =
                     [parent EXCEPT
                        !.val = Store(parent.val, child.arg, child.val),
                        !.st = IF ret = "ok" THEN parent.st ELSE "recover"]]
                /\ ret' = "none"
                /\ UNCHANGED root
  /\ UNCHANGED <<features, doc, closed, cur, errors, status>>

ReaderStep == ReadValue \/ BeginArray \/ ReadSeparator \/ ReadName
              \/ ReadColon \/ ReadComma \/ Recover

Step == ReaderStep /\ UNCHANGED <<features, doc, closed, spans, root, status>>

(* The end of parse(): what may follow the root value.                     *)
EndParse ==
  /\ status = "reading" /\ Top.st = "trailer" /\ CanRead
  /\ LET extra == /\ features.failIfExtra /\ Token # "end"
                  /\ features.strictRoot \/ Token # "error"
         badRoot == features.strictRoot /\ ~IsContainer(root)
     IN \/ /\ Token = "cmt" /\ features.allowComments
           /\ cur' = AfterToken
           /\ UNCHANGED <<errors, status>>
        \/ /\ ~(Token = "cmt" /\ features.allowComments)
           /\ cur' = AfterToken
           /\ errors' = IF extra THEN TokenError
                        ELSE IF badRoot THEN Append(errors, ErrorAt(0, Len(doc)))
                        ELSE errors
           /\ status' = IF extra \/ badRoot \/ ret = "fail" THEN "failed" ELSE "ok"
  /\ UNCHANGED <<features, doc, closed, nodes, ret, spans, root>>

(* Reader::pushError(value, message) takes the limit from the end of the   *)
(* document; with an extra value it takes it from the beginning.           *)
PushError ==
  /\ status \in {"ok", "failed"}
  /\ Cardinality({i \in DOMAIN errors : errors[i].by # "parse"}) < MaxPushed
  /\ \E p, q \in DOMAIN spans, by \in {"push", "pushExtra"} :
       /\ \A i \in {1, 2} : spans[p][i] <= Len(doc)
       /\ by = "pushExtra" => spans[q][2] <= Len(doc)
       /\ errors' = Append(errors,
            [start |-> spans[p][1], by |-> by,
             limit |-> spans[p][2] + (IF by = "push" THEN Len(doc) ELSE 0)])
  /\ UNCHANGED <<features, doc, closed, cur, nodes, ret, spans, root, status>>

Next == Parse(<<>>, FALSE) \/ Supply \/ Finish \/ ExceedStackLimit
        \/ NameThrows \/ Step \/ Return \/ EndParse \/ PushError

(* The thread that called parse() keeps running, and a document ends.      *)
Fairness == /\ WF_readerVars(ExceedStackLimit) /\ WF_readerVars(NameThrows)
            /\ WF_readerVars(Step)
            /\ WF_readerVars(Return) /\ WF_readerVars(EndParse)
            /\ WF_readerVars(Finish)

Spec == Init /\ [][Next]_readerVars /\ Fairness

(***************************************************************************)
(* Properties                                                              *)
(***************************************************************************)
Ended == status \in {"ok", "failed"}

(* The parse state is what the code can hold: offsets in the document, a   *)
(* stack of containers with a value on top of them.                        *)
TypeOK ==
  /\ features \in Settings
  /\ closed \in BOOLEAN /\ cur \in 0 .. Len(doc)
  /\ ret \in {"none", "ok", "fail"}
  /\ status \in {"idle", "reading", "ok", "failed", "thrown"}
  /\ \A i \in 1 .. Len(nodes) - 1 :
       /\ IsContainer(nodes[i].val)
       /\ Found(nodes[i].val, nodes[i + 1].arg)
  /\ Len(nodes) <= features.stackLimit + 1

(* parse() returns true exactly when it recorded no error: an error deep   *)
(* in the document, with all the recovery on the way out, is never lost,   *)
(* and an earlier document's errors are not reported for this one.         *)
Verdict ==
  Ended => (status = "ok") =
             ({i \in DOMAIN errors : errors[i].by = "parse"} = {})

(* The offsets of the values of an accepted document nest: a value lies    *)
(* within its container, and two values of one container do not overlap.   *)
SpansNest ==
  status = "ok" =>
    \A p, q \in DOMAIN spans :
      /\ p # <<>> /\ q = Front(p) => /\ spans[q][1] <= spans[p][1]
                                     /\ spans[p][2] <= spans[q][2]
      /\ p # <<>> /\ q # <<>> /\ p # q /\ Front(p) = Front(q) =>
           spans[p][2] <= spans[q][1] \/ spans[q][2] <= spans[p][1]

(* The offsets reported with an error are a range of the text, also those  *)
(* of a value whose reading failed.  Excluded: dropped nulls (one at the   *)
(* very start of a document gets the offset before it), and the limit of   *)
(* pushError(value, message), which is measured from the document's end.   *)
ErrorsInDocument ==
  ~features.allowDroppedNullPlaceholders =>
    \A i \in DOMAIN errors :
      /\ 0 <= errors[i].start
      /\ errors[i].start <= errors[i].limit
      /\ errors[i].by # "push" => errors[i].limit <= Len(doc)

(* What parse() leaves behind: the types of the parse state with its bound *)
(* on the stack, the verdict, and the offsets of values and errors         *)
(* (jsoncpp.cpp 1263-1410, 1974-2002).                                     *)
ReaderInv == TypeOK /\ Verdict /\ SpansNest /\ ErrorsInDocument

(* Every document is read to an end, whatever errors it recovers from.     *)
ParseEnds == status = "reading" ~> status # "reading"
=============================================================================
