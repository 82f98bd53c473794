----------------------------- MODULE JsonProofs -----------------------------
(***************************************************************************)
(* Proofs about JsonReader, for any settings, lexemes, documents and depth  *)
(* of nesting: the verdict of parse() agrees with the errors it recorded,   *)
(* the stack stays within its limit, and the offsets of values and errors   *)
(* are ranges of the document, those of an accepted one nested; and about   *)
(* the conversions of JsonValue, for integers of any width.                 *)
(*                                                                          *)
(* What a numeral or a string decodes to is left open: only that no scalar  *)
(* is a container.  The stack and the spans are parameters of the           *)
(* definitions below, so that the same lemmas speak of the state before and *)
(* after a step.                                                            *)
(***************************************************************************)
EXTENDS JsonReader, SequenceTheorems, TLAPS

-----------------------------------------------------------------------------
(* The inductive invariant *)

Sequence(s) == s \in Seq({s[i] : i \in DOMAIN s})

\* The argument of operator[] is an index or a key, and nothing besides.
ArgOK(a) == /\ a.kind \in {"index", "key"}
            /\ a = IF a.kind = "index" THEN AtIndex(a.index) ELSE AtKey(a.key)

\* The states of a frame: its container waits for a value of its own, it is
\* otherwise being read, or there is no container (yet, or any more).
Waiting == {"separator", "comma"}
InArray == {"first", "separator"}
InObject == {"name", "colon", "comma", "afterComment"}
Inner == InArray \cup InObject \cup {"recover"}
States == Inner \cup {"value", "trailer"}

Frame(f) == f \in [arg : {f.arg}, val : {f.val}, st : States, name : {f.name},
                   start : Int, limit : Int]

FrameOK(f) ==
    /\ Frame(f) /\ ArgOK(f.arg)
    /\ f.st \in InArray => f.val.t = "array"
    /\ f.st \in InObject => f.val.t = "object"
    /\ f.st = "recover" => IsContainer(f.val)
    /\ f.st = "first" => f.val = ArrayValue(<<>>)

\* The stack: every frame but the top one waits for the frame above it, in the
\* slot that frame fills, and no container is deeper than the limit.
StackOK(ns, lim) ==
    /\ Sequence(ns)
    /\ \A i \in 1 .. Len(ns) : /\ FrameOK(ns[i])
                               /\ ns[i].st \in Inner => i <= lim
                               /\ ns[i].st = "trailer" => Len(ns) = 1
    /\ \A i \in 1 .. Len(ns) - 1 : /\ ns[i].st \in Waiting
                                   /\ Found(ns[i].val, ns[i + 1].arg)
    /\ Len(ns) <= lim + 1

ErrorOK(e) == /\ e.by \in {"parse", "push", "pushExtra"}
              /\ e.start \in Int /\ e.limit \in Int

SpansOK(sp) ==
    \A q \in DOMAIN sp : /\ Sequence(q)
                         /\ \A k \in 1 .. Len(q) : ArgOK(q[k])
                         /\ sp[q] = <<sp[q][1], sp[q][2]>>
                         /\ sp[q][1] \in Int /\ sp[q][2] \in Int

Shape ==
    /\ features \in Settings /\ closed \in BOOLEAN
    /\ doc \in Seq(FirstLexemes \cup Lexemes) /\ cur \in 0 .. Len(doc)
    /\ ret \in {"none", "ok", "fail"}
    /\ status \in {"idle", "reading", "ok", "failed", "thrown"}
    /\ StackOK(nodes, features.stackLimit)
    /\ Sequence(errors) /\ \A i \in 1 .. Len(errors) : ErrorOK(errors[i])
    /\ SpansOK(spans)
    /\ status = "reading" => nodes # <<>>

\* While a document is read, an error shows in what is returned or in the state
\* of the top frame, and nowhere else.
Failing == ret = "fail" \/ Top.st = "recover"
Clean == \A i \in 1 .. Len(errors) : errors[i].by # "parse"

Progress ==
    /\ status = "reading" =>
          /\ Failing <=> errors # <<>>
          /\ \A i \in 1 .. Len(errors) : errors[i].by = "parse"
          /\ Top.st = "recover" => ret # "ok"
          /\ Top.st = "trailer" => ret # "none"
          /\ ret = "ok" /\ Top.st = "value" => ~ IsContainer(Top.val)
          /\ ret # "none" => Top.start <= Top.limit /\ Top.limit <= cur
    /\ Ended => (status = "ok" <=> Clean)
    /\ status = "ok" => nodes # <<>> /\ Top.st = "trailer" /\ ret = "ok"

\* The offset before the document is that of a dropped null at its start.
Low == IF features.allowDroppedNullPlaceholders THEN -1 ELSE 0

Offsets ==
    /\ \A q \in DOMAIN spans : /\ Low <= spans[q][1] /\ spans[q][1] <= spans[q][2]
                               /\ spans[q][2] <= cur
    /\ \A i \in 1 .. Len(nodes) :
          LET f == nodes[i]
          IN /\ f.st = "value" => Low <= f.start /\ f.start <= f.limit /\ f.limit <= cur
             /\ f.st \in Inner => 0 <= f.start /\ f.start < cur
             /\ f.st = "trailer" => Low <= f.start
    /\ \A i \in 1 .. Len(errors) :
          /\ Low <= errors[i].start /\ errors[i].start <= errors[i].limit
          /\ errors[i].by # "push" => errors[i].limit <= Len(doc)

\* The value at path q has been read for good: it is an entry, or inside one, of
\* the i-th container of the stack ns, and not the one the next frame reads.
Has(v, a) == IsContainer(v) /\ Accepts(v, a) /\ Found(v, a)

Settled(ns, i, q) ==
    /\ i \in 1 .. Len(ns) /\ i <= Len(q)
    /\ \A k \in 1 .. i - 1 : q[k] = ns[k + 1].arg
    /\ i < Len(ns) => q[i] # ns[i + 1].arg
    /\ ns[i].st # "value"
    /\ Has(ns[i].val, q[i])

\* Where the value of frame i starts at the earliest, and where the entries of
\* its container must have ended.
Base(ns, i, r, c) == IF r = "none" /\ ns[i].st = "value" THEN c - 1 ELSE ns[i].start
Roof(ns, i, r, c) == IF i < Len(ns) THEN Base(ns, i + 1, r, c)
                     ELSE IF r = "none" THEN c ELSE ns[i].limit

EntryOf(q, p) == Len(p) = Len(q) + 1 /\ \A k \in 1 .. Len(q) : q[k] = p[k]
Siblings(p, q) == /\ Len(p) = Len(q) /\ p # q
                  /\ \A k \in 1 .. Len(p) - 1 : p[k] = q[k]

FramesNest(ns, r, c) ==
    \A i \in 1 .. Len(ns) - 1 : ns[i].start <= Base(ns, i + 1, r, c)
EntriesNest(ns, sp, r, c) ==
    \A i \in 1 .. Len(ns), q \in DOMAIN sp :
        Settled(ns, i, q) /\ Len(q) = i =>
            ns[i].start <= sp[q][1] /\ sp[q][2] <= Roof(ns, i, r, c)
TreesNest(ns, sp) ==
    \A i, j \in 1 .. Len(ns), p, q \in DOMAIN sp :
        Settled(ns, i, p) /\ Settled(ns, j, q) /\ EntryOf(q, p) =>
            sp[q][1] <= sp[p][1] /\ sp[p][2] <= sp[q][2]
SiblingsApart(ns, sp) ==
    \A i, j \in 1 .. Len(ns), p, q \in DOMAIN sp :
        Settled(ns, i, p) /\ Settled(ns, j, q) /\ Siblings(p, q) =>
            sp[p][2] <= sp[q][1] \/ sp[q][2] <= sp[p][1]

Nested(ns, sp, r, c) == /\ FramesNest(ns, r, c) /\ EntriesNest(ns, sp, r, c)
                        /\ TreesNest(ns, sp) /\ SiblingsApart(ns, sp)

\* When the root is complete every value is an entry of it, or inside one.
RootSpans(ns, sp) ==
    ns # <<>> /\ ns[1].st = "trailer" =>
        /\ <<>> \in DOMAIN sp /\ sp[<<>>] = <<ns[1].start, ns[1].limit>>
        /\ \A q \in DOMAIN sp : q # <<>> => Settled(ns, 1, q)

Nesting ==
    Clean /\ status \in {"reading", "ok"} =>
        Nested(nodes, spans, ret, cur) /\ RootSpans(nodes, spans)

JInv == Shape /\ Progress /\ Offsets /\ Nesting

-----------------------------------------------------------------------------
(* Sequences *)

\* A function on 1 .. n is a sequence.
LEMMA FunctionIsSequence ==
    ASSUME NEW n \in Nat, NEW s, s = [i \in 1 .. n |-> s[i]]
    PROVE  Sequence(s) /\ Len(s) = n
<1>1. DOMAIN s = 1 .. n
    OBVIOUS
<1>2. s \in [1 .. n -> {s[i] : i \in 1 .. n}]
    OBVIOUS
<1>3. s \in Seq({s[i] : i \in 1 .. n})
    BY <1>2, IsASeq
<1> QED
    BY <1>1, <1>3, LenProperties DEF Sequence

\* What a sequence is: its length and its elements.
LEMMA SequenceFacts ==
    ASSUME NEW s, Sequence(s)
    PROVE  /\ Len(s) \in Nat /\ DOMAIN s = 1 .. Len(s)
           /\ s = [i \in 1 .. Len(s) |-> s[i]]
           /\ s = <<>> <=> Len(s) = 0
<1> DEFINE S == {s[i] : i \in DOMAIN s}
<1>1. s \in Seq(S)
    BY DEF Sequence
<1> HIDE DEF S
<1> QED
    BY <1>1, LenProperties, EmptySeq

\* Two sequences with the same length and elements are one.
LEMMA SameSequence ==
    ASSUME NEW s, NEW t, Sequence(s), Sequence(t), Len(s) = Len(t),
           \A i \in 1 .. Len(s) : s[i] = t[i]
    PROVE  s = t
<1>1. /\ s = [i \in 1 .. Len(s) |-> s[i]] /\ t = [i \in 1 .. Len(t) |-> t[i]]
      /\ Len(s) \in Nat
    BY SequenceFacts
<1>2. [i \in 1 .. Len(s) |-> s[i]] = [i \in 1 .. Len(s) |-> t[i]]
    OBVIOUS
<1> QED
    BY <1>1, <1>2, Zenon

\* Append, the replacement of the last element and its removal.
LEMMA AppendFacts ==
    ASSUME NEW s, Sequence(s), NEW e
    PROVE  /\ Sequence(Append(s, e)) /\ Len(Append(s, e)) = Len(s) + 1
           /\ \A i \in 1 .. Len(s) : Append(s, e)[i] = s[i]
           /\ Append(s, e)[Len(s) + 1] = e
<1> DEFINE S == {s[i] : i \in DOMAIN s}
           T == S \cup {e}
<1>1. s \in Seq(S)
    BY DEF Sequence
<1>2. S \subseteq T /\ e \in T
    OBVIOUS
<1> HIDE DEF S, T
<1>3. s \in Seq(T)
    BY <1>1, <1>2, SeqMonotonic
<1>4. /\ Append(s, e) \in Seq(T) /\ Len(Append(s, e)) = Len(s) + 1
      /\ \A i \in 1 .. Len(s) : Append(s, e)[i] = s[i]
      /\ Append(s, e)[Len(s) + 1] = e
    BY <1>2, <1>3, AppendProperties
<1>5. Len(Append(s, e)) \in Nat
      /\ Append(s, e) = [i \in 1 .. Len(Append(s, e)) |-> Append(s, e)[i]]
    BY <1>4, LenProperties
<1>6. Sequence(Append(s, e))
    BY <1>5, FunctionIsSequence
<1> QED
    BY <1>4, <1>6

\* Replacing the last element.
LEMMA ReplaceFacts ==
    ASSUME NEW s, Sequence(s), Len(s) > 0, NEW e, NEW t,
           t = [i \in DOMAIN s |-> t[i]], t[Len(s)] = e,
           \A i \in DOMAIN s : i # Len(s) => t[i] = s[i]
    PROVE  /\ Sequence(t) /\ Len(t) = Len(s) /\ t[Len(s)] = e
           /\ \A i \in 1 .. Len(s) - 1 : t[i] = s[i]
<1>1. Len(s) \in Nat /\ DOMAIN s = 1 .. Len(s)
    BY SequenceFacts
<1>2. Sequence(t) /\ Len(t) = Len(s)
    BY <1>1, FunctionIsSequence
<1> QED
    BY <1>1, <1>2

\* Removing the last element.
LEMMA PopFacts ==
    ASSUME NEW s, Sequence(s), Len(s) > 0, NEW t, t = SubSeq(s, 1, Len(s) - 1)
    PROVE  /\ Sequence(t) /\ Len(t) = Len(s) - 1
           /\ \A i \in 1 .. Len(s) - 1 : t[i] = s[i]
<1> DEFINE S == {s[i] : i \in DOMAIN s}
<1>1. s \in Seq(S) /\ Len(s) \in Nat
    BY SequenceFacts DEF Sequence
<1> HIDE DEF S
<1>2. /\ t \in Seq(S) /\ Len(t) = Len(s) - 1
      /\ \A i \in 1 .. Len(s) - 1 : t[i] = s[i]
    <2> DEFINE m == Len(s) - 1
    <2>1. m \in Int /\ 1 \in Int /\ m >= 0
        BY <1>1
    <2>2. \A i \in 1 .. m : s[i] \in S
        BY <1>1, ElementOfSeq
    <2> HIDE DEF m
    <2>4. /\ SubSeq(s, 1, m) \in Seq(S) /\ Len(SubSeq(s, 1, m)) = m
          /\ \A i \in 1 .. m : SubSeq(s, 1, m)[i] = s[i]
        BY <2>1, <2>2, SubSeqProperties
    <2> QED
        BY <2>4 DEF m
<1>3. Len(t) \in Nat /\ t = [i \in 1 .. Len(t) |-> t[i]]
    BY <1>2, LenProperties
<1> QED
    BY <1>2, <1>3, FunctionIsSequence

\* A prefix agrees element by element, and is shorter unless it is the whole.
LEMMA PrefixFacts ==
    ASSUME NEW p, NEW q, Sequence(p), Sequence(q)
    PROVE  /\ IsPrefix(p, q) <=> /\ Len(p) <= Len(q)
                                 /\ \A k \in 1 .. Len(p) : p[k] = q[k]
           /\ IsPrefix(p, q) /\ p # q => Len(p) < Len(q)
<1> DEFINE P == {p[i] : i \in DOMAIN p}
           Q == {q[i] : i \in DOMAIN q}
<1>1. /\ p \in Seq(P) /\ Len(p) \in Nat
      /\ q \in Seq(Q) /\ Len(q) \in Nat
    BY SequenceFacts DEF Sequence
<1> HIDE DEF P, Q
<1>2. SubSeq(p, 1, Len(p)) = p
    BY <1>1, SubSeqFull
<1>3. CASE Len(p) <= Len(q)
    <2> DEFINE t == SubSeq(q, 1, Len(p))
    <2>1. /\ t \in Seq(Q) /\ Len(t) = Len(p)
          /\ \A i \in 1 .. Len(p) : t[i] = q[i]
        BY <1>1, <1>3, SubSeqProperties
    <2>2. Len(t) \in Nat /\ t = [i \in 1 .. Len(t) |-> t[i]]
        BY <2>1, LenProperties
    <2>3. Sequence(t)
        BY <2>2, FunctionIsSequence
    <2>4. IsPrefix(p, q) <=> p = t
        BY <1>2, <1>3 DEF IsPrefix
    <2> HIDE DEF t
    <2>5. p = t <=> \A k \in 1 .. Len(p) : p[k] = q[k]
        BY <2>1, <2>3, SameSequence
    <2>6. Len(p) = Len(q) /\ (\A k \in 1 .. Len(p) : p[k] = q[k]) => p = q
        BY SameSequence
    <2> QED
        BY <1>1, <1>3, <2>4, <2>5, <2>6
<1>4. CASE ~ (Len(p) <= Len(q))
    BY <1>4 DEF IsPrefix
<1> QED
    BY <1>3, <1>4

\* Front drops the last element: sequences with the same front are siblings.
LEMMA FrontFacts ==
    ASSUME NEW p, Sequence(p), p # <<>>
    PROVE  /\ Len(Front(p)) = Len(p) - 1 /\ Len(p) \in Nat /\ Len(p) > 0
           /\ \A k \in 1 .. Len(p) - 1 : Front(p)[k] = p[k]
<1>1. Len(p) \in Nat /\ Len(p) > 0
    BY SequenceFacts
<1>2. /\ Len(SubSeq(p, 1, Len(p) - 1)) = Len(p) - 1
      /\ \A k \in 1 .. Len(p) - 1 : SubSeq(p, 1, Len(p) - 1)[k] = p[k]
    BY <1>1, PopFacts
<1> QED
    BY <1>1, <1>2 DEF Front

-----------------------------------------------------------------------------
(* Values *)

\* A decoded number is no container, and neither is any other scalar.
LEMMA NumbersAreScalars ==
    ASSUME NEW l, NumberOf(l).ok
    PROVE  ~ IsContainer(NumberOf(l).v)
<1>1. decodeNumber(l).ok => decodeNumber(l).v.t \in {"int", "uint", "real"}
    BY DEF decodeNumber, decodeDouble, Decoded, NotDecoded, IntValue, UIntValue,
           RealValue
<1>2. NumberOf(l) = decodeNumber(l)
    BY DEF NumberOf, NotDecoded
<1> QED
    BY <1>1, <1>2 DEF IsContainer

\* The literal words are no containers.
LEMMA WordsAreScalars ==
    ASSUME NEW t \in {"true", "false", "null", "NaN", "inf", "-inf"}
    PROVE  ~ IsContainer(Scalar(t))
BY DEF Scalar, BoolValue, Null, RealValue, IsContainer

\* Storing into a container, or touching an entry of it, leaves its type and
\* adds one slot at most.
LEMMA StoreFacts ==
    ASSUME NEW v, IsContainer(v), NEW a, NEW x
    PROVE  /\ Store(v, a, x).t = v.t
           /\ DOMAIN Map(Store(v, a, x)) = DOMAIN Map(v) \cup {Slot(a)}
<1> DEFINE m == [k \in DOMAIN Map(v) \cup {Slot(a)} |->
                   IF k = Slot(a) THEN x ELSE Map(v)[k]]
<1>1. v.t # "null" /\ Store(v, a, x) = WithMap(v, m)
    BY DEF Store, IsContainer
<1>2. DOMAIN m = DOMAIN Map(v) \cup {Slot(a)}
    OBVIOUS
<1> HIDE DEF m
<1>3. WithMap(v, m).t = v.t /\ Map(WithMap(v, m)) = m
    BY DEF WithMap, Map, ArrayValue, ObjectValue, IsContainer
<1> QED
    BY <1>1, <1>2, <1>3

\* Touching an entry inserts it, and nothing else.
LEMMA TouchFacts ==
    ASSUME NEW v, IsContainer(v), NEW a
    PROVE  /\ Touch(v, a).t = v.t
           /\ DOMAIN Map(Touch(v, a)) = DOMAIN Map(v) \cup {Slot(a)}
           /\ Found(Touch(v, a), a)
<1>1. CASE Found(v, a)
    BY <1>1 DEF Touch, Found
<1>2. CASE ~ Found(v, a)
    <2>1. /\ Touch(v, a).t = v.t
          /\ DOMAIN Map(Touch(v, a)) = DOMAIN Map(v) \cup {Slot(a)}
        BY <1>2, StoreFacts DEF Touch
    <2> QED
        BY <2>1 DEF Found, IsContainer
<1> QED
    BY <1>1, <1>2

\* The other arguments find what they found before.
LEMMA OtherEntries ==
    ASSUME NEW v, NEW w, NEW a, NEW b, IsContainer(v), w.t = v.t,
           DOMAIN Map(w) = DOMAIN Map(v) \cup {Slot(a)},
           Found(v, a) \/ (ArgOK(a) /\ Accepts(v, a) /\ ArgOK(b) /\ b # a),
           Has(w, b)
    PROVE  Has(v, b)
<1>1. Slot(b) \in DOMAIN Map(w) /\ Accepts(v, b) /\ v.t # "null"
    BY DEF Has, Found, Accepts, IsContainer
<1>2. CASE Slot(b) # Slot(a)
    BY <1>1, <1>2 DEF Has, Found
<1>3. CASE Slot(b) = Slot(a) /\ Found(v, a)
    BY <1>1, <1>3 DEF Has, Found
<1>4. CASE Slot(b) = Slot(a) /\ ArgOK(a) /\ Accepts(v, a) /\ ArgOK(b) /\ b # a
    <2>1. a.kind = b.kind
        BY <1>1, <1>4 DEF Accepts, ArgOK, IsContainer
    <2>2. CASE a.kind = "index"
        <3>1. a = AtIndex(a.index) /\ b = AtIndex(b.index) /\ a.index = b.index
            BY <1>4, <2>1, <2>2 DEF ArgOK, Slot
        <3> QED
            BY <1>4, <3>1
    <2>3. CASE a.kind = "key"
        <3>1. a = AtKey(a.key) /\ b = AtKey(b.key) /\ a.key = b.key
            BY <1>4, <2>1, <2>3 DEF ArgOK, Slot
        <3> QED
            BY <1>4, <3>1
    <2> QED
        BY <1>4, <2>2, <2>3 DEF ArgOK
<1> QED
    BY <1>2, <1>3, <1>4

\* The arguments the reader makes.
LEMMA ArgsOK ==
    /\ \A i : ArgOK(AtIndex(i))
    /\ \A k : ArgOK(AtKey(k))
BY DEF ArgOK, AtIndex, AtKey

-----------------------------------------------------------------------------
(* The moves of the reader *)

\* The stack ms is ns with new fields in its top frame.
Retop(ns, ms, val, st, start, limit) ==
    /\ Sequence(ms) /\ Len(ms) = Len(ns)
    /\ \A i \in 1 .. Len(ns) - 1 : ms[i] = ns[i]
    /\ Frame(ms[Len(ns)]) /\ ms[Len(ns)].arg = ns[Len(ns)].arg
    /\ ms[Len(ns)].val = val /\ ms[Len(ns)].st = st
    /\ ms[Len(ns)].start = start /\ ms[Len(ns)].limit = limit

\* The stack ms is ns with a frame for the slot a of its top container, which
\* waits in state st.
Push(ns, ms, a, st, span) ==
    /\ Sequence(ms) /\ Len(ms) = Len(ns) + 1
    /\ \A i \in 1 .. Len(ns) - 1 : ms[i] = ns[i]
    /\ Frame(ms[Len(ns)]) /\ ms[Len(ns)].arg = ns[Len(ns)].arg
    /\ ms[Len(ns)].val = Touch(ns[Len(ns)].val, a) /\ ms[Len(ns)].st = st
    /\ ms[Len(ns)].start = ns[Len(ns)].start
    /\ Frame(ms[Len(ns) + 1]) /\ ms[Len(ns) + 1].arg = a
    /\ ms[Len(ns) + 1].st = "value"
    /\ ms[Len(ns) + 1].start = span[1] /\ ms[Len(ns) + 1].limit = span[2]

Opened ==
    /\ Top.st = "value" /\ Len(nodes) <= features.stackLimit
    /\ ret' = "none" /\ errors' = errors /\ cur' = cur + 1
    /\ \/ Retop(nodes, nodes', ArrayValue(<<>>), "first", cur, Top.limit)
       \/ Retop(nodes, nodes', ObjectValue(<<>>), "name", cur, Top.limit)

Completed ==
    /\ Top.st = "value" /\ ret' = "ok" /\ errors' = errors
    /\ \E v, b : /\ ~ IsContainer(v)
                 /\ Retop(nodes, nodes', v, "value", b, cur')
                 /\ \/ b = cur /\ cur' = cur + 1
                    \/ /\ b = cur - 1 /\ cur' = cur
                       /\ features.allowDroppedNullPlaceholders

Failed ==
    /\ Top.st = "value" /\ ret' = "fail"
    /\ errors' = Append(errors, ErrorAt(cur, cur'))
    /\ nodes' = nodes \/ Retop(nodes, nodes', Top.val, "value", cur, cur')

Skipped == nodes' = nodes /\ ret' = "none" /\ errors' = errors

Closed ==
    /\ Top.st \in Inner /\ errors' = errors
    /\ Retop(nodes, nodes', Top.val, Top.st, Top.start, cur')
    /\ ret' = IF Top.st = "recover" THEN "fail" ELSE "ok"

Erred ==
    /\ Top.st \in Inner \ {"recover"} /\ ret' = "none"
    /\ Retop(nodes, nodes', Top.val, "recover", Top.start, Top.limit)
    /\ \/ errors' = Append(errors, ErrorAt(cur, cur'))
       \/ errors' = Append(errors, ErrorAt(cur - 1, cur))

Descended ==
    /\ Top.st \in {"first", "separator", "colon"} /\ ret' = "none"
    /\ errors' = errors
    /\ cur' = cur + 1 \/ Top.st = "first"
    /\ \E a : /\ ArgOK(a) /\ Accepts(Top.val, a)
              /\ Push(nodes, nodes', a,
                      IF Top.st = "colon" THEN "comma" ELSE "separator",
                      SpanOf(Append(Path(nodes), a)))

Moved ==
    /\ Top.st \in InObject /\ ret' = "none" /\ errors' = errors
    /\ \E s \in {"name", "colon", "afterComment"} :
          Retop(nodes, nodes', Top.val, s, Top.start, Top.limit)

Move == /\ ret = "none" /\ cur' \in 0 .. Len(doc) /\ cur' \in {cur, cur + 1}
        /\ \/ Opened \/ Completed \/ Failed \/ Skipped
           \/ Closed \/ Erred \/ Descended \/ Moved

\* What a token is worth to the position.
LEMMA TokenFacts ==
    ASSUME Shape, CanRead
    PROVE  /\ AfterToken \in 0 .. Len(doc) /\ AfterToken \in {cur, cur + 1}
           /\ Token # "end" => AfterToken = cur + 1
<1>1. Len(doc) \in Nat /\ cur \in 0 .. Len(doc)
    BY DEF Shape
<1> QED
    BY <1>1 DEF AfterToken, AtEnd, Token

\* The top frame of a reader at work.
LEMMA TopFacts ==
    ASSUME Shape, status = "reading"
    PROVE  /\ Sequence(nodes) /\ Len(nodes) \in Nat /\ Len(nodes) > 0
           /\ Top = nodes[Len(nodes)] /\ FrameOK(Top) /\ Frame(Top)
<1>1. Sequence(nodes) /\ nodes # <<>>
    BY DEF Shape, StackOK
<1>2. Len(nodes) \in Nat /\ Len(nodes) > 0
    BY <1>1, SequenceFacts
<1>3. \A i \in 1 .. Len(nodes) : FrameOK(nodes[i])
    BY DEF Shape, StackOK
<1> QED
    BY <1>1, <1>2, <1>3 DEF Top, FrameOK

\* Replacing the top frame by one of the same slot.
LEMMA RetopFacts ==
    ASSUME Shape, status = "reading", NEW f, Frame(f), f.arg = Top.arg
    PROVE  Retop(nodes, Replaced(f), f.val, f.st, f.start, f.limit)
<1> DEFINE t == Replaced(f)
<1>1. t = [nodes EXCEPT ![Len(nodes)] = f]
    BY DEF Replaced
<1> HIDE DEF t
<1>2. /\ Sequence(t) /\ Len(t) = Len(nodes) /\ t[Len(nodes)] = f
      /\ \A i \in 1 .. Len(nodes) - 1 : t[i] = nodes[i]
    <2>1. Sequence(nodes) /\ Len(nodes) > 0
        BY TopFacts
    <2>2. nodes = [i \in DOMAIN nodes |-> nodes[i]] /\ Len(nodes) \in DOMAIN nodes
        BY <2>1, SequenceFacts
    <2>3. /\ t = [i \in DOMAIN nodes |-> t[i]] /\ t[Len(nodes)] = f
          /\ \A i \in DOMAIN nodes : i # Len(nodes) => t[i] = nodes[i]
        BY <1>1, <2>2
    <2> QED
        BY <2>1, <2>3, ReplaceFacts
<1>3. Retop(nodes, t, f.val, f.st, f.start, f.limit)
    BY <1>2 DEF Retop, Top
<1> QED
    BY <1>3 DEF t

\* readValue: every token it may meet.
LEMMA ValueMoves ==
    ASSUME Shape, ReadValue
    PROVE  Move
<1>1. CASE SkipComment("value")
    BY <1>1, TokenFacts DEF SkipComment, Reading, Move, Skipped
<1>2. CASE Reading("value") /\ ~ TooDeep /\ ReadValueToken(Token)
    <2>1. /\ status = "reading" /\ ret = "none" /\ Top.st = "value" /\ CanRead
        BY <1>2 DEF Reading
    <2>2. /\ Frame(Top) /\ cur \in Int /\ AfterToken \in Int
          /\ AfterToken \in 0 .. Len(doc) /\ AfterToken \in {cur, cur + 1}
          /\ Token # "end" => AfterToken = cur + 1
        BY <2>1, TopFacts, TokenFacts DEF Shape
    <2>4. ASSUME NEW val, ~ IsContainer(val), NEW start \in Int, NEW limit \in Int,
                 Complete(val, start, limit), cur' = limit,
                 \/ start = cur /\ limit = cur + 1
                 \/ /\ start = cur - 1 /\ limit = cur
                    /\ features.allowDroppedNullPlaceholders
          PROVE  Completed
        <3> DEFINE f == [Top EXCEPT !.val = val, !.start = start, !.limit = limit]
        <3>1. /\ Frame(f) /\ f.arg = Top.arg /\ f.val = val /\ f.st = "value"
              /\ f.start = start /\ f.limit = limit
            BY <2>1, <2>2 DEF Frame
        <3>2. nodes' = Replaced(f) /\ ret' = "ok" /\ errors' = errors
            BY <2>4 DEF Complete
        <3> HIDE DEF f
        <3>3. Retop(nodes, nodes', val, "value", start, cur')
            BY <2>1, <2>4, <3>1, <3>2, RetopFacts
        <3> QED
            BY <2>1, <2>4, <3>2, <3>3 DEF Completed
    <2>5. ASSUME Token \in {"{", "["}, cur' = AfterToken, UNCHANGED <<ret, errors>>,
                 nodes' = Replaced([Top EXCEPT
                   !.val = OfType(IF Token = "{" THEN "object" ELSE "array"),
                   !.st = IF Token = "{" THEN "name" ELSE "first",
                   !.start = cur, !.name = <<>>])
          PROVE  Opened
        <3> DEFINE val == OfType(IF Token = "{" THEN "object" ELSE "array")
                   st == IF Token = "{" THEN "name" ELSE "first"
                   f == [Top EXCEPT !.val = val, !.st = st, !.start = cur, !.name = <<>>]
        <3>1. \/ val = ArrayValue(<<>>) /\ st = "first"
              \/ val = ObjectValue(<<>>) /\ st = "name"
            BY <2>5 DEF OfType
        <3>2. st \in States
            BY DEF States, Inner, InArray, InObject
        <3>3. nodes' = Replaced(f)
            BY <2>5
        <3> HIDE DEF val, st
        <3>4. /\ Frame(f) /\ f.arg = Top.arg /\ f.val = val /\ f.st = st
              /\ f.start = cur /\ f.limit = Top.limit
            BY <2>2, <3>2 DEF Frame
        <3> HIDE DEF f
        <3>5. Retop(nodes, nodes', val, st, cur, Top.limit)
            BY <2>1, <3>3, <3>4, RetopFacts
        <3>6. Len(nodes) <= features.stackLimit
            <4>1. Len(nodes) \in Int /\ features.stackLimit \in Int
                BY <2>1, TopFacts, SettingsAssumption DEF Shape
            <4> QED
                BY <1>2, <4>1 DEF TooDeep
        <3>7. cur' = cur + 1 /\ ret' = "none" /\ errors' = errors
            BY <2>1, <2>2, <2>5
        <3> QED
            BY <2>1, <3>1, <3>5, <3>6, <3>7 DEF Opened
    <2>6. ASSUME errors' = TokenError, ret' = "fail", cur' = AfterToken,
                 \/ UNCHANGED nodes
                 \/ nodes' = Replaced([Top EXCEPT !.start = cur, !.limit = AfterToken])
          PROVE  Failed
        <3>1. CASE UNCHANGED nodes
            BY <2>1, <2>6, <3>1 DEF Failed, TokenError
        <3>2. CASE nodes' = Replaced([Top EXCEPT !.start = cur, !.limit = AfterToken])
            <4> DEFINE f == [Top EXCEPT !.start = cur, !.limit = AfterToken]
            <4>1. /\ Frame(f) /\ f.arg = Top.arg /\ f.val = Top.val /\ f.st = "value"
                  /\ f.start = cur /\ f.limit = AfterToken
                BY <2>1, <2>2 DEF Frame
            <4>2. nodes' = Replaced(f)
                BY <3>2
            <4> HIDE DEF f
            <4>3. Retop(nodes, nodes', Top.val, "value", cur, AfterToken)
                BY <2>1, <4>1, <4>2, RetopFacts
            <4> QED
                BY <2>1, <2>6, <4>3 DEF Failed, TokenError
        <3> QED
            BY <2>6, <3>1, <3>2
    <2>7. cur' \in 0 .. Len(doc) /\ cur' \in {cur, cur + 1}
        <3>1. cur' = AfterToken \/ cur' = cur
            BY <1>2 DEF ReadValueToken
        <3> QED
            BY <2>2, <3>1 DEF Shape
    <2>8. Opened \/ Completed \/ Failed
        <3>1. CASE Token \in {"{", "["}
            <4>1. cur' = AfterToken /\ UNCHANGED <<ret, errors>>
                BY <1>2, <3>1 DEF ReadValueToken, Separators
            <4>2. nodes' = Replaced([Top EXCEPT
                     !.val = OfType(IF Token = "{" THEN "object" ELSE "array"),
                     !.st = IF Token = "{" THEN "name" ELSE "first",
                     !.start = cur, !.name = <<>>])
                BY <1>2, <3>1 DEF ReadValueToken, Separators
            <4> QED
                BY <2>5, <3>1, <4>1, <4>2
        <3>2. CASE Token = "num" /\ NumberOf(Lexeme).ok
            <4>1. Complete(NumberOf(Lexeme).v, cur, AfterToken) /\ cur' = AfterToken
                BY <1>2, <3>2 DEF ReadValueToken, Separators
            <4> QED
                BY <2>2, <2>4, <3>2, <4>1, NumbersAreScalars
        <3>3. CASE Token = "str" /\ decodeString(Lexeme).ok
            <4>1. /\ Complete(StringValue(decodeString(Lexeme).s), cur, AfterToken)
                  /\ cur' = AfterToken
                BY <1>2, <3>3 DEF ReadValueToken, Separators
            <4>2. ~ IsContainer(StringValue(decodeString(Lexeme).s))
                BY DEF IsContainer, StringValue
            <4> QED
                BY <2>2, <2>4, <3>3, <4>1, <4>2
        <3>4. CASE \/ Token = "num" /\ ~ NumberOf(Lexeme).ok
                   \/ Token = "str" /\ ~ decodeString(Lexeme).ok
            BY <1>2, <2>6, <3>4 DEF ReadValueToken, Separators
        <3>5. CASE Token \in {"true", "false", "null", "NaN", "inf", "-inf"}
            <4>1. Complete(Scalar(Token), cur, AfterToken) /\ cur' = AfterToken
                BY <1>2, <3>5 DEF ReadValueToken, Separators
            <4> QED
                BY <2>2, <2>4, <3>5, <4>1, WordsAreScalars
        <3>6. CASE Token \in Separators /\ features.allowDroppedNullPlaceholders
            <4>1. Complete(Null, cur - 1, cur) /\ cur' = cur
                BY <1>2, <3>6 DEF ReadValueToken, Separators
            <4>2. ~ IsContainer(Null)
                BY DEF IsContainer, Null
            <4> QED
                BY <2>2, <2>4, <3>6, <4>1, <4>2
        <3>7. CASE \/ Token \in {":", "cmt", "error", "end"}
                   \/ Token \in Separators /\ ~ features.allowDroppedNullPlaceholders
            BY <1>2, <2>6, <3>7 DEF ReadValueToken, Separators
        <3> QED
            BY <1>2, <3>1, <3>2, <3>3, <3>4, <3>5, <3>6, <3>7 DEF ReadValueToken
    <2> QED
        BY <2>1, <2>7, <2>8 DEF Move
<1> QED
    BY <1>1, <1>2 DEF ReadValue

\* The ways a container goes on: it ends, its reading fails, it waits in another
\* state, or a frame for one of its entries is pushed.
LEMMA ContainerMoves ==
    ASSUME Shape, status = "reading", ret = "none", CanRead, Top.st \in Inner
    PROVE  /\ CloseContainer("ok") /\ Top.st # "recover" => Move
           /\ CloseContainer("fail") /\ Top.st = "recover" => Move
           /\ Top.st # "recover" /\ Recovering(TokenError) => Move
           /\ Top.st # "recover" /\ Recovering(Append(errors, ErrorAt(cur - 1, cur))) => Move
<1>1. /\ Frame(Top) /\ cur \in Int /\ AfterToken \in Int
      /\ AfterToken \in 0 .. Len(doc) /\ AfterToken \in {cur, cur + 1}
    BY TopFacts, TokenFacts DEF Shape
<1>2. ASSUME NEW result, CloseContainer(result),
             result = IF Top.st = "recover" THEN "fail" ELSE "ok"
      PROVE  Move
    <2> DEFINE f == [Top EXCEPT !.limit = AfterToken]
    <2>1. /\ Frame(f) /\ f.arg = Top.arg /\ f.val = Top.val /\ f.st = Top.st
          /\ f.start = Top.start /\ f.limit = AfterToken
        BY <1>1 DEF Frame
    <2>2. nodes' = Replaced(f) /\ ret' = result /\ cur' = AfterToken /\ errors' = errors
        BY <1>2 DEF CloseContainer
    <2> HIDE DEF f
    <2>3. Retop(nodes, nodes', Top.val, Top.st, Top.start, cur')
        BY <2>1, <2>2, RetopFacts
    <2> QED
        BY <1>1, <1>2, <2>2, <2>3 DEF Move, Closed
<1>3. ASSUME NEW errs, Recovering(errs), Top.st # "recover",
             \/ errs = TokenError \/ errs = Append(errors, ErrorAt(cur - 1, cur))
      PROVE  Move
    <2> DEFINE f == [Top EXCEPT !.st = "recover"]
    <2>1. "recover" \in States
        BY DEF States, Inner
    <2>2. /\ Frame(f) /\ f.arg = Top.arg /\ f.val = Top.val /\ f.st = "recover"
          /\ f.start = Top.start /\ f.limit = Top.limit
        BY <1>1, <2>1 DEF Frame
    <2>3. nodes' = Replaced(f) /\ ret' = "none" /\ cur' = AfterToken /\ errors' = errs
        BY <1>3 DEF Recovering
    <2> HIDE DEF f
    <2>4. Retop(nodes, nodes', Top.val, "recover", Top.start, Top.limit)
        BY <2>2, <2>3, RetopFacts
    <2>5. \/ errors' = Append(errors, ErrorAt(cur, cur'))
          \/ errors' = Append(errors, ErrorAt(cur - 1, cur))
        BY <1>3, <2>3 DEF TokenError
    <2> QED
        BY <1>1, <1>3, <2>3, <2>4, <2>5 DEF Move, Erred
<1> QED
    BY <1>2, <1>3

\* Descending into a container pushes a frame.
LEMMA DescendMoves ==
    ASSUME Shape, status = "reading", ret = "none", NEW a, ArgOK(a),
           Top.st \in {"first", "separator", "colon"}, Accepts(Top.val, a),
           NEW st, st = IF Top.st = "colon" THEN "comma" ELSE "separator",
           NEW next, next \in 0 .. Len(doc),
           next = cur + 1 \/ (next = cur /\ Top.st = "first"),
           Descend(Top, a, st, next)
    PROVE  Move
<1> DEFINE p == Append(Path(nodes), a)
           f == [Top EXCEPT !.val = Touch(Top.val, a), !.st = st]
           g == [arg |-> a, val |-> Lookup(Top.val, a), st |-> "value",
                 name |-> <<>>, start |-> SpanOf(p)[1], limit |-> SpanOf(p)[2]]
           m == Replaced(f)
<1>1. /\ nodes' = Append(m, g) /\ cur' = next /\ ret' = "none" /\ errors' = errors
    BY DEF Descend, Pushed
<1>2. Frame(Top) /\ Len(nodes) \in Nat
    BY TopFacts
<1>3. st \in States /\ "value" \in States
    BY DEF States, Inner, InArray, InObject
<1>4. /\ Frame(f) /\ f.arg = Top.arg /\ f.val = Touch(Top.val, a) /\ f.st = st
      /\ f.start = Top.start
    BY <1>2, <1>3 DEF Frame
<1>5. SpanOf(p)[1] \in Int /\ SpanOf(p)[2] \in Int
    BY DEF SpanOf, Shape, SpansOK
<1>6. /\ Frame(g) /\ g.arg = a /\ g.st = "value"
      /\ g.start = SpanOf(p)[1] /\ g.limit = SpanOf(p)[2]
    BY <1>3, <1>5 DEF Frame
<1> HIDE DEF f, g, p
<1>7. Retop(nodes, m, f.val, f.st, f.start, f.limit)
    BY <1>4, RetopFacts
<1> HIDE DEF m
<1>8. /\ Sequence(Append(m, g)) /\ Len(Append(m, g)) = Len(m) + 1
      /\ \A i \in 1 .. Len(m) : Append(m, g)[i] = m[i]
      /\ Append(m, g)[Len(m) + 1] = g
    BY <1>7, AppendFacts DEF Retop
<1>9. Push(nodes, nodes', a, st, SpanOf(p))
    <2>1. Len(nodes) > 0 /\ Len(m) = Len(nodes) /\ Top = nodes[Len(nodes)]
        BY <1>7, TopFacts DEF Retop
    <2>2. \A i \in 1 .. Len(nodes) : nodes'[i] = m[i]
        BY <1>1, <1>8, <2>1
    <2>3. nodes'[Len(nodes) + 1] = g /\ Sequence(nodes') /\ Len(nodes') = Len(nodes) + 1
        BY <1>1, <1>8, <2>1
    <2>4. nodes'[Len(nodes)] = m[Len(nodes)] /\ \A i \in 1 .. Len(nodes) - 1 : nodes'[i] = nodes[i]
        BY <1>2, <1>7, <2>1, <2>2 DEF Retop
    <2> QED
        BY <1>4, <1>6, <1>7, <2>1, <2>3, <2>4 DEF Push, Retop
<1>10. Descended
    BY <1>1, <1>9 DEF Descended, p
<1> QED
    BY <1>1, <1>10 DEF Move, Shape

\* readObject moves its frame from state to state.
LEMMA ObjectMoves ==
    ASSUME Shape, status = "reading", ret = "none", CanRead, Top.st \in InObject,
           NEW st \in {"name", "colon", "afterComment"}, NEW f, f.st = st, Frame(f),
           f.arg = Top.arg, f.val = Top.val, f.start = Top.start, f.limit = Top.limit,
           nodes' = Replaced(f), cur' = AfterToken, UNCHANGED <<ret, errors>>
    PROVE  Move
<1>1. Retop(nodes, nodes', Top.val, st, Top.start, Top.limit)
    BY RetopFacts
<1> QED
    BY <1>1, TokenFacts DEF Move, Moved

\* readArray, readObject and recoverFromError.
LEMMA ArrayStepMoves ==
    ASSUME Shape, BeginArray \/ ReadSeparator
    PROVE  Move
<1>1. CASE BeginArray
    <2>1. /\ status = "reading" /\ ret = "none" /\ Top.st = "first" /\ CanRead
        BY <1>1 DEF BeginArray, Reading
    <2>2. Top.st \in Inner /\ Accepts(Top.val, AtIndex(0)) /\ cur \in 0 .. Len(doc)
        BY <2>1, TopFacts DEF Inner, InArray, FrameOK, Accepts, AtIndex, Shape
    <2>3. CASE Token = "]" /\ CloseContainer("ok")
        BY <2>1, <2>2, <2>3, ContainerMoves
    <2>4. CASE Descend(Top, AtIndex(0), "separator", cur)
        BY <2>1, <2>2, <2>4, DescendMoves, ArgsOK
    <2> QED
        BY <1>1, <2>3, <2>4 DEF BeginArray
<1>2. CASE SkipComment("separator")
    BY <1>2, TokenFacts DEF SkipComment, Reading, Move, Skipped
<1>3. CASE Reading("separator") /\ ReadSeparator /\ Token # "cmt"
    <2>1. /\ status = "reading" /\ ret = "none" /\ Top.st = "separator" /\ CanRead
        BY <1>3 DEF Reading
    <2>2. Top.st \in Inner /\ Top.val.t = "array"
        BY <2>1, TopFacts DEF Inner, InArray, FrameOK
    <2>3. Accepts(Top.val, AtIndex(Size(Top.val)))
        BY <2>2 DEF Accepts, AtIndex
    <2>4. CASE Token = "," /\ Descend(Top, AtIndex(Size(Top.val)), "separator", AfterToken)
        <3>1. AfterToken = cur + 1 /\ AfterToken \in 0 .. Len(doc)
            BY <2>1, <2>4, TokenFacts
        <3> QED
            BY <2>1, <2>3, <2>4, <3>1, DescendMoves, ArgsOK
    <2>5. CASE CloseContainer("ok")
        BY <2>1, <2>2, <2>5, ContainerMoves
    <2>6. CASE Recovering(TokenError)
        BY <2>1, <2>2, <2>6, ContainerMoves
    <2> QED
        BY <1>3, <2>4, <2>5, <2>6 DEF ReadSeparator, SkipComment
<1> QED
    BY <1>1, <1>2, <1>3 DEF ReadSeparator

\* Reading a member name.
LEMMA NameStepMoves ==
    ASSUME Shape, ReadName
    PROVE  Move
<1>1. CASE SkipComment("name")
    BY <1>1, TokenFacts DEF SkipComment, Reading, Move, Skipped
<1>2. CASE Reading("name") /\ ~ SkipComment("name")
    <2>1. /\ status = "reading" /\ ret = "none" /\ Top.st = "name" /\ CanRead
        BY <1>2 DEF Reading
    <2>2. Top.st \in Inner /\ Top.st \in InObject /\ Frame(Top)
        BY <2>1, TopFacts DEF Inner, InObject
    <2>3. CASE CloseContainer("ok") \/ Recovering(TokenError)
        BY <2>1, <2>2, <2>3, ContainerMoves
    <2>4. ASSUME nodes' = Replaced([Top EXCEPT !.name = NameOf(Lexeme).s, !.st = "colon"]),
                 cur' = AfterToken, UNCHANGED <<ret, errors>>
          PROVE  Move
        <3> DEFINE f == [Top EXCEPT !.name = NameOf(Lexeme).s, !.st = "colon"]
        <3>1. "colon" \in States
            BY DEF States, Inner, InObject
        <3>2. /\ Frame(f) /\ f.st = "colon" /\ f.arg = Top.arg /\ f.val = Top.val
              /\ f.start = Top.start /\ f.limit = Top.limit
            BY <2>2, <3>1 DEF Frame
        <3>3. nodes' = Replaced(f)
            BY <2>4
        <3> HIDE DEF f
        <3> QED
            BY <2>1, <2>2, <2>4, <3>2, <3>3, ObjectMoves
    <2>5. \/ CloseContainer("ok") \/ Recovering(TokenError)
          \/ /\ nodes' = Replaced([Top EXCEPT !.name = NameOf(Lexeme).s, !.st = "colon"])
             /\ cur' = AfterToken /\ UNCHANGED <<ret, errors>>
        BY <1>2 DEF ReadName
    <2> QED
        BY <2>3, <2>4, <2>5
<1> QED
    BY <1>1, <1>2 DEF ReadName

\* Reading the colon, where a duplicate name is rejected.
LEMMA ColonStepMoves ==
    ASSUME Shape, ReadColon
    PROVE  Move
<1>1. /\ status = "reading" /\ ret = "none" /\ Top.st = "colon" /\ CanRead
    BY DEF ReadColon, Reading
<1>2. Top.st \in Inner /\ Top.val.t = "object"
    BY <1>1, TopFacts DEF Inner, InObject, FrameOK
<1>3. Accepts(Top.val, AtKey(Top.name))
    BY <1>2 DEF Accepts, AtKey
<1>4. CASE Recovering(TokenError) \/ Recovering(Append(errors, ErrorAt(cur - 1, cur)))
    BY <1>1, <1>2, <1>4, ContainerMoves
<1>5. CASE Token = ":" /\ Descend(Top, AtKey(Top.name), "comma", AfterToken)
    <2>1. AfterToken = cur + 1 /\ AfterToken \in 0 .. Len(doc)
        BY <1>1, <1>5, TokenFacts
    <2> QED
        BY <1>1, <1>3, <1>5, <2>1, DescendMoves, ArgsOK
<1> QED
    BY <1>4, <1>5 DEF ReadColon

\* Reading what separates the members.
LEMMA CommaStepMoves ==
    ASSUME Shape, ReadComma
    PROVE  Move
<1>1. CASE SkipComment("afterComment")
    BY <1>1, TokenFacts DEF SkipComment, Reading, Move, Skipped
<1>2. CASE (Reading("comma") \/ Reading("afterComment")) /\ ~ SkipComment("afterComment")
    <2>1. /\ status = "reading" /\ ret = "none" /\ CanRead
          /\ Top.st \in {"comma", "afterComment"}
        BY <1>2 DEF Reading
    <2>2. Top.st \in Inner /\ Top.st \in InObject /\ Top.st # "recover" /\ Frame(Top)
        BY <2>1, TopFacts DEF Inner, InObject
    <2>3. CASE CloseContainer("ok") \/ Recovering(TokenError)
        BY <2>1, <2>2, <2>3, ContainerMoves
    <2>4. ASSUME NEW st \in {"name", "afterComment"},
                 nodes' = Replaced([Top EXCEPT !.st = st]),
                 cur' = AfterToken, UNCHANGED <<ret, errors>>
          PROVE  Move
        <3> DEFINE f == [Top EXCEPT !.st = st]
        <3>1. st \in States
            BY DEF States, Inner, InObject
        <3>2. /\ Frame(f) /\ f.st = st /\ f.arg = Top.arg /\ f.val = Top.val
              /\ f.start = Top.start /\ f.limit = Top.limit
            BY <2>2, <3>1 DEF Frame
        <3>3. nodes' = Replaced(f)
            BY <2>4
        <3> HIDE DEF f
        <3> QED
            BY <2>1, <2>2, <2>4, <3>2, <3>3, ObjectMoves
    <2>5. \/ CloseContainer("ok") \/ Recovering(TokenError)
          \/ \E st \in {"name", "afterComment"} :
                /\ nodes' = Replaced([Top EXCEPT !.st = st])
                /\ cur' = AfterToken /\ UNCHANGED <<ret, errors>>
        <3> DEFINE Goes(st) == /\ nodes' = Replaced([Top EXCEPT !.st = st])
                               /\ cur' = AfterToken /\ UNCHANGED <<ret, errors>>
        <3>1. \/ CloseContainer("ok") \/ Recovering(TokenError)
              \/ Goes("name") \/ Goes("afterComment")
            <4>1. CASE Token = ","
                BY <1>2, <4>1 DEF ReadComma
            <4>2. CASE Token # ","
                BY <1>2, <4>2 DEF ReadComma
            <4> QED
                BY <4>1, <4>2
        <3> QED
            BY <3>1
    <2> QED
        BY <2>3, <2>4, <2>5
<1> QED
    BY <1>1, <1>2 DEF ReadComma

\* recoverFromError skips tokens or closes the container.
LEMMA RecoverMoves ==
    ASSUME Shape, Recover
    PROVE  Move
<1>1. /\ status = "reading" /\ ret = "none" /\ Top.st = "recover" /\ CanRead
    BY DEF Recover, Reading
<1>2. Top.st \in Inner
    BY <1>1 DEF Inner
<1>3. CASE CloseContainer("fail")
    BY <1>1, <1>2, <1>3, ContainerMoves
<1>4. CASE cur' = AfterToken /\ UNCHANGED <<nodes, ret, errors>>
    BY <1>1, <1>4, TokenFacts DEF Move, Skipped
<1> QED
    BY <1>3, <1>4 DEF Recover

\* Every step of the reader is one of the moves.
LEMMA StepMoves ==
    ASSUME Shape, Step
    PROVE  /\ Move /\ status = "reading"
           /\ UNCHANGED <<features, doc, closed, spans, root, status>>
<1>1. Move
    BY ValueMoves, ArrayStepMoves, NameStepMoves, ColonStepMoves, CommaStepMoves,
       RecoverMoves DEF Step, ReaderStep
<1>2. status = "reading"
    BY DEF Step, ReaderStep, ReadValue, BeginArray, ReadSeparator, ReadName,
           ReadColon, ReadComma, Recover, SkipComment, Reading
<1> QED
    BY <1>1, <1>2 DEF Step

-----------------------------------------------------------------------------
(* The stack *)

\* A stack with a new top frame is a stack when that frame is one.
LEMMA RetopStack ==
    ASSUME NEW ns, NEW ms, NEW lim \in Nat, StackOK(ns, lim), Len(ns) \in Nat,
           Len(ns) > 0, NEW val, NEW st, NEW start, NEW limit,
           Retop(ns, ms, val, st, start, limit),
           st \in InArray => val.t = "array",
           st \in InObject => val.t = "object",
           st = "recover" => IsContainer(val),
           st = "first" => val = ArrayValue(<<>>),
           st \in Inner => Len(ns) <= lim,
           st = "trailer" => Len(ns) = 1
    PROVE  StackOK(ms, lim)
<1> DEFINE n == Len(ns)
<1>1. n \in Nat /\ n > 0 /\ n \in 1 .. n
    OBVIOUS
<1>2. /\ Sequence(ms) /\ Len(ms) = n /\ n <= lim + 1
      /\ \A i \in 1 .. n - 1 : ms[i] = ns[i]
      /\ Frame(ms[n]) /\ ms[n].arg = ns[n].arg /\ ms[n].val = val /\ ms[n].st = st
    BY DEF Retop, StackOK
<1>3. \A i \in 1 .. n : FrameOK(ns[i]) /\ (ns[i].st \in Inner => i <= lim)
                       /\ (ns[i].st = "trailer" => n = 1)
    BY DEF StackOK
<1>4. \A i \in 1 .. n - 1 : ns[i].st \in Waiting /\ Found(ns[i].val, ns[i + 1].arg)
    BY DEF StackOK
<1> HIDE DEF n
<1>5. FrameOK(ms[n])
    BY <1>1, <1>2, <1>3 DEF FrameOK
<1>6. ASSUME NEW i \in 1 .. n
      PROVE  /\ FrameOK(ms[i])
             /\ ms[i].st \in Inner => i <= lim
             /\ ms[i].st = "trailer" => n = 1
    <2>1. CASE i = n
        BY <1>2, <1>5, <2>1 DEF n
    <2>2. CASE i # n
        BY <1>1, <1>2, <1>3, <2>2
    <2> QED
        BY <2>1, <2>2
<1>7. ASSUME NEW i \in 1 .. n - 1
      PROVE  ms[i].st \in Waiting /\ Found(ms[i].val, ms[i + 1].arg)
    <2>1. ms[i] = ns[i]
        BY <1>2
    <2>2. ms[i + 1].arg = ns[i + 1].arg
        <3>1. i + 1 = n \/ i + 1 \in 1 .. n - 1
            BY <1>1
        <3> QED
            BY <1>2, <3>1
    <2> QED
        BY <1>4, <2>1, <2>2
<1> QED
    BY <1>2, <1>6, <1>7 DEF StackOK

\* A stack with one more frame is a stack: the container below it waits.
LEMMA PushStack ==
    ASSUME NEW ns, NEW ms, NEW lim \in Nat, StackOK(ns, lim), Len(ns) \in Nat,
           Len(ns) > 0, ns[Len(ns)].st \in {"first", "separator", "colon"},
           NEW a, ArgOK(a), NEW st, NEW span,
           st = (IF ns[Len(ns)].st = "colon" THEN "comma" ELSE "separator"),
           Push(ns, ms, a, st, span)
    PROVE  StackOK(ms, lim)
<1> DEFINE n == Len(ns)
<1>1. n \in Nat /\ n > 0 /\ n \in 1 .. n
    OBVIOUS
<1>2. /\ Sequence(ms) /\ Len(ms) = n + 1
      /\ \A i \in 1 .. n - 1 : ms[i] = ns[i]
      /\ Frame(ms[n]) /\ ms[n].arg = ns[n].arg
      /\ ms[n].val = Touch(ns[n].val, a) /\ ms[n].st = st
      /\ Frame(ms[n + 1]) /\ ms[n + 1].arg = a /\ ms[n + 1].st = "value"
    BY DEF Push
<1>3. \A i \in 1 .. n : FrameOK(ns[i]) /\ (ns[i].st \in Inner => i <= lim)
                       /\ (ns[i].st = "trailer" => n = 1)
    BY DEF StackOK
<1>4. \A i \in 1 .. n - 1 : ns[i].st \in Waiting /\ Found(ns[i].val, ns[i + 1].arg)
    BY DEF StackOK
<1>5. /\ ns[n].st \in {"first", "separator", "colon"}
      /\ st = IF ns[n].st = "colon" THEN "comma" ELSE "separator"
    OBVIOUS
<1> HIDE DEF n
<1>6. IsContainer(ns[n].val) /\ n <= lim /\ st \in Waiting
    BY <1>1, <1>3, <1>5 DEF FrameOK, InArray, InObject, Inner, IsContainer, Waiting
<1>7. Touch(ns[n].val, a).t = ns[n].val.t /\ Found(Touch(ns[n].val, a), a)
    BY <1>6, TouchFacts
<1>8. FrameOK(ms[n])
    <2>1. ArgOK(ms[n].arg) /\ Frame(ms[n])
        BY <1>1, <1>2, <1>3 DEF FrameOK
    <2>2. st = "comma" => ns[n].val.t = "object"
        BY <1>1, <1>3, <1>5 DEF FrameOK, InObject
    <2>3. st = "separator" => ns[n].val.t = "array"
        BY <1>1, <1>3, <1>5 DEF FrameOK, InArray
    <2> QED
        BY <1>2, <1>5, <1>7, <2>1, <2>2, <2>3 DEF FrameOK, InArray, InObject
<1>9. FrameOK(ms[n + 1])
    BY <1>2 DEF FrameOK, InArray, InObject
<1>10. ASSUME NEW i \in 1 .. n + 1
       PROVE  /\ FrameOK(ms[i])
              /\ ms[i].st \in Inner => i <= lim
              /\ ms[i].st = "trailer" => n + 1 = 1
    <2>1. CASE i = n
        BY <1>2, <1>5, <1>6, <1>8, <2>1
    <2>2. CASE i = n + 1
        BY <1>2, <1>9, <2>2 DEF Inner, InArray, InObject
    <2>3. CASE i \in 1 .. n - 1
        BY <1>1, <1>2, <1>3, <1>4, <2>3 DEF Waiting
    <2> QED
        BY <1>1, <2>1, <2>2, <2>3
<1>11. ASSUME NEW i \in 1 .. n
       PROVE  ms[i].st \in Waiting /\ Found(ms[i].val, ms[i + 1].arg)
    <2>1. CASE i = n
        BY <1>2, <1>6, <1>7, <2>1
    <2>2. CASE i \in 1 .. n - 1
        <3>1. i + 1 = n \/ i + 1 \in 1 .. n - 1
            BY <1>1, <2>2
        <3> QED
            BY <1>2, <1>4, <2>2, <3>1
    <2> QED
        BY <1>1, <2>1, <2>2
<1> QED
    BY <1>1, <1>2, <1>6, <1>10, <1>11 DEF StackOK

\* The errors after one more.
LEMMA OneMoreError ==
    ASSUME Shape, NEW b \in Int, NEW e \in Int,
           errors' = Append(errors, ErrorAt(b, e))
    PROVE  /\ Sequence(errors') /\ Len(errors') = Len(errors) + 1
           /\ errors' # <<>> /\ Len(errors) \in Nat
           /\ \A i \in 1 .. Len(errors) : errors'[i] = errors[i]
           /\ errors'[Len(errors) + 1] = ErrorAt(b, e)
           /\ \A i \in 1 .. Len(errors') : ErrorOK(errors'[i])
<1>1. Sequence(errors) /\ Len(errors) \in Nat /\ \A i \in 1 .. Len(errors) : ErrorOK(errors[i])
    BY SequenceFacts DEF Shape
<1>2. /\ Sequence(errors') /\ Len(errors') = Len(errors) + 1
      /\ \A i \in 1 .. Len(errors) : errors'[i] = errors[i]
      /\ errors'[Len(errors) + 1] = ErrorAt(b, e)
    BY <1>1, AppendFacts
<1>3. ErrorOK(ErrorAt(b, e))
    BY DEF ErrorOK, ErrorAt
<1>4. errors' # <<>>
    BY <1>1, <1>2, SequenceFacts
<1>5. \A i \in 1 .. Len(errors') : i \in 1 .. Len(errors) \/ i = Len(errors) + 1
    BY <1>1, <1>2
<1> QED
    BY <1>1, <1>2, <1>3, <1>4, <1>5

\* A move records at most one error, with offsets about the current position.
LEMMA MoveErrors ==
    ASSUME Shape, Move
    PROVE  \/ errors' = errors
           \/ \E b, e \in Int :
                 /\ errors' = Append(errors, ErrorAt(b, e))
                 /\ \/ b = cur /\ e = cur'
                    \/ b = cur - 1 /\ e = cur /\ Top.st \in Inner
<1>1. cur \in Int /\ cur' \in Int /\ cur - 1 \in Int
    BY DEF Shape, Move
<1>2. \/ errors' = errors
      \/ errors' = Append(errors, ErrorAt(cur, cur'))
      \/ errors' = Append(errors, ErrorAt(cur - 1, cur)) /\ Top.st \in Inner
    BY DEF Move, Opened, Completed, Failed, Skipped, Closed, Erred, Descended, Moved
<1> QED
    BY <1>1, <1>2

\* Every move leaves a stack, within the limit.
LEMMA MoveStack ==
    ASSUME Shape, status = "reading", Move, UNCHANGED features
    PROVE  StackOK(nodes', features'.stackLimit) /\ nodes' # <<>>
<1> DEFINE lim == features.stackLimit
<1>1. /\ lim \in Nat /\ StackOK(nodes, lim) /\ Len(nodes) \in Nat /\ Len(nodes) > 0
      /\ Top = nodes[Len(nodes)] /\ FrameOK(Top) /\ Len(nodes) \in 1 .. Len(nodes)
    BY TopFacts, SettingsAssumption DEF Shape
<1>2. Top.st \in Inner => Len(nodes) <= lim
    BY <1>1 DEF StackOK
<1> SUFFICES StackOK(nodes', lim) /\ nodes' # <<>>
    OBVIOUS
<1> HIDE DEF lim
<1>3. ASSUME StackOK(nodes', lim), Len(nodes') >= Len(nodes)
      PROVE  StackOK(nodes', lim) /\ nodes' # <<>>
    BY <1>1, <1>3, SequenceFacts DEF StackOK
<1>4. ASSUME NEW val, NEW st, NEW start, NEW limit,
             Retop(nodes, nodes', val, st, start, limit),
             st \in InArray => val.t = "array",
             st \in InObject => val.t = "object",
             st = "recover" => IsContainer(val),
             st = "first" => val = ArrayValue(<<>>),
             st \in Inner => Len(nodes) <= lim,
             st = "trailer" => Len(nodes) = 1
      PROVE  StackOK(nodes', lim) /\ nodes' # <<>>
    <2>1. StackOK(nodes', lim)
        BY <1>1, <1>4, RetopStack
    <2> QED
        BY <1>1, <1>3, <1>4, <2>1 DEF Retop
<1>5. CASE Opened
    <2>1. "first" \notin InObject /\ "name" \notin InArray /\ Len(nodes) <= lim
        BY <1>5 DEF InArray, InObject, Opened, lim
    <2>2. CASE Retop(nodes, nodes', ArrayValue(<<>>), "first", cur, Top.limit)
        BY <1>4, <2>1, <2>2 DEF ArrayValue
    <2>3. CASE Retop(nodes, nodes', ObjectValue(<<>>), "name", cur, Top.limit)
        BY <1>4, <2>1, <2>3 DEF ObjectValue
    <2> QED
        BY <1>5, <2>2, <2>3 DEF Opened
<1>6. "value" \notin Inner /\ "value" \notin InArray /\ "value" \notin InObject
    BY DEF Inner, InArray, InObject
<1>7. CASE Completed
    BY <1>4, <1>6, <1>7 DEF Completed
<1>8. CASE Failed
    <2>1. CASE nodes' = nodes
        BY <1>1, <1>3, <2>1
    <2>2. CASE Retop(nodes, nodes', Top.val, "value", cur, cur')
        BY <1>4, <1>6, <2>2
    <2> QED
        BY <1>8, <2>1, <2>2 DEF Failed
<1>9. CASE Skipped
    BY <1>1, <1>3, <1>9 DEF Skipped
<1>10. CASE Closed
    <2>1. Retop(nodes, nodes', Top.val, Top.st, Top.start, cur') /\ Top.st \in Inner
        BY <1>10 DEF Closed
    <2>2. Top.st # "trailer"
        BY <2>1 DEF Inner, InArray, InObject
    <2> QED
        BY <1>1, <1>2, <1>4, <2>1, <2>2 DEF FrameOK
<1>11. CASE Erred
    <2>1. /\ Retop(nodes, nodes', Top.val, "recover", Top.start, Top.limit)
          /\ Top.st \in Inner \ {"recover"}
        BY <1>11 DEF Erred
    <2>2. IsContainer(Top.val) /\ "recover" \notin InArray /\ "recover" \notin InObject
        BY <1>1, <2>1 DEF Inner, InArray, InObject, FrameOK, IsContainer
    <2> QED
        BY <1>2, <1>4, <2>1, <2>2
<1>12. CASE Descended
    <2>1. PICK a : /\ ArgOK(a) /\ Accepts(Top.val, a)
                   /\ Push(nodes, nodes', a,
                           IF Top.st = "colon" THEN "comma" ELSE "separator",
                           SpanOf(Append(Path(nodes), a)))
        BY <1>12 DEF Descended
    <2> DEFINE st == IF nodes[Len(nodes)].st = "colon" THEN "comma" ELSE "separator"
               span == SpanOf(Append(Path(nodes), a))
    <2>2. Push(nodes, nodes', a, st, span) /\ st = st
        BY <1>1, <2>1
    <2>3. nodes[Len(nodes)].st \in {"first", "separator", "colon"}
        BY <1>1, <1>12 DEF Descended
    <2> HIDE DEF span
    <2>4. StackOK(nodes', lim)
        BY <1>1, <2>1, <2>2, <2>3, PushStack
    <2> QED
        BY <1>1, <1>3, <2>2, <2>4 DEF Push
<1>13. CASE Moved
    <2>1. PICK s \in {"name", "colon", "afterComment"} :
             Retop(nodes, nodes', Top.val, s, Top.start, Top.limit)
        BY <1>13 DEF Moved
    <2>2. Top.st \in InObject /\ Top.val.t = "object" /\ Top.st \in Inner
        BY <1>1, <1>13 DEF Moved, FrameOK, Inner
    <2>3. s \notin InArray /\ s \in InObject
        BY DEF InArray, InObject
    <2> QED
        BY <1>2, <1>4, <2>1, <2>2, <2>3
<1> QED
    BY <1>5, <1>7, <1>8, <1>9, <1>10, <1>11, <1>12, <1>13 DEF Move

\* Every move keeps the shape of the parse state.
LEMMA MoveShape ==
    ASSUME Shape, status = "reading", Move,
           UNCHANGED <<features, doc, closed, spans, root, status>>
    PROVE  Shape'
<1>1. StackOK(nodes', features'.stackLimit) /\ nodes' # <<>>
    BY MoveStack
<1>2. Sequence(errors') /\ \A i \in 1 .. Len(errors') : ErrorOK(errors'[i])
    <2>1. CASE errors' = errors
        BY <2>1 DEF Shape
    <2>2. CASE errors' # errors
        BY <2>2, MoveErrors, OneMoreError
    <2> QED
        BY <2>1, <2>2
<1>3. ret' \in {"none", "ok", "fail"}
    BY DEF Move, Opened, Completed, Failed, Skipped, Closed, Erred, Descended, Moved
<1>4. cur' \in 0 .. Len(doc')
    BY DEF Move
<1> QED
    BY <1>1, <1>2, <1>3, <1>4 DEF Shape

-----------------------------------------------------------------------------
(* The verdict and the offsets *)

\* The top frame after it was replaced.
LEMMA TopNext ==
    ASSUME NEW val, NEW st, NEW start, NEW limit,
           Retop(nodes, nodes', val, st, start, limit)
    PROVE  Top'.val = val /\ Top'.st = st /\ Top'.start = start /\ Top'.limit = limit
BY DEF Top, Retop

\* A move that records no error: what is asked of the frame it leaves.
LEMMA QuietMove ==
    ASSUME Shape, Progress, status = "reading", ret = "none", errors' = errors,
           UNCHANGED status, ret' # "fail", Top'.st # "recover", Top.st # "recover",
           Top'.st = "trailer" => ret' # "none",
           ret' = "ok" /\ Top'.st = "value" => ~ IsContainer(Top'.val),
           ret' # "none" => Top'.start <= Top'.limit /\ Top'.limit <= cur'
    PROVE  Progress'
<1>1. errors = <<>> /\ \A i \in 1 .. Len(errors) : errors[i].by = "parse"
    BY DEF Progress, Failing
<1> QED
    BY <1>1 DEF Progress, Failing, Ended

\* A move that records an error, or goes on after one.
LEMMA FailingMove ==
    ASSUME Shape, Progress, status = "reading", Move, UNCHANGED status,
           ret' = "fail" \/ Top'.st = "recover", ret' # "ok",
           errors' # errors \/ Top.st = "recover",
           Top'.st # "trailer",
           ret' # "none" => Top'.start <= Top'.limit /\ Top'.limit <= cur'
    PROVE  Progress'
<1>1. errors' # <<>> /\ \A i \in 1 .. Len(errors') : errors'[i].by = "parse"
    <2>1. \A i \in 1 .. Len(errors) : errors[i].by = "parse"
        BY DEF Progress
    <2>2. CASE errors' = errors
        BY <2>1, <2>2 DEF Progress, Failing
    <2>3. CASE errors' # errors
        <3>1. PICK b \in Int, e \in Int : errors' = Append(errors, ErrorAt(b, e))
            BY <2>3, MoveErrors
        <3>2. /\ Len(errors') = Len(errors) + 1 /\ errors' # <<>> /\ Len(errors) \in Nat
              /\ \A i \in 1 .. Len(errors) : errors'[i] = errors[i]
              /\ errors'[Len(errors) + 1].by = "parse"
            BY <3>1, OneMoreError DEF ErrorAt
        <3>3. \A i \in 1 .. Len(errors') : i \in 1 .. Len(errors) \/ i = Len(errors) + 1
            BY <3>2
        <3> QED
            BY <2>1, <3>2, <3>3
    <2> QED
        BY <2>2, <2>3
<1> QED
    BY <1>1 DEF Progress, Failing, Ended

\* Every move keeps the trace of an error: what is returned, or the recovery.
LEMMA MoveProgress ==
    ASSUME Shape, Progress, Offsets, status = "reading", Move, UNCHANGED status
    PROVE  Progress'
<1>1. /\ Len(nodes) \in Nat /\ Len(nodes) \in 1 .. Len(nodes)
      /\ Top = nodes[Len(nodes)] /\ Top.start \in Int /\ Top.limit \in Int
      /\ cur \in Int /\ cur' \in Int /\ cur <= cur' /\ ret = "none"
    BY TopFacts DEF Shape, Move, Frame
<1>2. /\ Top.st = "value" => Top.start <= Top.limit /\ Top.limit <= cur
      /\ Top.st \in Inner => Top.start < cur
    BY <1>1 DEF Offsets
<1>3. Top.st # "trailer"
    BY <1>1 DEF Progress
<1>4. ASSUME NEW b, NEW e, errors' = Append(errors, ErrorAt(b, e)), b \in Int, e \in Int
      PROVE  errors' # errors
    BY <1>4, OneMoreError
<1>5. CASE Opened
    <2>1. /\ Top'.st \in {"first", "name"} /\ ret' = "none" /\ errors' = errors
          /\ Top.st = "value"
        BY <1>5, TopNext DEF Opened
    <2> QED
        BY <1>1, <2>1, QuietMove
<1>6. CASE Completed
    <2>1. PICK v, b : /\ ~ IsContainer(v)
                      /\ Retop(nodes, nodes', v, "value", b, cur')
                      /\ (b = cur /\ cur' = cur + 1) \/ (b = cur - 1 /\ cur' = cur)
        BY <1>6 DEF Completed
    <2>2. /\ Top'.val = v /\ Top'.st = "value" /\ Top'.start = b /\ Top'.limit = cur'
        BY <2>1, TopNext
    <2>3. Top'.start <= Top'.limit /\ Top'.limit <= cur'
        BY <1>1, <2>1, <2>2
    <2>4. ret' = "ok" /\ errors' = errors /\ Top.st = "value"
        BY <1>6 DEF Completed
    <2> QED
        BY <1>1, <2>1, <2>2, <2>3, <2>4, QuietMove
<1>7. CASE Failed
    <2>1. errors' # errors /\ ret' = "fail" /\ Top.st = "value"
        BY <1>1, <1>4, <1>7 DEF Failed
    <2>2. CASE nodes' = nodes
        <3>1. Top' = Top
            BY <2>2 DEF Top
        <3>2. Top'.start <= Top'.limit /\ Top'.limit <= cur' /\ Top'.st = "value"
            BY <1>1, <1>2, <2>1, <3>1
        <3> QED
            BY <2>1, <3>2, FailingMove
    <2>3. CASE Retop(nodes, nodes', Top.val, "value", cur, cur')
        <3>1. Top'.start = cur /\ Top'.limit = cur' /\ Top'.st = "value"
            BY <2>3, TopNext
        <3> QED
            BY <1>1, <2>1, <3>1, FailingMove
    <2> QED
        BY <1>7, <2>2, <2>3 DEF Failed
<1>8. CASE Skipped
    <2>1. Top' = Top /\ ret' = "none" /\ errors' = errors
        BY <1>8 DEF Skipped, Top
    <2>2. CASE Top.st = "recover"
        BY <2>1, <2>2, FailingMove
    <2>3. CASE Top.st # "recover"
        BY <1>1, <1>3, <2>1, <2>3, QuietMove
    <2> QED
        BY <2>2, <2>3
<1>9. CASE Closed
    <2>1. /\ Top'.st = Top.st /\ Top'.start = Top.start /\ Top'.limit = cur'
          /\ Top.st \in Inner /\ errors' = errors
          /\ ret' = IF Top.st = "recover" THEN "fail" ELSE "ok"
        BY <1>9, TopNext DEF Closed
    <2>2. Top'.start <= Top'.limit /\ Top'.limit <= cur'
        BY <1>1, <1>2, <2>1
    <2>3. Top'.st # "value" /\ Top'.st # "trailer"
        BY <2>1 DEF Inner, InArray, InObject
    <2>4. CASE Top.st = "recover"
        BY <2>1, <2>2, <2>3, <2>4, FailingMove
    <2>5. CASE Top.st # "recover"
        BY <1>1, <2>1, <2>2, <2>3, <2>5, QuietMove
    <2> QED
        BY <2>4, <2>5
<1>10. CASE Erred
    <2>1. Top'.st = "recover" /\ ret' = "none"
        BY <1>10, TopNext DEF Erred
    <2>2. errors' # errors
        BY <1>1, <1>4, <1>10 DEF Erred
    <2> QED
        BY <2>1, <2>2, FailingMove
<1>11. CASE Descended
    <2>1. Top'.st = "value"
        BY <1>1, <1>11 DEF Descended, Push, Top
    <2>2. /\ ret' = "none" /\ errors' = errors
          /\ Top.st \in {"first", "separator", "colon"}
        BY <1>11 DEF Descended
    <2> QED
        BY <1>1, <2>1, <2>2, QuietMove
<1>12. CASE Moved
    <2>1. /\ Top'.st \in {"name", "colon", "afterComment"} /\ ret' = "none"
          /\ errors' = errors /\ Top.st \in InObject
        BY <1>12, TopNext DEF Moved
    <2>2. Top.st # "recover"
        BY <2>1 DEF InObject
    <2> QED
        BY <1>1, <2>1, <2>2, QuietMove
<1> QED
    BY <1>5, <1>6, <1>7, <1>8, <1>9, <1>10, <1>11, <1>12 DEF Move

\* The offsets in a frame, at position c.
InText(f, low, c) ==
    /\ f.st = "value" => low <= f.start /\ f.start <= f.limit /\ f.limit <= c
    /\ f.st \in Inner => 0 <= f.start /\ f.start < c
    /\ f.st = "trailer" => low <= f.start

\* A move leaves all offsets within what has been read.
LEMMA MoveOffsets ==
    ASSUME Shape, Offsets, Progress, status = "reading", Move,
           UNCHANGED <<features, doc, spans>>
    PROVE  Offsets'
<1> DEFINE n == Len(nodes)
<1>1. /\ n \in Nat /\ n > 0 /\ n \in 1 .. n
      /\ Top = nodes[n] /\ Top.start \in Int /\ Top.limit \in Int
      /\ cur \in Int /\ cur' \in Int /\ cur' \in {cur, cur + 1} /\ 0 <= cur
      /\ cur <= cur' /\ ret = "none" /\ Len(doc) \in Int /\ cur <= Len(doc)
      /\ cur' <= Len(doc) /\ Len(errors) \in Nat
    BY TopFacts, SequenceFacts DEF Shape, Move, Frame
<1>2. Low \in Int /\ Low <= 0 /\ Low' = Low
    BY DEF Low
<1>3. Top.st # "trailer"
    BY <1>1 DEF Progress
<1>4. \A i \in 1 .. n : InText(nodes[i], Low, cur) /\ Frame(nodes[i])
    BY DEF Offsets, InText, Shape, StackOK, FrameOK
<1>5. ASSUME NEW f, Frame(f), InText(f, Low, cur)
      PROVE  InText(f, Low, cur')
    <2>1. f.start \in Int /\ f.limit \in Int
        BY <1>5 DEF Frame
    <2> QED
        BY <1>1, <1>2, <1>5, <2>1 DEF InText
<1>6. "value" \notin Inner /\ "trailer" \notin Inner
    BY DEF Inner, InArray, InObject
<1>7. \A q \in DOMAIN spans' :
         /\ Low' <= spans'[q][1] /\ spans'[q][1] <= spans'[q][2]
         /\ spans'[q][2] <= cur'
    BY <1>1, <1>2 DEF Offsets, Shape, SpansOK
<1>8. \A i \in 1 .. Len(errors') :
         /\ Low' <= errors'[i].start /\ errors'[i].start <= errors'[i].limit
         /\ errors'[i].by # "push" => errors'[i].limit <= Len(doc')
    <2>1. CASE errors' = errors
        BY <1>2, <2>1 DEF Offsets
    <2>2. CASE errors' # errors
        <3>1. PICK b \in Int, e \in Int :
                 /\ errors' = Append(errors, ErrorAt(b, e))
                 /\ \/ b = cur /\ e = cur'
                    \/ b = cur - 1 /\ e = cur /\ Top.st \in Inner
            BY <2>2, MoveErrors
        <3>2. /\ Len(errors') = Len(errors) + 1
              /\ \A i \in 1 .. Len(errors) : errors'[i] = errors[i]
              /\ errors'[Len(errors) + 1] = ErrorAt(b, e)
            BY <3>1, OneMoreError
        <3>3. Low <= b /\ b <= e /\ e <= Len(doc)
            <4>1. Top.st \in Inner => 0 <= Top.start /\ Top.start < cur
                BY <1>1, <1>4 DEF InText
            <4> QED
                BY <1>1, <1>2, <3>1, <4>1
        <3>4. ErrorAt(b, e).start = b /\ ErrorAt(b, e).limit = e
            BY DEF ErrorAt
        <3>5. \A i \in 1 .. Len(errors') : i \in 1 .. Len(errors) \/ i = Len(errors) + 1
            BY <1>1, <3>2
        <3> QED
            BY <1>2, <3>2, <3>3, <3>4, <3>5 DEF Offsets
    <2> QED
        BY <2>1, <2>2
<1>9. ASSUME NEW val, NEW st, NEW start, NEW limit,
             Retop(nodes, nodes', val, st, start, limit),
             st = "value" => Low <= start /\ start <= limit /\ limit <= cur',
             st \in Inner => 0 <= start /\ start < cur',
             st # "trailer"
      PROVE  \A i \in 1 .. Len(nodes') : InText(nodes'[i], Low, cur')
    <2>1. /\ Len(nodes') = n /\ \A i \in 1 .. n - 1 : nodes'[i] = nodes[i]
          /\ nodes'[n].st = st /\ nodes'[n].start = start /\ nodes'[n].limit = limit
        BY <1>9 DEF Retop
    <2>2. InText(nodes'[n], Low, cur')
        BY <1>9, <2>1 DEF InText
    <2>3. ASSUME NEW i \in 1 .. n
          PROVE  i = n \/ (i \in 1 .. n - 1 /\ i \in 1 .. n)
        BY <1>1
    <2> HIDE DEF n
    <2> QED
        BY <1>4, <1>5, <2>1, <2>2, <2>3
<1>10. ASSUME nodes' = nodes
       PROVE  \A i \in 1 .. Len(nodes') : InText(nodes'[i], Low, cur')
    BY <1>4, <1>5, <1>10
<1>11. Top.st = "value" => Low <= Top.start /\ Top.start <= Top.limit /\ Top.limit <= cur
    BY <1>1, <1>4 DEF InText
<1>12. Top.st \in Inner => 0 <= Top.start /\ Top.start < cur /\ Top.start < cur'
    BY <1>1, <1>4 DEF InText
<1>13. \A i \in 1 .. Len(nodes') : InText(nodes'[i], Low, cur')
    <2>1. CASE Opened
        <3>1. 0 <= cur /\ cur < cur' /\ "first" # "value"
            BY <1>1, <2>1 DEF Opened
        <3> QED
            BY <1>9, <2>1, <3>1 DEF Opened
    <2>2. CASE Completed
        <3>1. PICK v, b : /\ Retop(nodes, nodes', v, "value", b, cur')
                          /\ \/ b = cur /\ cur' = cur + 1
                             \/ /\ b = cur - 1 /\ cur' = cur
                                /\ features.allowDroppedNullPlaceholders
            BY <2>2 DEF Completed
        <3>2. Low <= b /\ b <= cur' /\ cur' <= cur'
            BY <1>1, <3>1 DEF Low
        <3> QED
            BY <1>6, <1>9, <3>1, <3>2
    <2>3. CASE Failed
        <3>1. Low <= cur /\ cur <= cur' /\ cur' <= cur'
            BY <1>1, <1>2
        <3> QED
            BY <1>6, <1>9, <1>10, <2>3, <3>1 DEF Failed
    <2>4. CASE Skipped
        BY <1>10, <2>4 DEF Skipped
    <2>5. CASE Closed
        <3>1. Retop(nodes, nodes', Top.val, Top.st, Top.start, cur') /\ Top.st \in Inner
            BY <2>5 DEF Closed
        <3> QED
            BY <1>6, <1>9, <1>12, <3>1
    <2>6. CASE Erred
        <3>1. /\ Retop(nodes, nodes', Top.val, "recover", Top.start, Top.limit)
              /\ Top.st \in Inner
            BY <2>6 DEF Erred
        <3> QED
            BY <1>6, <1>9, <1>12, <3>1
    <2>7. CASE Descended
        <3>1. PICK a : Push(nodes, nodes', a,
                            IF Top.st = "colon" THEN "comma" ELSE "separator",
                            SpanOf(Append(Path(nodes), a)))
            BY <2>7 DEF Descended
        <3> DEFINE span == SpanOf(Append(Path(nodes), a))
        <3>2. Low <= span[1] /\ span[1] <= span[2] /\ span[2] <= cur'
            BY <1>1, <1>2, <1>7 DEF SpanOf
        <3>3. /\ Len(nodes') = n + 1 /\ \A i \in 1 .. n - 1 : nodes'[i] = nodes[i]
              /\ nodes'[n].st \in {"comma", "separator"} /\ nodes'[n].start = nodes[n].start
              /\ nodes'[n + 1].st = "value" /\ nodes'[n + 1].start = span[1]
              /\ nodes'[n + 1].limit = span[2]
            BY <3>1 DEF Push
        <3> HIDE DEF span
        <3>4. Top.st \in Inner
            BY <2>7 DEF Descended, Inner, InArray, InObject
        <3>5. InText(nodes'[n], Low, cur')
            BY <1>1, <1>12, <3>3, <3>4 DEF InText
        <3>6. InText(nodes'[n + 1], Low, cur')
            BY <1>6, <3>2, <3>3 DEF InText
        <3>7. ASSUME NEW i \in 1 .. n + 1
              PROVE  i = n + 1 \/ i = n \/ (i \in 1 .. n - 1 /\ i \in 1 .. n)
            BY <1>1
        <3> HIDE DEF n
        <3> QED
            BY <1>4, <1>5, <3>3, <3>5, <3>6, <3>7
    <2>8. CASE Moved
        <3>1. PICK s \in {"name", "colon", "afterComment"} :
                 Retop(nodes, nodes', Top.val, s, Top.start, Top.limit)
            BY <2>8 DEF Moved
        <3>2. Top.st \in Inner
            BY <2>8 DEF Moved, Inner
        <3> QED
            BY <1>6, <1>9, <1>12, <3>1, <3>2
    <2> QED
        BY <2>1, <2>2, <2>3, <2>4, <2>5, <2>6, <2>7, <2>8 DEF Move
<1> QED
    BY <1>2, <1>7, <1>8, <1>13 DEF Offsets, InText

-----------------------------------------------------------------------------
(* The nesting of offsets *)

\* The facts about a stack the lemmas below need.
Stack(ns) == /\ Len(ns) \in Nat /\ Len(ns) > 0
             /\ \A i \in 1 .. Len(ns) : ns[i].start \in Int /\ ns[i].limit \in Int
             /\ \A i \in 1 .. Len(ns) - 1 : ns[i].st # "value"

\* The stack of a parse has these facts.
LEMMA StackFacts ==
    ASSUME NEW ns, NEW lim, StackOK(ns, lim), ns # <<>>
    PROVE  Stack(ns)
<1>1. Sequence(ns) /\ Len(ns) \in Nat /\ Len(ns) > 0
    BY SequenceFacts DEF StackOK
<1>2. \A i \in 1 .. Len(ns) : Frame(ns[i])
    BY DEF StackOK, FrameOK
<1>3. \A i \in 1 .. Len(ns) - 1 : ns[i].st # "value"
    BY DEF StackOK, Waiting
<1> QED
    BY <1>1, <1>2, <1>3 DEF Stack, Frame

\* An empty container has no entries, and neither has a scalar.
LEMMA NoEntries ==
    /\ \A a : ~ Has(ArrayValue(<<>>), a)
    /\ \A a : ~ Has(ObjectValue(<<>>), a)
    /\ \A v, a : ~ IsContainer(v) => ~ Has(v, a)
BY DEF Has, Found, Map, ArrayValue, ObjectValue

\* A move of the top frame keeps the nesting when it starts no earlier and is
\* not a container, an empty one or the one it was before.
LEMMA NestRetop ==
    ASSUME NEW ns, NEW ms, NEW sp, NEW r, NEW c \in Int, NEW r2, NEW c2 \in Int,
           NEW val, NEW st, NEW start, NEW limit,
           Stack(ns), Stack(ms), SpansOK(sp),
           Retop(ns, ms, val, st, start, limit), Nested(ns, sp, r, c),
           Base(ns, Len(ns), r, c) <= Base(ms, Len(ns), r2, c2),
           \/ st = "value"
           \/ \A a : ~ Has(val, a)
           \/ /\ ns[Len(ns)].st # "value" /\ val = ns[Len(ns)].val
              /\ start = ns[Len(ns)].start
              /\ Roof(ns, Len(ns), r, c) <= Roof(ms, Len(ns), r2, c2)
    PROVE  Nested(ms, sp, r2, c2)
<1> DEFINE n == Len(ns)
           Same == /\ ns[n].st # "value" /\ val = ns[n].val /\ start = ns[n].start
                   /\ Roof(ns, n, r, c) <= Roof(ms, n, r2, c2)
<1>1. /\ n \in Nat /\ n > 0 /\ Len(ms) = n
      /\ \A i \in 1 .. n - 1 : ms[i] = ns[i]
      /\ ms[n].arg = ns[n].arg /\ ms[n].val = val /\ ms[n].st = st
      /\ ms[n].start = start
    BY DEF Retop, Stack
<1>2. \A i \in 1 .. n : ms[i].arg = ns[i].arg
    BY <1>1
<1>3. /\ \A i \in 1 .. n : /\ ns[i].start \in Int /\ ns[i].limit \in Int
                           /\ ms[i].start \in Int /\ ms[i].limit \in Int
      /\ \A i \in 1 .. n - 1 : ns[i].st # "value"
    BY <1>1 DEF Stack
<1>4. st = "value" \/ (\A a : ~ Has(val, a)) \/ Same
    OBVIOUS
<1>5. Base(ns, n, r, c) <= Base(ms, n, r2, c2)
    OBVIOUS
<1>6. FramesNest(ns, r, c) /\ EntriesNest(ns, sp, r, c) /\ TreesNest(ns, sp)
      /\ SiblingsApart(ns, sp)
    BY DEF Nested
<1>7. \A q \in DOMAIN sp : sp[q][1] \in Int /\ sp[q][2] \in Int
    BY DEF SpansOK
<1>8. \A i \in 1 .. n : Base(ns, i, r, c) \in Int /\ Base(ms, i, r2, c2) \in Int
                        /\ Base(ns, i, r, c) <= Base(ms, i, r2, c2)
    <2> SUFFICES ASSUME NEW i \in 1 .. n
                 PROVE  /\ Base(ns, i, r, c) \in Int /\ Base(ms, i, r2, c2) \in Int
                        /\ Base(ns, i, r, c) <= Base(ms, i, r2, c2)
        OBVIOUS
    <2>1. Base(ns, i, r, c) \in Int /\ Base(ms, i, r2, c2) \in Int
        BY <1>3 DEF Base
    <2>2. CASE i = n
        BY <1>5, <2>1, <2>2
    <2>3. CASE i \in 1 .. n - 1
        BY <1>1, <1>3, <2>1, <2>3 DEF Base
    <2> QED
        BY <1>1, <2>2, <2>3
<1> HIDE DEF n, Same
<1>9. ASSUME NEW i \in 1 .. n, NEW q, Settled(ms, i, q)
      PROVE  Settled(ns, i, q) /\ (i = n => Same)
    <2>1. /\ i <= Len(q) /\ \A k \in 1 .. i - 1 : q[k] = ms[k + 1].arg
          /\ i < n => q[i] # ms[i + 1].arg
          /\ ms[i].st # "value" /\ Has(ms[i].val, q[i])
        BY <1>1, <1>9 DEF Settled
    <2>2. /\ \A k \in 1 .. i - 1 : q[k] = ns[k + 1].arg
          /\ i < n => q[i] # ns[i + 1].arg
        BY <1>1, <1>2, <2>1
    <2>3. i = n => Same
        BY <1>1, <1>4, <2>1
    <2>4. ns[i].st # "value" /\ Has(ns[i].val, q[i])
        <3>1. CASE i = n
            BY <1>1, <2>1, <2>3, <3>1 DEF Same
        <3>2. CASE i \in 1 .. n - 1
            BY <1>1, <2>1, <3>2
        <3> QED
            BY <1>1, <3>1, <3>2
    <2>5. Len(ns) = n
        BY DEF n
    <2> QED
        BY <2>1, <2>2, <2>3, <2>4, <2>5 DEF Settled
<1>10. FramesNest(ms, r2, c2)
    <2> SUFFICES ASSUME NEW i \in 1 .. n - 1
                 PROVE  ms[i].start <= Base(ms, i + 1, r2, c2)
        BY <1>1 DEF FramesNest
    <2>1. i \in 1 .. n /\ i + 1 \in 1 .. n
        BY <1>1
    <2>2. ns[i].start <= Base(ns, i + 1, r, c)
        BY <1>6 DEF FramesNest, n
    <2>3. ms[i] = ns[i] /\ ns[i].start \in Int
        BY <1>1, <1>3, <2>1
    <2>4. /\ Base(ns, i + 1, r, c) \in Int /\ Base(ms, i + 1, r2, c2) \in Int
          /\ Base(ns, i + 1, r, c) <= Base(ms, i + 1, r2, c2)
        BY <1>8, <2>1
    <2> QED
        BY <2>2, <2>3, <2>4
<1>11. EntriesNest(ms, sp, r2, c2)
    <2> SUFFICES ASSUME NEW i \in 1 .. n, NEW q \in DOMAIN sp, Settled(ms, i, q), Len(q) = i
                 PROVE  ms[i].start <= sp[q][1] /\ sp[q][2] <= Roof(ms, i, r2, c2)
        BY <1>1 DEF EntriesNest
    <2>1. Settled(ns, i, q) /\ (i = n => Same)
        BY <1>9
    <2>2. ns[i].start <= sp[q][1] /\ sp[q][2] <= Roof(ns, i, r, c)
        BY <1>6, <2>1 DEF EntriesNest, n
    <2>3. ms[i].start = ns[i].start
        BY <1>1, <2>1 DEF Same
    <2>4. Roof(ns, i, r, c) \in Int /\ Roof(ms, i, r2, c2) \in Int
          /\ Roof(ns, i, r, c) <= Roof(ms, i, r2, c2)
        <3>1. CASE i = n
            BY <1>1, <1>3, <2>1, <3>1 DEF Same, Roof, n
        <3>2. CASE i < n
            <4>1. i + 1 \in 1 .. n
                BY <1>1, <3>2
            <4> QED
                BY <1>1, <1>8, <3>2, <4>1 DEF Roof, n
        <3> QED
            BY <1>1, <3>1, <3>2
    <2> QED
        BY <1>7, <2>2, <2>3, <2>4
<1>12. TreesNest(ms, sp)
    BY <1>1, <1>6, <1>9 DEF TreesNest, n
<1>13. SiblingsApart(ms, sp)
    BY <1>1, <1>6, <1>9 DEF SiblingsApart, n
<1> QED
    BY <1>10, <1>11, <1>12, <1>13 DEF Nested

\* Pushing a frame for a slot keeps the nesting: what was read of the container
\* so far ended before the position the new value starts at.
LEMMA NestPush ==
    ASSUME NEW ns, NEW ms, NEW sp, NEW c \in Int, NEW c2 \in Int,
           NEW a, NEW st, NEW span, st # "value",
           Stack(ns), Stack(ms), SpansOK(sp), Push(ns, ms, a, st, span),
           Nested(ns, sp, "none", c),
           ns[Len(ns)].st # "value", ns[Len(ns)].start < c,
           IsContainer(ns[Len(ns)].val), ArgOK(a), Accepts(ns[Len(ns)].val, a),
           c2 = c + 1 \/ (c2 = c /\ \A b : ~ Has(ns[Len(ns)].val, b))
    PROVE  Nested(ms, sp, "none", c2)
<1> DEFINE n == Len(ns)
           v == ns[n].val
<1>1. /\ n \in Nat /\ n > 0 /\ Len(ms) = n + 1
      /\ \A i \in 1 .. n - 1 : ms[i] = ns[i]
      /\ ms[n].arg = ns[n].arg /\ ms[n].val = Touch(v, a) /\ ms[n].st = st
      /\ ms[n].start = ns[n].start
      /\ ms[n + 1].arg = a /\ ms[n + 1].st = "value"
    BY DEF Push, Stack
<1>2. \A i \in 1 .. n : ms[i].arg = ns[i].arg
    BY <1>1
<1>3. /\ \A i \in 1 .. n : ns[i].start \in Int /\ ns[i].limit \in Int
      /\ \A i \in 1 .. n : ns[i].st # "value" /\ ms[i].st # "value"
                           /\ ms[i].start = ns[i].start
    BY <1>1 DEF Stack
<1>4. \A q \in DOMAIN sp : /\ sp[q][1] \in Int /\ sp[q][2] \in Int /\ Len(q) \in Nat
                           /\ \A k \in 1 .. Len(q) : ArgOK(q[k])
    BY SequenceFacts DEF SpansOK
<1>5. ArgOK(a) /\ Accepts(v, a) /\ IsContainer(v) /\ ns[n].start < c
      /\ (c2 = c + 1 \/ (c2 = c /\ \A b : ~ Has(v, b)))
    OBVIOUS
<1>6. FramesNest(ns, "none", c) /\ EntriesNest(ns, sp, "none", c) /\ TreesNest(ns, sp)
      /\ SiblingsApart(ns, sp)
    BY DEF Nested
<1>7. /\ Touch(v, a).t = v.t
      /\ DOMAIN Map(Touch(v, a)) = DOMAIN Map(v) \cup {Slot(a)}
    BY <1>5, TouchFacts
<1> HIDE DEF n, v
<1>8. ASSUME NEW i \in 1 .. n + 1, NEW q \in DOMAIN sp, Settled(ms, i, q)
      PROVE  Settled(ns, i, q) /\ i \in 1 .. n
    <2>1. /\ i <= Len(q) /\ \A k \in 1 .. i - 1 : q[k] = ms[k + 1].arg
          /\ i < n + 1 => q[i] # ms[i + 1].arg
          /\ ms[i].st # "value" /\ Has(ms[i].val, q[i])
        BY <1>1, <1>8 DEF Settled
    <2>2. i \in 1 .. n
        BY <1>1, <2>1
    <2>3. /\ \A k \in 1 .. i - 1 : q[k] = ns[k + 1].arg
          /\ i < n => q[i] # ns[i + 1].arg
        BY <1>1, <1>2, <2>1, <2>2
    <2>4. Has(ns[i].val, q[i])
        <3>1. CASE i = n
            <4>1. q[n] # a /\ ArgOK(q[n]) /\ Has(Touch(v, a), q[n])
                BY <1>1, <1>4, <2>1, <3>1
            <4>2. Has(v, q[n])
                BY <1>5, <1>7, <4>1, OtherEntries
            <4> QED
                BY <3>1, <4>2 DEF v
        <3>2. CASE i \in 1 .. n - 1
            BY <1>1, <2>1, <3>2
        <3> QED
            BY <1>1, <2>2, <3>1, <3>2
    <2>5. Len(ns) = n
        BY DEF n
    <2> QED
        BY <1>3, <2>1, <2>2, <2>3, <2>4, <2>5 DEF Settled
<1>9. \A i \in 1 .. n : Base(ns, i, "none", c) = ns[i].start
                        /\ Base(ms, i, "none", c2) = ns[i].start
    BY <1>3 DEF Base
<1>10. Base(ms, n + 1, "none", c2) = c2 - 1
    BY <1>1 DEF Base
<1>11. FramesNest(ms, "none", c2)
    <2> SUFFICES ASSUME NEW i \in 1 .. n
                 PROVE  ms[i].start <= Base(ms, i + 1, "none", c2)
        BY <1>1 DEF FramesNest
    <2>1. CASE i = n
        BY <1>1, <1>3, <1>5, <1>10, <2>1
    <2>2. CASE i \in 1 .. n - 1
        <3>1. i + 1 \in 1 .. n /\ ns[i].start <= Base(ns, i + 1, "none", c)
            BY <1>1, <1>6, <2>2 DEF FramesNest, n
        <3> QED
            BY <1>3, <1>9, <3>1
    <2> QED
        BY <1>1, <2>1, <2>2
<1>12. EntriesNest(ms, sp, "none", c2)
    <2> SUFFICES ASSUME NEW i \in 1 .. n + 1, NEW q \in DOMAIN sp, Settled(ms, i, q),
                        Len(q) = i
                 PROVE  ms[i].start <= sp[q][1] /\ sp[q][2] <= Roof(ms, i, "none", c2)
        BY <1>1 DEF EntriesNest
    <2>1. Settled(ns, i, q) /\ i \in 1 .. n
        BY <1>8
    <2>2. ns[i].start <= sp[q][1] /\ sp[q][2] <= Roof(ns, i, "none", c)
        BY <1>6, <2>1 DEF EntriesNest, n
    <2>3. ms[i].start = ns[i].start
        BY <1>3, <2>1
    <2>4. CASE i = n
        <3>1. Has(v, q[n])
            BY <2>1, <2>4 DEF Settled, v
        <3>2. c2 = c + 1
            BY <1>5, <3>1
        <3>3. Roof(ns, i, "none", c) = c /\ Roof(ms, i, "none", c2) = c2 - 1
            BY <1>1, <1>10, <2>4 DEF Roof, n
        <3> QED
            BY <1>4, <2>2, <2>3, <3>2, <3>3
    <2>5. CASE i \in 1 .. n - 1
        <3>1. i + 1 \in 1 .. n /\ i < Len(ns) /\ i < Len(ms)
            BY <1>1, <2>5 DEF n
        <3>2. Roof(ns, i, "none", c) = Roof(ms, i, "none", c2)
            BY <1>9, <3>1 DEF Roof
        <3> QED
            BY <2>2, <2>3, <3>2
    <2> QED
        BY <1>1, <2>1, <2>4, <2>5
<1>13. TreesNest(ms, sp)
    BY <1>1, <1>6, <1>8 DEF TreesNest, n
<1>14. SiblingsApart(ms, sp)
    BY <1>1, <1>6, <1>8 DEF SiblingsApart, n
<1> QED
    BY <1>11, <1>12, <1>13, <1>14 DEF Nested

\* A move that records no error keeps the nesting; one that does has no claim
\* to it any more.
LEMMA MoveNesting ==
    ASSUME Shape, Progress, Offsets, Nesting, Shape', status = "reading", Move,
           UNCHANGED <<features, spans, status>>
    PROVE  Nesting'
<1> SUFFICES ASSUME Clean'
             PROVE  Nested(nodes', spans, ret', cur') /\ RootSpans(nodes', spans)
    BY DEF Nesting
<1> DEFINE n == Len(nodes)
<1>1. /\ n \in Nat /\ n > 0 /\ n \in 1 .. n
      /\ Top = nodes[n] /\ FrameOK(Top) /\ Frame(Top)
      /\ cur \in Int /\ cur' \in Int /\ cur' \in {cur, cur + 1} /\ ret = "none"
      /\ cur <= cur' /\ SpansOK(spans) /\ Top.start \in Int
    BY TopFacts DEF Shape, Move, Frame
<1>2. Stack(nodes) /\ Stack(nodes')
    BY StackFacts DEF Shape
<1>3. Top.st # "trailer" /\ ("trailer" \notin Inner) /\ ("value" \notin Inner)
    BY DEF Progress, Move, Inner, InArray, InObject
<1>4. errors' = errors
    <2> SUFFICES ASSUME errors' # errors
                 PROVE  FALSE
        OBVIOUS
    <2>1. PICK b \in Int, e \in Int : errors' = Append(errors, ErrorAt(b, e))
        BY MoveErrors
    <2>2. /\ Len(errors') = Len(errors) + 1 /\ Len(errors) \in Nat
          /\ errors'[Len(errors) + 1].by = "parse"
        BY <2>1, OneMoreError DEF ErrorAt
    <2>3. Len(errors) + 1 \in 1 .. Len(errors')
        BY <2>2
    <2> QED
        BY <2>2, <2>3 DEF Clean
<1>5. Nested(nodes, spans, "none", cur)
    <2>1. Clean
        BY <1>4 DEF Clean
    <2> QED
        BY <1>1, <2>1 DEF Nesting
<1>6. ASSUME Top'.st # "trailer"
      PROVE  RootSpans(nodes', spans)
    <2>1. nodes' # <<>> /\ nodes'[1].st = "trailer" => Len(nodes') = 1
        BY <1>2 DEF Shape, StackOK, Stack
    <2> QED
        BY <1>6, <2>1 DEF RootSpans, Top
<1>7. ASSUME NEW val, NEW st, NEW start, NEW limit,
             Retop(nodes, nodes', val, st, start, limit), st # "trailer",
             Base(nodes, n, "none", cur) <= Base(nodes', n, ret', cur'),
             \/ st = "value"
             \/ \A a : ~ Has(val, a)
             \/ /\ Top.st # "value" /\ val = Top.val /\ start = Top.start
                /\ Roof(nodes, n, "none", cur) <= Roof(nodes', n, ret', cur')
      PROVE  Nested(nodes', spans, ret', cur') /\ RootSpans(nodes', spans)
    <2>1. Nested(nodes', spans, ret', cur')
        BY <1>1, <1>2, <1>5, <1>7, NestRetop
    <2>2. Top'.st # "trailer"
        BY <1>7, TopNext
    <2> QED
        BY <1>6, <2>1, <2>2
<1>8. Top.st = "value" => Base(nodes, n, "none", cur) = cur - 1
    BY <1>1 DEF Base
<1>9. Top.st # "value" => Base(nodes, n, "none", cur) = Top.start
    BY <1>1 DEF Base
<1>10. Roof(nodes, n, "none", cur) = cur
    BY <1>1 DEF Roof
<1>11. ASSUME NEW val, NEW st, NEW start, NEW limit,
              Retop(nodes, nodes', val, st, start, limit)
       PROVE  /\ st # "value" \/ ret' # "none" => Base(nodes', n, ret', cur') = start
              /\ st = "value" /\ ret' = "none" => Base(nodes', n, ret', cur') = cur' - 1
              /\ Roof(nodes', n, ret', cur') = IF ret' = "none" THEN cur' ELSE limit
    <2>1. /\ Len(nodes') = n /\ nodes'[n].st = st /\ nodes'[n].start = start
          /\ nodes'[n].limit = limit
        BY <1>11 DEF Retop
    <2> QED
        BY <1>1, <2>1 DEF Base, Roof
<1> HIDE DEF n
<1>12. CASE Opened
    <2>1. Top.st = "value" /\ ret' = "none"
        BY <1>12 DEF Opened
    <2>2. CASE Retop(nodes, nodes', ArrayValue(<<>>), "first", cur, Top.limit)
        BY <1>1, <1>7, <1>8, <1>11, <2>1, <2>2, NoEntries
    <2>3. CASE Retop(nodes, nodes', ObjectValue(<<>>), "name", cur, Top.limit)
        BY <1>1, <1>7, <1>8, <1>11, <2>1, <2>3, NoEntries
    <2> QED
        BY <1>12, <2>2, <2>3 DEF Opened
<1>13. CASE Completed
    <2>1. PICK v, b : /\ Retop(nodes, nodes', v, "value", b, cur')
                      /\ b = cur \/ b = cur - 1
        BY <1>13 DEF Completed
    <2>2. Top.st = "value" /\ ret' = "ok"
        BY <1>13 DEF Completed
    <2> QED
        BY <1>1, <1>7, <1>8, <1>11, <2>1, <2>2
<1>14. CASE Failed
    <2>1. errors' # errors
        BY <1>1, <1>14, OneMoreError DEF Failed
    <2> QED
        BY <1>4, <2>1
<1>15. CASE Skipped
    <2>1. Retop(nodes, nodes', Top.val, Top.st, Top.start, Top.limit) /\ ret' = "none"
        BY <1>1, <1>15 DEF Skipped, Retop, n, Shape, StackOK
    <2> QED
        BY <1>1, <1>3, <1>7, <1>8, <1>9, <1>10, <1>11, <2>1
<1>16. CASE Closed
    <2>1. /\ Retop(nodes, nodes', Top.val, Top.st, Top.start, cur') /\ ret' # "none"
          /\ Top.st \in Inner
        BY <1>16 DEF Closed
    <2> QED
        BY <1>1, <1>3, <1>7, <1>9, <1>10, <1>11, <2>1
<1>17. CASE Erred
    <2>1. errors' # errors
        BY <1>1, <1>17, OneMoreError DEF Erred
    <2> QED
        BY <1>4, <2>1
<1>18. CASE Descended
    <2> DEFINE st == IF Top.st = "colon" THEN "comma" ELSE "separator"
    <2>1. PICK a : /\ ArgOK(a) /\ Accepts(Top.val, a)
                   /\ Push(nodes, nodes', a, st, SpanOf(Append(Path(nodes), a)))
        BY <1>18 DEF Descended
    <2> DEFINE span == SpanOf(Append(Path(nodes), a))
    <2>2. st # "value" /\ Push(nodes, nodes', a, st, span) /\ ret' = "none"
        BY <1>18, <2>1 DEF Descended
    <2>3. Top.st \in {"first", "separator", "colon"} /\ (cur' = cur + 1 \/ Top.st = "first")
        BY <1>18 DEF Descended
    <2>4. /\ Top.st \in Inner /\ IsContainer(Top.val)
          /\ Top.st = "first" => Top.val = ArrayValue(<<>>)
        BY <1>1, <2>3 DEF FrameOK, Inner, InArray, InObject, IsContainer
    <2>5. Top.start < cur
        BY <1>1, <2>4 DEF Offsets, n
    <2>6. cur' = cur + 1 \/ (cur' = cur /\ \A b : ~ Has(Top.val, b))
        BY <1>1, <2>3, <2>4, NoEntries
    <2>7. Top'.st = "value"
        BY <1>1, <2>1 DEF Push, Top
    <2> HIDE DEF st, span
    <2>8. Nested(nodes', spans, "none", cur')
        <3>1. /\ nodes[Len(nodes)].st # "value" /\ nodes[Len(nodes)].start < cur
              /\ IsContainer(nodes[Len(nodes)].val) /\ Accepts(nodes[Len(nodes)].val, a)
              /\ cur' = cur + 1 \/ (cur' = cur /\ \A b : ~ Has(nodes[Len(nodes)].val, b))
            BY <1>1, <1>3, <2>1, <2>4, <2>5, <2>6 DEF n
        <3> QED
            BY <1>1, <1>2, <1>5, <2>1, <2>2, <3>1, NestPush
    <2> QED
        BY <1>6, <2>2, <2>7, <2>8
<1>19. CASE Moved
    <2>1. PICK s \in {"name", "colon", "afterComment"} :
             Retop(nodes, nodes', Top.val, s, Top.start, Top.limit)
        BY <1>19 DEF Moved
    <2>2. Top.st \in Inner /\ ret' = "none"
        BY <1>19 DEF Moved, Inner
    <2> QED
        BY <1>1, <1>3, <1>7, <1>9, <1>10, <1>11, <2>1, <2>2
<1> QED
    BY <1>12, <1>13, <1>14, <1>15, <1>16, <1>17, <1>18, <1>19 DEF Move

\* Every step of a read keeps the invariant.
LEMMA StepInv ==
    ASSUME JInv, Step
    PROVE  JInv'
<1>1. /\ Shape /\ Progress /\ Offsets /\ Nesting /\ Move /\ status = "reading"
      /\ UNCHANGED <<features, doc, closed, spans, root, status>>
    BY StepMoves DEF JInv
<1>2. Shape' /\ Progress' /\ Offsets'
    BY <1>1, MoveShape, MoveProgress, MoveOffsets
<1>3. Nesting'
    BY <1>1, <1>2, MoveNesting
<1> QED
    BY <1>2, <1>3 DEF JInv

-----------------------------------------------------------------------------
(* The return of readValue *)

Under(p, q) == Len(p) < Len(q) /\ \A k \in 1 .. Len(p) : p[k] = q[k]

\* The path of the top frame.
PathTo(ns, p) == /\ Sequence(p) /\ Len(p) = Len(ns) - 1
                 /\ \A k \in 1 .. Len(p) : p[k] = ns[k + 1].arg

\* The spans sp2 are sp with the span of the top frame's value, at path p, from
\* which go those of entries this value does not have.
Respan(ns, sp, sp2, p) ==
    /\ p \in DOMAIN sp2 /\ sp2[p] = <<ns[Len(ns)].start, ns[Len(ns)].limit>>
    /\ \A q \in DOMAIN sp2 : q # p =>
          /\ q \in DOMAIN sp /\ sp2[q] = sp[q]
          /\ Under(p, q) => Has(ns[Len(ns)].val, q[Len(ns)])

\* The stack ms is ns without its top frame, the value of which is stored.
Pop(ns, ms, st) ==
    /\ Sequence(ms) /\ Len(ms) = Len(ns) - 1
    /\ \A i \in 1 .. Len(ns) - 2 : ms[i] = ns[i]
    /\ Frame(ms[Len(ns) - 1]) /\ ms[Len(ns) - 1].arg = ns[Len(ns) - 1].arg
    /\ ms[Len(ns) - 1].val =
          Store(ns[Len(ns) - 1].val, ns[Len(ns)].arg, ns[Len(ns)].val)
    /\ ms[Len(ns) - 1].st = st /\ ms[Len(ns) - 1].start = ns[Len(ns) - 1].start

\* What Return does to the spans.
LEMMA ReturnSpans ==
    ASSUME Shape, Return
    PROVE  \E p : /\ p = Path(nodes) /\ PathTo(nodes, p)
                  /\ Respan(nodes, spans, spans', p) /\ SpansOK(spans')
<1> DEFINE n == Len(nodes)
           p == Path(nodes)
<1>1. /\ n \in Nat /\ n > 0 /\ Top = nodes[n] /\ Frame(Top)
      /\ \A i \in 1 .. n : ArgOK(nodes[i].arg)
    BY TopFacts DEF Return, Shape, StackOK, FrameOK
<1>2. PathTo(nodes, p)
    <2>1. n - 1 \in Nat /\ p = [k \in 1 .. n - 1 |-> nodes[k + 1].arg]
        BY <1>1 DEF Path
    <2> HIDE DEF n, p
    <2>2. p = [k \in 1 .. n - 1 |-> p[k]] /\ \A k \in 1 .. n - 1 : p[k] = nodes[k + 1].arg
        BY <2>1
    <2>3. Sequence(p) /\ Len(p) = n - 1
        BY <2>1, <2>2, FunctionIsSequence
    <2> QED
        BY <2>2, <2>3 DEF PathTo, n
<1> DEFINE Inside(q) == /\ IsContainer(Top.val)
                        /\ Accepts(Top.val, q[Len(p) + 1])
                        /\ Found(Top.val, q[Len(p) + 1])
           kept == {q \in DOMAIN spans : ~ IsPrefix(p, q) \/ (q # p /\ Inside(q))}
<1>3. spans' = [q \in kept \cup {p} |->
                  IF q = p THEN <<Top.start, Top.limit>> ELSE spans[q]]
    BY DEF Return
<1> HIDE DEF p
<1>4. \A q \in kept : q \in DOMAIN spans /\ (~ IsPrefix(p, q) \/ (q # p /\ Inside(q)))
    OBVIOUS
<1> HIDE DEF kept
<1>5. /\ DOMAIN spans' = kept \cup {p} /\ spans'[p] = <<Top.start, Top.limit>>
      /\ \A q \in kept : q # p => spans'[q] = spans[q]
    BY <1>3
<1>6. Len(p) + 1 = n /\ Sequence(p)
    BY <1>1, <1>2 DEF PathTo
<1>7. Respan(nodes, spans, spans', p)
    <2> SUFFICES ASSUME NEW q \in DOMAIN spans', q # p
                 PROVE  /\ q \in DOMAIN spans /\ spans'[q] = spans[q]
                        /\ Under(p, q) => Has(Top.val, q[n])
        BY <1>1, <1>5 DEF Respan
    <2>1. q \in kept
        BY <1>5
    <2>2. q \in DOMAIN spans /\ spans'[q] = spans[q]
        BY <1>4, <1>5, <2>1
    <2>3. ASSUME Under(p, q)
          PROVE  Has(Top.val, q[n])
        <3>1. Sequence(q) /\ Len(q) \in Nat /\ Len(p) \in Nat
            BY <1>6, <2>2, SequenceFacts DEF Shape, SpansOK
        <3>2. Len(p) <= Len(q) /\ \A k \in 1 .. Len(p) : p[k] = q[k]
            BY <2>3, <3>1 DEF Under
        <3>3. IsPrefix(p, q)
            BY <1>6, <3>1, <3>2, PrefixFacts
        <3>4. Inside(q)
            BY <1>4, <2>1, <3>3
        <3> QED
            BY <1>6, <3>4 DEF Has
    <2> QED
        BY <2>2, <2>3
<1>8. SpansOK(spans')
    <2>1. \A k \in 1 .. Len(p) : ArgOK(p[k])
        <3> SUFFICES ASSUME NEW k \in 1 .. Len(p)
                     PROVE  ArgOK(p[k])
            OBVIOUS
        <3>1. k + 1 \in 1 .. n /\ p[k] = nodes[k + 1].arg
            BY <1>1, <1>2, <1>6 DEF PathTo
        <3> QED
            BY <1>1, <3>1
    <2>2. Top.start \in Int /\ Top.limit \in Int
        BY <1>1 DEF Frame
    <2> QED
        BY <1>4, <1>5, <1>6, <2>1, <2>2 DEF Shape, SpansOK
<1> QED
    BY <1>2, <1>7, <1>8 DEF p

\* What Return does to a stack of several frames.
LEMMA ReturnPops ==
    ASSUME Shape, Return, Len(nodes) # 1
    PROVE  /\ Len(nodes) > 1
           /\ Pop(nodes, nodes', IF ret = "ok" THEN nodes[Len(nodes) - 1].st
                                               ELSE "recover")
           /\ ret' = "none"
<1> DEFINE n == Len(nodes)
           m == n - 1
           below == SubSeq(nodes, 1, n - 1)
           st == IF ret = "ok" THEN nodes[m].st ELSE "recover"
<1>1. /\ n \in Nat /\ n > 1 /\ Top = nodes[n] /\ Sequence(nodes)
      /\ m \in 1 .. n /\ Frame(nodes[m])
    <2>1. status = "reading"
        BY DEF Return
    <2>2. n \in Nat /\ n > 1 /\ Top = nodes[n] /\ Sequence(nodes)
        <3>1. n \in Nat /\ n > 0 /\ Top = nodes[n] /\ Sequence(nodes)
            BY <2>1, TopFacts
        <3> QED
            BY <3>1
    <2>3. m \in 1 .. n /\ \A i \in 1 .. n : Frame(nodes[i])
        BY <2>2 DEF Shape, StackOK, FrameOK
    <2> QED
        BY <2>2, <2>3
<1>2. /\ Sequence(below) /\ Len(below) = m
      /\ \A i \in 1 .. m : below[i] = nodes[i]
    <2>1. below = SubSeq(nodes, 1, Len(nodes) - 1)
        OBVIOUS
    <2>2. Sequence(nodes) /\ Len(nodes) > 0
        BY <1>1
    <2> HIDE DEF below
    <2>3. /\ Sequence(below) /\ Len(below) = Len(nodes) - 1
          /\ \A i \in 1 .. Len(nodes) - 1 : below[i] = nodes[i]
        BY <2>1, <2>2, PopFacts
    <2> QED
        BY <2>3
<1> DEFINE f == [below[Len(below)] EXCEPT
                    !.val = Store(below[Len(below)].val, Top.arg, Top.val),
                    !.st = IF ret = "ok" THEN below[Len(below)].st ELSE "recover"]
<1>3. nodes' = [below EXCEPT ![Len(below)] = f] /\ ret' = "none"
    BY <1>1 DEF Return
<1>4. below[Len(below)] = nodes[m]
    BY <1>1, <1>2
<1>5. /\ Frame(f) /\ f.arg = nodes[m].arg
      /\ f.val = Store(nodes[m].val, nodes[n].arg, nodes[n].val)
      /\ f.st = st /\ f.start = nodes[m].start
    BY <1>1, <1>4 DEF Frame, States, Inner
<1> HIDE DEF f, below, st
<1>6. /\ Sequence(nodes') /\ Len(nodes') = m /\ nodes'[m] = f
      /\ \A i \in 1 .. m - 1 : nodes'[i] = below[i]
    <2>1. Len(below) > 0
        BY <1>1, <1>2
    <2>2. below = [i \in DOMAIN below |-> below[i]] /\ Len(below) \in DOMAIN below
        BY <1>2, <2>1, SequenceFacts
    <2>3. /\ nodes' = [i \in DOMAIN below |-> nodes'[i]] /\ nodes'[Len(below)] = f
          /\ \A i \in DOMAIN below : i # Len(below) => nodes'[i] = below[i]
        BY <1>3, <2>2
    <2>4. /\ Sequence(nodes') /\ Len(nodes') = Len(below) /\ nodes'[Len(below)] = f
          /\ \A i \in 1 .. Len(below) - 1 : nodes'[i] = below[i]
        BY <1>2, <2>1, <2>3, ReplaceFacts
    <2> QED
        BY <1>2, <2>4
<1>7. \A i \in 1 .. n - 2 : nodes'[i] = nodes[i]
    <2>1. \A i \in 1 .. n - 2 : i \in 1 .. m - 1 /\ i \in 1 .. m
        BY <1>1
    <2> QED
        BY <1>2, <1>6, <2>1
<1> QED
    BY <1>1, <1>3, <1>5, <1>6, <1>7 DEF Pop, st

\* A popped stack is a stack.
LEMMA PopStack ==
    ASSUME NEW ns, NEW ms, NEW lim \in Nat, StackOK(ns, lim), Len(ns) \in Nat,
           Len(ns) > 1, NEW st \in {ns[Len(ns) - 1].st, "recover"}, Pop(ns, ms, st)
    PROVE  StackOK(ms, lim) /\ ms # <<>>
<1> DEFINE n == Len(ns)
           m == n - 1
<1>1. n \in Nat /\ n > 1 /\ m \in 1 .. n /\ m \in 1 .. n - 1 /\ n - 2 = m - 1
    OBVIOUS
<1>2. /\ Sequence(ms) /\ Len(ms) = m
      /\ \A i \in 1 .. m - 1 : ms[i] = ns[i]
      /\ Frame(ms[m]) /\ ms[m].arg = ns[m].arg
      /\ ms[m].val = Store(ns[m].val, ns[n].arg, ns[n].val) /\ ms[m].st = st
    BY <1>1 DEF Pop
<1>3. \A i \in 1 .. n : /\ FrameOK(ns[i])
                        /\ ns[i].st \in Inner => i <= lim
    BY DEF StackOK
<1>4. \A i \in 1 .. n - 1 : ns[i].st \in Waiting /\ Found(ns[i].val, ns[i + 1].arg)
    BY DEF StackOK
<1>5. ns[m].st \in Waiting /\ st \in {ns[m].st, "recover"} /\ FrameOK(ns[m])
    BY <1>1, <1>3, <1>4
<1> HIDE DEF n, m
<1>6. /\ IsContainer(ns[m].val) /\ ns[m].st \in Inner
      /\ ns[m].st = "separator" => ns[m].val.t = "array"
      /\ ns[m].st = "comma" => ns[m].val.t = "object"
    BY <1>5 DEF FrameOK, InArray, InObject, Inner, IsContainer, Waiting
<1>7. ms[m].val.t = ns[m].val.t
    <2>1. Store(ns[m].val, ns[n].arg, ns[n].val).t = ns[m].val.t
        BY <1>6, StoreFacts
    <2> QED
        BY <1>2, <2>1
<1>8. FrameOK(ms[m]) /\ st # "trailer"
    BY <1>2, <1>5, <1>6, <1>7 DEF FrameOK, InArray, InObject, IsContainer, Waiting
<1>9. m <= lim
    BY <1>1, <1>3, <1>6
<1>10. ASSUME NEW i \in 1 .. m
       PROVE  /\ FrameOK(ms[i])
              /\ ms[i].st \in Inner => i <= lim
              /\ ms[i].st = "trailer" => m = 1
    <2>1. CASE i = m
        BY <1>2, <1>8, <1>9, <2>1
    <2>2. CASE i \in 1 .. m - 1
        <3>1. i \in 1 .. n /\ i \in 1 .. n - 1 /\ ms[i] = ns[i]
            BY <1>1, <1>2, <2>2
        <3> QED
            BY <1>3, <1>4, <3>1 DEF Waiting
    <2> QED
        BY <1>1, <2>1, <2>2
<1>11. ASSUME NEW i \in 1 .. m - 1
       PROVE  ms[i].st \in Waiting /\ Found(ms[i].val, ms[i + 1].arg)
    <2>1. i \in 1 .. n - 1 /\ ms[i] = ns[i] /\ (i + 1 \in 1 .. m - 1 \/ i + 1 = m)
        BY <1>1, <1>2
    <2>2. ms[i + 1].arg = ns[i + 1].arg
        BY <1>2, <2>1
    <2> QED
        BY <1>4, <2>1, <2>2
<1>12. m <= lim + 1 /\ m \in Nat /\ m > 0
    BY <1>1, <1>9
<1>13. ms # <<>>
    BY <1>2, <1>12, SequenceFacts
<1> QED
    BY <1>2, <1>10, <1>11, <1>12, <1>13 DEF StackOK

\* What is settled after a return: the value returned, what it holds, and what
\* was settled in the containers below it.
LEMMA PopSettled ==
    ASSUME NEW ns, NEW ms, NEW sp, NEW sp2, NEW p, NEW st,
           Stack(ns), SpansOK(sp), Len(ns) > 1, PathTo(ns, p),
           Respan(ns, sp, sp2, p), Pop(ns, ms, st),
           IsContainer(ns[Len(ns) - 1].val),
           Found(ns[Len(ns) - 1].val, ns[Len(ns)].arg),
           ns[Len(ns)].st = "value" => ~ IsContainer(ns[Len(ns)].val),
           NEW i \in 1 .. Len(ms), NEW q \in DOMAIN sp2, Settled(ms, i, q)
    PROVE  \/ q = p
           \/ /\ q # p /\ q \in DOMAIN sp /\ sp2[q] = sp[q] /\ Len(q) >= Len(ns)
              /\ Settled(ns, Len(ns), q) /\ i = Len(ns) - 1
           \/ /\ q # p /\ q \in DOMAIN sp /\ sp2[q] = sp[q] /\ i \in 1 .. Len(ns) - 1
              /\ Settled(ns, i, q) /\ q[i] # p[i]
<1> DEFINE n == Len(ns)
           m == n - 1
<1>1. /\ n \in Nat /\ n > 1 /\ Len(ms) = m /\ n - 2 = m - 1
      /\ \A k \in 1 .. m - 1 : ms[k] = ns[k]
      /\ ms[m].arg = ns[m].arg
      /\ ms[m].val = Store(ns[m].val, ns[n].arg, ns[n].val)
    BY DEF Pop, Stack
<1>2. /\ Sequence(p) /\ Len(p) = m /\ \A k \in 1 .. m : p[k] = ns[k + 1].arg
    BY DEF PathTo
<1>3. /\ \A k \in 1 .. m : ns[k].st # "value"
      /\ ns[n].st = "value" => ~ IsContainer(ns[n].val)
    BY DEF Stack
<1>4. \A x \in DOMAIN sp2 : x # p =>
         /\ x \in DOMAIN sp /\ sp2[x] = sp[x]
         /\ Under(p, x) => Has(ns[n].val, x[n])
    BY DEF Respan
<1>5. IsContainer(ns[m].val) /\ Found(ns[m].val, ns[n].arg) /\ Len(ns) = n
    OBVIOUS
<1>6. \A x \in DOMAIN sp : Sequence(x) /\ Len(x) \in Nat
    BY SequenceFacts DEF SpansOK
<1> HIDE DEF n, m
<1>7. i \in 1 .. m /\ m \in Nat /\ m > 0 /\ n = m + 1
    BY <1>1 DEF m
<1>8. /\ i <= Len(q) /\ \A k \in 1 .. i - 1 : q[k] = ms[k + 1].arg
      /\ i < m => q[i] # ms[i + 1].arg
      /\ Has(ms[i].val, q[i])
    BY <1>1 DEF Settled
<1>9. \A k \in 1 .. m : ms[k].arg = ns[k].arg
    <2>1. \A k \in 1 .. m : k = m \/ k \in 1 .. m - 1
        BY <1>7
    <2> QED
        BY <1>1, <2>1
<1>10. /\ \A k \in 1 .. i - 1 : q[k] = p[k] /\ q[k] = ns[k + 1].arg
       /\ i < m => q[i] # p[i]
    <2>1. \A k \in 1 .. i - 1 : k + 1 \in 1 .. m /\ k \in 1 .. m
        BY <1>7
    <2>2. i < m => i + 1 \in 1 .. m
        BY <1>7
    <2> QED
        BY <1>2, <1>7, <1>8, <1>9, <2>1, <2>2
<1> SUFFICES ASSUME q # p
             PROVE  \/ Len(q) >= n /\ Settled(ns, n, q) /\ i = m
                    \/ Settled(ns, i, q) /\ q[i] # p[i]
    BY <1>4, <1>5, <1>7 DEF m
<1>11. q \in DOMAIN sp /\ Sequence(q) /\ Len(q) \in Nat
    BY <1>4, <1>6
<1>12. CASE q[i] = p[i]
    <2>1. i = m
        BY <1>7, <1>10, <1>12
    <2>2. \A k \in 1 .. m : q[k] = p[k]
        <3>1. \A k \in 1 .. m : k = i \/ k \in 1 .. i - 1
            BY <1>7, <2>1
        <3> QED
            BY <1>10, <1>12, <3>1
    <2>3. Len(q) > m
        <3>1. Len(q) # m
            <4> SUFFICES ASSUME Len(q) = m
                         PROVE  FALSE
                OBVIOUS
            <4>1. q = p
                BY <1>2, <1>11, <2>2, SameSequence
            <4> QED
                BY <4>1
        <3> QED
            BY <1>7, <1>8, <1>11, <2>1, <3>1
    <2>4. Under(p, q)
        BY <1>2, <2>2, <2>3 DEF Under
    <2>5. Has(ns[n].val, q[n])
        BY <1>4, <2>4
    <2>6. ns[n].st # "value"
        BY <1>3, <2>5 DEF Has
    <2>7. \A k \in 1 .. n - 1 : q[k] = ns[k + 1].arg
        BY <1>2, <1>7, <2>2
    <2>8. Settled(ns, n, q)
        BY <1>1, <1>5, <1>7, <1>11, <2>3, <2>5, <2>6, <2>7 DEF Settled
    <2> QED
        BY <1>7, <1>11, <2>1, <2>3, <2>8
<1>13. CASE q[i] # p[i]
    <2>1. q[i] # ns[i + 1].arg
        BY <1>2, <1>7, <1>13
    <2>2. Has(ns[i].val, q[i])
        <3>1. CASE i = m
            <4>1. Has(Store(ns[m].val, ns[n].arg, ns[n].val), q[m])
                BY <1>1, <1>8, <3>1
            <4>2. /\ Store(ns[m].val, ns[n].arg, ns[n].val).t = ns[m].val.t
                  /\ DOMAIN Map(Store(ns[m].val, ns[n].arg, ns[n].val)) =
                        DOMAIN Map(ns[m].val) \cup {Slot(ns[n].arg)}
                BY <1>5, StoreFacts
            <4>3. Has(ns[m].val, q[m])
                BY <1>5, <4>1, <4>2, OtherEntries
            <4> QED
                BY <3>1, <4>3
        <3>2. CASE i \in 1 .. m - 1
            BY <1>1, <1>8, <3>2
        <3> QED
            BY <1>7, <3>1, <3>2
    <2>3. i \in 1 .. n
        BY <1>7
    <2>4. Settled(ns, i, q)
        BY <1>3, <1>5, <1>7, <1>8, <1>10, <2>1, <2>2, <2>3 DEF Settled
    <2> QED
        BY <1>13, <2>4
<1> QED
    BY <1>12, <1>13

\* A return keeps the nesting: the value returned lies behind the entries read
\* before it, and around its own.
LEMMA NestPop ==
    ASSUME NEW ns, NEW ms, NEW sp, NEW sp2, NEW p, NEW st, NEW r, NEW c \in Int,
           Stack(ns), SpansOK(sp), Len(ns) > 1, PathTo(ns, p),
           Respan(ns, sp, sp2, p), Pop(ns, ms, st), st # "value", r # "none",
           IsContainer(ns[Len(ns) - 1].val),
           Found(ns[Len(ns) - 1].val, ns[Len(ns)].arg),
           ns[Len(ns)].st = "value" => ~ IsContainer(ns[Len(ns)].val),
           ns[Len(ns)].start <= ns[Len(ns)].limit, ns[Len(ns)].limit <= c,
           Nested(ns, sp, r, c)
    PROVE  Nested(ms, sp2, "none", c)
<1> DEFINE n == Len(ns)
           m == n - 1
           Mine(q) == /\ q # p /\ q \in DOMAIN sp /\ sp2[q] = sp[q] /\ Len(q) >= n
                      /\ Settled(ns, n, q)
           Other(i, q) == /\ q # p /\ q \in DOMAIN sp /\ sp2[q] = sp[q]
                          /\ i \in 1 .. m /\ Settled(ns, i, q) /\ q[i] # p[i]
<1>1. /\ n \in Nat /\ n > 1 /\ Len(ms) = m
      /\ \A k \in 1 .. m - 1 : ms[k] = ns[k]
      /\ ms[m].start = ns[m].start /\ ms[m].st = st
    <2>1. n - 2 = m - 1 /\ n \in Nat
        BY DEF Stack
    <2> QED
        BY <2>1 DEF Pop
<1>2. /\ Sequence(p) /\ Len(p) = m /\ \A k \in 1 .. m : p[k] = ns[k + 1].arg
    BY DEF PathTo
<1>3. /\ \A k \in 1 .. n : ns[k].start \in Int /\ ns[k].limit \in Int
      /\ \A k \in 1 .. m : ns[k].st # "value"
      /\ ns[n].start <= ns[n].limit /\ ns[n].limit <= c
    BY DEF Stack
<1>4. p \in DOMAIN sp2 /\ sp2[p][1] = ns[n].start /\ sp2[p][2] = ns[n].limit
    BY DEF Respan
<1>5. \A q \in DOMAIN sp : sp[q][1] \in Int /\ sp[q][2] \in Int /\ Len(q) \in Nat
    BY SequenceFacts DEF SpansOK
<1>6. FramesNest(ns, r, c) /\ EntriesNest(ns, sp, r, c) /\ TreesNest(ns, sp)
      /\ SiblingsApart(ns, sp)
    BY DEF Nested
<1>7. ASSUME NEW i \in 1 .. m, NEW q \in DOMAIN sp2, Settled(ms, i, q)
      PROVE  q = p \/ Mine(q) \/ Other(i, q)
    BY <1>1, <1>7, PopSettled
<1>8. \A k \in 1 .. n : Base(ns, k, r, c) = ns[k].start
    BY DEF Base
<1>9. m \in Nat /\ m > 0 /\ n = m + 1 /\ Len(ns) = n /\ n \in 1 .. n
    BY <1>1
<1> HIDE DEF n, m
<1>10. \A k \in 1 .. m : ms[k].st # "value" /\ ms[k].start = ns[k].start
                         /\ Base(ms, k, "none", c) = ns[k].start
    <2>1. \A k \in 1 .. m : k = m \/ k \in 1 .. m - 1
        BY <1>9
    <2> QED
        BY <1>1, <1>3, <2>1 DEF Base
<1>11. ASSUME NEW i \in 1 .. m, NEW q \in DOMAIN sp2, Settled(ms, i, q)
       PROVE  /\ i <= Len(q) /\ \A k \in 1 .. i - 1 : q[k] = p[k]
              /\ i < m => q[i] # p[i]
    <2>1. \A k \in 1 .. m : ms[k].arg = ns[k].arg
        <3>1. \A k \in 1 .. m : k = m \/ k \in 1 .. m - 1
            BY <1>9
        <3>2. ms[m].arg = ns[m].arg
            BY <1>9 DEF Pop, m, n
        <3> QED
            BY <1>1, <3>1, <3>2
    <2>2. \A k \in 1 .. i - 1 : k + 1 \in 1 .. m /\ k \in 1 .. m
        BY <1>9
    <2>3. i < m => i + 1 \in 1 .. m
        BY <1>9
    <2> QED
        BY <1>1, <1>2, <1>11, <2>1, <2>2, <2>3 DEF Settled
<1>12. FramesNest(ms, "none", c)
    <2> SUFFICES ASSUME NEW k \in 1 .. m - 1
                 PROVE  ms[k].start <= Base(ms, k + 1, "none", c)
        BY <1>1 DEF FramesNest
    <2>1. k \in 1 .. m /\ k + 1 \in 1 .. m /\ k + 1 \in 1 .. n /\ k \in 1 .. n - 1
        BY <1>9
    <2>2. ns[k].start <= Base(ns, k + 1, r, c)
        BY <1>6, <1>9, <2>1 DEF FramesNest
    <2> QED
        BY <1>8, <1>10, <2>1, <2>2
<1>13. EntriesNest(ms, sp2, "none", c)
    <2> SUFFICES ASSUME NEW i \in 1 .. m, NEW q \in DOMAIN sp2, Settled(ms, i, q),
                        Len(q) = i
                 PROVE  ms[i].start <= sp2[q][1] /\ sp2[q][2] <= Roof(ms, i, "none", c)
        BY <1>1 DEF EntriesNest
    <2>1. Roof(ms, m, "none", c) = c
        BY <1>1, <1>9 DEF Roof
    <2>2. CASE q = p
        <3>1. i = m
            BY <1>2, <2>2
        <3>2. ns[m].start <= Base(ns, m + 1, r, c)
            BY <1>6, <1>9 DEF FramesNest
        <3>3. ms[m].start = ns[m].start /\ Base(ns, m + 1, r, c) = ns[n].start
            BY <1>8, <1>9, <1>10
        <3> QED
            BY <1>3, <1>4, <2>1, <2>2, <3>1, <3>2, <3>3
    <2>3. CASE Mine(q)
        BY <1>9, <2>3
    <2>4. CASE Other(i, q)
        <3>1. ns[i].start <= sp[q][1] /\ sp[q][2] <= Roof(ns, i, r, c)
            BY <1>6, <1>9, <2>4 DEF EntriesNest
        <3>2. i + 1 \in 1 .. n /\ i < n /\ Roof(ns, i, r, c) = ns[i + 1].start
            BY <1>8, <1>9 DEF Roof
        <3>3. CASE i = m
            <4>1. ns[n].start \in Int /\ ns[n].limit \in Int /\ sp[q][2] \in Int
                BY <1>3, <1>5, <1>9, <2>4
            <4> QED
                BY <1>3, <1>9, <1>10, <2>1, <2>4, <3>1, <3>2, <3>3, <4>1
        <3>4. CASE i # m
            <4>1. i + 1 \in 1 .. m /\ i < m
                BY <1>9, <3>4
            <4>2. Roof(ms, i, "none", c) = ns[i + 1].start
                BY <1>1, <1>10, <4>1 DEF Roof
            <4> QED
                BY <1>10, <2>4, <3>1, <3>2, <4>2
        <3> QED
            BY <3>3, <3>4
    <2> QED
        BY <1>7, <2>2, <2>3, <2>4
<1>14. TreesNest(ms, sp2)
    <2> SUFFICES ASSUME NEW i \in 1 .. m, NEW j \in 1 .. m,
                        NEW x \in DOMAIN sp2, NEW y \in DOMAIN sp2,
                        Settled(ms, i, x), Settled(ms, j, y), EntryOf(y, x)
                 PROVE  sp2[y][1] <= sp2[x][1] /\ sp2[x][2] <= sp2[y][2]
        BY <1>1 DEF TreesNest
    <2>1. Len(x) = Len(y) + 1 /\ \A k \in 1 .. Len(y) : y[k] = x[k]
        BY DEF EntryOf
    <2>2. j <= Len(y) /\ (j < m => y[j] # p[j])
        BY <1>11
    <2>3. CASE x = p
        <3>1. Len(y) \in Nat
            BY <1>5, <1>7, <1>9, <1>2
        <3>2. j < m
            BY <1>2, <1>9, <2>1, <2>2, <2>3, <3>1
        <3>3. y[j] = p[j]
            BY <2>1, <2>2, <2>3, <3>1
        <3> QED
            BY <2>2, <3>2, <3>3
    <2>4. CASE x # p /\ y = p
        <3>1. CASE Mine(x)
            <4>1. ns[n].start <= sp[x][1] /\ sp[x][2] <= Roof(ns, n, r, c)
                BY <1>2, <1>6, <1>9, <2>1, <2>4, <3>1 DEF EntriesNest
            <4>2. Roof(ns, n, r, c) = ns[n].limit
                BY <1>9 DEF Roof
            <4> QED
                BY <1>4, <2>4, <3>1, <4>1, <4>2
        <3>2. CASE Other(i, x)
            BY <1>2, <2>1, <2>4, <3>2
        <3> QED
            BY <1>7, <2>4, <3>1, <3>2
    <2>5. CASE x # p /\ y # p
        <3>1. \E k \in 1 .. n : Settled(ns, k, x) /\ x \in DOMAIN sp /\ sp2[x] = sp[x]
            BY <1>7, <1>9, <2>5
        <3>2. \E k \in 1 .. n : Settled(ns, k, y) /\ y \in DOMAIN sp /\ sp2[y] = sp[y]
            BY <1>7, <1>9, <2>5
        <3> QED
            BY <1>6, <1>9, <3>1, <3>2 DEF TreesNest
    <2> QED
        BY <2>3, <2>4, <2>5
<1>15. SiblingsApart(ms, sp2)
    <2>1. ASSUME NEW j \in 1 .. m, NEW y \in DOMAIN sp2, Settled(ms, j, y),
                 y # p, Len(y) = Len(p), \A k \in 1 .. Len(p) - 1 : p[k] = y[k]
          PROVE  sp2[y][2] <= sp2[p][1]
        <3>1. Other(j, y)
            BY <1>2, <1>7, <1>9, <2>1
        <3>2. j = m
            BY <1>2, <1>9, <2>1, <3>1
        <3>3. sp[y][2] <= Roof(ns, m, r, c)
            BY <1>2, <1>6, <1>9, <2>1, <3>1, <3>2 DEF EntriesNest
        <3>4. Roof(ns, m, r, c) = ns[n].start
            BY <1>8, <1>9 DEF Roof
        <3> QED
            BY <1>4, <3>1, <3>3, <3>4
    <2> SUFFICES ASSUME NEW i \in 1 .. m, NEW j \in 1 .. m,
                        NEW x \in DOMAIN sp2, NEW y \in DOMAIN sp2,
                        Settled(ms, i, x), Settled(ms, j, y), Siblings(x, y)
                 PROVE  sp2[x][2] <= sp2[y][1] \/ sp2[y][2] <= sp2[x][1]
        BY <1>1 DEF SiblingsApart
    <2>2. Len(x) = Len(y) /\ x # y /\ \A k \in 1 .. Len(x) - 1 : x[k] = y[k]
        BY DEF Siblings
    <2>3. CASE x = p
        BY <2>1, <2>2, <2>3
    <2>4. CASE y = p
        BY <2>1, <2>2, <2>4
    <2>5. CASE x # p /\ y # p
        <3>1. \E k \in 1 .. n : Settled(ns, k, x) /\ x \in DOMAIN sp /\ sp2[x] = sp[x]
            BY <1>7, <1>9, <2>5
        <3>2. \E k \in 1 .. n : Settled(ns, k, y) /\ y \in DOMAIN sp /\ sp2[y] = sp[y]
            BY <1>7, <1>9, <2>5
        <3> QED
            BY <1>6, <1>9, <3>1, <3>2 DEF SiblingsApart
    <2> QED
        BY <2>3, <2>4, <2>5
<1> QED
    BY <1>12, <1>13, <1>14, <1>15 DEF Nested

\* The return of the root value: what is left of the spans belongs to it.
LEMMA NestRoot ==
    ASSUME NEW ns, NEW ms, NEW sp, NEW sp2, NEW r, NEW c \in Int,
           Stack(ns), SpansOK(sp2), Len(ns) = 1, Respan(ns, sp, sp2, <<>>),
           Retop(ns, ms, ns[1].val, "trailer", ns[1].start, ns[1].limit),
           r # "none", ns[1].st = "value" => ~ IsContainer(ns[1].val),
           Nested(ns, sp, r, c)
    PROVE  Nested(ms, sp2, r, c) /\ RootSpans(ms, sp2)
<1>1. /\ Len(ms) = 1 /\ ms[1].val = ns[1].val /\ ms[1].st = "trailer"
      /\ ms[1].start = ns[1].start /\ ms[1].limit = ns[1].limit
    BY DEF Retop
<1>2. <<>> \in DOMAIN sp2 /\ sp2[<<>>] = <<ns[1].start, ns[1].limit>>
    BY DEF Respan
<1>3. ASSUME NEW q \in DOMAIN sp2, q # <<>>
      PROVE  /\ Settled(ms, 1, q) /\ Settled(ns, 1, q)
             /\ q \in DOMAIN sp /\ sp2[q] = sp[q]
    <2>1. Sequence(q) /\ Len(q) \in Nat /\ Len(q) > 0
        BY <1>3, SequenceFacts DEF SpansOK
    <2>2. Len(<<>>) = 0
        OBVIOUS
    <2>3. Under(<<>>, q)
        BY <2>1, <2>2 DEF Under
    <2>4. Has(ns[1].val, q[1]) /\ q \in DOMAIN sp /\ sp2[q] = sp[q]
        BY <1>3, <2>3 DEF Respan
    <2>5. ns[1].st # "value"
        BY <2>4 DEF Has
    <2> QED
        BY <1>1, <2>1, <2>4, <2>5 DEF Settled
<1>4. ASSUME NEW i \in 1 .. 1, NEW q \in DOMAIN sp2, Settled(ms, i, q)
      PROVE  q # <<>> /\ i = 1
    BY <1>4 DEF Settled
<1>5. RootSpans(ms, sp2)
    BY <1>1, <1>2, <1>3 DEF RootSpans
<1>6. Roof(ms, 1, r, c) = Roof(ns, 1, r, c)
    BY <1>1 DEF Roof
<1>7. FramesNest(ms, r, c)
    BY <1>1 DEF FramesNest
<1>8. EntriesNest(ms, sp2, r, c)
    BY <1>1, <1>3, <1>4, <1>6 DEF EntriesNest, Nested
<1>9. TreesNest(ms, sp2)
    BY <1>1, <1>3, <1>4 DEF TreesNest, Nested
<1>10. SiblingsApart(ms, sp2)
    BY <1>1, <1>3, <1>4 DEF SiblingsApart, Nested
<1> QED
    BY <1>5, <1>7, <1>8, <1>9, <1>10 DEF Nested

\* What Return does to the stack of the root alone.
LEMMA ReturnRoot ==
    ASSUME Shape, Return, Len(nodes) = 1
    PROVE  /\ Retop(nodes, nodes', Top.val, "trailer", Top.start, Top.limit)
           /\ ret' = ret
<1>1. status = "reading"
    BY DEF Return
<1>2. Frame(Top)
    BY <1>1, TopFacts
<1> DEFINE f == [Top EXCEPT !.st = "trailer"]
<1>3. nodes' = Replaced(f) /\ ret' = ret
    BY DEF Return
<1>4. /\ Frame(f) /\ f.arg = Top.arg /\ f.val = Top.val /\ f.st = "trailer"
      /\ f.start = Top.start /\ f.limit = Top.limit
    BY <1>2 DEF Frame, States
<1> HIDE DEF f
<1> QED
    BY <1>1, <1>3, <1>4, RetopFacts

\* A return keeps the types, the verdict to come and the offsets.
LEMMA ReturnShape ==
    ASSUME Shape, Return
    PROVE  Shape'
<1>1. /\ UNCHANGED <<features, doc, closed, cur, errors, status>>
      /\ status = "reading" /\ ret # "none"
    BY DEF Return
<1>2. SpansOK(spans')
    BY ReturnSpans
<1>3. /\ StackOK(nodes, features.stackLimit) /\ features.stackLimit \in Nat
      /\ Len(nodes) \in Nat /\ Len(nodes) > 0
    BY <1>1, TopFacts, SettingsAssumption DEF Shape
<1>4. StackOK(nodes', features.stackLimit) /\ nodes' # <<>> /\ ret' \in {"none", ret}
    <2>1. CASE Len(nodes) = 1
        <3>1. Retop(nodes, nodes', Top.val, "trailer", Top.start, Top.limit) /\ ret' = ret
            BY <2>1, ReturnRoot
        <3>2. /\ "trailer" \notin InArray /\ "trailer" \notin InObject
              /\ "trailer" \notin Inner
            BY DEF Inner, InArray, InObject
        <3>3. StackOK(nodes', features.stackLimit)
            <4> DEFINE lim == features.stackLimit
            <4>1. lim \in Nat /\ StackOK(nodes, lim)
                BY <1>3
            <4> HIDE DEF lim
            <4>2. /\ "trailer" \in InArray => Top.val.t = "array"
                  /\ "trailer" \in InObject => Top.val.t = "object"
                  /\ "trailer" = "recover" => IsContainer(Top.val)
                  /\ "trailer" = "first" => Top.val = ArrayValue(<<>>)
                  /\ "trailer" \in Inner => Len(nodes) <= lim
                  /\ "trailer" = "trailer" => Len(nodes) = 1
                BY <2>1, <3>2
            <4>3. StackOK(nodes', lim)
                BY <1>3, <3>1, <4>1, <4>2, RetopStack
            <4> QED
                BY <4>3 DEF lim
        <3>4. Len(nodes') > 0 /\ Len(nodes') \in Nat /\ Sequence(nodes')
            BY <1>3, <3>1 DEF Retop
        <3>5. nodes' # <<>>
            BY <3>4, SequenceFacts
        <3> QED
            BY <3>1, <3>3, <3>5
    <2>2. CASE Len(nodes) # 1
        <3> DEFINE st == IF ret = "ok" THEN nodes[Len(nodes) - 1].st ELSE "recover"
        <3>1. Pop(nodes, nodes', st) /\ ret' = "none" /\ Len(nodes) > 1
            BY <2>2, ReturnPops
        <3>2. st \in {nodes[Len(nodes) - 1].st, "recover"}
            OBVIOUS
        <3> HIDE DEF st
        <3> QED
            BY <1>3, <3>1, <3>2, PopStack
    <2> QED
        BY <2>1, <2>2
<1> QED
    BY <1>1, <1>2, <1>4 DEF Shape

\* A return keeps the trace of an error: a failed value makes its container recover.
LEMMA ReturnProgress ==
    ASSUME Shape, Progress, Return
    PROVE  Progress'
<1>1. /\ UNCHANGED <<features, doc, closed, cur, errors, status>>
      /\ status = "reading" /\ ret # "none" /\ ret \in {"ok", "fail"}
    BY DEF Return, Shape
<1>2. /\ ret = "fail" <=> errors # <<>>
      /\ \A i \in 1 .. Len(errors) : errors[i].by = "parse"
      /\ Top.start <= Top.limit /\ Top.limit <= cur
    BY <1>1 DEF Progress, Failing
<1>3. CASE Len(nodes) = 1
    <2>1. /\ Top'.st = "trailer" /\ Top'.start = Top.start /\ Top'.limit = Top.limit
          /\ ret' = ret
        BY <1>3, ReturnRoot, TopNext
    <2> QED
        BY <1>1, <1>2, <2>1 DEF Progress, Failing, Ended
<1>4. CASE Len(nodes) # 1
    <2>1. /\ Top'.st = IF ret = "ok" THEN nodes[Len(nodes) - 1].st ELSE "recover"
          /\ ret' = "none" /\ Len(nodes) > 1
        BY <1>4, ReturnPops DEF Pop, Top
    <2>2. nodes[Len(nodes) - 1].st \in Waiting
        BY <1>1, <2>1, TopFacts DEF Shape, StackOK
    <2>3. ret = "ok" => Top'.st # "recover" /\ Top'.st # "trailer"
        BY <2>1, <2>2 DEF Waiting
    <2> QED
        BY <1>1, <1>2, <2>1, <2>3 DEF Progress, Failing, Ended
<1> QED
    BY <1>3, <1>4

\* A return keeps the offsets in the text.
LEMMA ReturnOffsets ==
    ASSUME Shape, Progress, Offsets, Return
    PROVE  Offsets'
<1> DEFINE n == Len(nodes)
<1>1. /\ UNCHANGED <<features, doc, closed, cur, errors, status>>
      /\ status = "reading" /\ ret # "none" /\ Top.st # "trailer"
    BY DEF Return
<1>2. /\ n \in Nat /\ n > 0 /\ Top = nodes[n] /\ n \in 1 .. n
      /\ Frame(Top) /\ Low' = Low /\ Low \in Int /\ Low <= 0
    BY <1>1, TopFacts DEF Low
<1>3. /\ Top.st \in Inner \/ Top.st = "value"
      /\ Top.start \in Int /\ Top.limit \in Int /\ cur \in Int
    BY <1>1, <1>2 DEF Frame, States, Shape
<1>4. \A i \in 1 .. n : InText(nodes[i], Low, cur)
    BY DEF Offsets, InText
<1>5. Low <= Top.start /\ Top.start <= Top.limit /\ Top.limit <= cur
    BY <1>1, <1>2, <1>3, <1>4 DEF InText, Progress
<1>6. \A q \in DOMAIN spans' : /\ Low <= spans'[q][1] /\ spans'[q][1] <= spans'[q][2]
                               /\ spans'[q][2] <= cur
    <2>1. PICK p : Respan(nodes, spans, spans', p)
        BY ReturnSpans
    <2>2. spans'[p] = <<Top.start, Top.limit>>
        BY <1>2, <2>1 DEF Respan
    <2>3. \A q \in DOMAIN spans' : q # p => q \in DOMAIN spans /\ spans'[q] = spans[q]
        BY <2>1 DEF Respan
    <2> QED
        BY <1>5, <2>2, <2>3 DEF Offsets
<1>7. \A i \in 1 .. Len(nodes') : InText(nodes'[i], Low, cur)
    <2>1. CASE n = 1
        <3>1. Len(nodes') = 1 /\ nodes'[1].st = "trailer" /\ nodes'[1].start = Top.start
            BY <2>1, ReturnRoot DEF Retop
        <3>2. InText(nodes'[1], Low, cur)
            BY <1>5, <3>1 DEF InText, Inner, InArray, InObject
        <3> QED
            BY <3>1, <3>2
    <2>2. CASE n # 1
        <3>1. /\ n > 1 /\ Len(nodes') = n - 1
              /\ \A i \in 1 .. n - 2 : nodes'[i] = nodes[i]
              /\ nodes'[n - 1].st \in {nodes[n - 1].st, "recover"}
              /\ nodes'[n - 1].start = nodes[n - 1].start
            BY <2>2, ReturnPops DEF Pop
        <3>2. nodes[n - 1].st \in Waiting /\ InText(nodes[n - 1], Low, cur)
            BY <1>2, <1>4, <3>1 DEF Shape, StackOK
        <3>3. nodes[n - 1].st \in Inner /\ "recover" \in Inner
            BY <3>2 DEF Waiting, Inner, InArray, InObject
        <3>4. nodes'[n - 1].st \in Inner /\ nodes'[n - 1].st # "value"
              /\ nodes'[n - 1].st # "trailer"
            BY <3>1, <3>3 DEF Inner, InArray, InObject
        <3>5. InText(nodes'[n - 1], Low, cur)
            BY <3>1, <3>2, <3>3, <3>4 DEF InText
        <3>6. ASSUME NEW i \in 1 .. n - 1
              PROVE  i = n - 1 \/ (i \in 1 .. n - 2 /\ i \in 1 .. n)
            BY <1>2
        <3> HIDE DEF n
        <3> QED
            BY <1>4, <3>1, <3>5, <3>6
    <2> QED
        BY <2>1, <2>2
<1> QED
    BY <1>1, <1>2, <1>6, <1>7 DEF Offsets, InText

\* A return without an error keeps the nesting.
LEMMA ReturnNesting ==
    ASSUME Shape, Shape', Progress, Nesting, Return
    PROVE  Nesting'
<1> SUFFICES ASSUME Clean'
             PROVE  Nested(nodes', spans', ret', cur') /\ RootSpans(nodes', spans')
    BY DEF Nesting
<1> DEFINE n == Len(nodes)
<1>1. /\ UNCHANGED <<features, doc, closed, cur, errors, status>>
      /\ status = "reading" /\ ret # "none" /\ cur \in Int /\ cur' = cur
    BY DEF Return, Shape
<1>2. /\ n \in Nat /\ n > 0 /\ Top = nodes[n] /\ FrameOK(Top)
      /\ Sequence(errors) /\ Len(errors) \in Nat /\ SpansOK(spans)
    BY <1>1, TopFacts, SequenceFacts DEF Shape
<1>3. Nested(nodes, spans, ret, cur) /\ ret = "ok"
    <2>1. Clean
        BY <1>1 DEF Clean
    <2>2. \A i \in 1 .. Len(errors) : errors[i].by = "parse"
        BY <1>1 DEF Progress
    <2>3. errors = <<>>
        <3>1. Len(errors) = 0
            BY <1>2, <2>1, <2>2 DEF Clean
        <3> QED
            BY <1>2, <3>1, SequenceFacts
    <2>4. ret # "fail"
        BY <1>1, <2>3 DEF Progress, Failing
    <2> QED
        BY <1>1, <2>1, <2>4 DEF Nesting, Shape
<1>4. Stack(nodes)
    <2>1. nodes # <<>> /\ StackOK(nodes, features.stackLimit)
        BY <1>1 DEF Shape
    <2> QED
        BY <2>1, StackFacts
<1>5. /\ nodes[n].st = "value" => ~ IsContainer(nodes[n].val)
      /\ nodes[n].start <= nodes[n].limit /\ nodes[n].limit <= cur
    BY <1>1, <1>2, <1>3 DEF Progress
<1>6. PICK p : PathTo(nodes, p) /\ Respan(nodes, spans, spans', p) /\ SpansOK(spans')
    BY ReturnSpans
<1>7. CASE n = 1
    <2>1. p = <<>>
        BY <1>2, <1>6, <1>7, SequenceFacts DEF PathTo
    <2>2. Retop(nodes, nodes', nodes[1].val, "trailer", nodes[1].start, nodes[1].limit)
          /\ ret' = ret
        BY <1>2, <1>7, ReturnRoot
    <2>3. Nested(nodes', spans', ret, cur) /\ RootSpans(nodes', spans')
        BY <1>1, <1>3, <1>4, <1>5, <1>6, <1>7, <2>1, <2>2, NestRoot
    <2> QED
        BY <1>1, <2>2, <2>3
<1>8. CASE n # 1
    <2> DEFINE st == nodes[n - 1].st
    <2>1. n > 1 /\ Pop(nodes, nodes', st) /\ ret' = "none"
        BY <1>3, <1>8, ReturnPops
    <2>2. /\ n - 1 \in 1 .. n - 1 /\ n - 1 \in 1 .. n /\ 1 \in 1 .. n - 1
          /\ n - 1 + 1 = n
        BY <1>2, <2>1
    <2>3. /\ \A i \in 1 .. n - 1 : nodes[i].st \in Waiting
          /\ FrameOK(nodes[n - 1]) /\ Found(nodes[n - 1].val, nodes[n].arg)
        BY <2>2 DEF Shape, StackOK
    <2>4. st # "value" /\ IsContainer(nodes[n - 1].val)
        BY <2>2, <2>3 DEF FrameOK, Waiting, InArray, InObject, IsContainer
    <2> HIDE DEF st
    <2>5. Nested(nodes', spans', "none", cur)
        BY <1>1, <1>2, <1>3, <1>4, <1>5, <1>6, <2>1, <2>3, <2>4, NestPop
    <2>6. nodes'[1].st # "trailer"
        <3>1. CASE n - 1 = 1
            BY <2>1, <2>2, <2>3, <3>1 DEF Pop, st, Waiting
        <3>2. CASE n > 2
            <4>1. 1 \in 1 .. n - 2
                BY <1>2, <2>1, <3>2
            <4>2. nodes'[1] = nodes[1]
                BY <2>1, <4>1 DEF Pop
            <4> QED
                BY <2>2, <2>3, <4>2 DEF Waiting
        <3>3. n - 1 = 1 \/ n > 2
            <4>1. n \in Nat /\ n > 1
                BY <1>2, <2>1
            <4> HIDE DEF n
            <4> QED
                BY <4>1
        <3> QED
            BY <3>1, <3>2, <3>3
    <2> QED
        BY <1>1, <2>1, <2>5, <2>6 DEF RootSpans
<1> QED
    BY <1>7, <1>8

\* Every return keeps the invariant.
LEMMA ReturnInv ==
    ASSUME JInv, Return
    PROVE  JInv'
BY ReturnShape, ReturnProgress, ReturnOffsets, ReturnNesting DEF JInv

-----------------------------------------------------------------------------
(* The other actions *)

\* Offsets stay in the text when the position and the document grow.
LEMMA KeepOffsets ==
    ASSUME Shape, Offsets, UNCHANGED <<features, nodes, spans, errors>>,
           cur' \in Int, cur <= cur', Len(doc') \in Int, Len(doc) <= Len(doc')
    PROVE  Offsets'
<1>1. /\ Low' = Low /\ Low \in Int /\ cur \in Int /\ Len(doc) \in Int
      /\ \A q \in DOMAIN spans : spans[q][1] \in Int /\ spans[q][2] \in Int
      /\ \A i \in 1 .. Len(nodes) : Frame(nodes[i])
      /\ \A i \in 1 .. Len(errors) : errors[i].start \in Int /\ errors[i].limit \in Int
    BY DEF Low, Shape, SpansOK, StackOK, FrameOK, ErrorOK
<1>2. \A q \in DOMAIN spans : /\ Low <= spans[q][1] /\ spans[q][1] <= spans[q][2]
                              /\ spans[q][2] <= cur'
    BY <1>1 DEF Offsets
<1>3. ASSUME NEW i \in 1 .. Len(nodes)
      PROVE  InText(nodes[i], Low, cur')
    <2>1. nodes[i].start \in Int /\ nodes[i].limit \in Int
        BY <1>1 DEF Frame
    <2> QED
        BY <1>1, <2>1 DEF Offsets, InText
<1>4. \A i \in 1 .. Len(errors) :
         /\ Low <= errors[i].start /\ errors[i].start <= errors[i].limit
         /\ errors[i].by # "push" => errors[i].limit <= Len(doc')
    BY <1>1 DEF Offsets
<1> QED
    BY <1>1, <1>2, <1>3, <1>4 DEF Offsets, InText

\* One more error about a range of the text, or about the text behind it.
LEMMA ErrorOffsets ==
    ASSUME Shape, Offsets, NEW e, ErrorOK(e),
           UNCHANGED <<features, doc>>, errors' = Append(errors, e),
           Low <= e.start, e.start <= e.limit, e.by # "push" => e.limit <= Len(doc)
    PROVE  /\ Sequence(errors') /\ \A i \in 1 .. Len(errors') : ErrorOK(errors'[i])
           /\ Len(errors') = Len(errors) + 1 /\ Len(errors) \in Nat
           /\ \A i \in 1 .. Len(errors) : errors'[i] = errors[i]
           /\ errors'[Len(errors) + 1] = e
           /\ \A i \in 1 .. Len(errors') :
                 /\ Low' <= errors'[i].start /\ errors'[i].start <= errors'[i].limit
                 /\ errors'[i].by # "push" => errors'[i].limit <= Len(doc')
<1>1. Sequence(errors) /\ Len(errors) \in Nat /\ \A i \in 1 .. Len(errors) : ErrorOK(errors[i])
    BY SequenceFacts DEF Shape
<1>2. /\ Sequence(errors') /\ Len(errors') = Len(errors) + 1
      /\ \A i \in 1 .. Len(errors) : errors'[i] = errors[i]
      /\ errors'[Len(errors) + 1] = e
    BY <1>1, AppendFacts
<1>3. \A i \in 1 .. Len(errors') : i \in 1 .. Len(errors) \/ i = Len(errors) + 1
    BY <1>1, <1>2
<1>4. Low' = Low
    BY DEF Low
<1> QED
    BY <1>1, <1>2, <1>3, <1>4 DEF Offsets

\* The initial state, and the start of a parse.
LEMMA InitInv ==
    ASSUME Init
    PROVE  JInv
<1>1. Sequence(<<>>) /\ Len(<<>>) = 0 /\ DOMAIN <<>> = {}
    BY DEF Sequence
<1>2. features.stackLimit \in Nat
    BY SettingsAssumption DEF Init
<1>3. StackOK(<<>>, features.stackLimit)
    BY <1>1, <1>2 DEF StackOK
<1>4. Shape
    BY <1>1, <1>3 DEF Init, Shape, SpansOK
<1>5. Progress /\ Nesting
    BY DEF Init, Progress, Nesting, Ended
<1>6. Offsets
    BY <1>1 DEF Init, Offsets
<1> QED
    BY <1>4, <1>5, <1>6 DEF JInv

\* parse() clears what an earlier parse left behind.
LEMMA ParseInv ==
    ASSUME JInv, Parse(<<>>, FALSE)
    PROVE  JInv'
<1>1. Sequence(<<>>) /\ Len(<<>>) = 0 /\ DOMAIN <<>> = {}
    BY DEF Sequence
<1>2. /\ features' = features /\ doc' = <<>> /\ closed' = FALSE /\ cur' = 0
      /\ nodes' = <<RootFrame>> /\ ret' = "none" /\ errors' = <<>> /\ spans' = <<>>
      /\ status' = "reading"
    BY DEF Parse
<1>3. features \in Settings /\ features.stackLimit \in Nat
    BY SettingsAssumption DEF JInv, Shape
<1>4. /\ Sequence(nodes') /\ Len(nodes') = 1 /\ nodes'[1] = RootFrame /\ nodes' # <<>>
    <2>1. nodes' = [i \in 1 .. 1 |-> nodes'[i]] /\ nodes'[1] = RootFrame
        BY <1>2
    <2> QED
        BY <1>2, <2>1, FunctionIsSequence
<1>5. /\ RootFrame.st = "value" /\ RootFrame.start = 0 /\ RootFrame.limit = 0
      /\ FrameOK(RootFrame)
    <2>1. ArgOK(RootFrame.arg)
        BY ArgsOK DEF RootFrame
    <2> QED
        BY <2>1 DEF RootFrame, FrameOK, Frame, States, InArray, InObject
<1>6. StackOK(nodes', features.stackLimit)
    BY <1>3, <1>4, <1>5 DEF StackOK, Inner, InArray, InObject
<1>7. Shape'
    <2>1. SpansOK(spans')
        BY <1>1, <1>2 DEF SpansOK
    <2>2. Sequence(errors') /\ \A i \in 1 .. Len(errors') : ErrorOK(errors'[i])
        BY <1>1, <1>2
    <2>3. doc' \in Seq(FirstLexemes \cup Lexemes) /\ cur' \in 0 .. Len(doc')
        BY <1>1, <1>2
    <2>4. StackOK(nodes', features'.stackLimit)
        BY <1>2, <1>6
    <2> QED
        BY <1>2, <1>3, <1>4, <2>1, <2>2, <2>3, <2>4 DEF Shape
<1>8. Top'.st = "value"
    BY <1>4, <1>5 DEF Top
<1>9. Progress'
    <2>1. errors' = <<>> /\ ~ Failing'
        BY <1>2, <1>8 DEF Failing
    <2>2. \A i \in 1 .. Len(errors') : errors'[i].by = "parse"
        BY <1>1, <1>2
    <2> QED
        BY <1>2, <1>8, <2>1, <2>2 DEF Progress, Ended
<1>10. Offsets'
    BY <1>1, <1>2, <1>4, <1>5 DEF Offsets, Low, Inner, InArray, InObject
<1>11. Nesting'
    BY <1>1, <1>2, <1>4, <1>5
       DEF Nesting, Nested, FramesNest, EntriesNest, TreesNest, SiblingsApart, RootSpans
<1> QED
    BY <1>7, <1>9, <1>10, <1>11 DEF JInv

\* More of the document becomes known, or its end.
LEMMA SupplyInv ==
    ASSUME JInv, Supply \/ Finish
    PROVE  JInv'
<1>1. /\ Shape /\ Progress /\ Offsets /\ Nesting
      /\ UNCHANGED <<features, cur, nodes, ret, errors, spans, root, status>>
      /\ closed' \in BOOLEAN
    BY DEF JInv, Supply, Finish, Shape
<1>2. /\ doc' \in Seq(FirstLexemes \cup Lexemes) /\ Len(doc') \in Int
      /\ Len(doc) \in Int /\ Len(doc) <= Len(doc') /\ cur \in 0 .. Len(doc')
    BY <1>1 DEF Supply, Finish, Shape
<1>3. Shape'
    BY <1>1, <1>2 DEF Shape
<1>4. Progress'
    BY <1>1 DEF Progress, Failing, Ended, Clean, Top
<1>5. Offsets'
    <2>1. cur' \in Int /\ cur <= cur'
        BY <1>1 DEF Shape
    <2> QED
        BY <1>1, <1>2, <2>1, KeepOffsets
<1>6. Nesting'
    BY <1>1 DEF Nesting, Clean
<1> QED
    BY <1>3, <1>4, <1>5, <1>6 DEF JInv

\* An exception ends the parse where it is.
LEMMA ThrowInv ==
    ASSUME JInv, ExceedStackLimit \/ NameThrows
    PROVE  JInv'
<1>1. /\ Shape /\ Progress /\ Offsets /\ Nesting
      /\ UNCHANGED <<features, doc, nodes, ret, errors, spans, root>>
      /\ closed' = TRUE /\ status' = "thrown"
    BY DEF JInv, ExceedStackLimit, NameThrows
<1>2. cur' \in 0 .. Len(doc) /\ cur' \in Int /\ cur <= cur' /\ Len(doc) \in Int
    <2>1. CASE ExceedStackLimit
        BY <1>1, <2>1 DEF ExceedStackLimit, Shape
    <2>2. CASE NameThrows
        <3>1. CanRead /\ cur' = AfterToken
            BY <2>2 DEF NameThrows, Reading
        <3>2. AfterToken \in 0 .. Len(doc) /\ AfterToken \in {cur, cur + 1}
            BY <1>1, <3>1, TokenFacts
        <3> QED
            BY <1>1, <3>1, <3>2 DEF Shape
    <2> QED
        BY <2>1, <2>2
<1>3. Shape'
    BY <1>1, <1>2 DEF Shape
<1>4. Progress' /\ Nesting'
    BY <1>1 DEF Progress, Nesting, Ended
<1>5. Offsets'
    BY <1>1, <1>2, KeepOffsets
<1> QED
    BY <1>3, <1>4, <1>5 DEF JInv

\* pushError adds an error that is none of the parse.
LEMMA PushErrorInv ==
    ASSUME JInv, PushError
    PROVE  JInv'
<1>1. /\ Shape /\ Progress /\ Offsets /\ Nesting /\ Ended
      /\ UNCHANGED <<features, doc, closed, cur, nodes, ret, spans, root, status>>
    BY DEF JInv, PushError, Ended
<1>2. PICK p \in DOMAIN spans, by \in {"push", "pushExtra"} :
         /\ \A i \in {1, 2} : spans[p][i] <= Len(doc)
         /\ errors' = Append(errors,
              [start |-> spans[p][1], by |-> by,
               limit |-> spans[p][2] + (IF by = "push" THEN Len(doc) ELSE 0)])
    BY DEF PushError
<1> DEFINE e == [start |-> spans[p][1], by |-> by,
                 limit |-> spans[p][2] + (IF by = "push" THEN Len(doc) ELSE 0)]
<1>3. /\ spans[p][1] \in Int /\ spans[p][2] \in Int /\ Len(doc) \in Nat
      /\ Low <= spans[p][1] /\ spans[p][1] <= spans[p][2] /\ spans[p][2] <= Len(doc)
    BY <1>1, <1>2 DEF Shape, SpansOK, Offsets
<1>4. /\ ErrorOK(e) /\ e.by # "parse" /\ Low <= e.start /\ e.start <= e.limit
      /\ e.by # "push" => e.limit <= Len(doc)
    BY <1>3 DEF ErrorOK
<1>5. errors' = Append(errors, e)
    BY <1>2
<1> HIDE DEF e
<1>6. /\ Sequence(errors') /\ \A i \in 1 .. Len(errors') : ErrorOK(errors'[i])
      /\ Len(errors') = Len(errors) + 1 /\ Len(errors) \in Nat
      /\ \A i \in 1 .. Len(errors) : errors'[i] = errors[i]
      /\ errors'[Len(errors) + 1] = e
      /\ \A i \in 1 .. Len(errors') :
            /\ Low' <= errors'[i].start /\ errors'[i].start <= errors'[i].limit
            /\ errors'[i].by # "push" => errors'[i].limit <= Len(doc')
    BY <1>1, <1>4, <1>5, ErrorOffsets
<1>7. Clean' <=> Clean
    <2>1. \A i \in 1 .. Len(errors') : i \in 1 .. Len(errors) \/ i = Len(errors) + 1
        BY <1>6
    <2>2. \A i \in 1 .. Len(errors) : i \in 1 .. Len(errors')
        BY <1>6
    <2> QED
        BY <1>4, <1>6, <2>1, <2>2 DEF Clean
<1>8. Shape'
    BY <1>1, <1>6 DEF Shape
<1>9. Progress'
    BY <1>1, <1>7 DEF Progress, Ended, Top
<1>10. Offsets'
    <2>1. Low' = Low
        BY <1>1 DEF Low
    <2> QED
        BY <1>1, <1>6, <2>1 DEF Offsets
<1>11. Nesting'
    BY <1>1, <1>7 DEF Nesting
<1> QED
    BY <1>8, <1>9, <1>10, <1>11 DEF JInv

\* The nesting of a complete root does not depend on the position.
LEMMA NestTrailer ==
    ASSUME NEW ns, NEW sp, NEW r, NEW c, NEW c2, Len(ns) = 1, r # "none",
           Nested(ns, sp, r, c)
    PROVE  Nested(ns, sp, r, c2)
<1>1. Roof(ns, 1, r, c) = Roof(ns, 1, r, c2)
    BY DEF Roof
<1>2. FramesNest(ns, r, c2)
    BY DEF FramesNest
<1>3. EntriesNest(ns, sp, r, c2)
    BY <1>1 DEF EntriesNest, Nested
<1> QED
    BY <1>2, <1>3 DEF Nested

\* The end of parse(): its result tells whether an error was recorded.
LEMMA EndParseInv ==
    ASSUME JInv, EndParse
    PROVE  JInv'
<1> DEFINE extra == /\ features.failIfExtra /\ Token # "end"
                    /\ features.strictRoot \/ Token # "error"
           badRoot == features.strictRoot /\ ~ IsContainer(root)
<1>1. /\ Shape /\ Progress /\ Offsets /\ Nesting
      /\ UNCHANGED <<features, doc, closed, nodes, ret, spans, root>>
      /\ status = "reading" /\ Top.st = "trailer" /\ CanRead /\ cur' = AfterToken
    BY DEF JInv, EndParse
<1>2. /\ cur' \in 0 .. Len(doc) /\ cur' \in Int /\ cur \in Int /\ cur <= cur'
      /\ Len(doc) \in Int /\ 0 <= cur /\ cur' <= Len(doc)
    BY <1>1, TokenFacts DEF Shape
<1>3. /\ ret # "none" /\ (ret = "fail" <=> errors # <<>>) /\ ret \in {"ok", "fail"}
      /\ \A i \in 1 .. Len(errors) : errors[i].by = "parse"
      /\ Top.start <= Top.limit /\ Top.limit <= cur
      /\ Top.start \in Int /\ Top.limit \in Int
    BY <1>1, TopFacts DEF Progress, Failing, Frame, Shape
<1>4. Len(nodes) = 1 /\ nodes # <<>>
    <2>1. Len(nodes) \in 1 .. Len(nodes) /\ Top = nodes[Len(nodes)] /\ nodes # <<>>
        BY <1>1, TopFacts DEF Shape
    <2> QED
        BY <1>1, <2>1 DEF Shape, StackOK
<1>5. Top' = Top
    BY <1>1 DEF Top
<1>6. Clean => Nested(nodes', spans', ret', cur') /\ RootSpans(nodes', spans')
    BY <1>1, <1>3, <1>4, NestTrailer DEF Nesting
<1>7. CASE UNCHANGED <<errors, status>>
    <2>1. Shape'
        BY <1>1, <1>2, <1>7 DEF Shape
    <2>2. Offsets'
        BY <1>1, <1>2, <1>7, KeepOffsets
    <2>3. Top'.limit <= cur'
        BY <1>2, <1>3, <1>5
    <2>4. Progress'
        BY <1>1, <1>3, <1>5, <1>7, <2>3 DEF Progress, Failing, Ended
    <2>5. Nesting'
        BY <1>6, <1>7 DEF Nesting, Clean
    <2> QED
        BY <2>1, <2>2, <2>4, <2>5 DEF JInv
<1>8. CASE /\ errors' = errors /\ ~ extra /\ ~ badRoot
           /\ status' = IF ret = "fail" THEN "failed" ELSE "ok"
    <2>1. Shape'
        BY <1>1, <1>2, <1>8 DEF Shape
    <2>2. Offsets'
        BY <1>1, <1>2, <1>8, KeepOffsets
    <2>3. Clean <=> ret = "ok"
        <3>1. Sequence(errors) /\ Len(errors) \in Nat /\ (errors = <<>> <=> Len(errors) = 0)
            BY <1>1, SequenceFacts DEF Shape
        <3> QED
            BY <1>3, <3>1 DEF Clean
    <2>4. Clean' <=> Clean
        BY <1>8 DEF Clean
    <2>5. Progress'
        BY <1>1, <1>3, <1>4, <1>5, <1>8, <2>3, <2>4 DEF Progress, Ended
    <2>6. Nesting'
        BY <1>6, <2>4 DEF Nesting
    <2> QED
        BY <2>1, <2>2, <2>5, <2>6 DEF JInv
<1>9. ASSUME NEW b \in Int, NEW l \in Int, 0 <= b, b <= l, l <= Len(doc),
             errors' = Append(errors, ErrorAt(b, l)), status' = "failed"
      PROVE  JInv'
    <2> DEFINE e == ErrorAt(b, l)
    <2>1. /\ ErrorOK(e) /\ e.by = "parse" /\ Low <= e.start /\ e.start <= e.limit
          /\ e.limit <= Len(doc)
        BY <1>9 DEF ErrorAt, ErrorOK, Low
    <2>2. errors' = Append(errors, e)
        BY <1>9
    <2> HIDE DEF e
    <2>3. /\ Sequence(errors') /\ \A i \in 1 .. Len(errors') : ErrorOK(errors'[i])
          /\ Len(errors') = Len(errors) + 1 /\ Len(errors) \in Nat
          /\ errors'[Len(errors) + 1] = e
          /\ \A i \in 1 .. Len(errors') :
                /\ Low' <= errors'[i].start /\ errors'[i].start <= errors'[i].limit
                /\ errors'[i].by # "push" => errors'[i].limit <= Len(doc')
        BY <1>1, <2>1, <2>2, ErrorOffsets
    <2>4. ~ Clean'
        <3>1. Len(errors) + 1 \in 1 .. Len(errors')
            BY <2>3
        <3> QED
            BY <2>1, <2>3, <3>1 DEF Clean
    <2>5. Shape'
        BY <1>1, <1>2, <1>9, <2>3 DEF Shape
    <2>6. Progress'
        BY <1>9, <2>4 DEF Progress, Ended
    <2>7. Nesting'
        BY <2>4 DEF Nesting
    <2>8. Offsets'
        <3>1. Low' = Low /\ Low \in Int
            BY <1>1 DEF Low
        <3>2. \A q \in DOMAIN spans' :
                 /\ Low' <= spans'[q][1] /\ spans'[q][1] <= spans'[q][2]
                 /\ spans'[q][2] <= cur'
            BY <1>1, <1>2, <3>1 DEF Offsets, Shape, SpansOK
        <3>3. \A i \in 1 .. Len(nodes') : i = 1 /\ nodes'[i].st = "trailer"
                                          /\ Low <= nodes'[i].start
            BY <1>1, <1>4 DEF Offsets, Top
        <3>4. "trailer" \notin Inner
            BY DEF Inner, InArray, InObject
        <3> QED
            BY <2>3, <3>1, <3>2, <3>3, <3>4 DEF Offsets
    <2> QED
        BY <2>5, <2>6, <2>7, <2>8 DEF JInv
<1>10. \/ UNCHANGED <<errors, status>>
       \/ /\ errors' = IF extra THEN TokenError
                       ELSE IF badRoot THEN Append(errors, ErrorAt(0, Len(doc)))
                       ELSE errors
          /\ status' = IF extra \/ badRoot \/ ret = "fail" THEN "failed" ELSE "ok"
    BY DEF EndParse
<1> HIDE DEF extra, badRoot
<1>11. CASE /\ extra /\ errors' = TokenError /\ status' = "failed"
    BY <1>1, <1>2, <1>9, <1>11 DEF TokenError
<1>12. CASE /\ errors' = Append(errors, ErrorAt(0, Len(doc))) /\ status' = "failed"
    BY <1>2, <1>9, <1>12
<1> QED
    BY <1>7, <1>8, <1>10, <1>11, <1>12

-----------------------------------------------------------------------------
(* Theorems *)

\* The inductive invariant: the shape of the parse state, the trace an error
\* leaves on the way out, offsets in the text, and their nesting.
THEOREM ReaderInvariant == Spec => []JInv
<1>1. Init => JInv
    BY InitInv
<1>2. JInv /\ [Next]_readerVars => JInv'
    <2> SUFFICES ASSUME JInv, [Next]_readerVars
                 PROVE  JInv'
        OBVIOUS
    <2>1. CASE Parse(<<>>, FALSE)
        BY <2>1, ParseInv
    <2>2. CASE Supply \/ Finish
        BY <2>2, SupplyInv
    <2>3. CASE ExceedStackLimit \/ NameThrows
        BY <2>3, ThrowInv
    <2>4. CASE Step
        BY <2>4, StepInv
    <2>5. CASE Return
        BY <2>5, ReturnInv
    <2>6. CASE EndParse
        BY <2>6, EndParseInv
    <2>7. CASE PushError
        BY <2>7, PushErrorInv
    <2>8. CASE UNCHANGED readerVars
        BY <2>8 DEF readerVars, JInv, Shape, Progress, Offsets, Nesting, Failing, Clean,
                    Top, Ended, Low
    <2> QED
        BY <2>1, <2>2, <2>3, <2>4, <2>5, <2>6, <2>7, <2>8 DEF Next
<1> QED
    BY <1>1, <1>2, PTL DEF Spec

\* The parts of ReaderInv the invariant implies.
LEMMA TypesFollow ==
    ASSUME JInv
    PROVE  TypeOK
<1>1. /\ Shape /\ StackOK(nodes, features.stackLimit)
    BY DEF JInv, Shape
<1>2. ASSUME NEW i \in 1 .. Len(nodes) - 1
      PROVE  IsContainer(nodes[i].val) /\ Found(nodes[i].val, nodes[i + 1].arg)
    <2>1. Len(nodes) \in Nat
        BY <1>1, SequenceFacts DEF StackOK
    <2>2. i \in 1 .. Len(nodes)
        BY <2>1
    <2>3. FrameOK(nodes[i]) /\ nodes[i].st \in Waiting /\ Found(nodes[i].val, nodes[i + 1].arg)
        BY <1>1, <2>2 DEF StackOK
    <2> QED
        BY <2>3 DEF FrameOK, Waiting, InArray, InObject, IsContainer
<1>3. Len(nodes) <= features.stackLimit + 1
    BY <1>1 DEF StackOK
<1> QED
    BY <1>1, <1>2, <1>3 DEF TypeOK, Shape

\* The result of parse() tells whether an error was recorded.
LEMMA VerdictFollows ==
    ASSUME JInv
    PROVE  Verdict
<1>1. DOMAIN errors = 1 .. Len(errors)
    BY SequenceFacts DEF JInv, Shape
<1>2. Clean <=> {i \in DOMAIN errors : errors[i].by = "parse"} = {}
    BY <1>1 DEF Clean
<1> QED
    BY <1>2 DEF JInv, Progress, Verdict

\* The offsets of errors are ranges of the document.
LEMMA ErrorsFollow ==
    ASSUME JInv
    PROVE  ErrorsInDocument
<1>1. DOMAIN errors = 1 .. Len(errors)
    BY SequenceFacts DEF JInv, Shape
<1> QED
    BY <1>1 DEF JInv, Offsets, ErrorsInDocument, Low

\* The offsets of an accepted document nest.
LEMMA SpansFollow ==
    ASSUME JInv
    PROVE  SpansNest
<1> SUFFICES ASSUME status = "ok", NEW p \in DOMAIN spans, NEW q \in DOMAIN spans
             PROVE  /\ p # <<>> /\ q = Front(p) => /\ spans[q][1] <= spans[p][1]
                                                   /\ spans[p][2] <= spans[q][2]
                    /\ p # <<>> /\ q # <<>> /\ p # q /\ Front(p) = Front(q) =>
                         spans[p][2] <= spans[q][1] \/ spans[q][2] <= spans[p][1]
    BY DEF SpansNest
<1>1. /\ Shape /\ Progress /\ Nesting /\ Clean /\ ret = "ok"
      /\ nodes # <<>> /\ Top.st = "trailer"
    BY DEF JInv, Progress, Ended
<1>2. Nested(nodes, spans, "ok", cur) /\ RootSpans(nodes, spans)
    BY <1>1 DEF Nesting
<1>3. Len(nodes) = 1 /\ nodes[1].st = "trailer"
    <2>1. Len(nodes) \in Nat /\ Len(nodes) > 0
        BY <1>1, SequenceFacts DEF Shape, StackOK
    <2>2. Len(nodes) \in 1 .. Len(nodes) /\ nodes[Len(nodes)].st = "trailer"
        BY <1>1, <2>1 DEF Top
    <2>3. Len(nodes) = 1
        BY <1>1, <2>2 DEF Shape, StackOK
    <2> QED
        BY <2>2, <2>3
<1>4. /\ spans[<<>>] = <<nodes[1].start, nodes[1].limit>>
      /\ \A x \in DOMAIN spans : x # <<>> => Settled(nodes, 1, x)
    BY <1>1, <1>2, <1>3 DEF RootSpans
<1>5. \A x \in DOMAIN spans : Sequence(x) /\ Len(x) \in Nat
    BY <1>1, SequenceFacts DEF Shape, SpansOK
<1>6. ASSUME p # <<>>, q = Front(p)
      PROVE  spans[q][1] <= spans[p][1] /\ spans[p][2] <= spans[q][2]
    <2>1. /\ Len(q) = Len(p) - 1 /\ Len(p) > 0
          /\ \A k \in 1 .. Len(p) - 1 : q[k] = p[k]
        BY <1>5, <1>6, FrontFacts
    <2>2. CASE q = <<>>
        <3>1. Len(p) = 1
            BY <1>5, <2>1, <2>2
        <3>2. /\ nodes[1].start <= spans[p][1]
              /\ spans[p][2] <= Roof(nodes, 1, "ok", cur)
            BY <1>2, <1>3, <1>4, <1>6, <3>1 DEF Nested, EntriesNest
        <3>3. Roof(nodes, 1, "ok", cur) = nodes[1].limit
            BY <1>3 DEF Roof
        <3> QED
            BY <1>4, <2>2, <3>2, <3>3
    <2>3. CASE q # <<>>
        <3>1. EntryOf(q, p)
            BY <1>5, <2>1 DEF EntryOf
        <3>2. Settled(nodes, 1, p) /\ Settled(nodes, 1, q)
            BY <1>4, <1>6, <2>3
        <3> QED
            BY <1>2, <1>3, <3>1, <3>2 DEF Nested, TreesNest
    <2> QED
        BY <2>2, <2>3
<1>7. ASSUME p # <<>>, q # <<>>, p # q, Front(p) = Front(q)
      PROVE  spans[p][2] <= spans[q][1] \/ spans[q][2] <= spans[p][1]
    <2>1. /\ Len(Front(p)) = Len(p) - 1 /\ \A k \in 1 .. Len(p) - 1 : Front(p)[k] = p[k]
          /\ Len(Front(q)) = Len(q) - 1 /\ \A k \in 1 .. Len(q) - 1 : Front(q)[k] = q[k]
        BY <1>5, <1>7, FrontFacts
    <2>2. Len(p) = Len(q)
        BY <1>5, <1>7, <2>1
    <2>3. Siblings(p, q)
        BY <1>7, <2>1, <2>2 DEF Siblings
    <2>4. Settled(nodes, 1, p) /\ Settled(nodes, 1, q)
        BY <1>4, <1>7
    <2> QED
        BY <1>2, <1>3, <2>3, <2>4 DEF Nested, SiblingsApart
<1> QED
    BY <1>6, <1>7

\* parse() of either reader, for any settings and any document: the stack stays
\* within stackLimit, an error recorded anywhere makes it return false and
\* nothing else does, and the offsets it leaves are ranges of the document,
\* nested as the values are.
THEOREM ReaderCorrect == Spec => []ReaderInv
<1>1. JInv => ReaderInv
    BY TypesFollow, VerdictFollows, ErrorsFollow, SpansFollow DEF ReaderInv
<1> QED
    BY <1>1, ReaderInvariant, PTL

-----------------------------------------------------------------------------
(* The conversions of Json::Value *)

\* What a value holds: integers are of the widest types.
Types == {"null", "int", "uint", "real", "string", "bool", "array", "object"}

ValueOK(v) ==
    /\ v.t \in Types
    /\ v.t = "int" => v.n \in minLargestInt .. maxLargestInt
    /\ v.t = "uint" => v.n \in 0 .. maxLargestUInt
    /\ v.t = "real" => v.r.h \in Int
    /\ v.t = "bool" => v.b \in BOOLEAN

\* The limits of the integer types.
LEMMA LimitFacts ==
    /\ minInt \in Int /\ maxInt \in Int /\ maxUInt \in Int
    /\ minLargestInt \in Int /\ maxLargestInt \in Int /\ maxLargestUInt \in Int
    /\ minInt < 0 /\ 0 < maxInt /\ 0 < maxUInt
    /\ minLargestInt < 0 /\ 0 < maxLargestInt /\ maxLargestInt <= maxLargestUInt
<1>1. /\ IntBits \in Nat /\ IntBits - 1 \in Nat
      /\ LargestBits \in Nat /\ LargestBits - 1 \in Nat
    BY WidthAssumption
<1>2. /\ 2 ^ IntBits \in Int /\ 2 ^ (IntBits - 1) \in Int
      /\ 2 ^ LargestBits \in Int /\ 2 ^ (LargestBits - 1) \in Int
    BY <1>1
<1>3. /\ 1 < 2 ^ IntBits /\ 1 < 2 ^ (IntBits - 1)
      /\ 2 ^ (LargestBits - 1) < 2 ^ LargestBits /\ 1 < 2 ^ (LargestBits - 1)
    BY <1>2, PowerAssumption
<1> QED
    BY <1>2, <1>3 DEF minInt, maxInt, maxUInt, minLargestInt, maxLargestInt, maxLargestUInt

\* A double between two integers is truncated to one between them, and an
\* integral one to itself.
LEMMA TruncateFacts ==
    ASSUME NEW r, r.h \in Int, NEW lo \in Int, NEW hi \in Int
    PROVE  /\ Truncated(r) \in Int
           /\ 2 * lo <= r.h /\ r.h <= 2 * hi => Truncated(r) \in lo .. hi
           /\ IsIntegral(r) => 2 * Truncated(r) = r.h
BY DEF Truncated, IsIntegral

\* What each conversion is, type by type.
LEMMA ConversionCases ==
    ASSUME NEW v
    PROVE  /\ v.t \in {"int", "uint"} => asInt(v) = Converted(isInt(v), v.n)
           /\ v.t \in {"int", "uint"} => asUInt(v) = Converted(isUInt(v), v.n)
           /\ v.t = "int" => asInt64(v) = Returns(v.n)
           /\ v.t = "uint" => asInt64(v) = Converted(isInt64(v), v.n)
           /\ v.t = "uint" => asUInt64(v) = Returns(v.n)
           /\ v.t = "int" => asUInt64(v) = Converted(isUInt64(v), v.n)
           /\ v.t = "real" =>
                /\ asInt(v) = Converted(InRange(v.r, minInt, maxInt), Truncated(v.r))
                /\ asUInt(v) = Converted(InRange(v.r, 0, maxUInt), Truncated(v.r))
                /\ asInt64(v) = Converted(InRangeLargest(v.r, minLargestInt,
                                                         maxLargestInt),
                                          Truncated(v.r))
                /\ asUInt64(v) = Converted(InRangeLargest(v.r, 0, maxLargestUInt),
                                           Truncated(v.r))
           /\ v.t = "null" => asInt(v) = Returns(0) /\ asUInt(v) = Returns(0)
           /\ v.t = "bool" => /\ asInt(v) = Returns(BoolToInt(v.b))
                              /\ asUInt(v) = Returns(BoolToInt(v.b))
           /\ v.t \in {"string", "array", "object"} =>
                asInt(v) = Throws /\ asUInt(v) = Throws
<1>1. /\ v.t \in {"int", "uint"} => asInt(v) = Converted(isInt(v), v.n)
      /\ v.t = "real" =>
           asInt(v) = Converted(InRange(v.r, minInt, maxInt), Truncated(v.r))
      /\ v.t = "null" => asInt(v) = Returns(0)
      /\ v.t = "bool" => asInt(v) = Returns(BoolToInt(v.b))
      /\ v.t \in {"string", "array", "object"} => asInt(v) = Throws
    BY Zenon DEF asInt
<1>2. /\ v.t \in {"int", "uint"} => asUInt(v) = Converted(isUInt(v), v.n)
      /\ v.t = "real" =>
           asUInt(v) = Converted(InRange(v.r, 0, maxUInt), Truncated(v.r))
      /\ v.t = "null" => asUInt(v) = Returns(0)
      /\ v.t = "bool" => asUInt(v) = Returns(BoolToInt(v.b))
      /\ v.t \in {"string", "array", "object"} => asUInt(v) = Throws
    BY Zenon DEF asUInt
<1>3. /\ v.t = "int" => asInt64(v) = Returns(v.n)
      /\ v.t = "uint" => asInt64(v) = Converted(isInt64(v), v.n)
      /\ v.t = "real" => asInt64(v) =
           Converted(InRangeLargest(v.r, minLargestInt, maxLargestInt), Truncated(v.r))
    BY Zenon DEF asInt64
<1>4. /\ v.t = "uint" => asUInt64(v) = Returns(v.n)
      /\ v.t = "int" => asUInt64(v) = Converted(isUInt64(v), v.n)
      /\ v.t = "real" => asUInt64(v) =
           Converted(InRangeLargest(v.r, 0, maxLargestUInt), Truncated(v.r))
    BY Zenon DEF asUInt64
<1> QED
    BY <1>1, <1>2, <1>3, <1>4, Zenon

\* Whether a value converts, type by type.
LEMMA ConvertibleCases ==
    ASSUME NEW v, v.t \in Types
    PROVE  /\ isConvertibleTo(v, "int") =
                (\/ isInt(v) \/ v.t \in {"bool", "null"}
                 \/ v.t = "real" /\ InRange(v.r, minInt, maxInt))
           /\ isConvertibleTo(v, "uint") =
                (\/ isUInt(v) \/ v.t \in {"bool", "null"}
                 \/ v.t = "real" /\ InRange(v.r, 0, maxUInt))
           /\ isConvertibleTo(v, "real") = asDouble(v).ok
           /\ isConvertibleTo(v, "bool") = asBool(v).ok
<1> DEFINE scalar == v.t \in {"int", "uint", "real", "bool", "null"}
<1>1. /\ v.t \in {"int", "uint"} => asDouble(v) = [ok |-> TRUE, zero |-> v.n = 0]
      /\ v.t = "real" => asDouble(v) = [ok |-> TRUE, zero |-> v.r = Halves(0)]
      /\ v.t = "null" => asDouble(v) = [ok |-> TRUE, zero |-> TRUE]
      /\ v.t = "bool" => asDouble(v) = [ok |-> TRUE, zero |-> ~ v.b]
      /\ v.t \in {"string", "array", "object"} =>
           asDouble(v) = [ok |-> FALSE, zero |-> FALSE]
    BY Zenon DEF asDouble
<1>2. /\ v.t = "bool" => asBool(v) = [ok |-> TRUE, b |-> v.b]
      /\ v.t = "null" => asBool(v) = [ok |-> TRUE, b |-> FALSE]
      /\ v.t \in {"int", "uint"} => asBool(v) = [ok |-> TRUE, b |-> v.n # 0]
      /\ v.t = "real" => asBool(v) = [ok |-> TRUE, b |-> v.r # Halves(0)]
      /\ v.t \in {"string", "array", "object"} =>
           asBool(v) = [ok |-> FALSE, b |-> FALSE]
    BY Zenon DEF asBool
<1>3. asDouble(v).ok = scalar /\ asBool(v).ok = scalar
    <2>1. scalar => asDouble(v).ok = TRUE /\ asBool(v).ok = TRUE
        BY <1>1, <1>2
    <2>2. ~ scalar => asDouble(v).ok = FALSE /\ asBool(v).ok = FALSE
        BY <1>1, <1>2 DEF Types
    <2> HIDE DEF scalar
    <2>3. scalar \in BOOLEAN
        BY DEF scalar
    <2> QED
        BY <2>1, <2>2, <2>3
<1>4. /\ isConvertibleTo(v, "int") =
           (\/ isInt(v) \/ v.t \in {"bool", "null"}
            \/ v.t = "real" /\ InRange(v.r, minInt, maxInt))
      /\ isConvertibleTo(v, "uint") =
           (\/ isUInt(v) \/ v.t \in {"bool", "null"}
            \/ v.t = "real" /\ InRange(v.r, 0, maxUInt))
    BY Zenon DEF isConvertibleTo
<1>5. isConvertibleTo(v, "real") = scalar /\ isConvertibleTo(v, "bool") = scalar
    BY DEF isConvertibleTo, IsNumeric
<1> QED
    BY <1>3, <1>4, <1>5, Zenon

\* What a conversion returns, or that it throws.
LEMMA ConvertedFacts ==
    /\ \A n : Returns(n).ok = TRUE /\ Returns(n).n = n
    /\ Throws.ok = FALSE
    /\ \A holds \in BOOLEAN : \A n :
         Converted(holds, n) = IF holds THEN Returns(n) ELSE Throws
BY DEF Converted, Returns, Throws

\* The conversions of a value agree, for integers of any width: isConvertibleTo
\* says which of them return, and those stay in the range of their type.
THEOREM ConversionsHold ==
    ASSUME NEW v, ValueOK(v)
    PROVE  ConversionsSound(v)
<1>1. v.t \in Types
    BY DEF ValueOK
<1>2. /\ minInt \in Int /\ maxInt \in Int /\ maxUInt \in Int
      /\ minLargestInt \in Int /\ maxLargestInt \in Int /\ maxLargestUInt \in Int
      /\ minInt < 0 /\ 0 < maxInt /\ 0 < maxUInt
      /\ minLargestInt < 0 /\ 0 < maxLargestInt /\ maxLargestInt <= maxLargestUInt
    BY LimitFacts
<1>3. /\ isInt(v) \in BOOLEAN /\ isUInt(v) \in BOOLEAN
      /\ isInt64(v) \in BOOLEAN /\ isUInt64(v) \in BOOLEAN
      /\ \A r, lo, hi : InRange(r, lo, hi) \in BOOLEAN
    BY DEF isInt, isUInt, isInt64, isUInt64, InRange
<1>4. /\ isConvertibleTo(v, "real") = asDouble(v).ok
      /\ isConvertibleTo(v, "bool") = asBool(v).ok
    BY <1>1, ConvertibleCases, Zenon
<1>5. /\ isConvertibleTo(v, "int") = asInt(v).ok
      /\ asInt(v).ok => asInt(v).n \in minInt .. maxInt
    <2>1. isConvertibleTo(v, "int") =
            (\/ isInt(v) \/ v.t \in {"bool", "null"}
             \/ v.t = "real" /\ InRange(v.r, minInt, maxInt))
        BY <1>1, ConvertibleCases, Zenon
    <2>2. CASE v.t \in {"int", "uint"}
        <3>1. asInt(v) = IF isInt(v) THEN Returns(v.n) ELSE Throws
            BY <1>3, <2>2, ConversionCases, ConvertedFacts
        <3>2. isInt(v) => v.n \in minInt .. maxInt
            BY <2>2 DEF isInt
        <3> QED
            BY <1>3, <2>1, <2>2, <3>1, <3>2, ConvertedFacts
    <2>3. CASE v.t = "real"
        <3>1. asInt(v) = IF InRange(v.r, minInt, maxInt) THEN Returns(Truncated(v.r))
                         ELSE Throws
            BY <1>3, <2>3, ConversionCases, ConvertedFacts
        <3>2. InRange(v.r, minInt, maxInt) => Truncated(v.r) \in minInt .. maxInt
            BY <1>2, <2>3, TruncateFacts DEF InRange, ValueOK
        <3>3. isInt(v) => InRange(v.r, minInt, maxInt)
            BY <2>3 DEF isInt
        <3> QED
            BY <1>3, <2>1, <2>3, <3>1, <3>2, <3>3, ConvertedFacts
    <2>4. CASE v.t \in {"null", "bool"}
        <3>1. asInt(v) = Returns(0) \/ asInt(v) = Returns(1)
            BY <2>4, ConversionCases DEF BoolToInt
        <3>2. 0 \in minInt .. maxInt /\ 1 \in minInt .. maxInt
            BY <1>2
        <3>3. asInt(v).ok = TRUE /\ asInt(v).n \in minInt .. maxInt
            BY <3>1, <3>2, ConvertedFacts
        <3>4. isConvertibleTo(v, "int") = TRUE
            BY <2>1, <2>4, Zenon
        <3> QED
            BY <3>3, <3>4
    <2>5. CASE v.t \in {"string", "array", "object"}
        <3>1. asInt(v) = Throws /\ isInt(v) = FALSE
            BY <2>5, ConversionCases DEF isInt
        <3> QED
            BY <2>1, <2>5, <3>1, ConvertedFacts
    <2> QED
        BY <1>1, <2>2, <2>3, <2>4, <2>5 DEF Types
<1>6. /\ isConvertibleTo(v, "uint") = asUInt(v).ok
      /\ asUInt(v).ok => asUInt(v).n \in 0 .. maxUInt
    <2>1. isConvertibleTo(v, "uint") =
            (\/ isUInt(v) \/ v.t \in {"bool", "null"}
             \/ v.t = "real" /\ InRange(v.r, 0, maxUInt))
        BY <1>1, ConvertibleCases, Zenon
    <2>2. CASE v.t \in {"int", "uint"}
        <3>1. asUInt(v) = IF isUInt(v) THEN Returns(v.n) ELSE Throws
            BY <1>3, <2>2, ConversionCases, ConvertedFacts
        <3>2. isUInt(v) => v.n \in 0 .. maxUInt
            BY <2>2 DEF isUInt
        <3> QED
            BY <1>3, <2>1, <2>2, <3>1, <3>2, ConvertedFacts
    <2>3. CASE v.t = "real"
        <3>1. asUInt(v) = IF InRange(v.r, 0, maxUInt) THEN Returns(Truncated(v.r))
                          ELSE Throws
            BY <1>3, <2>3, ConversionCases, ConvertedFacts
        <3>2. InRange(v.r, 0, maxUInt) => Truncated(v.r) \in 0 .. maxUInt
            BY <1>2, <2>3, TruncateFacts DEF InRange, ValueOK
        <3>3. isUInt(v) => InRange(v.r, 0, maxUInt)
            BY <2>3 DEF isUInt
        <3> QED
            BY <1>3, <2>1, <2>3, <3>1, <3>2, <3>3, ConvertedFacts
    <2>4. CASE v.t \in {"null", "bool"}
        <3>1. asUInt(v) = Returns(0) \/ asUInt(v) = Returns(1)
            BY <2>4, ConversionCases DEF BoolToInt
        <3>2. 0 \in 0 .. maxUInt /\ 1 \in 0 .. maxUInt
            BY <1>2
        <3>3. asUInt(v).ok = TRUE /\ asUInt(v).n \in 0 .. maxUInt
            BY <3>1, <3>2, ConvertedFacts
        <3>4. isConvertibleTo(v, "uint") = TRUE
            BY <2>1, <2>4, Zenon
        <3> QED
            BY <3>3, <3>4
    <2>5. CASE v.t \in {"string", "array", "object"}
        <3>1. asUInt(v) = Throws /\ isUInt(v) = FALSE
            BY <2>5, ConversionCases DEF isUInt
        <3> QED
            BY <2>1, <2>5, <3>1, ConvertedFacts
    <2> QED
        BY <1>1, <2>2, <2>3, <2>4, <2>5 DEF Types
<1>7. isInt64(v) => asInt64(v).ok /\ asInt64(v).n \in minLargestInt .. maxLargestInt
    <2> SUFFICES ASSUME isInt64(v)
                 PROVE  \E n \in minLargestInt .. maxLargestInt : asInt64(v) = Returns(n)
        BY ConvertedFacts
    <2>1. CASE v.t = "int"
        BY <2>1, ConversionCases DEF ValueOK
    <2>2. CASE v.t = "uint"
        <3>1. asInt64(v) = Returns(v.n)
            BY <1>3, <2>2, ConversionCases, ConvertedFacts
        <3>2. v.n \in minLargestInt .. maxLargestInt
            BY <1>2, <2>2 DEF isInt64, ValueOK
        <3> QED
            BY <3>1, <3>2
    <2>3. CASE v.t = "real"
        <3>1. /\ IsIntegral(v.r) /\ v.r.h \in Int /\ v.r.k = "finite"
              /\ 2 * minLargestInt <= v.r.h /\ v.r.h < 2 * (maxLargestInt + 1)
            BY <2>3 DEF isInt64, ValueOK, IsIntegral
        <3>2. InRangeLargest(v.r, minLargestInt, maxLargestInt)
            BY <1>2, <3>1 DEF InRangeLargest, InRange
        <3>3. asInt64(v) = Returns(Truncated(v.r))
            BY <2>3, <3>2, ConversionCases DEF Converted
        <3>4. Truncated(v.r) \in Int /\ 2 * Truncated(v.r) = v.r.h
            BY <3>1, TruncateFacts
        <3> QED
            BY <1>2, <3>1, <3>3, <3>4
    <2> QED
        BY <2>1, <2>2, <2>3 DEF isInt64
<1>8. isUInt64(v) => asUInt64(v).ok /\ asUInt64(v).n \in 0 .. maxLargestUInt
    <2> SUFFICES ASSUME isUInt64(v)
                 PROVE  \E n \in 0 .. maxLargestUInt : asUInt64(v) = Returns(n)
        BY ConvertedFacts
    <2>1. CASE v.t = "uint"
        BY <2>1, ConversionCases DEF ValueOK
    <2>2. CASE v.t = "int"
        <3>1. asUInt64(v) = Returns(v.n)
            BY <1>3, <2>2, ConversionCases, ConvertedFacts
        <3>2. v.n \in 0 .. maxLargestUInt
            BY <1>2, <2>2 DEF isUInt64, ValueOK
        <3> QED
            BY <3>1, <3>2
    <2>3. CASE v.t = "real"
        <3>1. /\ IsIntegral(v.r) /\ v.r.h \in Int /\ v.r.k = "finite"
              /\ 0 <= v.r.h /\ v.r.h < 2 * (maxLargestUInt + 1)
            BY <2>3 DEF isUInt64, ValueOK, IsIntegral
        <3>2. InRangeLargest(v.r, 0, maxLargestUInt)
            BY <1>2, <3>1 DEF InRangeLargest, InRange
        <3>3. asUInt64(v) = Returns(Truncated(v.r))
            BY <2>3, <3>2, ConversionCases DEF Converted
        <3>4. Truncated(v.r) \in Int /\ 2 * Truncated(v.r) = v.r.h
            BY <3>1, TruncateFacts
        <3> QED
            BY <1>2, <3>1, <3>3, <3>4
    <2> QED
        BY <2>1, <2>2, <2>3 DEF isUInt64
<1>9. v.t = "real" /\ isInt(v) => 2 * asInt(v).n = v.r.h
    <2> SUFFICES ASSUME v.t = "real", isInt(v)
                 PROVE  2 * asInt(v).n = v.r.h
        OBVIOUS
    <2>1. InRange(v.r, minInt, maxInt) /\ IsIntegral(v.r) /\ v.r.h \in Int
        BY DEF isInt, ValueOK
    <2>2. asInt(v) = Returns(Truncated(v.r))
        BY <2>1, ConversionCases DEF Converted
    <2>3. 2 * Truncated(v.r) = v.r.h
        BY <1>2, <2>1, TruncateFacts
    <2> QED
        BY <2>2, <2>3, ConvertedFacts
<1> QED
    BY <1>4, <1>5, <1>6, <1>7, <1>8, <1>9 DEF ConversionsSound
=============================================================================
