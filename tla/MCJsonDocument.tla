---------------------------- MODULE MCJsonDocument ----------------------------
EXTENDS JsonDocument

Bytes == {97, 34, 92, 10, 1, 0, 200}     \* a " \ LF SOH NUL and a high byte
SeqsUpTo(S, n) == UNION {[1 .. k -> S] : k \in 0 .. n}

MCSettings ==
  {[SetDefaults EXCEPT !.allowDroppedNullPlaceholders = TRUE,
      !.allowSpecialFloats = TRUE, !.rejectDupKeys = TRUE, !.stackLimit = 3]}
MCLexemes == {Punct(c) : c \in {"{", "}"}}

MCNames == {<<97>>, <<97, 0>>}
MCPaths == {<<>>, <<AtIndex(0)>>, <<AtIndex(2)>>, <<AtKey(<<97>>)>>,
            <<AtKey(<<97, 0>>)>>, <<AtIndex(0), AtIndex(1)>>,
            <<AtIndex(0), AtKey(<<97>>)>>, <<AtKey(<<97>>), AtIndex(0)>>}
MCLeaves == {Null, IntValue(1), StringValue(<<34, 97>>), OfType("array")}
MCRootLeaves ==
  {IntValue(n) : n \in minLargestInt .. maxLargestInt}
  \cup {UIntValue(n) : n \in 0 .. maxLargestUInt}
  \cup {RealValue(Halves(2 * limit + d)) : d \in -2 .. 2,
          limit \in {minLargestInt, minInt, 0, maxInt, maxUInt, maxLargestInt,
                    maxLargestUInt}}
  \cup {RealValue(Special(k)) : k \in {"nan", "inf", "-inf"}}
  \cup {StringValue(s) : s \in SeqsUpTo(Bytes, 2)}
  \cup {BoolValue(b) : b \in BOOLEAN} \cup {OfType("object")}
MCIndices == 0 .. 3
MCWriters == {FastWriter(FALSE), FastWriter(TRUE), StyledWriter,
              DefaultStreamWriter, BuiltWriter("None", TRUE, TRUE)}
=============================================================================
