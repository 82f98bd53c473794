------------------------------- MODULE MCJsonReader -------------------------
EXTENDS JsonGrammar

One == Numeral(FALSE, <<1>>, <<>>, "none")
SeqsUpTo(S, n) == UNION {[1 .. k -> S] : k \in 0 .. n}

(* Strict, default and everything allowed, and the deprecated reader, with *)
(* small stack limits.                                                     *)
MCSettings ==
  {[StrictMode EXCEPT !.stackLimit = 3],
   [SetDefaults EXCEPT !.stackLimit = 2],
   [SetDefaults EXCEPT !.allowDroppedNullPlaceholders = TRUE,
      !.allowNumericKeys = TRUE, !.allowSingleQuotes = TRUE,
      !.failIfExtra = TRUE, !.allowSpecialFloats = TRUE, !.stackLimit = 3],
   [FeaturesAll EXCEPT !.allowNumericKeys = TRUE, !.stackLimit = 2]}

MCLexemes ==
  {Punct(c) : c \in {"{", "}", "[", "]", ",", ":", "cmt", "error"}}
  \cup {Quoted(<<>>), Quoted(<<97>>), One}

(* A document may also be any of these alone: numerals around every limit, *)
(* words, escapes good and bad, surrogates, single quotes.                 *)
MCFirstLexemes ==
  MCLexemes
  \cup {Numeral(neg, d, <<>>, "none") :
          neg \in BOOLEAN, d \in SeqsUpTo({0, 1, 2, 3, 6, 9}, 3)}
  \cup {Numeral(TRUE, <<>>, <<>>, "bad"), Numeral(FALSE, <<7>>, <<5>>, "none"),
        Numeral(TRUE, <<1>>, <<>>, "huge")}
  \cup {Word(w) : w \in {"true", "false", "null", "NaN", "inf", "-inf"}}
  \cup {Quoted(r) : r \in SeqsUpTo({97, 92, 117, 47, 110}, 3)}
  \cup {Quoted(<<92, 117, 68, 56, 48, 48>> \o r) :
          r \in {<<>>, <<92, 117, 68, 67, 48, 48>>, <<92, 117, 48, 48, 52>>}}
  \cup {[c |-> "sq", raw |-> r] : r \in {<<97>>, <<97, 34, 97>>}}

=============================================================================
