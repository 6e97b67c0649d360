---------------------------- MODULE MCJsonLexer ----------------------------
(***************************************************************************)
(* Instance of the lexer: short strings over all that matters in a string, *)
(* \u with every kind of character behind it, short numbers, and the       *)
(* keywords with what is almost one.                                       *)
(***************************************************************************)
EXTENDS JsonScalars

Over(chars, lens) == UNION {[1 .. n -> chars] : n \in lens}

MCStrings == Over({"quote", "back", "/", "lf", "n", "b", "u"}, 0 .. 2)

StringTexts  == {<<"quote">> \o s : s \in Over({"quote", "back", "lf", "x", "n", "u"}, 0 .. 5)
                                          \cup Over({"quote", "back", "/", "b"}, 0 .. 5)}
UnicodeTexts == {<<"quote", "back", "u">> \o s :
                   s \in Over({"0", "quote", "back", "x"}, 3 .. 6)}
NumberTexts  == Over({"-", "+", "0", "1", ".", "e"}, 0 .. 5)
                  \cup Over({"-", "1", ".", "e"}, {6})

MCTexts == StringTexts \cup UnicodeTexts \cup NumberTexts
             \cup {Encoded(s, l) : s \in MCStrings, l \in ControlLetters} \cup {<<"x">>}
             \cup UNION {{Part(w, 1, n), Part(w, 1, n) \o <<"x">>} :
                           w \in Keywords, n \in 1 .. 4} \cup Keywords
=============================================================================
