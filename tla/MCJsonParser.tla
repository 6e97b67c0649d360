---------------------------- MODULE MCJsonParser ----------------------------
(***************************************************************************)
(* Instance of the parser and its grammar: all short texts over every      *)
(* token, and longer ones over the tokens of nested arrays and objects.    *)
(***************************************************************************)
EXTENDS JsonGrammar

TextsOver(tokens, max) == UNION {[1 .. n -> tokens] : n \in 0 .. max}

MCTexts == TextsOver(Tokens, 5)
             \cup TextsOver(Tokens \ {"bad", "scalar", "ws"}, 6)
             \cup TextsOver({"[", "]", ",", "scalar", "ws"}, 6)
=============================================================================
