---------------------------- MODULE JsonGrammar ----------------------------
(***************************************************************************)
(* A reference definition of JSON over the tokens of JsonParser, written   *)
(* as the grammar of RFC 8259 and not as a parser: which spans of a text   *)
(* without white space are values, pairs, and lists of these.  The span    *)
(* from a to b holds the words a + 1 .. b.                                 *)
(***************************************************************************)
EXTENDS JsonParser, FiniteSets

Kinds        == {"arr", "obj"}
Comma        == ","
Colon        == ":"
Opener(kind) == IF kind = "obj" THEN "{" ELSE "["

(* The tokens that are no white space.                                     *)
Words(s) ==
  LET kept[i \in 0 .. Len(s)] ==
        IF i = 0 THEN << >>
        ELSE IF s[i] = "ws" THEN kept[i - 1] ELSE Append(kept[i - 1], s[i])
  IN  kept[Len(s)]

(* lists[n][kind]: where the lists of n words begin that a bracket of that *)
(* kind may hold.  A value or a pair is made of shorter lists.             *)
IsValue(w, lists, a, b) ==
  \/ b = a + 1 /\ w[b] \in {"str", "scalar"}
  \/ /\ b >= a + 2
     /\ \E kind \in Kinds : /\ w[a + 1] = Opener(kind) /\ w[b] = Closer(kind)
                            /\ b = a + 2 \/ a + 1 \in lists[b - a - 2][kind]

IsPair(w, lists, a, b) ==
  b >= a + 3 /\ w[a + 1] = "str" /\ w[a + 2] = Colon /\ IsValue(w, lists, a + 2, b)

IsItem(w, lists, kind, a, b) ==
  IF kind = "arr" THEN IsValue(w, lists, a, b) ELSE IsPair(w, lists, a, b)

(* An item, or an item, a comma and a list.                                *)
IsList(w, lists, kind, a, b) ==
  \/ IsItem(w, lists, kind, a, b)
  \/ \E c \in a + 1 .. b - 2 : /\ w[c + 1] = Comma /\ IsItem(w, lists, kind, a, c)
                               /\ c + 1 \in lists[b - c - 1][kind]

Lists(w) ==
  LET lists[n \in 0 .. Len(w)] ==
        [kind \in Kinds |-> {a \in 0 .. Len(w) - n : IsList(w, lists, kind, a, a + n)}]
  IN  lists

IsJson(s) == LET w == Words(s) IN IsValue(w, Lists(w), 0, Len(w))

(* A text cut off inside its outermost array or object: right after the    *)
(* opening bracket (and white space), or right after a comma.              *)
IsCutOff(s) ==
  LET w == Words(s)
  IN  /\ w # << >>
      /\ \E kind \in Kinds :
           /\ w[1] = Opener(kind)
           /\ \/ Len(w) = 1
              \/ /\ s[Len(s)] = Comma
                 /\ IsList(w, Lists(w), kind, 1, Len(w) - 1)

(* The commas that separate the elements of the outermost array.           *)
Depth(w, i) ==
  Cardinality({j \in 1 .. i : \E kind \in Kinds : w[j] = Opener(kind)})
    - Cardinality({j \in 1 .. i : \E kind \in Kinds : w[j] = Closer(kind)})
TopCommas(w) == Cardinality({i \in DOMAIN w : w[i] = Comma /\ Depth(w, i) = 1})

-----------------------------------------------------------------------------
(* A JSON text is never refused, whatever its nesting and white space      *)
(* (src/json_parser.cpp:18-28, 54-144).                                    *)
RefusesNoJson == result = "thrown" => ~IsJson(text)

(* Of other texts, at most those cut off inside their outermost bracket    *)
(* are accepted: the loops of parseObject and parseArray end at the end of *)
(* the text as they end at the closing bracket.  A text cut off in an      *)
(* inner bracket is refused, as one with anything behind its value is      *)
(* (src/json_parser.cpp:18-28, 72, 123).                                   *)
AcceptsLittleElse == result = "value" => IsJson(text) \/ IsCutOff(text)

JsonIsAccepted == RefusesNoJson /\ AcceptsLittleElse

(* "Incomplete JSON" is refused (tests/test_json.cpp:256-264: parse of an  *)
(* opening brace must throw): only JSON is accepted                        *)
(* (src/json_parser.cpp:72, 123).                                          *)
AcceptsOnlyJson == result = "value" => IsJson(text)

(* The array returned holds every element that was complete, in a text cut *)
(* off as in a whole one (src/json_parser.cpp:123-143).                    *)
ElementsAreCounted ==
  result = "value" /\ Words(text)[1] = "[" =>
    LET w == Words(text)
    IN  elements = IF IsCutOff(text) \/ w = <<"[", "]">>
                   THEN TopCommas(w) ELSE TopCommas(w) + 1
=============================================================================
