---------------------------- MODULE JsonScalars ----------------------------
(***************************************************************************)
(* Strings, numbers and keywords as RFC 8259 defines them, over the        *)
(* characters of JsonLexer, and the same with the liberties the program    *)
(* takes: a reference to compare parseString, parseNumber and parseKeyword *)
(* with, written by cutting a text into parts and not by reading it.       *)
(***************************************************************************)
EXTENDS JsonLexer

Part(s, i, j) == SubSeq(s, i, j)
HexDigits     == Digits \cup {"a", "b", "e", "f"}

(* Strings: a sequence of items between quotes.  The liberties: control    *)
(* characters, and any four characters after \u.                           *)
Item(s) ==
  CASE Len(s) = 1 -> s[1] \notin {"quote", "back", "lf"}
    [] Len(s) = 2 -> s[1] = "back" /\ s[2] \in Letters
    [] Len(s) = 6 -> s[1] = "back" /\ s[2] = "u" /\ \A i \in 3 .. 6 : s[i] \in HexDigits
LooseItem(s) ==
  \/ Item(s) \/ s = <<"lf">>
  \/ Len(s) = 6 /\ s[1] = "back" /\ s[2] = "u"

(* cuts: where the items begin, and the place of the closing quote.        *)
IsStringOf(P(_), t) ==
  LET n == Len(t)
  IN  /\ n >= 2 /\ t[1] = "quote" /\ t[n] = "quote"
      /\ \E cuts \in SUBSET (2 .. n) :
           /\ {2, n} \subseteq cuts
           /\ \A i \in cuts \ {n} : \E k \in {1, 2, 6} :
                i + k \in cuts /\ P(Part(t, i, i + k - 1))

IsJsonString(t)  == IsStringOf(Item, t)
IsLooseString(t) == IsStringOf(LooseItem, t)

(* Numbers: a sign, an integer, a fraction, an exponent.  The liberties:   *)
(* leading zeros, an empty integer, fraction or exponent, as long as a     *)
(* digit precedes the exponent and the text starts as parseValue wants.    *)
AllDigits(s) == \A i \in DOMAIN s : s[i] \in Digits
WithoutSign(s, signs) == IF s # << >> /\ s[1] \in signs THEN Tail(s) ELSE s

IsInt(s)  == s # << >> /\ AllDigits(s) /\ (s[1] = "0" => Len(s) = 1)
IsFrac(s) == s # << >> => s[1] = "." /\ AllDigits(Tail(s)) /\ Len(s) > 1
IsExp(s)  == s # << >> => /\ s[1] = "e"
                          /\ LET e == WithoutSign(Tail(s), {"+", "-"})
                             IN  e # << >> /\ AllDigits(e)

LooseFrac(s) == s # << >> => s[1] = "." /\ AllDigits(Tail(s))
LooseExp(s)  == s # << >> => s[1] = "e" /\ AllDigits(WithoutSign(Tail(s), {"+", "-"}))

IsJsonNumber(t) ==
  LET u == WithoutSign(t, {"-"})
      n == Len(u)
  IN  \E i, j \in 0 .. n : /\ i <= j /\ IsInt(Part(u, 1, i))
                           /\ IsFrac(Part(u, i + 1, j)) /\ IsExp(Part(u, j + 1, n))
IsLooseNumber(t) ==
  LET u == WithoutSign(t, {"-"})
      n == Len(u)
  IN  /\ t # << >> /\ t[1] \in {"-"} \cup Digits
      /\ \E i, j \in 0 .. n : /\ i <= j /\ AllDigits(Part(u, 1, i))
                              /\ LooseFrac(Part(u, i + 1, j))
                              /\ LooseExp(Part(u, j + 1, n))
                              /\ \E k \in 1 .. j : u[k] \in Digits

IsJson(t)  == IsJsonString(t) \/ IsJsonNumber(t) \/ t \in Keywords
IsLoose(t) == IsLooseString(t) \/ IsLooseNumber(t) \/ t \in Keywords

(* A string written as JSON wants it written: quotes and backslashes, and  *)
(* slashes too, behind a backslash, control characters as a letter.        *)
Escaped(c, letter) ==
  IF c = "lf" THEN <<"back", letter>>
  ELSE IF c \in Themselves THEN <<"back", c>> ELSE <<c>>
Encoded(s, letter) ==
  LET enc[i \in 0 .. Len(s)] == IF i = 0 THEN << >>
                                ELSE enc[i - 1] \o Escaped(s[i], letter)
  IN  Quoted(enc[Len(s)])

CONSTANT Strings        \* strings whose encodings are among the texts

ASSUME StringsAssumption == Strings \subseteq Seq(Chars)

-----------------------------------------------------------------------------
(* Every JSON string, number and keyword is accepted, but for a number out *)
(* of the range of double (src/json_parser.cpp:147-261).                   *)
RefusesNoScalar ==
  result = "thrown" => ~IsJson(text) \/ (IsJsonNumber(text) /\ MayLeaveRange(text))

(* Nothing is accepted besides but, at most, raw control characters, \u    *)
(* with any four characters behind it, and numbers that lack digits or have*)
(* too many zeros: no other escape, no open string, no text that stod reads*)
(* only in part (src/json_parser.cpp:151-170, 187-198, 206-241).           *)
AcceptsKnownForms == result = "value" => IsLoose(text)

(* What tests/test_json.cpp:321-330 asserts of parse("1."), under the      *)
(* words "an incomplete number": a number that breaks off behind a sign, a *)
(* point or an e is refused. The code does not satisfy it: stod converts   *)
(* the part in front of it, and the position is behind it                  *)
(* (src/json_parser.cpp:216-221, 224-232, 237).                            *)
BreaksOff(t) == t # << >> /\ t[1] \in Digits \cup {"-"} /\ t[Len(t)] \notin Digits
UnfinishedIsRefused == BreaksOff(text) => result # "value"

(* A string encoded by the rules of JSON is read as it was meant           *)
(* (src/json_parser.cpp:174-199).                                          *)
EncodedIsRead ==
  result # "running" /\ ~again /\ IsString =>
    \A s \in Strings, l \in ControlLetters :
      text = Encoded(s, l) => result = "value" /\ str = s

(* JSON strings, numbers and keywords are accepted, and strings are read as*)
(* they were meant, unless a number is out of range                        *)
(* (src/json_parser.cpp:147-255).                                          *)
JsonIsRead == RefusesNoScalar /\ EncodedIsRead
=============================================================================
