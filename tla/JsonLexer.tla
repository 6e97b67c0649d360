----------------------------- MODULE JsonLexer -----------------------------
(***************************************************************************)
(* The leaves of JsonParser::parse (src/json_parser.cpp): parseString with *)
(* parseEscapeSequence, parseNumber and parseKeyword over classes of       *)
(* characters, and what toString makes of a string.  JsonParser takes each *)
(* of these calls for one token; here a text is one value.                 *)
(*                                                                         *)
(* A character is named for what the functions tell apart: "quote", "back" *)
(* (a backslash), "lf" (any control character), "x" (a letter nothing asks *)
(* for), and the letters and signs that have a meaning; "0" and "1" stand  *)
(* for the digits, "nul" for jsonStr[size()].  pos is the number of        *)
(* characters consumed, as in JsonParser.                                  *)
(*                                                                         *)
(* After a string has been parsed the program may print it with toString   *)
(* and parse that again: a record that is exported and loaded once more.   *)
(***************************************************************************)
EXTENDS Integers, Sequences

CONSTANTS
  Texts,        \* the texts to parse
  ExpDigits,    \* a number may leave the range of double if its exponent has
                \* that many digits,
  MantDigits    \* or its first and its last other digit are that far apart

Digits == {"0", "1"}
Chars  == Digits \cup {"quote", "back", "lf", "x", "?", "-", "+", ".", "/",
                       "e", "t", "r", "u", "f", "a", "l", "s", "n", "b"}

ASSUME LexerAssumption ==
  /\ Texts \subseteq Seq(Chars)
  /\ ExpDigits \in Nat \ {0} /\ MantDigits \in Nat \ {0}

VARIABLES
  text,         \* jsonStr
  pos,          \* the position
  ctl,          \* which loop or test is next
  str,          \* parseString's result so far
  again,        \* history: the text was printed by toString
  printed,      \* history: the string it was printed from
  result        \* "running", "value" (parse returned) or "thrown"

vars == <<text, pos, ctl, str, again, printed, result>>

Init ==
  /\ text \in Texts /\ pos = 0 /\ ctl = "value" /\ str = << >>
  /\ again = FALSE /\ printed = << >> /\ result = "running"

CharAt(i) == IF i < Len(text) THEN text[i + 1] ELSE "nul"
Char      == CharAt(pos)
At(c)     == result = "running" /\ ctl = c

Advance(n, c) ==
  /\ pos' = pos + n /\ ctl' = c
  /\ UNCHANGED <<text, again, printed, result>>

Throw == result' = "thrown" /\ UNCHANGED <<text, pos, ctl, str, again, printed>>

-----------------------------------------------------------------------------
(* parseValue, for a text that starts no array and no object.              *)
OpenString   == At("value") /\ Char = "quote" /\ Advance(1, "string") /\ UNCHANGED str
EnterNumber  == At("value") /\ Char \in {"-"} \cup Digits /\ Advance(0, "sign") /\ UNCHANGED str
EnterKeyword == At("value") /\ Char \in {"t", "f", "n"} /\ Advance(0, "keyword") /\ UNCHANGED str
NoValue ==
  /\ At("value") /\ Char \notin {"quote", "-", "t", "f", "n"} \cup Digits
  /\ Throw

(* parse: characters left behind the value are an error.                   *)
Finish ==
  /\ At("end")
  /\ IF pos = Len(text) THEN result' = "value" /\ UNCHANGED <<text, pos, ctl, str, again, printed>>
     ELSE Throw

-----------------------------------------------------------------------------
(* parseString: one turn of its loop, or its end.                          *)
(* A fault: a control character is left out.                               *)
PlainCharOnly ==
  /\ At("string") /\ Char \notin {"nul", "quote", "back"}
  /\ Advance(1, "string") /\ str' = IF Char = "lf" THEN str ELSE Append(str, Char)

PlainChar ==
  /\ At("string") /\ Char \notin {"nul", "quote", "back"}
  /\ Advance(1, "string") /\ str' = Append(str, Char)

CloseString == At("string") /\ Char = "quote" /\ Advance(1, "end") /\ UNCHANGED str

Unterminated == At("string") /\ Char = "nul" /\ Throw

(* parseEscapeSequence.  \u takes the four characters behind it, whatever  *)
(* they are, and gives a question mark.                                    *)
Themselves     == {"quote", "back", "/"}
ControlLetters == {"b", "f", "n", "r", "t"}
Letters        == Themselves \cup ControlLetters

(* A fault: the letter stands for itself.                                  *)
MeaningItself(c) == c

Meaning(c) == IF c \in Themselves THEN c ELSE "lf"

EscapeLetter ==
  /\ At("string") /\ Char = "back" /\ CharAt(pos + 1) \in Letters
  /\ Advance(2, "string") /\ str' = Append(str, Meaning(CharAt(pos + 1)))

FourFollow == pos + 2 + 3 < Len(text)

(* A fault: only the u itself is consumed.                                 *)
NoneTaken == 0

Taken == 4

EscapeUnicode ==
  /\ At("string") /\ Char = "back" /\ CharAt(pos + 1) = "u" /\ FourFollow
  /\ Advance(2 + Taken, "string") /\ str' = Append(str, "?")

BadEscape ==
  /\ At("string") /\ Char = "back"
  /\ \/ CharAt(pos + 1) \notin Letters \cup {"u"}
     \/ CharAt(pos + 1) = "u" /\ ~FourFollow
  /\ Throw

-----------------------------------------------------------------------------
(* parseNumber: at each place the characters it takes, and where it goes   *)
(* when it takes one and when it does not.                                 *)
Place(takes, then, else) == [takes |-> takes, then |-> then, else |-> else]

NumberPlaces ==
  [sign      |-> Place({"-"},      "int",       "int"),
   int       |-> Place(Digits,     "int",       "point"),
   point     |-> Place({"."},      "frac",      "exp"),
   frac      |-> Place(Digits,     "frac",      "exp"),
   exp       |-> Place({"e"},      "expsign",   "stod"),
   expsign   |-> Place({"+", "-"}, "expdigits", "expdigits"),
   expdigits |-> Place(Digits,     "expdigits", "stod")]

(* A fault: the position stays where it is.                                *)
NumberPartStuck ==
  \E c \in DOMAIN NumberPlaces :
    /\ At(c) /\ UNCHANGED str
    /\ LET p == NumberPlaces[c]
       IN  IF Char \in p.takes THEN Advance(0, p.then) ELSE Advance(0, p.else)

NumberPart ==
  \E c \in DOMAIN NumberPlaces :
    /\ At(c) /\ UNCHANGED str
    /\ LET p == NumberPlaces[c]
       IN  IF Char \in p.takes THEN Advance(1, p.then) ELSE Advance(0, p.else)

(* std::stod converts the longest prefix that is a number, and throws when *)
(* there is none or when its value is out of range: too large or too small *)
(* a number by its exponent or by the digits in front of it.  With 3 for   *)
(* ExpDigits and 200 for MantDigits every other number is in the range.    *)
NumStr      == SubSeq(text, 1, pos)
Mantissa(s) == {i \in DOMAIN s : s[i] \in Digits /\ \A j \in 1 .. i : s[j] # "e"}
Exponent(s) == {i \in DOMAIN s : s[i] \in Digits} \ Mantissa(s)

Converts(s)      == Mantissa(s) # {}
MayLeaveRange(s) == \/ \E i \in Exponent(s) : i + ExpDigits - 1 \in Exponent(s)
                    \/ \E i, j \in Mantissa(s) : j - i >= MantDigits

Stod ==
  /\ At("stod")
  /\ \/ Converts(NumStr) /\ Advance(0, "end") /\ UNCHANGED str
     \/ (~Converts(NumStr) \/ MayLeaveRange(NumStr)) /\ Throw

(* parseKeyword: jsonStr.compare(pos, 4, "true") == 0, and so on.          *)
Keywords == {<<"t", "r", "u", "e">>, <<"f", "a", "l", "s", "e">>, <<"n", "u", "l", "l">>}
Found(w) == \A i \in DOMAIN w : CharAt(pos + i - 1) = w[i]

ParseKeyword ==
  /\ At("keyword")
  /\ \/ \E w \in Keywords : Found(w) /\ Advance(Len(w), "end") /\ UNCHANGED str
     \/ (\A w \in Keywords : ~Found(w)) /\ Throw

-----------------------------------------------------------------------------
(* toString: oss << '"' << val.asString() << '"', and nothing is escaped.  *)
Quoted(s) ==
  [i \in 1 .. Len(s) + 2 |-> IF i = 1 \/ i = Len(s) + 2 THEN "quote" ELSE s[i - 1]]

IsString == text # << >> /\ text[1] = "quote"

ExportAndLoad ==
  /\ result = "value" /\ IsString
  /\ text' = Quoted(str) /\ printed' = str /\ again' = TRUE
  /\ pos' = 0 /\ ctl' = "value" /\ str' = << >> /\ result' = "running"

Parsing ==
  \/ OpenString \/ EnterNumber \/ EnterKeyword \/ NoValue \/ Finish
  \/ PlainChar \/ CloseString \/ Unterminated
  \/ EscapeLetter \/ EscapeUnicode \/ BadEscape
  \/ NumberPart \/ Stod \/ ParseKeyword

Next == Parsing \/ ExportAndLoad

(* A call of parse runs to its end; nobody need export anything.           *)
Spec     == Init /\ [][Next]_vars
FairSpec == Spec /\ WF_vars(Parsing)

-----------------------------------------------------------------------------
Controls == {"value", "string", "keyword", "stod", "end"} \cup DOMAIN NumberPlaces

(* The position never passes the end of the text, also where it moves by   *)
(* four and by six.                                                        *)
TypeOK ==
  /\ text \in Seq(Chars) /\ pos \in 0 .. Len(text) /\ ctl \in Controls
  /\ str \in Seq(Chars) /\ printed \in Seq(Chars) /\ again \in BOOLEAN
  /\ result \in {"running", "value", "thrown"}

Plain(s) == \A i \in DOMAIN s : s[i] \notin {"quote", "back"}

(* A string that is exported and loaded again is the same if it holds      *)
(* neither a quote nor a backslash.  If it does, the load fails or the     *)
(* string gets shorter: it never comes back as it was, and never longer    *)
(* (src/json_parser.cpp:147-199, 327).                                     *)
PrintedComesBack ==
  again /\ result # "running" =>
    IF Plain(printed) THEN result = "value" /\ str = printed
    ELSE result = "thrown" \/ Len(str) < Len(printed)

(* A parse ends.  And a value that is exported and loaded again and again, *)
(* as often as somebody does it, in the end does not change any more, or a *)
(* load fails (src/json_parser.cpp:18-28, 326-328).                        *)
Settled == result = "thrown" \/ (result = "value" /\ again /\ str = printed)
Settles ==
  /\ result = "running" ~> result # "running"
  /\ []<><<ExportAndLoad>>_vars => <>Settled
=============================================================================
