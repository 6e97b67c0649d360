-------------------------- MODULE JsonLexerProofs --------------------------
(***************************************************************************)
(* Theorems about JsonLexer, for any texts: the position stays inside the  *)
(* text; what becomes of a string that is exported and loaded again; what  *)
(* is accepted; and that JSON is accepted and read as it was meant.        *)
(***************************************************************************)
EXTENDS JsonScalars, WellFoundedInduction, TLAPS

-----------------------------------------------------------------------------
(* The inductive invariant.  What parseString has built from n characters  *)
(* behind the opening quote is either those characters, none of them       *)
(* special, or shorter, and then there was a backslash among them.         *)
Same(n) ==
  /\ Len(str) = n
  /\ \A i \in 1 .. n : str[i] = text[i + 1] /\ text[i + 1] \notin {"quote", "back"}
Shorter(n) == Len(str) < n /\ \E j \in 2 .. n + 1 : text[j] = "back"

Start    == ctl = "value" => pos = 0 /\ str = << >>
InString == ctl = "string" => pos >= 1 /\ (Same(pos - 1) \/ Shorter(pos - 1))
Closed   == ctl = "end" /\ IsString =>
              pos >= 2 /\ text[pos] = "quote" /\ (Same(pos - 2) \/ Shorter(pos - 2))
Kinds    == IsString => ctl \in {"value", "string", "end"}
Returned == result = "value" => ctl = "end" /\ pos = Len(text)
Printed  == again => text = Quoted(printed)
Refused  == again /\ result = "thrown" => ~Plain(printed)

IInv ==
  /\ TypeOK /\ Start /\ InString /\ Closed /\ Kinds /\ Returned /\ Printed /\ Refused

-----------------------------------------------------------------------------
(* A printed string is the string between two quotes                       *)
(* (json_parser.cpp:326-328).                                              *)
LEMMA QuotedFacts ==
  ASSUME NEW s \in Seq(Chars)
  PROVE  /\ Quoted(s) \in Seq(Chars) /\ Len(Quoted(s)) = Len(s) + 2
         /\ Quoted(s)[1] = "quote" /\ Quoted(s)[Len(s) + 2] = "quote"
         /\ \A i \in 1 .. Len(s) : Quoted(s)[i + 1] = s[i]
  <1> DEFINE f == [i \in 1 .. Len(s) + 2 |->
                     IF i = 1 \/ i = Len(s) + 2 THEN "quote" ELSE s[i - 1]]
  <1>1. Len(s) + 2 \in Nat /\ \A i \in 1 .. Len(s) + 2 : f[i] \in Chars
    BY DEF Chars
  <1>2. f \in Seq(Chars) /\ Len(f) = Len(s) + 2
    BY <1>1
  <1>3. f[1] = "quote" /\ f[Len(s) + 2] = "quote"
    BY <1>1
  <1>4. \A i \in 1 .. Len(s) : f[i + 1] = s[i]
    BY <1>1
  <1> QED BY <1>2, <1>3, <1>4 DEF Quoted

(* A character of a printed string that is not a quote mark at its ends is *)
(* a character of the string.                                              *)
LEMMA Inside ==
  ASSUME NEW s \in Seq(Chars), NEW j \in 2 .. Len(s) + 1
  PROVE  Quoted(s)[j] = s[j - 1]
  <1>1. j - 1 \in 1 .. Len(s) /\ (j - 1) + 1 = j
    OBVIOUS
  <1> QED BY <1>1, QuotedFacts

(* The terminating null is no character.                                   *)
LEMMA CharFacts ==
  ASSUME TypeOK, NEW i \in Nat, CharAt(i) # "nul"
  PROVE  i < Len(text) /\ CharAt(i) = text[i + 1] /\ CharAt(i) \in Chars
  <1>1. i < Len(text)
    BY DEF CharAt
  <1>2. text[i + 1] \in Chars
    BY <1>1 DEF TypeOK
  <1> QED BY <1>1, <1>2 DEF CharAt

(* The places of parseNumber lead to places of the parser, and the null is *)
(* taken at none of them.                                                  *)
LEMMA PlaceFacts ==
  ASSUME NEW c \in DOMAIN NumberPlaces
  PROVE  /\ "nul" \notin NumberPlaces[c].takes
         /\ NumberPlaces[c].then \in Controls \ {"value", "string", "end"}
         /\ NumberPlaces[c].else \in Controls \ {"value", "string", "end"}
         /\ c \notin {"value", "string", "end"}
  BY DEF NumberPlaces, Place, Controls, Digits

-----------------------------------------------------------------------------
LEMMA InitInv == Init => IInv
  <1> SUFFICES ASSUME Init PROVE IInv
    OBVIOUS
  <1> USE DEF Init
  <1>1. text \in Seq(Chars) /\ Len(text) \in Nat
    BY LexerAssumption
  <1>2. TypeOK
    <2>1. << >> \in Seq(Chars) /\ 0 \in 0 .. Len(text) /\ "value" \in Controls
      BY <1>1 DEF Controls
    <2> QED BY <1>1, <2>1 DEF TypeOK
  <1>3. Start /\ InString /\ Closed /\ Kinds /\ Returned /\ Printed /\ Refused
    BY DEF Start, InString, Closed, Kinds, Returned, Printed, Refused
  <1> QED BY <1>2, <1>3 DEF IInv

(* A text that was printed starts and ends with a quote.                   *)
LEMMA PrintedText ==
  ASSUME IInv, again
  PROVE  /\ text = Quoted(printed) /\ Len(text) = Len(printed) + 2 /\ IsString
         /\ printed \in Seq(Chars) /\ ctl \in {"value", "string", "end"}
         /\ \A j \in 2 .. Len(text) - 1 : text[j] = printed[j - 1]
         /\ text[Len(text)] = "quote"
  <1>1. text = Quoted(printed) /\ printed \in Seq(Chars)
    BY DEF IInv, Printed, TypeOK
  <1>2. Len(text) = Len(printed) + 2 /\ text[1] = "quote" /\ text[Len(text)] = "quote"
    BY <1>1, QuotedFacts
  <1>3. IsString
    BY <1>2 DEF IsString
  <1>4. ctl \in {"value", "string", "end"}
    BY <1>3 DEF IInv, Kinds
  <1>5. \A j \in 2 .. Len(text) - 1 : text[j] = printed[j - 1]
    BY <1>1, <1>2, Inside
  <1> QED BY <1>1, <1>2, <1>3, <1>4, <1>5

(* A special character inside a printed text was one of the string.        *)
LEMMA Special ==
  ASSUME IInv, again, NEW j \in 2 .. Len(text) - 1, text[j] \in {"quote", "back"}
  PROVE  ~Plain(printed)
  <1>1. j - 1 \in DOMAIN printed /\ printed[j - 1] = text[j]
    BY PrintedText
  <1> QED BY <1>1 DEF Plain

(* A throw of a parse of a printed text needs a special character.         *)
LEMMA ThrowInv ==
  ASSUME IInv, Throw, again => ~Plain(printed)
  PROVE  IInv'
  BY DEF IInv, Throw, TypeOK, Start, InString, Closed, Kinds, Returned, Printed, Refused,
     Same, Shorter, IsString, Quoted, Plain

LEMMA OpenInv == IInv /\ OpenString => IInv'
  <1> SUFFICES ASSUME IInv, OpenString PROVE IInv'
    OBVIOUS
  <1> USE DEF OpenString, At, Advance, Char
  <1>1. pos = 0 /\ str = << >> /\ pos < Len(text)
    BY CharFacts DEF IInv, Start, TypeOK
  <1>2. IsString
    BY <1>1, CharFacts DEF IInv, TypeOK, IsString
  <1>3. TypeOK'
    BY <1>1 DEF IInv, TypeOK, Controls
  <1>4. (InString /\ Start /\ Closed /\ Kinds /\ Returned)'
    BY <1>1, <1>2 DEF IInv, InString, Start, Closed, Kinds, Returned, Same, IsString
  <1>5. (Printed /\ Refused)'
    BY DEF IInv, Printed, Refused
  <1> QED BY <1>3, <1>4, <1>5 DEF IInv

LEMMA PlainInv == IInv /\ PlainChar => IInv'
  <1> SUFFICES ASSUME IInv, PlainChar PROVE IInv'
    OBVIOUS
  <1> USE DEF PlainChar, At, Advance, Char
  <1>1. pos \in Nat /\ pos < Len(text) /\ Char = text[pos + 1] /\ Char \in Chars
    BY CharFacts DEF IInv, TypeOK
  <1>2. TypeOK'
    BY <1>1 DEF IInv, TypeOK, Controls
  <1>3. str' = Append(str, text[pos + 1]) /\ str \in Seq(Chars) /\ pos' = pos + 1 /\ pos >= 1
    BY <1>1 DEF IInv, TypeOK, InString
  <1>4. text[pos + 1] \notin {"quote", "back"}
    BY <1>1
  <1>5. ASSUME Same(pos - 1) PROVE InString'
    <2>1. Len(str') = pos /\ \A i \in 1 .. pos - 1 : str'[i] = str[i]
      BY <1>1, <1>3, <1>5 DEF Same
    <2>2. str'[pos] = text[pos + 1]
      BY <1>1, <1>3, <1>5 DEF Same
    <2>3. Same(pos - 1)'
      BY <1>1, <1>3, <1>4, <1>5, <2>1, <2>2 DEF Same
    <2> QED BY <2>3, <1>1, <1>3 DEF InString
  <1>6. ASSUME Shorter(pos - 1) PROVE InString'
    <2>1. Shorter(pos - 1)'
      BY <1>1, <1>3, <1>6 DEF Shorter
    <2> QED BY <2>1, <1>1, <1>3 DEF InString
  <1>7. InString'
    BY <1>5, <1>6 DEF IInv, InString
  <1>8. (Start /\ Closed /\ Kinds /\ Returned /\ Printed /\ Refused)'
    BY DEF IInv, Start, Closed, Kinds, Returned, Printed, Refused, IsString
  <1> QED BY <1>2, <1>7, <1>8 DEF IInv

(* Both escapes take at least two characters and give one.                 *)
LEMMA EscapeInv == IInv /\ (EscapeLetter \/ EscapeUnicode) => IInv'
  <1> SUFFICES ASSUME IInv, EscapeLetter \/ EscapeUnicode PROVE IInv'
    OBVIOUS
  <1> USE DEF At, Char
  <1>1. pos \in Nat /\ pos >= 1 /\ pos < Len(text) /\ text[pos + 1] = "back"
    BY CharFacts DEF IInv, TypeOK, InString, EscapeLetter, EscapeUnicode
  <1>2. PICK n \in {2, 6} : pos + n <= Len(text) /\ pos' = pos + n
    <2>1. CASE EscapeLetter
      <3>1. pos + 1 < Len(text)
        BY <1>1, <2>1, CharFacts DEF IInv, EscapeLetter, Letters, Themselves, ControlLetters
      <3> QED BY <1>1, <2>1, <3>1 DEF EscapeLetter, Advance, IInv, TypeOK
    <2>2. CASE EscapeUnicode
      BY <1>1, <2>2 DEF EscapeUnicode, Advance, FourFollow, Taken, IInv, TypeOK
    <2> QED BY <2>1, <2>2
  <1>3. PICK c \in Chars : str' = Append(str, c)
    <2>1. CASE EscapeLetter
      <3>1. Meaning(CharAt(pos + 1)) \in Chars
        BY DEF Meaning, Chars, Themselves
      <3> QED BY <2>1, <3>1 DEF EscapeLetter
    <2>2. CASE EscapeUnicode
      BY <2>2 DEF EscapeUnicode, Chars
    <2> QED BY <2>1, <2>2
  <1>4. ctl = "string" /\ ctl' = "string" /\ UNCHANGED <<text, again, printed, result>>
    BY DEF EscapeLetter, EscapeUnicode, Advance
  <1>5. result = "running" /\ str \in Seq(Chars)
    BY DEF EscapeLetter, EscapeUnicode, IInv, TypeOK
  <1>6. TypeOK'
    BY <1>1, <1>2, <1>3, <1>4 DEF IInv, TypeOK
  <1>7. Len(str) <= pos - 1
    BY <1>1, <1>4 DEF IInv, InString, Same, Shorter, TypeOK
  <1>8. Shorter(pos - 1)'
    <2>1. pos + 1 \in 2 .. (pos' - 1) + 1 /\ text'[pos + 1] = "back"
      BY <1>1, <1>2, <1>4
    <2>2. Len(str') < pos' - 1
      BY <1>1, <1>2, <1>3, <1>5, <1>7
    <2> QED BY <2>1, <2>2 DEF Shorter
  <1>9. InString'
    BY <1>1, <1>2, <1>8 DEF InString
  <1>10. (Start /\ Closed /\ Kinds /\ Returned /\ Printed /\ Refused)'
    BY <1>4, <1>5 DEF IInv, Start, Closed, Kinds, Returned, Printed, Refused, IsString
  <1> QED BY <1>6, <1>9, <1>10 DEF IInv

(* The end of a printed string in the middle of its text is a quote that   *)
(* was in it (json_parser.cpp:23-25, 165-170).                             *)
LEMMA CloseInv == IInv /\ CloseString => IInv'
  <1> SUFFICES ASSUME IInv, CloseString PROVE IInv'
    OBVIOUS
  <1> USE DEF CloseString, At, Advance, Char
  <1>1. pos \in Nat /\ pos >= 1 /\ pos < Len(text) /\ text[pos + 1] = "quote"
    BY CharFacts DEF IInv, TypeOK, InString
  <1>2. TypeOK'
    BY <1>1 DEF IInv, TypeOK, Controls
  <1>3. (pos >= 2 /\ text[pos] = "quote")'
    BY <1>1
  <1>4. (Same(pos - 2) \/ Shorter(pos - 2))'
    <2>1. pos' - 2 = pos - 1 /\ str' = str /\ text' = text
      BY <1>1
    <2>2. Same(pos - 1) \/ Shorter(pos - 1)
      BY DEF IInv, InString
    <2> QED BY <2>1, <2>2 DEF Same, Shorter
  <1>5. Closed'
    BY <1>3, <1>4 DEF Closed
  <1>6. (Start /\ InString /\ Kinds /\ Returned /\ Printed /\ Refused)'
    BY DEF IInv, Start, InString, Kinds, Returned, Printed, Refused, IsString
  <1> QED BY <1>2, <1>5, <1>6 DEF IInv

(* A printed text whose parse throws held a special character.             *)
LEMMA ThrowsInv == IInv /\ (NoValue \/ Unterminated \/ BadEscape) => IInv'
  <1> SUFFICES ASSUME IInv, NoValue \/ Unterminated \/ BadEscape PROVE IInv'
    OBVIOUS
  <1> USE DEF At, Char
  <1>1. Throw
    BY DEF NoValue, Unterminated, BadEscape
  <1>2. again => ~Plain(printed)
    <2> SUFFICES ASSUME again PROVE ~Plain(printed)
      OBVIOUS
    <2>1. text \in Seq(Chars) /\ pos \in 0 .. Len(text) /\ Len(printed) \in Nat
      BY PrintedText DEF IInv, TypeOK
    <2>2. CASE NoValue
      <3>1. pos = 0 /\ CharAt(pos) = "quote"
        BY <2>1, <2>2, PrintedText DEF NoValue, IInv, Start, CharAt, IsString
      <3> QED BY <2>2, <3>1 DEF NoValue
    <2>3. CASE Unterminated
      <3>1. pos = Len(text) /\ pos >= 2
        <4>1. ~(pos < Len(text))
          <5>1. ASSUME pos < Len(text) PROVE FALSE
            <6>1. text[pos + 1] \in Chars /\ CharAt(pos) = text[pos + 1]
              BY <2>1, <5>1 DEF CharAt
            <6> QED BY <6>1, <2>3 DEF Unterminated, Chars, Digits
          <5> QED BY <5>1
        <4> QED BY <4>1, <2>1, PrintedText
      <3>2. Same(pos - 1) \/ Shorter(pos - 1)
        BY <2>3 DEF Unterminated, IInv, InString
      <3>3. ~Same(pos - 1)
        <4>1. SUFFICES ASSUME Same(pos - 1) PROVE FALSE
          OBVIOUS
        <4>2. pos - 1 \in 1 .. pos - 1 /\ (pos - 1) + 1 = Len(text)
          BY <3>1, <2>1
        <4>3. text[Len(text)] # "quote"
          BY <4>1, <4>2 DEF Same
        <4> QED BY <4>3, PrintedText
      <3>4. PICK j \in 2 .. Len(text) : text[j] = "back"
        BY <3>1, <3>2, <3>3, <2>1 DEF Shorter
      <3>5. j \in 2 .. Len(text) - 1
        BY <3>4, PrintedText, <2>1
      <3> QED BY <3>4, <3>5, Special
    <2>4. CASE BadEscape
      <3>1. pos >= 1 /\ pos < Len(text) /\ text[pos + 1] = "back"
        BY <2>4, CharFacts, <2>1 DEF BadEscape, IInv, InString
      <3>2. pos + 1 \in 2 .. Len(text) - 1
        BY <3>1, <2>1, PrintedText
      <3> QED BY <3>1, <3>2, Special
    <2> QED BY <2>2, <2>3, <2>4
  <1> QED BY <1>1, <1>2, ThrowInv

LEMMA FinishInv == IInv /\ Finish => IInv'
  <1> SUFFICES ASSUME IInv, Finish PROVE IInv'
    OBVIOUS
  <1> USE DEF Finish, At
  <1>1. CASE pos = Len(text)
    BY <1>1 DEF IInv, TypeOK, Start, InString, Closed, Kinds, Returned, Printed, Refused,
       Same, Shorter, IsString, Quoted
  <1>2. CASE pos # Len(text)
    <2>1. ASSUME again PROVE ~Plain(printed)
      <3>1. pos >= 2 /\ text[pos] = "quote"
        BY <2>1, PrintedText DEF IInv, Closed
      <3>2. pos \in 2 .. Len(text) - 1
        BY <3>1, <1>2 DEF IInv, TypeOK
      <3> QED BY <2>1, <3>1, <3>2, Special
    <2> QED BY <1>2, <2>1, ThrowInv
  <1> QED BY <1>1, <1>2

(* A number or a keyword is no printed string.                             *)
LEMMA NumberInv == IInv /\ (EnterNumber \/ EnterKeyword \/ NumberPart \/ Stod) => IInv'
  <1> SUFFICES ASSUME IInv, EnterNumber \/ EnterKeyword \/ NumberPart \/ Stod PROVE IInv'
    OBVIOUS
  <1> USE DEF At, Char
  <1>1. ~IsString /\ ~again
    <2>1. CASE EnterNumber \/ EnterKeyword
      <3>1. pos = 0 /\ 0 < Len(text) /\ text[1] # "quote"
        BY <2>1, CharFacts DEF EnterNumber, EnterKeyword, Digits, IInv, Start
      <3> QED BY <3>1, PrintedText DEF IsString
    <2>2. CASE NumberPart \/ Stod
      BY <2>2, PlaceFacts, PrintedText DEF NumberPart, Stod, IInv, Kinds
    <2> QED BY <2>1, <2>2
  <1>2. CASE Throw
    BY <1>1, <1>2, ThrowInv
  <1>3. CASE ~Throw
    <2>1. PICK n \in {0, 1}, c \in Controls \ {"value", "string"} :
             Advance(n, c) /\ str' = str /\ pos + n <= Len(text)
      <3>1. CASE EnterNumber \/ EnterKeyword
        BY <3>1 DEF EnterNumber, EnterKeyword, Controls, NumberPlaces, IInv, TypeOK
      <3>2. CASE NumberPart
        <4>1. PICK p \in DOMAIN NumberPlaces :
                 /\ str' = str
                 /\ IF Char \in NumberPlaces[p].takes THEN Advance(1, NumberPlaces[p].then)
                    ELSE Advance(0, NumberPlaces[p].else)
          BY <3>2 DEF NumberPart
        <4>2. Char \in NumberPlaces[p].takes => pos < Len(text)
          BY PlaceFacts, CharFacts DEF IInv, TypeOK
        <4> QED BY <4>1, <4>2, PlaceFacts DEF IInv, TypeOK
      <3>3. CASE Stod
        BY <3>3, <1>3 DEF Stod, Controls, IInv, TypeOK
      <3> QED BY <3>1, <3>2, <3>3
    <2>2. result = "running"
      BY DEF EnterNumber, EnterKeyword, NumberPart, Stod
    <2>3. TypeOK'
      BY <2>1 DEF Advance, IInv, TypeOK
    <2>4. (Start /\ InString /\ Closed /\ Kinds /\ Returned /\ Printed /\ Refused)'
      BY <2>1, <2>2, <1>1 DEF Advance, Start, InString, Closed, Kinds, Returned, Printed,
         Refused, IsString
    <2> QED BY <2>3, <2>4 DEF IInv
  <1> QED BY <1>2, <1>3

LEMMA KeywordInv == IInv /\ ParseKeyword => IInv'
  <1> SUFFICES ASSUME IInv, ParseKeyword PROVE IInv'
    OBVIOUS
  <1> USE DEF At
  <1>1. ~IsString /\ ~again
    BY PrintedText DEF ParseKeyword, IInv, Kinds
  <1>2. CASE Throw
    BY <1>1, <1>2, ThrowInv
  <1>3. CASE ~Throw
    <2>1. PICK w \in Keywords : Found(w) /\ Advance(Len(w), "end") /\ str' = str
      BY <1>3 DEF ParseKeyword
    <2>2. Len(w) \in 4 .. 5 /\ w[Len(w)] # "nul" /\ Len(w) \in DOMAIN w
      <3>1. CASE w = <<"t", "r", "u", "e">>
        BY <3>1
      <3>2. CASE w = <<"f", "a", "l", "s", "e">>
        BY <3>2
      <3>3. CASE w = <<"n", "u", "l", "l">>
        BY <3>3
      <3> QED BY <3>1, <3>2, <3>3 DEF Keywords
    <2>3. CharAt(pos + Len(w) - 1) # "nul" /\ pos + Len(w) - 1 \in Nat
      BY <2>1, <2>2 DEF Found, IInv, TypeOK
    <2>4. pos + Len(w) - 1 < Len(text)
      BY <2>3, CharFacts DEF IInv
    <2>5. TypeOK'
      BY <2>1, <2>2, <2>4 DEF Advance, IInv, TypeOK, Controls
    <2>6. (Start /\ InString /\ Closed /\ Kinds /\ Returned /\ Printed /\ Refused)'
      BY <2>1, <1>1 DEF Advance, ParseKeyword, Start, InString, Closed, Kinds, Returned,
         Printed, Refused, IsString
    <2> QED BY <2>5, <2>6 DEF IInv
  <1> QED BY <1>2, <1>3

LEMMA ExportInv == IInv /\ ExportAndLoad => IInv'
  <1> SUFFICES ASSUME IInv, ExportAndLoad PROVE IInv'
    OBVIOUS
  <1> USE DEF ExportAndLoad
  <1>1. text' \in Seq(Chars) /\ Len(text') \in Nat
    BY QuotedFacts DEF IInv, TypeOK
  <1>2. TypeOK'
    BY <1>1 DEF IInv, TypeOK, Controls
  <1>3. (Start /\ InString /\ Closed /\ Kinds /\ Returned /\ Printed /\ Refused)'
    BY DEF Start, InString, Closed, Kinds, Returned, Printed, Refused, Quoted
  <1> QED BY <1>2, <1>3 DEF IInv

LEMMA StepInv == IInv /\ [Next]_vars => IInv'
  <1> SUFFICES ASSUME IInv, [Next]_vars PROVE IInv'
    OBVIOUS
  <1>1. CASE UNCHANGED vars
    BY <1>1 DEF vars, IInv, TypeOK, Start, InString, Closed, Kinds, Returned, Printed,
       Refused, Same, Shorter, IsString, Quoted, Plain
  <1> QED BY <1>1, OpenInv, PlainInv, EscapeInv, CloseInv, ThrowsInv, FinishInv, NumberInv,
             KeywordInv, ExportInv DEF Next, Parsing

(* The inductive invariant holds in every reachable state.                 *)
THEOREM Invariance == Spec => []IInv
  BY InitInv, StepInv, PTL DEF Spec

(* Types, and with them that the position never passes the end of the text *)
(* (json_parser.cpp:147-261).                                              *)
THEOREM Typing == Spec => []TypeOK
  <1>1. IInv => TypeOK
    BY DEF IInv
  <1> QED BY <1>1, Invariance, PTL

(* What an export and a load make of a string: itself, if it holds neither *)
(* a quote nor a backslash, and otherwise an error or something shorter    *)
(* (json_parser.cpp:147-199, 327).                                         *)
THEOREM Reloading == Spec => []PrintedComesBack
  <1>1. IInv => PrintedComesBack
    <2> SUFFICES ASSUME IInv, again, result # "running"
                 PROVE  IF Plain(printed) THEN result = "value" /\ str = printed
                        ELSE result = "thrown" \/ Len(str) < Len(printed)
      BY DEF PrintedComesBack
    <2>1. result \in {"value", "thrown"} /\ str \in Seq(Chars) /\ printed \in Seq(Chars)
      BY DEF IInv, TypeOK
    <2>2. CASE result = "thrown"
      BY <2>2 DEF IInv, Refused
    <2>3. CASE result = "value"
      <3>1. pos = Len(printed) + 2 /\ Len(printed) \in Nat /\ Len(text) = Len(printed) + 2
        BY <2>1, <2>3, PrintedText DEF IInv, Returned
      <3>2. Same(Len(printed)) \/ Shorter(Len(printed))
        BY <2>3, <3>1, PrintedText DEF IInv, Returned, Closed
      <3>3. \A i \in 1 .. Len(printed) : text[i + 1] = printed[i]
        <4>1. \A i \in 1 .. Len(printed) :
                 i + 1 \in 2 .. Len(text) - 1 /\ (i + 1) - 1 = i
          BY <3>1
        <4> QED BY <4>1, PrintedText
      <3>4. CASE Same(Len(printed))
        <4>1. Plain(printed)
          BY <3>3, <3>4, <2>1 DEF Same, Plain
        <4>2. Len(str) = Len(printed) /\ \A i \in 1 .. Len(printed) : str[i] = printed[i]
          BY <3>3, <3>4 DEF Same
        <4>3. str = printed
          BY <4>2, <2>1
        <4> QED BY <4>1, <4>3, <2>3
      <3>5. CASE Shorter(Len(printed))
        <4>1. PICK j \in 2 .. Len(printed) + 1 : text[j] = "back"
          BY <3>5 DEF Shorter
        <4>2. ~Plain(printed)
          BY <4>1, <3>1, Special
        <4> QED BY <4>2, <3>5 DEF Shorter
      <3> QED BY <3>2, <3>4, <3>5
    <2> QED BY <2>1, <2>2, <2>3
  <1> QED BY <1>1, Invariance, PTL

-----------------------------------------------------------------------------
(***************************************************************************)
(* What is accepted.  While the lexer runs, what it has consumed has one   *)
(* of the forms of JsonScalars: the items of a string cut at the positions *)
(* it has passed, or a sign, digits, a fraction and an exponent, each as   *)
(* far as its place says.                                                  *)
(***************************************************************************)
Cut(cuts, n) ==
  /\ cuts \in SUBSET (2 .. n) /\ {2, n} \subseteq cuts
  /\ \A i \in cuts \ {n} : \E k \in {1, 2, 6} :
       i + k \in cuts /\ LooseItem(Part(text, i, i + k - 1))

CutSoFar ==
  /\ ctl = "string" => text # << >> /\ text[1] = "quote" /\ \E cuts : Cut(cuts, pos + 1)
  /\ ctl = "end" /\ IsString => \E cuts : Cut(cuts, pos)

NumberStarts  == {"-"} \cup Digits
KeywordStarts == {"t", "f", "n"}
Starts(chars) == text # << >> /\ text[1] \in chars

Offset         == IF text[1] = "-" THEN 1 ELSE 0
DigitsIn(a, b) == \A k \in a .. b : text[k] \in Digits
IntUpTo(i)     == Offset <= i /\ DigitsIn(Offset + 1, i)
FracUpTo(i, j) == i <= j /\ (i < j => text[i + 1] = "." /\ DigitsIn(i + 2, j))
ExpUpTo(j, p)  ==
  /\ j <= p
  /\ j < p => /\ text[j + 1] = "e"
              /\ \/ DigitsIn(j + 2, p)
                 \/ j + 2 <= p /\ text[j + 2] \in {"+", "-"} /\ DigitsIn(j + 3, p)

Mantissas(i, j) == i \in 0 .. pos /\ j \in 0 .. pos /\ IntUpTo(i) /\ FracUpTo(i, j)

NumberSoFar ==
  /\ ctl = "sign" => pos = 0
  /\ ctl \in {"int", "point"} => IntUpTo(pos)
  /\ ctl = "frac" => \E i : Mantissas(i, pos) /\ i < pos
  /\ ctl = "exp" => \E i : Mantissas(i, pos)
  /\ ctl = "expsign" => \E i, j : Mantissas(i, j) /\ j + 1 = pos /\ text[pos] = "e"
  /\ ctl = "expdigits" => \E i, j : Mantissas(i, j) /\ j < pos /\ ExpUpTo(j, pos)
  /\ ctl = "stod" => \E i, j : Mantissas(i, j) /\ ExpUpTo(j, pos)
  /\ ctl = "end" /\ Starts(NumberStarts) =>
       Converts(NumStr) /\ \E i, j : Mantissas(i, j) /\ ExpUpTo(j, pos)

KeywordSoFar ==
  /\ ctl = "keyword" => pos = 0
  /\ ctl = "end" /\ Starts(KeywordStarts) =>
       \E w \in Keywords : Len(w) = pos /\ \A i \in 1 .. pos : text[i] = w[i]

Begun ==
  /\ ctl \in DOMAIN NumberPlaces \cup {"stod"} => Starts(NumberStarts)
  /\ ctl = "keyword" => Starts(KeywordStarts)
  /\ ctl = "end" => Starts({"quote"} \cup NumberStarts \cup KeywordStarts)

FormInv == CutSoFar /\ NumberSoFar /\ KeywordSoFar /\ Begun

LEMMA FormInit == Init => FormInv
  BY DEF Init, FormInv, CutSoFar, NumberSoFar, KeywordSoFar, Begun, NumberPlaces

(* What is left alone by a step that throws, returns or stutters.          *)
LEMMA FormStutter ==
  ASSUME FormInv, UNCHANGED <<text, pos, ctl>>
  PROVE  FormInv'
  <1>1. CutSoFar'
    BY DEF FormInv, CutSoFar, IsString, Cut
  <1>2. KeywordSoFar' /\ Begun'
    BY DEF FormInv, KeywordSoFar, Begun, Starts
  <1>3. NumberSoFar'
    <2>1. NumStr' = NumStr /\ \A S : Starts(S)' = Starts(S)
      BY DEF NumStr, Starts
    <2>2. \A i, j : Mantissas(i, j)' = Mantissas(i, j)
      BY DEF Mantissas, IntUpTo, FracUpTo, Offset, DigitsIn
    <2>3. \A j : ExpUpTo(j, pos)' = ExpUpTo(j, pos)
      BY DEF ExpUpTo, DigitsIn
    <2>4. IntUpTo(pos)' = IntUpTo(pos)
      BY DEF IntUpTo, Offset, DigitsIn
    <2> QED BY <2>1, <2>2, <2>3, <2>4 DEF FormInv, NumberSoFar
  <1> QED BY <1>1, <1>2, <1>3 DEF FormInv

(* One more item.                                                          *)
LEMMA Grows ==
  ASSUME TypeOK, NEW n \in Nat, n >= 2, NEW cuts, Cut(cuts, n), NEW k \in {1, 2, 6},
         LooseItem(Part(text, n, n + k - 1))
  PROVE  Cut(cuts \cup {n + k}, n + k)
  <1>1. cuts \cup {n + k} \in SUBSET (2 .. n + k) /\ {2, n + k} \subseteq cuts \cup {n + k}
    BY DEF Cut
  <1>2. ASSUME NEW i \in (cuts \cup {n + k}) \ {n + k}
        PROVE  \E m \in {1, 2, 6} : /\ i + m \in cuts \cup {n + k}
                                    /\ LooseItem(Part(text, i, i + m - 1))
    <2>1. CASE i = n
      BY <2>1
    <2>2. CASE i # n
      <3>1. i \in cuts \ {n}
        BY <1>2, <2>2
      <3> QED BY <3>1 DEF Cut
    <2> QED BY <2>1, <2>2
  <1> QED BY <1>1, <1>2 DEF Cut

(* The items parseString takes are among the loose ones                    *)
(* (json_parser.cpp:151-161, 174-199).                                     *)
LEMMA TakenItems ==
  ASSUME TypeOK, NEW n \in 1 .. Len(text)
  PROVE  /\ text[n] \notin {"quote", "back"} => LooseItem(Part(text, n, n + 1 - 1))
         /\ n + 1 <= Len(text) /\ text[n] = "back" /\ text[n + 1] \in Letters
              => LooseItem(Part(text, n, n + 2 - 1))
         /\ n + 5 <= Len(text) /\ text[n] = "back" /\ text[n + 1] = "u"
              => LooseItem(Part(text, n, n + 6 - 1))
  <1>0. text \in Seq(Chars)
    BY DEF TypeOK
  <1>1. ASSUME text[n] \notin {"quote", "back"} PROVE LooseItem(Part(text, n, n + 1 - 1))
    <2> DEFINE s == Part(text, n, n + 1 - 1)
    <2>1. s \in Seq(Chars) /\ Len(s) = 1 /\ s[1] = text[n]
      BY <1>0 DEF Part
    <2> HIDE DEF s
    <2>2. CASE text[n] = "lf"
      <3>1. s = <<"lf">>
        BY <2>1, <2>2
      <3> QED BY <3>1 DEF LooseItem, s
    <2>3. CASE text[n] # "lf"
      <3>1. Item(s)
        BY <1>1, <2>1, <2>3 DEF Item
      <3> QED BY <3>1 DEF LooseItem, s
    <2> QED BY <2>2, <2>3
  <1>2. ASSUME n + 1 <= Len(text), text[n] = "back", text[n + 1] \in Letters
        PROVE  LooseItem(Part(text, n, n + 2 - 1))
    <2> DEFINE s == Part(text, n, n + 2 - 1)
    <2>1. Len(s) = 2 /\ s[1] = "back" /\ s[2] \in Letters
      BY <1>0, <1>2 DEF Part
    <2> HIDE DEF s
    <2>2. Item(s)
      BY <2>1 DEF Item
    <2> QED BY <2>2 DEF LooseItem, s
  <1>3. ASSUME n + 5 <= Len(text), text[n] = "back", text[n + 1] = "u"
        PROVE  LooseItem(Part(text, n, n + 6 - 1))
    <2> DEFINE s == Part(text, n, n + 6 - 1)
    <2>1. Len(s) = 6 /\ s[1] = "back" /\ s[2] = "u"
      BY <1>0, <1>3 DEF Part
    <2> HIDE DEF s
    <2>2. LooseItem(s)
      BY <2>1 DEF LooseItem
    <2> QED BY <2>2 DEF s
  <1> QED BY <1>1, <1>2, <1>3

(* Each character of a string is the beginning of one more item.           *)
LEMMA FormString ==
  ASSUME IInv, FormInv, OpenString \/ PlainChar \/ EscapeLetter \/ EscapeUnicode \/ CloseString
  PROVE  FormInv'
  <1>0. TypeOK /\ pos \in Nat /\ text \in Seq(Chars) /\ text' = text /\ pos < Len(text)
        /\ Char = text[pos + 1]
    <2>1. Char # "nul" /\ text' = text /\ TypeOK
      BY DEF OpenString, PlainChar, EscapeLetter, EscapeUnicode, CloseString, Advance, IInv
    <2> QED BY <2>1, CharFacts DEF TypeOK, Char
  <1>1. CASE OpenString
    <2>1. pos = 0 /\ pos' = 1 /\ ctl' = "string" /\ text[1] = "quote" /\ text # << >>
      <3>1. pos = 0
        BY <1>1 DEF OpenString, At, IInv, Start
      <3>2. text[1] = "quote"
        <4>1. Char = text[1]
          BY <1>0, <3>1
        <4> QED BY <1>1, <4>1 DEF OpenString
      <3>3. text # << >>
        BY <1>0, <3>1
      <3> QED BY <1>1, <3>1, <3>2, <3>3 DEF OpenString, Advance
    <2>2. Cut({2}, 2)'
      BY DEF Cut
    <2>3. CutSoFar'
      BY <1>0, <2>1, <2>2 DEF CutSoFar
    <2>4. NumberSoFar' /\ KeywordSoFar' /\ Begun'
      BY <2>1, PlaceFacts DEF NumberSoFar, KeywordSoFar, Begun
    <2> QED BY <2>3, <2>4 DEF FormInv
  <1>2. ASSUME ctl = "string", ctl' = "string",
               NEW k \in {1, 2, 6}, pos' = pos + k,
               LooseItem(Part(text, pos + 1, pos + 1 + k - 1))
        PROVE  FormInv'
    <2>1. PICK cuts : Cut(cuts, pos + 1)
      BY <1>2 DEF FormInv, CutSoFar
    <2>2. pos >= 1
      BY <1>2 DEF IInv, InString
    <2>3. PICK n \in Nat : n = pos + 1 + k /\ n = pos' + 1
      BY <1>0, <1>2
    <2>4. PICK more : Cut(more, n)
      <3>1. pos + 1 \in Nat /\ pos + 1 >= 2
        BY <1>0, <2>2
      <3>2. Cut(cuts \cup {pos + 1 + k}, pos + 1 + k)
        BY <1>0, <1>2, <2>1, <3>1, Grows
      <3> QED BY <2>3, <3>2
    <2>5. Cut(more, n)'
      BY <1>0, <2>4 DEF Cut
    <2>6. CutSoFar'
      BY <1>0, <1>2, <2>3, <2>5 DEF FormInv, CutSoFar
    <2>7. NumberSoFar' /\ KeywordSoFar' /\ Begun'
      BY <1>2, PlaceFacts DEF NumberSoFar, KeywordSoFar, Begun
    <2> QED BY <2>6, <2>7 DEF FormInv
  <1>3. CASE PlainChar
    <2>1. LooseItem(Part(text, pos + 1, pos + 1 + 1 - 1))
      BY <1>0, <1>3, TakenItems DEF PlainChar
    <2> QED BY <1>2, <1>3, <2>1 DEF PlainChar, At, Advance
  <1>4. CASE EscapeLetter
    <2>1. pos + 1 < Len(text) /\ text[pos + 2] \in Letters
      <3>1. CharAt(pos + 1) # "nul" /\ pos + 1 \in Nat /\ pos + 1 + 1 = pos + 2
        BY <1>0, <1>4 DEF EscapeLetter, Letters, Themselves, ControlLetters
      <3> QED BY <1>0, <1>4, <3>1, CharFacts DEF EscapeLetter
    <2>2. LooseItem(Part(text, pos + 1, pos + 1 + 2 - 1))
      <3>1. pos + 1 \in 1 .. Len(text) /\ pos + 1 + 1 = pos + 2
        BY <1>0
      <3>2. text[pos + 1] = "back" /\ text[pos + 1 + 1] \in Letters
        BY <1>0, <1>4, <2>1, <3>1 DEF EscapeLetter
      <3> QED BY <1>0, <2>1, <3>1, <3>2, TakenItems
    <2>3. ctl = "string" /\ ctl' = "string" /\ pos' = pos + 2
      BY <1>4 DEF EscapeLetter, At, Advance
    <2> QED BY <1>2, <2>2, <2>3
  <1>5. CASE EscapeUnicode
    <2>1. pos + 1 \in 1 .. Len(text) /\ pos + 1 + 5 <= Len(text) /\ text[pos + 1 + 1] = "u"
      <3>1. pos + 6 <= Len(text)
        BY <1>0, <1>5 DEF EscapeUnicode, FourFollow
      <3>2. CharAt(pos + 1) = text[pos + 1 + 1]
        BY <1>0, <3>1 DEF CharAt
      <3> QED BY <1>0, <1>5, <3>1, <3>2 DEF EscapeUnicode
    <2>2. LooseItem(Part(text, pos + 1, pos + 1 + 6 - 1))
      BY <1>0, <1>5, <2>1, TakenItems DEF EscapeUnicode
    <2>3. 2 + Taken = 6
      BY DEF Taken
    <2> QED BY <1>2, <1>5, <2>2, <2>3 DEF EscapeUnicode, At, Advance
  <1>6. CASE CloseString
    <2>1. ctl = "string" /\ ctl' = "end" /\ pos' = pos + 1
      BY <1>6 DEF CloseString, At, Advance
    <2>2. PICK cuts : Cut(cuts, pos + 1)
      BY <2>1 DEF FormInv, CutSoFar
    <2>3. PICK n \in Nat : n = pos + 1 /\ Cut(cuts, n)
      BY <1>0, <2>2
    <2>4. text' # << >> /\ text'[1] = "quote"
      BY <1>0, <2>1 DEF FormInv, CutSoFar
    <2>5. CutSoFar'
      <3>1. Cut(cuts, n)' /\ pos' = n
        BY <1>0, <2>1, <2>3 DEF Cut
      <3> QED BY <2>1, <3>1 DEF CutSoFar
    <2>6. ~Starts(NumberStarts)' /\ ~Starts(KeywordStarts)'
      BY <2>4 DEF Starts, NumberStarts, KeywordStarts, Digits
    <2>7. NumberSoFar' /\ KeywordSoFar' /\ Begun'
      BY <2>1, <2>4, <2>6, PlaceFacts DEF NumberSoFar, KeywordSoFar, Begun, Starts
    <2> QED BY <2>5, <2>7 DEF FormInv
  <1> QED BY <1>1, <1>3, <1>4, <1>5, <1>6

(* parseNumber: each place extends the form by the characters it takes     *)
(* (json_parser.cpp:206-236).                                              *)
LEMMA FormNumberPart ==
  ASSUME IInv, FormInv, NumberPart
  PROVE  FormInv'
  <1>1. PICK c \in DOMAIN NumberPlaces :
           /\ At(c)
           /\ IF Char \in NumberPlaces[c].takes THEN Advance(1, NumberPlaces[c].then)
              ELSE Advance(0, NumberPlaces[c].else)
    BY DEF NumberPart
  <1>2. pos \in Nat /\ text \in Seq(Chars) /\ ctl = c /\ text' = text /\ ctl' # "end"
        /\ ctl' # "string" /\ ctl' # "keyword" /\ Starts(NumberStarts)
    BY <1>1, PlaceFacts DEF At, Advance, IInv, TypeOK, FormInv, Begun, NumberPlaces, Place
  <1>3. CutSoFar' /\ KeywordSoFar' /\ Begun'
    BY <1>2 DEF CutSoFar, KeywordSoFar, Begun, Starts
  <1>4. Char \in NumberPlaces[c].takes => pos < Len(text) /\ text[pos + 1] = Char
    BY <1>2, PlaceFacts, CharFacts DEF IInv, Char
  <1>5. ASSUME NEW i \in Nat, NEW j \in Nat
        PROVE  /\ IntUpTo(i) => IntUpTo(i)'
               /\ ExpUpTo(i, j) => ExpUpTo(i, j)'
               /\ i <= pos' /\ j <= pos' /\ IntUpTo(i) /\ FracUpTo(i, j) => Mantissas(i, j)'
    <2>1. IntUpTo(i)' = IntUpTo(i) /\ FracUpTo(i, j)' = FracUpTo(i, j)
      BY <1>2 DEF IntUpTo, FracUpTo, Offset, DigitsIn
    <2>2. ExpUpTo(i, j)' = ExpUpTo(i, j)
      BY <1>2 DEF ExpUpTo, DigitsIn
    <2>3. pos' \in Nat
      BY <1>1, <1>2 DEF Advance
    <2> QED BY <2>1, <2>2, <2>3 DEF Mantissas
  <1>6. PICK q \in Nat :
          /\ q = pos'
          /\ \/ /\ Char \in NumberPlaces[c].takes /\ q = pos + 1 /\ ctl' = NumberPlaces[c].then
                /\ text[q] = Char
             \/ /\ Char \notin NumberPlaces[c].takes /\ q = pos /\ ctl' = NumberPlaces[c].else
    BY <1>1, <1>2, <1>4 DEF Advance
  <1>7. PICK p \in Nat : p = pos
    BY <1>2
  <1>8. NumberSoFar'
    <2>1. CASE c = "sign"
      <3>1. pos = 0 /\ ctl' = "int"
        BY <1>2, <1>6, <2>1 DEF FormInv, NumberSoFar, NumberPlaces, Place
      <3>2. Char = text[1]
        BY <1>2, <3>1 DEF Char, CharAt, Starts
      <3>3. IntUpTo(q)
        BY <1>2, <1>6, <2>1, <3>1, <3>2 DEF IntUpTo, Offset, DigitsIn, NumberPlaces, Place
      <3> QED BY <1>5, <1>6, <3>1, <3>3 DEF NumberSoFar
    <2>2. CASE c = "int"
      <3>1. IntUpTo(pos) /\ ctl' \in {"int", "point"}
        BY <1>2, <1>6, <2>2 DEF FormInv, NumberSoFar, NumberPlaces, Place
      <3>2. Char \in NumberPlaces[c].takes => Char \in Digits
        BY <2>2 DEF NumberPlaces, Place
      <3>3. IntUpTo(q)
        BY <1>2, <1>6, <3>1, <3>2 DEF IntUpTo, Offset, DigitsIn
      <3> QED BY <1>5, <1>6, <3>1, <3>3 DEF NumberSoFar
    <2>3. CASE c = "point"
      <3>1. IntUpTo(p) /\ p <= q
        BY <1>2, <1>6, <1>7, <2>3 DEF FormInv, NumberSoFar
      <3>2. CASE Char = "."
        <4>1. ctl' = "frac" /\ q = p + 1 /\ text[q] = "."
          BY <1>6, <1>7, <2>3, <3>2 DEF NumberPlaces, Place
        <4>2. FracUpTo(p, q) /\ p < q
          BY <4>1 DEF FracUpTo, DigitsIn
        <4>3. Mantissas(p, q)'
          BY <1>5, <1>6, <3>1, <4>2
        <4> QED BY <1>6, <4>1, <4>2, <4>3 DEF NumberSoFar
      <3>3. CASE Char # "."
        <4>1. ctl' = "exp" /\ q = p
          BY <1>6, <1>7, <2>3, <3>3 DEF NumberPlaces, Place
        <4>2. FracUpTo(q, q) /\ q <= q
          BY DEF FracUpTo
        <4>3. Mantissas(q, q)'
          BY <1>5, <1>6, <3>1, <4>1, <4>2
        <4> QED BY <1>6, <4>1, <4>3 DEF NumberSoFar
      <3> QED BY <3>2, <3>3
    <2>4. CASE c = "frac"
      <3>1. PICK i : Mantissas(i, pos) /\ i < pos
        BY <1>2, <2>4 DEF FormInv, NumberSoFar
      <3>2. i \in Nat /\ i < q /\ i <= q /\ q <= q /\ ctl' \in {"frac", "exp"}
        BY <1>2, <1>6, <2>4, <3>1 DEF Mantissas, NumberPlaces, Place
      <3>3. Char \in NumberPlaces[c].takes => Char \in Digits
        BY <2>4 DEF NumberPlaces, Place
      <3>4. FracUpTo(i, q) /\ IntUpTo(i)
        BY <1>2, <1>6, <3>1, <3>2, <3>3 DEF Mantissas, FracUpTo, DigitsIn
      <3>5. Mantissas(i, q)'
        BY <1>5, <1>6, <3>2, <3>4
      <3> QED BY <1>6, <3>2, <3>5 DEF NumberSoFar
    <2>5. CASE c = "exp"
      <3>1. PICK i : Mantissas(i, pos)
        BY <1>2, <2>5 DEF FormInv, NumberSoFar
      <3>2. i \in Nat /\ i <= q /\ p <= q /\ IntUpTo(i) /\ FracUpTo(i, p)
        BY <1>2, <1>6, <1>7, <3>1 DEF Mantissas
      <3>3. Mantissas(i, p)' /\ p \in Nat
        BY <1>5, <1>6, <3>2
      <3>4. CASE Char = "e"
        <4>1. ctl' = "expsign" /\ q = p + 1 /\ text'[q] = "e"
          BY <1>2, <1>6, <1>7, <2>5, <3>4 DEF NumberPlaces, Place
        <4> QED BY <1>6, <3>3, <4>1 DEF NumberSoFar
      <3>5. CASE Char # "e"
        <4>1. ctl' = "stod" /\ q = p
          BY <1>6, <1>7, <2>5, <3>5 DEF NumberPlaces, Place
        <4>2. ExpUpTo(q, q)'
          BY DEF ExpUpTo
        <4> QED BY <1>6, <3>3, <4>1, <4>2 DEF NumberSoFar
      <3> QED BY <3>4, <3>5
    <2>6. CASE c = "expsign"
      <3>1. PICK i, j : Mantissas(i, j) /\ j + 1 = p /\ text[p] = "e"
        BY <1>2, <1>7, <2>6 DEF FormInv, NumberSoFar
      <3>2. i \in Nat /\ j \in Nat /\ i <= q /\ j < q /\ j <= q /\ IntUpTo(i) /\ FracUpTo(i, j)
        BY <1>2, <1>6, <1>7, <3>1 DEF Mantissas
      <3>3. Mantissas(i, j)' /\ ctl' = "expdigits"
        BY <1>5, <1>6, <2>6, <3>2 DEF NumberPlaces, Place
      <3>4. ExpUpTo(j, q)
        <4>1. CASE Char \in {"+", "-"}
          <5>1. q = p + 1 /\ text[q] \in {"+", "-"}
            BY <1>6, <1>7, <2>6, <4>1 DEF NumberPlaces, Place
          <5>2. q = j + 2 /\ text[j + 1] = "e" /\ DigitsIn(j + 3, q)
            BY <3>1, <3>2, <5>1 DEF DigitsIn
          <5> QED BY <3>2, <5>1, <5>2 DEF ExpUpTo
        <4>2. CASE Char \notin {"+", "-"}
          <5>1. q = j + 1
            BY <1>6, <1>7, <2>6, <3>1, <4>2 DEF NumberPlaces, Place
          <5>2. text[j + 1] = "e" /\ DigitsIn(j + 2, q)
            BY <3>1, <3>2, <5>1 DEF DigitsIn
          <5> QED BY <3>2, <5>1, <5>2 DEF ExpUpTo
        <4> QED BY <4>1, <4>2
      <3>5. ExpUpTo(j, q)'
        BY <1>5, <3>2, <3>4
      <3> QED BY <1>6, <3>2, <3>3, <3>5 DEF NumberSoFar
    <2>7. CASE c = "expdigits"
      <3>1. PICK i, j : Mantissas(i, j) /\ j < p /\ ExpUpTo(j, p)
        BY <1>2, <1>7, <2>7 DEF FormInv, NumberSoFar
      <3>2. i \in Nat /\ j \in Nat /\ i <= q /\ j < q /\ j <= q /\ IntUpTo(i) /\ FracUpTo(i, j)
        BY <1>2, <1>6, <1>7, <3>1 DEF Mantissas
      <3>3. Mantissas(i, j)' /\ ctl' \in {"expdigits", "stod"}
        BY <1>5, <1>6, <2>7, <3>2 DEF NumberPlaces, Place
      <3>4. q = p \/ (q = p + 1 /\ text[q] \in Digits)
        BY <1>6, <1>7, <2>7 DEF NumberPlaces, Place
      <3>5. ExpUpTo(j, q)
        BY <3>1, <3>2, <3>4 DEF ExpUpTo, DigitsIn
      <3>6. ExpUpTo(j, q)'
        BY <1>5, <3>2, <3>5
      <3> QED BY <1>6, <3>2, <3>3, <3>6 DEF NumberSoFar
    <2> QED BY <2>1, <2>2, <2>3, <2>4, <2>5, <2>6, <2>7 DEF NumberPlaces
  <1> QED BY <1>3, <1>8 DEF FormInv

(* std::stod converts what has a digit before its exponent; a keyword is   *)
(* found whole (json_parser.cpp:238-261).                                  *)
LEMMA FormStod ==
  ASSUME IInv, FormInv, Stod
  PROVE  FormInv'
  <1>1. CASE Throw
    BY <1>1, FormStutter DEF Throw
  <1>2. CASE ~Throw
    <2>1. ctl = "stod" /\ ctl' = "end" /\ text' = text /\ pos' = pos /\ Converts(NumStr)
      BY <1>2 DEF Stod, At, Advance, IInv, TypeOK
    <2>2. Starts(NumberStarts)
      BY <2>1 DEF FormInv, Begun
    <2>3. Converts(NumStr)' /\ Starts(NumberStarts)'
      BY <2>1, <2>2 DEF Starts, Converts, NumStr, Mantissa
    <2>4. PICK i, j : Mantissas(i, j) /\ ExpUpTo(j, pos)
      BY <2>1 DEF FormInv, NumberSoFar
    <2>5. Mantissas(i, j)' /\ ExpUpTo(j, pos)'
      BY <2>1, <2>4 DEF Mantissas, IntUpTo, FracUpTo, ExpUpTo, Offset, DigitsIn
    <2>6. NumberSoFar'
      BY <2>1, <2>3, <2>5 DEF NumberSoFar, NumberPlaces
    <2>7. ~IsString' /\ ~Starts(KeywordStarts)' /\ ctl' # "string" /\ ctl' # "keyword"
      BY <2>1, <2>3 DEF IsString, Starts, NumberStarts, KeywordStarts, Digits
    <2>8. CutSoFar' /\ KeywordSoFar'
      BY <2>7 DEF CutSoFar, KeywordSoFar
    <2>9. Begun'
      BY <2>1, <2>3, PlaceFacts DEF Begun, Starts
    <2> QED BY <2>6, <2>8, <2>9 DEF FormInv
  <1> QED BY <1>1, <1>2

LEMMA FormKeyword ==
  ASSUME IInv, FormInv, ParseKeyword
  PROVE  FormInv'
  <1>1. CASE Throw
    BY <1>1, FormStutter DEF Throw
  <1>2. CASE ~Throw
    <2>1. PICK w \in Keywords : Found(w) /\ Advance(Len(w), "end")
      BY <1>2 DEF ParseKeyword
    <2>2. pos = 0 /\ Starts(KeywordStarts) /\ ctl' = "end" /\ text' = text /\ pos' = Len(w)
          /\ TypeOK
      BY <2>1 DEF ParseKeyword, At, Advance, FormInv, KeywordSoFar, Begun, IInv
    <2>3. w \in Seq(Chars)
      <3>1. <<"t", "r", "u", "e">> \in Seq(Chars) /\ <<"n", "u", "l", "l">> \in Seq(Chars)
            /\ <<"f", "a", "l", "s", "e">> \in Seq(Chars)
        BY DEF Chars
      <3> QED BY <3>1 DEF Keywords
    <2>4. ASSUME NEW i \in 1 .. Len(w) PROVE text[i] = w[i]
      <3>1. CharAt(i - 1) = w[i] /\ w[i] # "nul" /\ i - 1 \in Nat /\ (i - 1) + 1 = i
        <4>1. i \in DOMAIN w /\ w[i] \in Chars /\ 0 + i - 1 = i - 1
          BY <2>3
        <4> QED BY <2>1, <2>2, <4>1 DEF Found, Chars, Digits
      <3> QED BY <2>2, <3>1, CharFacts
    <2>5. KeywordSoFar'
      BY <2>2, <2>4 DEF KeywordSoFar
    <2>6. ~IsString' /\ ~Starts(NumberStarts)' /\ Starts(KeywordStarts)'
      BY <2>2 DEF IsString, Starts, NumberStarts, KeywordStarts, Digits
    <2>7. CutSoFar' /\ Begun' /\ NumberSoFar'
      BY <2>2, <2>6, PlaceFacts DEF CutSoFar, Begun, NumberSoFar, Starts
    <2> QED BY <2>5, <2>7 DEF FormInv
  <1> QED BY <1>1, <1>2

(* Entering a number or a keyword consumes nothing yet.                    *)
LEMMA FormEnter ==
  ASSUME IInv, FormInv, EnterNumber \/ EnterKeyword
  PROVE  FormInv'
  <1>1. pos = 0 /\ pos' = 0 /\ text' = text /\ TypeOK
    BY DEF EnterNumber, EnterKeyword, At, Advance, IInv, Start, TypeOK
  <1>2. text # << >> /\ text[1] = Char
    <2>1. Char # "nul"
      BY DEF EnterNumber, EnterKeyword, Digits
    <2>2. 0 < Len(text) /\ CharAt(0) = text[0 + 1]
      BY <1>1, <2>1, CharFacts DEF Char
    <2> QED BY <1>1, <2>2 DEF Char
  <1>3. CASE EnterNumber
    <2>1. ctl' = "sign" /\ Starts(NumberStarts)'
      BY <1>1, <1>2, <1>3 DEF EnterNumber, Advance, Starts, NumberStarts
    <2> QED BY <1>1, <2>1, PlaceFacts DEF FormInv, CutSoFar, NumberSoFar, KeywordSoFar, Begun
  <1>4. CASE EnterKeyword
    <2>1. ctl' = "keyword" /\ Starts(KeywordStarts)'
      BY <1>1, <1>2, <1>4 DEF EnterKeyword, Advance, Starts, KeywordStarts
    <2>2. "keyword" \notin DOMAIN NumberPlaces
      BY DEF NumberPlaces
    <2> QED BY <1>1, <2>1, <2>2 DEF FormInv, CutSoFar, NumberSoFar, KeywordSoFar, Begun
  <1> QED BY <1>3, <1>4

LEMMA FormStep == IInv /\ FormInv /\ [Next]_vars => FormInv'
  <1> SUFFICES ASSUME IInv, FormInv, [Next]_vars PROVE FormInv'
    OBVIOUS
  <1>1. CASE UNCHANGED vars
    BY <1>1, FormStutter DEF vars
  <1>2. CASE NoValue \/ Unterminated \/ BadEscape \/ Finish
    BY <1>2, FormStutter DEF NoValue, Unterminated, BadEscape, Finish, Throw
  <1>3. CASE ExportAndLoad
    BY <1>3, PlaceFacts DEF ExportAndLoad, FormInv, CutSoFar, NumberSoFar, KeywordSoFar, Begun
  <1> QED BY <1>1, <1>2, <1>3, FormString, FormNumberPart, FormStod, FormKeyword, FormEnter
          DEF Next, Parsing

-----------------------------------------------------------------------------
(* The number forms, in positions of the whole text, are those of          *)
(* JsonScalars, in positions behind the sign.                              *)
LEMMA Unsigned ==
  ASSUME text \in Seq(Chars), text # << >>
  PROVE  LET u == WithoutSign(text, {"-"})
         IN  /\ u \in Seq(Chars) /\ Len(u) = Len(text) - Offset /\ Offset \in {0, 1}
             /\ \A k \in 1 .. Len(u) : u[k] = text[k + Offset]
  <1>1. CASE text[1] = "-"
    BY <1>1 DEF WithoutSign, Offset
  <1>2. CASE text[1] # "-"
    BY <1>2 DEF WithoutSign, Offset
  <1> QED BY <1>1, <1>2

LEMMA LooseNumbers ==
  ASSUME TypeOK, Starts(NumberStarts), pos = Len(text), Converts(NumStr),
         NEW i, NEW j, Mantissas(i, j), ExpUpTo(j, pos)
  PROVE  IsLooseNumber(text)
  <1> DEFINE u == WithoutSign(text, {"-"})
             n == Len(u)
             a == i - Offset
             b == j - Offset
  <1>0. text \in Seq(Chars) /\ text # << >> /\ text[1] \in {"-"} \cup Digits /\ pos \in Nat
    BY DEF TypeOK, Starts, NumberStarts
  <1>1. u \in Seq(Chars) /\ n = pos - Offset /\ Offset \in {0, 1}
        /\ \A k \in 1 .. n : u[k] = text[k + Offset]
    BY <1>0, Unsigned
  <1> HIDE DEF u
  <1>2. /\ i \in 0 .. pos /\ j \in 0 .. pos /\ Offset <= i /\ i <= j /\ j <= pos
        /\ DigitsIn(Offset + 1, i)
        /\ i < j => text[i + 1] = "." /\ DigitsIn(i + 2, j)
    BY <1>0 DEF Mantissas, IntUpTo, FracUpTo
  <1>3. a \in 0 .. n /\ b \in 0 .. n /\ a <= b
    BY <1>0, <1>1, <1>2
  <1>4. AllDigits(Part(u, 1, a))
    <2> DEFINE s == Part(u, 1, a)
    <2>1. s \in Seq(Chars) /\ Len(s) = a /\ \A k \in 1 .. a : s[k] = text[k + Offset]
      BY <1>1, <1>3 DEF Part
    <2>2. \A k \in 1 .. a : k + Offset \in Offset + 1 .. i
      BY <1>1, <1>2
    <2> HIDE DEF s
    <2>3. \A k \in DOMAIN s : s[k] \in Digits
      BY <1>1, <1>2, <2>1, <2>2 DEF DigitsIn
    <2> QED BY <2>3 DEF AllDigits, s
  <1>5. LooseFrac(Part(u, a + 1, b))
    <2> DEFINE s == Part(u, a + 1, b)
    <2>1. s \in Seq(Chars) /\ Len(s) = b - a /\ \A k \in 1 .. b - a : s[k] = text[i + k]
      BY <1>1, <1>2, <1>3 DEF Part
    <2> SUFFICES ASSUME s # << >> PROVE s[1] = "." /\ AllDigits(Tail(s))
      BY DEF LooseFrac
    <2> HIDE DEF s
    <2>2. i < j /\ s[1] = "."
      BY <1>1, <1>2, <2>1
    <2>3. ASSUME NEW k \in DOMAIN Tail(s) PROVE Tail(s)[k] \in Digits
      <3>1. k + 1 \in 1 .. b - a /\ Tail(s)[k] = s[k + 1] /\ i + (k + 1) \in i + 2 .. j
        BY <1>1, <1>2, <2>1, <2>2
      <3> QED BY <1>2, <2>1, <2>2, <3>1 DEF DigitsIn
    <2> QED BY <2>2, <2>3 DEF AllDigits
  <1>6. LooseExp(Part(u, b + 1, n))
    <2> DEFINE s == Part(u, b + 1, n)
    <2>1. s \in Seq(Chars) /\ Len(s) = pos - j /\ \A k \in 1 .. pos - j : s[k] = text[j + k]
      BY <1>0, <1>1, <1>2, <1>3 DEF Part
    <2> SUFFICES ASSUME s # << >>
                 PROVE  s[1] = "e" /\ AllDigits(WithoutSign(Tail(s), {"+", "-"}))
      BY DEF LooseExp
    <2> HIDE DEF s
    <2>2. j < pos /\ s[1] = "e"
      BY <1>0, <1>2, <2>1 DEF ExpUpTo
    <2>3. /\ Tail(s) \in Seq(Chars) /\ Len(Tail(s)) = pos - j - 1
          /\ \A k \in 1 .. pos - j - 1 : Tail(s)[k] = text[j + 1 + k]
      <3>1. Tail(s) \in Seq(Chars) /\ Len(Tail(s)) = pos - j - 1
        <4>1. s \in Seq(Chars) /\ s # << >>
          BY <2>1
        <4>2. Tail(s) \in Seq(Chars) /\ Len(Tail(s)) = Len(s) - 1
          BY <4>1
        <4> QED BY <1>0, <1>2, <2>1, <4>2
      <3>2. ASSUME NEW k \in 1 .. pos - j - 1 PROVE Tail(s)[k] = text[j + 1 + k]
        <4>1. j \in Nat /\ k \in Nat /\ k + 1 \in 1 .. pos - j /\ j + (k + 1) = j + 1 + k
          BY <1>0, <1>2
        <4>2. Tail(s)[k] = s[k + 1]
          BY <1>0, <2>1, <3>1
        <4>3. s[k + 1] = text[j + (k + 1)]
          BY <2>1, <4>1
        <4> QED BY <4>1, <4>2, <4>3
      <3> QED BY <3>1, <3>2
    <2>4. CASE DigitsIn(j + 2, pos)
      <3>1. \A k \in 1 .. pos - j - 1 : Tail(s)[k] \in Digits
        <4>1. \A k \in 1 .. pos - j - 1 : j + 1 + k \in j + 2 .. pos
          BY <1>0, <1>2
        <4> QED BY <2>3, <2>4, <4>1 DEF DigitsIn
      <3>2. WithoutSign(Tail(s), {"+", "-"}) = Tail(s)
        BY <2>3, <3>1 DEF WithoutSign, Digits
      <3> QED BY <2>2, <2>3, <3>1, <3>2 DEF AllDigits
    <2>5. CASE j + 2 <= pos /\ text[j + 2] \in {"+", "-"} /\ DigitsIn(j + 3, pos)
      <3>1. Tail(s) # << >> /\ Tail(s)[1] = text[j + 2]
        <4>1. 1 \in 1 .. pos - j - 1 /\ j + 1 + 1 = j + 2
          BY <1>0, <1>2, <2>5
        <4> QED BY <2>3, <4>1
      <3>2. WithoutSign(Tail(s), {"+", "-"}) = Tail(Tail(s))
        BY <2>5, <3>1 DEF WithoutSign
      <3>3. ASSUME NEW k \in DOMAIN Tail(Tail(s)) PROVE Tail(Tail(s))[k] \in Digits
        <4>1. k + 1 \in 1 .. pos - j - 1 /\ Tail(Tail(s))[k] = Tail(s)[k + 1]
          BY <2>3, <3>1
        <4>2. j + 1 + (k + 1) \in j + 3 .. pos
          BY <1>0, <1>2, <4>1
        <4> QED BY <2>3, <2>5, <4>1, <4>2 DEF DigitsIn
      <3> QED BY <2>2, <3>2, <3>3 DEF AllDigits
    <2> QED BY <2>2, <2>4, <2>5 DEF ExpUpTo
  <1>7. \E k \in 1 .. b : u[k] \in Digits
    <2>1. NumStr = text
      BY <1>0 DEF NumStr
    <2>2. PICK m \in 1 .. pos : text[m] \in Digits /\ \A k \in 1 .. m : text[k] # "e"
      BY <1>0, <2>1 DEF Converts, Mantissa
    <2>3. m <= j
      BY <1>0, <1>2, <2>2 DEF ExpUpTo
    <2>4. m > Offset
      BY <1>0, <2>2 DEF Offset, Digits
    <2>5. m - Offset \in 1 .. b /\ m - Offset \in 1 .. n /\ (m - Offset) + Offset = m
      BY <1>0, <1>1, <1>2, <2>2, <2>3, <2>4
    <2> QED BY <1>1, <2>2, <2>5
  <1>8. /\ a <= b /\ AllDigits(Part(u, 1, a)) /\ LooseFrac(Part(u, a + 1, b))
        /\ LooseExp(Part(u, b + 1, n)) /\ \E k \in 1 .. b : u[k] \in Digits
    BY <1>3, <1>4, <1>5, <1>6, <1>7
  <1> HIDE DEF a, b, n
  <1> QED BY <1>0, <1>3, <1>8 DEF IsLooseNumber, u, n

(* What the lexer accepts has one of the forms of JsonScalars: JSON, raw   *)
(* control characters, \u with any four characters behind it, and numbers  *)
(* that lack digits or have too many zeros                                 *)
(* (json_parser.cpp:151-161, 187-195, 206-236).                            *)
THEOREM Accepted == Spec => []AcceptsKnownForms
  <1>1. IInv /\ FormInv => AcceptsKnownForms
    <2> SUFFICES ASSUME IInv, FormInv, result = "value" PROVE IsLoose(text)
      BY DEF AcceptsKnownForms
    <2>1. ctl = "end" /\ pos = Len(text) /\ TypeOK /\ pos \in Nat /\ text \in Seq(Chars)
      BY DEF IInv, Returned, TypeOK
    <2>2. CASE IsString
      <3>1. PICK cuts : Cut(cuts, Len(text))
        BY <2>1, <2>2 DEF FormInv, CutSoFar
      <3>2. Len(text) >= 2 /\ text[1] = "quote" /\ text[Len(text)] = "quote"
        BY <2>1, <2>2 DEF IInv, Closed, IsString
      <3>3. IsLooseString(text)
        BY <3>1, <3>2 DEF IsLooseString, IsStringOf, Cut
      <3> QED BY <3>3 DEF IsLoose
    <2>3. CASE Starts(NumberStarts)
      BY <2>1, <2>3, LooseNumbers DEF FormInv, NumberSoFar, IsLoose
    <2>4. CASE Starts(KeywordStarts)
      <3>1. PICK w \in Keywords : Len(w) = Len(text) /\ \A k \in 1 .. Len(text) : text[k] = w[k]
        BY <2>1, <2>4 DEF FormInv, KeywordSoFar
      <3>2. w \in Seq(Chars)
        <4>1. <<"t", "r", "u", "e">> \in Seq(Chars) /\ <<"n", "u", "l", "l">> \in Seq(Chars)
              /\ <<"f", "a", "l", "s", "e">> \in Seq(Chars)
          BY DEF Chars
        <4> QED BY <4>1 DEF Keywords
      <3>3. text = w
        BY <2>1, <3>1, <3>2
      <3> QED BY <3>1, <3>3 DEF IsLoose
    <2> QED BY <2>1, <2>2, <2>3, <2>4 DEF FormInv, Begun, Starts, IsString
  <1>2. Spec => []FormInv
    BY FormInit, FormStep, Invariance, PTL DEF Spec
  <1> QED BY <1>1, <1>2, Invariance, PTL

-----------------------------------------------------------------------------
(***************************************************************************)
(* What is read.  A text that is JSON leads the lexer from one item, or    *)
(* one part of a number, to the next, up to its end.                       *)
(***************************************************************************)
JsonCut(cuts) ==
  /\ Len(text) >= 2 /\ text[1] = "quote" /\ text[Len(text)] = "quote"
  /\ cuts \in SUBSET (2 .. Len(text)) /\ {2, Len(text)} \subseteq cuts
  /\ \A i \in cuts \ {Len(text)} : \E k \in {1, 2, 6} :
       i + k \in cuts /\ Item(Part(text, i, i + k - 1))

StringRead ==
  \A cuts : JsonCut(cuts) =>
    /\ ctl = "string" => pos + 1 \in cuts
    /\ ctl = "end" => pos = Len(text)
    /\ result # "thrown"

(* A number from its first character to the end of the text.               *)
Whole(i, j) ==
  /\ i \in 0 .. Len(text) /\ j \in 0 .. Len(text) /\ Starts(NumberStarts)
  /\ IntUpTo(i) /\ FracUpTo(i, j) /\ ExpUpTo(j, Len(text)) /\ Converts(text)

NumberRead ==
  \A i, j : Whole(i, j) =>
    /\ ctl = "int" => pos <= i
    /\ ctl = "point" => pos = i
    /\ ctl = "frac" => i < pos /\ pos <= j
    /\ ctl = "exp" => pos = j
    /\ ctl = "expsign" => pos = j + 1 /\ j < Len(text)
    /\ ctl = "expdigits" => j < pos /\ DigitsIn(pos + 1, Len(text))
    /\ ctl \in {"stod", "end"} => pos = Len(text)
    /\ result = "thrown" => MayLeaveRange(text)

KeywordRead ==
  text \in Keywords => (ctl = "end" => pos = Len(text)) /\ result # "thrown"

ReadInv == StringRead /\ NumberRead /\ KeywordRead

LEMMA ReadInit == Init => ReadInv
  BY DEF Init, ReadInv, StringRead, NumberRead, KeywordRead

(* The items of JSON, as the lexer meets them.                             *)
LEMMA JsonItems ==
  ASSUME TypeOK, NEW n \in Nat, n >= 1, NEW k \in {1, 2, 6}, n + k <= Len(text),
         Item(Part(text, n, n + k - 1))
  PROVE  \/ k = 1 /\ text[n] \notin {"quote", "back"}
         \/ k = 2 /\ text[n] = "back" /\ text[n + 1] \in Letters
         \/ k = 6 /\ text[n] = "back" /\ text[n + 1] = "u"
  <1> DEFINE s == Part(text, n, n + k - 1)
  <1>0. text \in Seq(Chars)
    BY DEF TypeOK
  <1>1. Len(s) = k /\ \A i \in 1 .. k : s[i] = text[n + i - 1]
    BY <1>0 DEF Part
  <1> HIDE DEF s
  <1>2. Item(s)
    BY DEF s
  <1>3. CASE k = 1
    <2>1. s[1] \notin {"quote", "back"}
      BY <1>1, <1>2, <1>3 DEF Item
    <2> QED BY <1>1, <1>3, <2>1
  <1>4. CASE k = 2
    <2>1. s[1] = "back" /\ s[2] \in Letters
      BY <1>1, <1>2, <1>4 DEF Item
    <2> QED BY <1>1, <1>4, <2>1
  <1>5. CASE k = 6
    <2>1. s[1] = "back" /\ s[2] = "u"
      BY <1>1, <1>2, <1>5 DEF Item
    <2> QED BY <1>1, <1>5, <2>1
  <1> QED BY <1>3, <1>4, <1>5

(* The steps there are at each control.                                    *)
LEMMA StepsAt ==
  ASSUME Parsing
  PROVE  /\ text' = text /\ result = "running"
         /\ ctl = "value" => OpenString \/ EnterNumber \/ EnterKeyword \/ NoValue
         /\ ctl = "string" => \/ PlainChar \/ CloseString \/ Unterminated
                              \/ EscapeLetter \/ EscapeUnicode \/ BadEscape
         /\ ctl \in DOMAIN NumberPlaces => NumberPart
         /\ ctl = "stod" => Stod
         /\ ctl = "keyword" => ParseKeyword
         /\ ctl = "end" => Finish
  <1>1. {"value", "string", "stod", "keyword", "end"} \cap DOMAIN NumberPlaces = {}
    BY DEF NumberPlaces
  <1>2. NumberPart => ctl \in DOMAIN NumberPlaces
    BY DEF NumberPart, At
  <1>3. text' = text /\ result = "running"
    BY DEF Parsing, OpenString, EnterNumber, EnterKeyword, NoValue, Finish, PlainChar,
       CloseString, Unterminated, EscapeLetter, EscapeUnicode, BadEscape, NumberPart, Stod,
       ParseKeyword, Advance, Throw, At
  <1> HIDE DEF NumberPart
  <1> QED BY <1>1, <1>2, <1>3
          DEF Parsing, OpenString, EnterNumber, EnterKeyword, NoValue, Finish, PlainChar,
              CloseString, Unterminated, EscapeLetter, EscapeUnicode, BadEscape, Stod,
              ParseKeyword, At

(* In a JSON string every step of parseString takes one item, and the only *)
(* quote it can close on is the last character                             *)
(* (json_parser.cpp:147-199).                                              *)
LEMMA StringReadStep ==
  ASSUME IInv, StringRead, [Next]_vars
  PROVE  StringRead'
  <1> SUFFICES ASSUME NEW cuts, JsonCut(cuts)'
               PROVE  /\ (ctl = "string" => pos + 1 \in cuts)'
                      /\ (ctl = "end" => pos = Len(text))'
                      /\ (result # "thrown")'
    BY DEF StringRead
  <1>0. TypeOK /\ pos \in Nat /\ text \in Seq(Chars)
    BY DEF IInv, TypeOK
  <1>1. CASE ExportAndLoad
    BY <1>1 DEF ExportAndLoad
  <1>2. CASE UNCHANGED vars
    BY <1>2 DEF vars, JsonCut, StringRead
  <1>3. CASE Parsing
    <2>1. text' = text
      BY <1>3, StepsAt
    <2>2. JsonCut(cuts)
      BY <2>1 DEF JsonCut
    <2>3. /\ result # "thrown"
          /\ ctl = "string" => pos + 1 \in cuts
          /\ ctl = "end" => pos = Len(text)
      BY <2>2 DEF StringRead
    <2>4. ctl \in {"value", "string", "end"}
      <3>1. Len(text) >= 2 /\ text[1] = "quote"
        BY <2>2 DEF JsonCut
      <3>2. IsString
        BY <1>0, <3>1 DEF IsString
      <3> QED BY <3>2 DEF IInv, Kinds
    <2>5. CASE ctl = "value"
      <3>1. Char = "quote" /\ pos = 0
        BY <1>0, <2>2, <2>5 DEF IInv, Start, Char, CharAt, JsonCut
      <3>2. OpenString
        BY <1>3, <2>5, <3>1, StepsAt DEF EnterNumber, EnterKeyword, NoValue, Digits
      <3>3. ctl' = "string" /\ pos' = 1 /\ result' = result
        BY <3>1, <3>2 DEF OpenString, Advance
      <3> QED BY <2>2, <2>3, <3>3 DEF JsonCut
    <2>6. CASE ctl = "end"
      <3>1. Finish
        BY <1>3, <2>6, StepsAt
      <3> QED BY <2>3, <2>6, <3>1 DEF Finish
    <2>7. CASE ctl = "string"
      <3>1. \/ PlainChar \/ CloseString \/ Unterminated \/ EscapeLetter \/ EscapeUnicode
            \/ BadEscape
        BY <1>3, <2>7, StepsAt
      <3>2. pos + 1 \in cuts /\ pos + 1 \in 2 .. Len(text) /\ Char = text[pos + 1]
        BY <1>0, <2>2, <2>3, <2>7 DEF JsonCut, Char, CharAt
      <3>3. CASE pos + 1 = Len(text)
        <4>1. Char = "quote"
          BY <2>2, <3>2, <3>3 DEF JsonCut
        <4>2. CloseString
          BY <3>1, <4>1 DEF PlainChar, Unterminated, EscapeLetter, EscapeUnicode, BadEscape
        <4> QED BY <2>1, <2>3, <3>3, <4>2 DEF CloseString, Advance
      <3>4. CASE pos + 1 # Len(text)
        <4>1. PICK k \in {1, 2, 6} :
                 pos + 1 + k \in cuts /\ Item(Part(text, pos + 1, pos + 1 + k - 1))
          BY <2>2, <3>2, <3>4 DEF JsonCut
        <4>2. pos + 1 + k <= Len(text) /\ pos + 1 \in Nat /\ pos + 1 >= 1
          BY <1>0, <2>2, <4>1 DEF JsonCut
        <4>3. \/ k = 1 /\ text[pos + 1] \notin {"quote", "back"}
              \/ k = 2 /\ text[pos + 1] = "back" /\ text[pos + 1 + 1] \in Letters
              \/ k = 6 /\ text[pos + 1] = "back" /\ text[pos + 1 + 1] = "u"
          BY <1>0, <4>1, <4>2, JsonItems
        <4>4. Char # "nul"
          BY <1>0, <3>2 DEF Chars, Digits
        <4>5. k > 1 => CharAt(pos + 1) = text[pos + 1 + 1]
          BY <1>0, <4>2 DEF CharAt
        <4>6. ctl' = "string" /\ pos' = pos + k /\ result' = result
          <5>1. CASE k = 1
            <6>1. PlainChar
              BY <3>1, <3>2, <4>3, <4>4, <5>1 DEF CloseString, Unterminated, EscapeLetter,
                 EscapeUnicode, BadEscape
            <6> QED BY <5>1, <6>1 DEF PlainChar, Advance
          <5>2. CASE k = 2
            <6>1. EscapeLetter
              BY <3>1, <3>2, <4>3, <4>4, <4>5, <5>2 DEF CloseString, Unterminated, PlainChar,
                 EscapeUnicode, BadEscape, Letters, Themselves, ControlLetters
            <6> QED BY <5>2, <6>1 DEF EscapeLetter, Advance
          <5>3. CASE k = 6
            <6>1. FourFollow
              BY <1>0, <4>2, <5>3 DEF FourFollow
            <6>2. EscapeUnicode
              BY <3>1, <3>2, <4>3, <4>4, <4>5, <5>3, <6>1 DEF CloseString, Unterminated, PlainChar,
                 EscapeLetter, BadEscape, Letters, Themselves, ControlLetters
            <6> QED BY <5>3, <6>2 DEF EscapeUnicode, Advance, Taken
          <5> QED BY <5>1, <5>2, <5>3
        <4>7. pos' + 1 = pos + 1 + k
          BY <1>0, <4>6
        <4> QED BY <2>3, <4>1, <4>6, <4>7
      <3> QED BY <3>3, <3>4
    <2> QED BY <2>4, <2>5, <2>6, <2>7
  <1> QED BY <1>1, <1>2, <1>3 DEF Next

(* A keyword is found where it is, and no other keyword begins with its    *)
(* first letter (json_parser.cpp:247-261).                                 *)
LEMMA KeywordReadStep ==
  ASSUME IInv, FormInv, KeywordRead, [Next]_vars
  PROVE  KeywordRead'
  <1>0. TypeOK /\ pos \in Nat /\ text \in Seq(Chars)
    BY DEF IInv, TypeOK
  <1>1. CASE ExportAndLoad
    BY <1>1 DEF ExportAndLoad, KeywordRead
  <1>2. CASE UNCHANGED vars
    BY <1>2 DEF vars, KeywordRead
  <1>3. CASE Parsing
    <2> SUFFICES ASSUME text' \in Keywords
                 PROVE  (ctl = "end" => pos = Len(text))' /\ (result # "thrown")'
      BY DEF KeywordRead
    <2>1. text' = text /\ text \in Keywords /\ result = "running"
      BY <1>3, StepsAt
    <2>2. Len(text) > 0 /\ text # << >> /\ text[1] \in KeywordStarts
          /\ text[1] \notin {"quote"} \cup NumberStarts
      <3> DEFINE Goal(w) == Len(w) > 0 /\ w # << >> /\ w[1] \in {"t", "f", "n"}
      <3>1. Goal(<<"t", "r", "u", "e">>)
        OBVIOUS
      <3>2. Goal(<<"f", "a", "l", "s", "e">>)
        OBVIOUS
      <3>3. Goal(<<"n", "u", "l", "l">>)
        OBVIOUS
      <3>4. Goal(text)
        <4> HIDE DEF Goal
        <4> QED BY <2>1, <3>1, <3>2, <3>3, Zenon DEF Keywords
      <3> QED BY <3>4 DEF KeywordStarts, NumberStarts, Digits
    <2>3. ctl \in {"value", "keyword", "end"}
      BY <1>0, <2>2 DEF IInv, TypeOK, Controls, FormInv, CutSoFar, Begun, Starts
    <2>4. CASE ctl = "value"
      <3>1. Char = text[1]
        BY <1>0, <2>2, <2>4 DEF IInv, Start, Char, CharAt
      <3>2. EnterKeyword
        BY <1>3, <2>2, <2>4, <3>1, StepsAt DEF OpenString, EnterNumber, NoValue, NumberStarts,
           KeywordStarts
      <3> QED BY <2>1, <3>2 DEF EnterKeyword, Advance
    <2>5. CASE ctl = "end"
      <3>1. Finish
        BY <1>3, <2>5, StepsAt
      <3> QED BY <2>1, <2>5, <3>1 DEF Finish, KeywordRead
    <2>6. CASE ctl = "keyword"
      <3>1. ParseKeyword /\ pos = 0
        BY <1>3, <2>6, StepsAt DEF FormInv, KeywordSoFar
      <3>2. \A i \in DOMAIN text : CharAt(i - 1) = text[i]
        BY <1>0 DEF CharAt
      <3>3. Found(text)
        BY <1>0, <3>1, <3>2 DEF Found
      <3>4. PICK w \in Keywords : Found(w) /\ Advance(Len(w), "end")
        BY <2>1, <3>1, <3>3 DEF ParseKeyword
      <3>5. w[1] = text[1]
        <4>1. 1 \in DOMAIN w /\ 1 \in DOMAIN text /\ pos + 1 - 1 = 0
          BY <2>1, <3>1 DEF Keywords
        <4>2. CharAt(0) = w[1] /\ CharAt(0) = text[1]
          BY <3>3, <3>4, <4>1 DEF Found
        <4> QED BY <4>2
      <3>6. w = text
        BY <2>1, <3>5 DEF Keywords
      <3>7. pos' = Len(text) /\ result' = result
        BY <1>0, <3>1, <3>4, <3>6 DEF Advance
      <3> QED BY <2>1, <3>7
    <2> QED BY <2>3, <2>4, <2>5, <2>6
  <1> QED BY <1>1, <1>2, <1>3 DEF Next

(* Where a number goes on behind its parts.                                *)
LEMMA WholeFacts ==
  ASSUME TypeOK, NEW i, NEW j, Whole(i, j)
  PROVE  /\ i \in Nat /\ j \in Nat /\ Len(text) \in Nat /\ Offset \in {0, 1}
         /\ Offset <= i /\ i <= j /\ j <= Len(text)
         /\ DigitsIn(Offset + 1, i) /\ (i < j => DigitsIn(i + 2, j))
         /\ CharAt(i) \notin Digits /\ (CharAt(i) = "." <=> i < j)
         /\ CharAt(j) \notin Digits /\ (CharAt(j) = "e" <=> j < Len(text))
         /\ j < Len(text) => \/ DigitsIn(j + 2, Len(text)) /\ CharAt(j + 1) \notin {"+", "-"}
                             \/ CharAt(j + 1) \in {"+", "-"} /\ DigitsIn(j + 3, Len(text))
  <1>0. text \in Seq(Chars) /\ i \in Nat /\ j \in Nat /\ Len(text) \in Nat /\ Offset \in {0, 1}
        /\ Offset <= i /\ i <= j /\ j <= Len(text)
        /\ DigitsIn(Offset + 1, i) /\ (i < j => DigitsIn(i + 2, j))
    BY DEF TypeOK, Whole, IntUpTo, FracUpTo, ExpUpTo, Offset
  <1>1. CharAt(j) \notin Digits /\ (CharAt(j) = "e" <=> j < Len(text))
    BY <1>0 DEF CharAt, Whole, ExpUpTo, Digits
  <1>2. CharAt(i) \notin Digits /\ (CharAt(i) = "." <=> i < j)
    <2>1. CASE i = j
      <3>1. CharAt(i) \in {"e", "nul"}
        BY <1>0, <2>1 DEF CharAt, Whole, ExpUpTo
      <3> QED BY <1>0, <2>1, <3>1 DEF Digits
    <2>2. CASE i < j
      <3>1. CharAt(i) = "."
        BY <1>0, <2>2 DEF CharAt, Whole, FracUpTo
      <3> QED BY <2>2, <3>1 DEF Digits
    <2> QED BY <1>0, <2>1, <2>2
  <1>3. ASSUME j < Len(text)
        PROVE  \/ DigitsIn(j + 2, Len(text)) /\ CharAt(j + 1) \notin {"+", "-"}
               \/ CharAt(j + 1) \in {"+", "-"} /\ DigitsIn(j + 3, Len(text))
    <2>1. CASE DigitsIn(j + 2, Len(text))
      <3>1. CASE j + 1 < Len(text)
        <4>1. CharAt(j + 1) = text[j + 2] /\ j + 2 \in j + 2 .. Len(text)
          BY <1>0, <3>1 DEF CharAt
        <4>2. text[j + 2] \in Digits
          BY <2>1, <4>1 DEF DigitsIn
        <4> QED BY <2>1, <4>1, <4>2 DEF Digits
      <3>2. CASE ~(j + 1 < Len(text))
        <4>1. CharAt(j + 1) = "nul"
          BY <3>2 DEF CharAt
        <4> QED BY <2>1, <4>1
      <3> QED BY <3>1, <3>2
    <2>2. CASE j + 2 <= Len(text) /\ text[j + 2] \in {"+", "-"} /\ DigitsIn(j + 3, Len(text))
      <3>1. CharAt(j + 1) = text[j + 2]
        BY <1>0, <2>2 DEF CharAt
      <3> QED BY <2>2, <3>1
    <2> QED BY <1>3, <2>1, <2>2 DEF Whole, ExpUpTo
  <1> QED BY <1>0, <1>1, <1>2, <1>3

(* In a number every place hands over where its part ends, and nothing is  *)
(* thrown but for the range of double (json_parser.cpp:202-244).           *)
LEMMA NumberReadStep ==
  ASSUME IInv, FormInv, NumberRead, [Next]_vars
  PROVE  NumberRead'
  <1>0. TypeOK /\ pos \in Nat /\ text \in Seq(Chars) /\ pos <= Len(text) /\ Len(text) \in Nat
    BY DEF IInv, TypeOK
  <1>1. CASE ExportAndLoad
    <2>1. text' = Quoted(str)
      BY <1>1 DEF ExportAndLoad
    <2>2. text'[1] = "quote"
      BY <1>0, <2>1, QuotedFacts DEF TypeOK
    <2>3. ~Starts(NumberStarts)'
      BY <2>2 DEF Starts, NumberStarts, Digits
    <2> QED BY <2>3 DEF NumberRead, Whole
  <1>2. CASE UNCHANGED vars
    <2>1. \A i, j : Whole(i, j)' = Whole(i, j)
      BY <1>2 DEF vars, Whole, Starts, IntUpTo, FracUpTo, ExpUpTo, Offset, DigitsIn
    <2> QED BY <1>2, <2>1 DEF vars, NumberRead, DigitsIn
  <1>3. CASE Parsing
    <2> SUFFICES ASSUME NEW i, NEW j, Whole(i, j)'
                 PROVE  /\ (ctl = "int" => pos <= i)'
                        /\ (ctl = "point" => pos = i)'
                        /\ (ctl = "frac" => i < pos /\ pos <= j)'
                        /\ (ctl = "exp" => pos = j)'
                        /\ (ctl = "expsign" => pos = j + 1 /\ j < Len(text))'
                        /\ (ctl = "expdigits" => j < pos /\ DigitsIn(pos + 1, Len(text)))'
                        /\ (ctl \in {"stod", "end"} => pos = Len(text))'
                        /\ (result = "thrown" => MayLeaveRange(text))'
      BY DEF NumberRead
    <2>1. text' = text /\ result = "running"
      BY <1>3, StepsAt
    <2>2. Whole(i, j)
      BY <2>1 DEF Whole, Starts, IntUpTo, FracUpTo, ExpUpTo, Offset, DigitsIn
    <2>3. Starts(NumberStarts) /\ ~Starts(KeywordStarts) /\ ~Starts({"quote"})
      BY <2>2 DEF Whole, Starts, NumberStarts, KeywordStarts, Digits
    <2>4. ctl \in {"value", "stod", "end"} \cup DOMAIN NumberPlaces
      BY <2>3 DEF IInv, TypeOK, Controls, FormInv, CutSoFar, Begun, Starts
    <2>5. CASE ctl = "value"
      <3>1. Char = text[1]
        BY <1>0, <2>3, <2>5 DEF IInv, Start, Char, CharAt, Starts
      <3>2. EnterNumber
        BY <1>3, <2>3, <2>5, <3>1, StepsAt DEF OpenString, EnterKeyword, NoValue, NumberStarts,
           KeywordStarts, Starts
      <3> QED BY <2>1, <3>2 DEF EnterNumber, Advance
    <2>6. CASE ctl = "end"
      <3>1. Finish /\ pos = Len(text)
        BY <1>3, <2>2, <2>6, StepsAt DEF NumberRead
      <3> QED BY <2>1, <2>6, <3>1 DEF Finish
    <2>7. CASE ctl = "stod"
      <3>1. Stod /\ pos = Len(text)
        BY <1>3, <2>2, <2>7, StepsAt DEF NumberRead
      <3>2. NumStr = text
        BY <1>0, <3>1 DEF NumStr
      <3>3. Converts(NumStr)
        BY <2>2, <3>2 DEF Whole
      <3>4. CASE Throw
        BY <2>1, <2>7, <3>1, <3>2, <3>3, <3>4 DEF Throw, Stod, Advance
      <3>5. CASE ~Throw
        BY <1>0, <2>1, <3>1, <3>5 DEF Stod, Advance
      <3> QED BY <3>4, <3>5
    <2>8. CASE ctl \in DOMAIN NumberPlaces
      <3>1. /\ i \in Nat /\ j \in Nat /\ Offset \in {0, 1}
            /\ Offset <= i /\ i <= j /\ j <= Len(text)
            /\ DigitsIn(Offset + 1, i) /\ (i < j => DigitsIn(i + 2, j))
            /\ CharAt(i) \notin Digits /\ (CharAt(i) = "." <=> i < j)
            /\ CharAt(j) \notin Digits /\ (CharAt(j) = "e" <=> j < Len(text))
            /\ j < Len(text) => \/ DigitsIn(j + 2, Len(text)) /\ CharAt(j + 1) \notin {"+", "-"}
                                \/ CharAt(j + 1) \in {"+", "-"} /\ DigitsIn(j + 3, Len(text))
        BY <1>0, <2>2, WholeFacts
      <3>2. PICK q \in Nat :
              /\ q = pos' /\ result' = "running"
              /\ \/ /\ Char \in NumberPlaces[ctl].takes /\ q = pos + 1
                    /\ ctl' = NumberPlaces[ctl].then
                 \/ /\ Char \notin NumberPlaces[ctl].takes /\ q = pos
                    /\ ctl' = NumberPlaces[ctl].else
        <4>1. NumberPart
          BY <1>3, <2>8, StepsAt
        <4>2. \/ Char \in NumberPlaces[ctl].takes /\ Advance(1, NumberPlaces[ctl].then)
              \/ Char \notin NumberPlaces[ctl].takes /\ Advance(0, NumberPlaces[ctl].else)
          BY <4>1 DEF NumberPart, At
        <4> QED BY <1>0, <2>1, <4>2 DEF Advance
      <3>3. pos < Len(text) => Char = text[pos + 1]
        BY DEF Char, CharAt
      <3>4. CASE ctl = "sign"
        <4>1. pos = 0 /\ ctl' = "int"
          BY <3>2, <3>4 DEF FormInv, NumberSoFar, NumberPlaces, Place
        <4>2. Char = text[1]
          BY <1>0, <2>3, <4>1 DEF Char, CharAt, Starts
        <4>3. q <= i
          BY <3>1, <3>2, <3>4, <4>1, <4>2 DEF Offset, NumberPlaces, Place
        <4> QED BY <3>2, <4>1, <4>3
      <3>5. CASE ctl = "int"
        <4>1. pos <= i /\ Offset <= pos
          BY <2>2, <3>5 DEF NumberRead, FormInv, NumberSoFar, IntUpTo
        <4>2. CASE Char \in Digits
          <5>1. ctl' = "int" /\ q = pos + 1 /\ pos # i
            BY <3>1, <3>2, <3>5, <4>2 DEF NumberPlaces, Place, Char
          <5> QED BY <1>0, <3>1, <3>2, <4>1, <5>1
        <4>3. CASE Char \notin Digits
          <5>1. ctl' = "point" /\ q = pos
            BY <3>2, <3>5, <4>3 DEF NumberPlaces, Place
          <5>2. pos = i
            BY <1>0, <3>1, <3>3, <4>1, <4>3 DEF DigitsIn
          <5> QED BY <3>2, <5>1, <5>2
        <4> QED BY <4>2, <4>3
      <3>6. CASE ctl = "point"
        <4>1. pos = i
          BY <2>2, <3>6 DEF NumberRead
        <4>2. CASE Char = "."
          <5>1. ctl' = "frac" /\ q = i + 1 /\ i < j
            BY <3>1, <3>2, <3>6, <4>1, <4>2 DEF NumberPlaces, Place, Char
          <5> QED BY <3>1, <3>2, <5>1
        <4>3. CASE Char # "."
          <5>1. ctl' = "exp" /\ q = i /\ i = j
            BY <3>1, <3>2, <3>6, <4>1, <4>3 DEF NumberPlaces, Place, Char
          <5> QED BY <3>2, <5>1
        <4> QED BY <4>2, <4>3
      <3>7. CASE ctl = "frac"
        <4>1. i < pos /\ pos <= j
          BY <2>2, <3>7 DEF NumberRead
        <4>2. CASE Char \in Digits
          <5>1. ctl' = "frac" /\ q = pos + 1 /\ pos # j
            BY <3>1, <3>2, <3>7, <4>2 DEF NumberPlaces, Place, Char
          <5> QED BY <1>0, <3>1, <3>2, <4>1, <5>1
        <4>3. CASE Char \notin Digits
          <5>1. ctl' = "exp" /\ q = pos
            BY <3>2, <3>7, <4>3 DEF NumberPlaces, Place
          <5>2. pos = j
            BY <1>0, <3>1, <3>3, <4>1, <4>3 DEF DigitsIn
          <5> QED BY <3>2, <5>1, <5>2
        <4> QED BY <4>2, <4>3
      <3>8. CASE ctl = "exp"
        <4>1. pos = j
          BY <2>2, <3>8 DEF NumberRead
        <4>2. CASE Char = "e"
          <5>1. ctl' = "expsign" /\ q = j + 1 /\ j < Len(text)
            BY <3>1, <3>2, <3>8, <4>1, <4>2 DEF NumberPlaces, Place, Char
          <5> QED BY <2>1, <3>2, <5>1
        <4>3. CASE Char # "e"
          <5>1. ctl' = "stod" /\ q = j /\ j = Len(text)
            BY <1>0, <3>1, <3>2, <3>8, <4>1, <4>3 DEF NumberPlaces, Place, Char
          <5> QED BY <2>1, <3>2, <5>1
        <4> QED BY <4>2, <4>3
      <3>9. CASE ctl = "expsign"
        <4>1. pos = j + 1 /\ j < Len(text)
          BY <2>2, <3>9 DEF NumberRead
        <4>2. ctl' = "expdigits" /\ j < q /\ q = IF Char \in {"+", "-"} THEN j + 2 ELSE j + 1
          BY <3>1, <3>2, <3>9, <4>1 DEF NumberPlaces, Place
        <4>3. DigitsIn(q + 1, Len(text))
          <5>1. CASE Char \in {"+", "-"}
            <6>1. DigitsIn(j + 3, Len(text)) /\ q + 1 = j + 3
              BY <3>1, <4>1, <4>2, <5>1 DEF Char
            <6> QED BY <6>1
          <5>2. CASE Char \notin {"+", "-"}
            <6>1. DigitsIn(j + 2, Len(text)) /\ q + 1 = j + 2
              BY <3>1, <4>1, <4>2, <5>2 DEF Char
            <6> QED BY <6>1
          <5> QED BY <5>1, <5>2
        <4>4. DigitsIn(pos + 1, Len(text))'
          BY <2>1, <3>2, <4>3 DEF DigitsIn
        <4> QED BY <3>2, <4>2, <4>4
      <3>10. CASE ctl = "expdigits"
        <4>1. j < pos /\ DigitsIn(pos + 1, Len(text))
          BY <2>2, <3>10 DEF NumberRead
        <4>2. CASE Char \in Digits
          <5>1. ctl' = "expdigits" /\ q = pos + 1
            BY <3>2, <3>10, <4>2 DEF NumberPlaces, Place
          <5>2. DigitsIn(pos + 1, Len(text))'
            BY <1>0, <2>1, <3>2, <4>1, <5>1 DEF DigitsIn
          <5> QED BY <1>0, <3>1, <3>2, <4>1, <5>1, <5>2
        <4>3. CASE Char \notin Digits
          <5>1. ctl' = "stod" /\ q = pos
            BY <3>2, <3>10, <4>3 DEF NumberPlaces, Place
          <5>2. pos = Len(text)
            BY <1>0, <3>3, <4>1, <4>3 DEF DigitsIn
          <5> QED BY <2>1, <3>2, <5>1, <5>2
        <4> QED BY <4>2, <4>3
      <3> QED BY <2>8, <3>4, <3>5, <3>6, <3>7, <3>8, <3>9, <3>10 DEF NumberPlaces
    <2> QED BY <2>4, <2>5, <2>6, <2>7, <2>8
  <1> QED BY <1>1, <1>2, <1>3 DEF Next

LEMMA PartFacts ==
  ASSUME NEW u \in Seq(Chars), NEW a \in Nat, NEW b \in Nat, a <= b, b <= Len(u)
  PROVE  /\ Part(u, a + 1, b) \in Seq(Chars) /\ Len(Part(u, a + 1, b)) = b - a
         /\ \A k \in 1 .. b - a : Part(u, a + 1, b)[k] = u[a + k]
  <1>1. Part(u, a + 1, b) \in Seq(Chars) /\ Len(Part(u, a + 1, b)) = b - a
    BY DEF Part
  <1>2. ASSUME NEW k \in 1 .. b - a PROVE Part(u, a + 1, b)[k] = u[a + k]
    <2>1. (a + 1) + k - 1 = a + k /\ k \in 1 .. b - (a + 1) + 1
      OBVIOUS
    <2>2. Part(u, a + 1, b)[k] = u[(a + 1) + k - 1]
      BY <2>1 DEF Part
    <2> QED BY <2>1, <2>2
  <1> QED BY <1>1, <1>2

LEMMA TailFacts ==
  ASSUME NEW s \in Seq(Chars), s # << >>
  PROVE  /\ Tail(s) \in Seq(Chars) /\ Len(Tail(s)) = Len(s) - 1
         /\ \A k \in 1 .. Len(s) - 1 : Tail(s)[k] = s[k + 1]
  <1>1. Tail(s) \in Seq(Chars) /\ Len(Tail(s)) = Len(s) - 1
    OBVIOUS
  <1>2. \A k \in 1 .. Len(s) - 1 : Tail(s)[k] = s[k + 1]
    OBVIOUS
  <1> QED BY <1>1, <1>2

(* A number of JsonScalars, whose parts are in positions behind the sign,  *)
(* in positions of the whole text.                                         *)
LEMMA JsonNumbers ==
  ASSUME text \in Seq(Chars), IsJsonNumber(text)
  PROVE  \E i, j : Whole(i, j)
  <1> DEFINE u == WithoutSign(text, {"-"})
             n == Len(u)
             N == Len(text)
  <1>1. PICK a \in 0 .. n, b \in 0 .. n :
           /\ a <= b /\ IsInt(Part(u, 1, a))
           /\ IsFrac(Part(u, a + 1, b)) /\ IsExp(Part(u, b + 1, n))
    BY DEF IsJsonNumber
  <1>2. text # << >>
    <2> SUFFICES ASSUME text = << >> PROVE FALSE
      OBVIOUS
    <2>1. u = << >>
      BY DEF WithoutSign
    <2>2. Part(u, 1, a) = << >>
      BY <2>1 DEF Part
    <2> QED BY <1>1, <2>2 DEF IsInt
  <1>3. u \in Seq(Chars) /\ n = N - Offset /\ Offset \in {0, 1} /\ n \in Nat /\ N \in Nat
        /\ (\A k \in 1 .. n : u[k] = text[k + Offset])
        /\ a \in Nat /\ b \in Nat
    BY <1>1, <1>2, Unsigned
  <1> HIDE DEF u
  <1> DEFINE i == a + Offset
             j == b + Offset
  <1>4. /\ i \in Nat /\ j \in Nat /\ i \in 0 .. N /\ j \in 0 .. N /\ Offset <= i /\ i <= j
        /\ a = i - Offset /\ b = j - Offset
    BY <1>1, <1>3
  <1>5. 1 <= a /\ DigitsIn(Offset + 1, i)
    <2> DEFINE s == Part(u, 1, a)
    <2>1. s \in Seq(Chars) /\ Len(s) = a /\ \A k \in 1 .. a : s[k] = text[k + Offset]
      BY <1>1, <1>3 DEF Part
    <2>2. s # << >> /\ AllDigits(s)
      BY <1>1 DEF IsInt
    <2> HIDE DEF s
    <2>3. ASSUME NEW m \in Offset + 1 .. i PROVE text[m] \in Digits
      <3>1. m - Offset \in 1 .. a /\ (m - Offset) + Offset = m
        BY <1>3, <1>4
      <3> QED BY <2>1, <2>2, <3>1 DEF AllDigits
    <2> QED BY <1>1, <2>1, <2>2, <2>3 DEF DigitsIn
  <1>6. i < j => text[i + 1] = "." /\ DigitsIn(i + 2, j)
    <2> DEFINE s == Part(u, a + 1, b)
    <2>1. s \in Seq(Chars) /\ Len(s) = b - a
      BY <1>1, <1>3 DEF Part
    <2>2. ASSUME NEW k \in 1 .. b - a PROVE s[k] = text[i + k]
      <3>1. k \in 1 .. b - a /\ a + k \in 1 .. n
        BY <1>1, <1>3
      <3>2. s[k] = u[a + k]
        <4>1. a <= b /\ b <= Len(u)
          BY <1>1, <1>3
        <4>2. \A m \in 1 .. b - a : Part(u, a + 1, b)[m] = u[a + m]
          BY <1>3, <4>1, PartFacts, Zenon
        <4> QED BY <3>1, <4>2
      <3>3. a + k + Offset = i + k
        BY <1>1, <1>3
      <3> QED BY <1>3, <3>1, <3>2, <3>3
    <2>3. IsFrac(s)
      BY <1>1
    <2> HIDE DEF s
    <2> SUFFICES ASSUME i < j PROVE text[i + 1] = "." /\ DigitsIn(i + 2, j)
      OBVIOUS
    <2>4. 1 \in 1 .. b - a /\ b - a >= 1
      BY <1>1, <1>3, <1>4
    <2>5. s # << >> /\ s[1] = "." /\ AllDigits(Tail(s))
      BY <2>1, <2>3, <2>4 DEF IsFrac
    <2>6. ASSUME NEW m \in i + 2 .. j PROVE text[m] \in Digits
      <3>1. m - i \in 2 .. b - a /\ (m - i) - 1 \in 1 .. (b - a) - 1 /\ i + (m - i) = m
        BY <1>1, <1>3, <1>4
      <3>2. (m - i) - 1 \in DOMAIN Tail(s) /\ Tail(s)[(m - i) - 1] = s[m - i]
        BY <2>1, <2>5, <3>1
      <3> QED BY <2>2, <2>5, <3>1, <3>2 DEF AllDigits
    <2> QED BY <2>2, <2>4, <2>5, <2>6 DEF DigitsIn
  <1>7. j < N => /\ text[j + 1] = "e"
                 /\ \/ DigitsIn(j + 2, N)
                    \/ j + 2 <= N /\ text[j + 2] \in {"+", "-"} /\ DigitsIn(j + 3, N)
    <2> DEFINE s == Part(u, b + 1, n)
    <2>1. s \in Seq(Chars) /\ Len(s) = n - b /\ n - b = N - j
      BY <1>1, <1>3 DEF Part
    <2>2. ASSUME NEW k \in 1 .. N - j PROVE s[k] = text[j + k]
      <3>1. k \in 1 .. n - b /\ b + k \in 1 .. n
        BY <1>1, <1>3, <2>1
      <3>2. s[k] = u[b + k]
        <4>1. b <= n /\ n <= Len(u)
          BY <1>1, <1>3
        <4>2. \A m \in 1 .. n - b : Part(u, b + 1, n)[m] = u[b + m]
          BY <1>3, <4>1, PartFacts, Zenon
        <4> QED BY <3>1, <4>2
      <3>3. b + k + Offset = j + k
        BY <1>1, <1>3
      <3> QED BY <1>3, <3>1, <3>2, <3>3
    <2>3. IsExp(s)
      BY <1>1
    <2> HIDE DEF s
    <2> SUFFICES ASSUME j < N
                 PROVE  /\ text[j + 1] = "e"
                        /\ \/ DigitsIn(j + 2, N)
                           \/ j + 2 <= N /\ text[j + 2] \in {"+", "-"} /\ DigitsIn(j + 3, N)
      OBVIOUS
    <2>4. 1 \in 1 .. N - j /\ s # << >>
      BY <1>3, <1>4, <2>1
    <2> DEFINE e == WithoutSign(Tail(s), {"+", "-"})
    <2>5. s[1] = "e" /\ e # << >> /\ AllDigits(e)
      BY <2>3, <2>4 DEF IsExp
    <2>6. /\ Tail(s) \in Seq(Chars) /\ Len(Tail(s)) = N - j - 1
          /\ \A k \in 1 .. N - j - 1 : Tail(s)[k] = s[k + 1]
      <3>1. /\ Tail(s) \in Seq(Chars) /\ Len(Tail(s)) = Len(s) - 1
            /\ \A k \in 1 .. Len(s) - 1 : Tail(s)[k] = s[k + 1]
        BY <2>1, <2>4, TailFacts
      <3>2. Len(s) = N - j
        BY <2>1
      <3> QED BY <3>1, <3>2
    <2>7. CASE Tail(s) # << >> /\ Tail(s)[1] \in {"+", "-"}
      <3>1. e = Tail(Tail(s)) /\ j + 2 <= N
        BY <1>3, <1>4, <2>6, <2>7 DEF WithoutSign
      <3>2. 1 \in 1 .. N - j - 1 /\ 1 + 1 \in 1 .. N - j /\ j + (1 + 1) = j + 2
        <4>1. j \in Nat /\ N \in Nat /\ j + 2 <= N
          BY <1>3, <1>4, <3>1
        <4> HIDE DEF j, N
        <4> QED BY <4>1
      <3>3. Tail(s)[1] = text[j + 2]
        BY <2>2, <2>6, <3>2
      <3>4. ASSUME NEW m \in j + 3 .. N PROVE text[m] \in Digits
        <4>1. m - j \in 3 .. N - j /\ (m - j) - 2 \in 1 .. N - j - 2 /\ j + (m - j) = m
              /\ ((m - j) - 2) + 1 \in 1 .. N - j - 1 /\ ((m - j) - 2) + 1 + 1 = m - j
          BY <1>3, <1>4
        <4>2. (m - j) - 2 \in DOMAIN e /\ e[(m - j) - 2] = Tail(s)[((m - j) - 2) + 1]
          <5>1. /\ Tail(Tail(s)) \in Seq(Chars)
                /\ Len(Tail(Tail(s))) = N - j - 1 - 1
                /\ \A k \in 1 .. N - j - 1 - 1 : Tail(Tail(s))[k] = Tail(s)[k + 1]
            BY <2>6, <2>7, TailFacts
          <5>2. N - j - 1 - 1 = N - j - 2
            BY <1>3, <1>4
          <5>3. Len(e) = N - j - 2 /\ e \in Seq(Chars)
            BY <3>1, <5>1, <5>2
          <5>4. (m - j) - 2 \in 1 .. N - j - 1 - 1
            BY <4>1, <5>2
          <5>5. DOMAIN e = 1 .. Len(e)
            BY <5>3
          <5> QED BY <3>1, <4>1, <5>1, <5>3, <5>4, <5>5
        <4>3. e[(m - j) - 2] = s[m - j]
          BY <2>6, <4>1, <4>2
        <4>4. s[m - j] = text[m]
          BY <2>2, <4>1
        <4> QED BY <2>5, <4>2, <4>3, <4>4 DEF AllDigits
      <3> QED BY <2>2, <2>4, <2>5, <2>7, <3>1, <3>3, <3>4 DEF DigitsIn
    <2>8. CASE ~(Tail(s) # << >> /\ Tail(s)[1] \in {"+", "-"})
      <3>1. e = Tail(s)
        BY <2>8 DEF WithoutSign
      <3>2. ASSUME NEW m \in j + 2 .. N PROVE text[m] \in Digits
        <4>1. m - j \in 2 .. N - j /\ (m - j) - 1 \in 1 .. N - j - 1 /\ j + (m - j) = m
              /\ ((m - j) - 1) + 1 = m - j
          BY <1>3, <1>4
        <4>2. (m - j) - 1 \in DOMAIN e /\ e[(m - j) - 1] = s[m - j]
          BY <2>6, <3>1, <4>1
        <4>3. s[m - j] = text[m]
          BY <2>2, <4>1
        <4> QED BY <2>5, <4>2, <4>3 DEF AllDigits
      <3> QED BY <2>2, <2>4, <2>5, <3>2 DEF DigitsIn
    <2> QED BY <2>7, <2>8
  <1>8. Offset + 1 \in Offset + 1 .. i /\ text[Offset + 1] \in Digits /\ Offset + 1 \in 1 .. N
    BY <1>3, <1>4, <1>5 DEF DigitsIn
  <1>9. Starts(NumberStarts)
    BY <1>2, <1>8 DEF Starts, NumberStarts, Offset
  <1>10. Converts(text)
    <2>1. \A k \in 1 .. Offset + 1 : text[k] # "e"
      <3>1. \A k \in 1 .. Offset + 1 : k = Offset + 1 \/ (Offset = 1 /\ k = 1)
        BY <1>3
      <3>2. Offset = 1 => text[1] = "-"
        BY DEF Offset
      <3> QED BY <1>8, <3>1, <3>2 DEF Digits
    <2> QED BY <1>8, <2>1 DEF Converts, Mantissa
  <1>11. IntUpTo(i) /\ FracUpTo(i, j) /\ ExpUpTo(j, N)
    BY <1>4, <1>5, <1>6, <1>7 DEF IntUpTo, FracUpTo, ExpUpTo
  <1>12. Whole(i, j)
    BY <1>4, <1>9, <1>10, <1>11 DEF Whole
  <1> QED BY <1>12

-----------------------------------------------------------------------------
(***************************************************************************)
(* Encoded strings.  enc[k] is what the first k characters are written as; *)
(* the lexer stands behind one of these when it has read k characters.     *)
(***************************************************************************)
(* A set that holds 0 and, with a number, its successor, holds all of Nat. *)
LEMMA Induct ==
  ASSUME NEW G, 0 \in G, \A n \in Nat : n \in G => n + 1 \in G
  PROVE  Nat \subseteq G
  <1> DEFINE R == OpToRel(<, Nat)
  <1> SUFFICES ASSUME Nat \ G # {} PROVE FALSE
    OBVIOUS
  <1>0. IsWellFoundedOn(R, Nat)
    BY NatLessThanWellFounded
  <1>1. PICK x \in Nat \ G : \A y \in Nat \ G : ~(<<y, x>> \in R)
    BY <1>0, WFMin
  <1>2. \A y \in Nat \ G : x <= y
    <2>1. \A y \in Nat \ G : ~(y < x)
      BY <1>1 DEF OpToRel
    <2> QED BY <2>1
  <1>3. x # 0 /\ x - 1 \in Nat
    BY <1>2
  <1>4. x - 1 \in G
    BY <1>2, <1>3
  <1> QED BY <1>2, <1>3, <1>4

(* The right-hand side of the definition of enc in Encoded.                *)
EncBody(g, i, s, l) == IF i = 0 THEN << >> ELSE g[i - 1] \o Escaped(s[i], l)

(* For every length a function satisfies the recursion.                    *)
HasEnc(n, s, l) == \E g : g = [i \in 0 .. n |-> EncBody(g, i, s, l)]

LEMMA EncExists ==
  ASSUME NEW s, NEW l
  PROVE  \A n \in Nat : HasEnc(n, s, l)
  <1> DEFINE Good == {n \in Nat : \E g : g = [i \in 0 .. n |-> EncBody(g, i, s, l)]}
  <1>1. 0 \in Good
    <2> DEFINE g0 == [i \in 0 .. 0 |-> << >>]
    <2>1. g0 = [i \in 0 .. 0 |-> EncBody(g0, i, s, l)]
      BY DEF EncBody
    <2> QED BY <2>1
  <1>2. ASSUME NEW n \in Nat, n \in Good PROVE n + 1 \in Good
    <2>1. PICK g : g = [i \in 0 .. n |-> EncBody(g, i, s, l)]
      BY <1>2
    <2> DEFINE h == [i \in 0 .. (n + 1) |->
                       IF i <= n THEN g[i] ELSE EncBody(g, n + 1, s, l)]
               b == [i \in 0 .. (n + 1) |-> EncBody(h, i, s, l)]
    <2>2. ASSUME NEW i \in 0 .. (n + 1) PROVE h[i] = EncBody(h, i, s, l)
      <3>1. CASE i = 0
        BY <2>1, <3>1 DEF EncBody
      <3>2. CASE i # 0
        <4>1. i - 1 \in 0 .. n /\ h[i - 1] = g[i - 1]
          BY <3>2
        <4>2. h[i] = EncBody(g, i, s, l)
          BY <2>1
        <4> QED BY <4>1, <4>2, <3>2 DEF EncBody
      <3> QED BY <3>1, <3>2
    <2>3. \A i \in 0 .. (n + 1) : h[i] = b[i]
      BY <2>2
    <2>4. h = b
      <3> HIDE DEF b
      <3> QED BY <2>3 DEF b
    <2>5. \E k : k = [i \in 0 .. (n + 1) |-> EncBody(k, i, s, l)]
      <3> HIDE DEF h
      <3> QED BY <2>4
    <2> QED BY <2>5
  <1>3. Nat \subseteq Good
    <2> HIDE DEF Good
    <2> QED BY <1>1, <1>2, Induct
  <1> QED BY <1>3 DEF HasEnc

(* enc[k] is what the first k characters of s are written as.              *)
IsEnc(enc, s, l) ==
  /\ enc[0] = << >>
  /\ \A k \in Nat : k + 1 <= Len(s) => enc[k + 1] = enc[k] \o Escaped(s[k + 1], l)

LEMMA EncodedUnfolds ==
  ASSUME NEW s \in Seq(Chars), NEW l
  PROVE  \E enc : Encoded(s, l) = Quoted(enc[Len(s)]) /\ IsEnc(enc, s, l)
  <1>0. PICK n \in Nat : n = Len(s)
    OBVIOUS
  <1> DEFINE f == CHOOSE g : g = [i \in 0 .. n |-> EncBody(g, i, s, l)]
             b == [i \in 0 .. n |-> EncBody(f, i, s, l)]
  <1>1. Encoded(s, l) = Quoted(f[n])
    BY <1>0 DEF Encoded, EncBody
  <1>2. \E g : g = [i \in 0 .. n |-> EncBody(g, i, s, l)]
    <2>1. HasEnc(n, s, l)
      BY EncExists
    <2> QED BY <2>1 DEF HasEnc
  <1>3. f = b
    BY <1>2, Zenon
  <1> HIDE DEF f
  <1>4. b[0] = << >>
    BY DEF EncBody
  <1>5. ASSUME NEW k \in Nat, k + 1 <= n
        PROVE  b[k + 1] = f[k] \o Escaped(s[k + 1], l)
    <2>1. k + 1 \in 0 .. n /\ k + 1 # 0 /\ (k + 1) - 1 = k
      BY <1>5
    <2> QED BY <2>1 DEF EncBody
  <1> HIDE DEF b
  <1>6. IsEnc(f, s, l)
    BY <1>0, <1>3, <1>4, <1>5 DEF IsEnc
  <1> QED BY <1>0, <1>1, <1>6

(* A character is written as itself or behind a backslash.                 *)
LEMMA EscapedFacts ==
  ASSUME NEW c \in Chars, NEW l \in ControlLetters
  PROVE  LET w == Escaped(c, l)
         IN  /\ w \in Seq(Chars)
             /\ \/ Len(w) = 1 /\ w[1] = c /\ c \notin Themselves \cup {"lf"}
                \/ /\ Len(w) = 2 /\ w[1] = "back" /\ w[2] \in Letters /\ Meaning(w[2]) = c
  <1>1. CASE c = "lf"
    <2>1. Escaped(c, l) = <<"back", l>>
      BY <1>1 DEF Escaped
    <2>2. <<"back", l>> \in Seq(Chars)
      BY DEF Chars, ControlLetters
    <2>3. l \in Letters /\ Meaning(l) = c
      BY <1>1 DEF Letters, Meaning, ControlLetters, Themselves
    <2> QED BY <2>1, <2>2, <2>3
  <1>2. CASE c \in Themselves
    <2>1. Escaped(c, l) = <<"back", c>>
      BY <1>2 DEF Escaped, Themselves
    <2>2. <<"back", c>> \in Seq(Chars)
      BY <1>2 DEF Chars
    <2>3. c \in Letters /\ Meaning(c) = c
      BY <1>2 DEF Letters, Meaning, Themselves, ControlLetters
    <2> QED BY <2>1, <2>2, <2>3
  <1>3. CASE c \notin Themselves \cup {"lf"}
    BY <1>3 DEF Escaped
  <1> QED BY <1>1, <1>2, <1>3

(* What is written first stays in front.                                   *)
LEMMA EncPrefix ==
  ASSUME NEW s \in Seq(Chars), NEW l \in ControlLetters, NEW enc, IsEnc(enc, s, l)
  PROVE  \A m \in 0 .. Len(s) :
           /\ enc[m] \in Seq(Chars)
           /\ \A k \in 0 .. m : /\ Len(enc[k]) <= Len(enc[m])
                               /\ \A i \in 1 .. Len(enc[k]) : enc[k][i] = enc[m][i]
  <1> DEFINE Before(k, m) == /\ Len(enc[k]) <= Len(enc[m])
                             /\ \A i \in 1 .. Len(enc[k]) : enc[k][i] = enc[m][i]
             G == {m \in Nat : m <= Len(s) =>
                     /\ enc[m] \in Seq(Chars)
                     /\ \A k \in 0 .. m : enc[k] \in Seq(Chars) /\ Before(k, m)}
  <1>1. 0 \in G
    <2>1. enc[0] \in Seq(Chars) /\ Len(enc[0]) = 0
      BY DEF IsEnc
    <2>2. Before(0, 0)
      BY <2>1
    <2>3. \A k \in 0 .. 0 : k = 0
      OBVIOUS
    <2> HIDE DEF Before
    <2> QED BY <2>1, <2>2, <2>3
  <1>2. ASSUME NEW m \in Nat, m \in G PROVE m + 1 \in G
    <2> SUFFICES ASSUME m + 1 <= Len(s)
                 PROVE  /\ enc[m + 1] \in Seq(Chars)
                        /\ \A k \in 0 .. m + 1 : enc[k] \in Seq(Chars) /\ Before(k, m + 1)
      OBVIOUS
    <2>1. enc[m] \in Seq(Chars) /\ \A k \in 0 .. m : enc[k] \in Seq(Chars) /\ Before(k, m)
      BY <1>2
    <2>2. PICK w \in Seq(Chars) : enc[m + 1] = enc[m] \o w
      <3>1. s[m + 1] \in Chars
        OBVIOUS
      <3> QED BY <3>1, EscapedFacts DEF IsEnc
    <2>3. enc[m + 1] \in Seq(Chars) /\ Before(m, m + 1)
      BY <2>1, <2>2
    <2>4. ASSUME NEW k \in 0 .. m PROVE Before(k, m + 1)
      BY <2>1, <2>3
    <2>5. Before(m + 1, m + 1)
      BY <2>3
    <2> HIDE DEF Before
    <2>6. \A k \in 0 .. m + 1 : k \in 0 .. m \/ k = m + 1
      OBVIOUS
    <2> QED BY <2>1, <2>3, <2>4, <2>5, <2>6
  <1>3. Nat \subseteq G
    <2> HIDE DEF G
    <2> QED BY <1>1, <1>2, Induct
  <1> QED BY <1>3

(* Where the lexer stands when it has read k characters, the text goes on  *)
(* with the next one, or with the closing quote.                           *)
LEMMA EncPlace ==
  ASSUME TypeOK, NEW s \in Seq(Chars), NEW l \in ControlLetters, NEW enc, IsEnc(enc, s, l),
         text = Quoted(enc[Len(s)]), NEW k \in 0 .. Len(s), pos = 1 + Len(enc[k])
  PROVE  /\ k = Len(s) => pos + 1 = Len(text) /\ Char = "quote"
         /\ k < Len(s) =>
              LET w == Escaped(s[k + 1], l)
              IN  /\ Char = w[1] /\ Len(enc[k + 1]) = Len(enc[k]) + Len(w)
                  /\ Len(w) = 2 => CharAt(pos + 1) = w[2]
  <1> DEFINE n == Len(s)
             E == enc[n]
             p == Len(enc[k])
  <1>1. n \in Nat /\ k \in Nat /\ E \in Seq(Chars) /\ enc[k] \in Seq(Chars)
        /\ Len(E) \in Nat /\ p \in Nat
    BY EncPrefix
  <1>2. Len(text) = Len(E) + 2 /\ text[Len(E) + 2] = "quote"
        /\ \A i \in 1 .. Len(E) : text[i + 1] = E[i]
    BY <1>1, QuotedFacts
  <1>3. ASSUME k = n PROVE pos + 1 = Len(text) /\ Char = "quote"
    BY <1>1, <1>2, <1>3 DEF Char, CharAt
  <1>4. ASSUME k < n
        PROVE  LET w == Escaped(s[k + 1], l)
               IN  /\ Char = w[1] /\ Len(enc[k + 1]) = Len(enc[k]) + Len(w)
                   /\ Len(w) = 2 => CharAt(pos + 1) = w[2]
    <2> DEFINE w == Escaped(s[k + 1], l)
               F == enc[k + 1]
    <2>1. k + 1 \in 0 .. n /\ s[k + 1] \in Chars
      BY <1>1, <1>4
    <2>2. w \in Seq(Chars) /\ (Len(w) = 1 \/ Len(w) = 2) /\ F = enc[k] \o w
      <3>1. w \in Seq(Chars) /\ (Len(w) = 1 \/ Len(w) = 2)
        BY <2>1, EscapedFacts
      <3>2. k + 1 <= n
        BY <1>1, <1>4
      <3>3. F = enc[k] \o w
        BY <1>1, <3>2 DEF IsEnc
      <3> QED BY <3>1, <3>3
    <2>3. F \in Seq(Chars) /\ Len(F) <= Len(E) /\ \A i \in 1 .. Len(F) : F[i] = E[i]
      <3>1. n \in 0 .. n
        BY <1>1
      <3>2. \A m \in 0 .. n : Len(enc[m]) <= Len(E) /\ \A i \in 1 .. Len(enc[m]) : enc[m][i] = E[i]
        BY <3>1, EncPrefix
      <3>3. F \in Seq(Chars)
        BY <2>1, EncPrefix
      <3> QED BY <2>1, <3>2, <3>3
    <2> HIDE DEF w, E, F
    <2>4. Len(F) = p + Len(w) /\ \A i \in 1 .. Len(w) : F[p + i] = w[i]
      BY <1>1, <2>2
    <2>5. ASSUME NEW i \in 1 .. Len(w) PROVE CharAt(p + i) = w[i]
      <3>1. p + i \in 1 .. Len(F) /\ p + i \in 1 .. Len(E)
        BY <1>1, <2>2, <2>3, <2>4
      <3>2. text[p + i + 1] = w[i]
        BY <1>2, <2>3, <2>4, <3>1
      <3>3. p + i < Len(text)
        BY <1>1, <1>2, <3>1
      <3> QED BY <3>2, <3>3 DEF CharAt
    <2>6. p + 1 = pos /\ p + 2 = pos + 1
      BY <1>1
    <2>7. Char = w[1] /\ (Len(w) = 2 => CharAt(pos + 1) = w[2])
      <3> DEFINE size == Len(w)
      <3>0. size = 1 \/ size = 2
        BY <2>2
      <3>1. 1 \in 1 .. size /\ (size = 2 => 2 \in 1 .. size)
        <4> HIDE DEF size
        <4> QED BY <3>0
      <3> QED BY <2>5, <2>6, <3>1 DEF Char
    <2> QED BY <2>4, <2>7 DEF w, F
  <1> QED BY <1>1, <1>3, <1>4

(* The inductive invariant: k characters have been read, and what they are *)
(* written as has been consumed.                                           *)
Behind(enc, s, k) ==
  /\ k \in 0 .. Len(s) /\ pos = 1 + Len(enc[k])
  /\ Len(str) = k /\ \A i \in 1 .. k : str[i] = s[i]

EncodedRead ==
  \A s \in Seq(Chars), l \in ControlLetters : \A enc :
    IsEnc(enc, s, l) /\ text = Quoted(enc[Len(s)]) =>
      /\ ctl = "string" => \E k : Behind(enc, s, k)
      /\ ctl = "end" => pos = Len(text) /\ str = s
      /\ result # "thrown"

LEMMA EncodedReadStep ==
  ASSUME IInv, EncodedRead, [Next]_vars
  PROVE  EncodedRead'
  <1> SUFFICES ASSUME NEW s \in Seq(Chars), NEW l \in ControlLetters, NEW enc, IsEnc(enc, s, l),
                      text' = Quoted(enc[Len(s)])
               PROVE  /\ ctl' = "string" => \E k : Behind(enc, s, k)'
                      /\ ctl' = "end" => pos' = Len(text') /\ str' = s
                      /\ result' # "thrown"
    BY DEF EncodedRead
  <1>0. TypeOK /\ pos \in Nat /\ text \in Seq(Chars) /\ str \in Seq(Chars)
    BY DEF IInv, TypeOK
  <1>1. CASE ExportAndLoad
    BY <1>1 DEF ExportAndLoad
  <1>2. CASE UNCHANGED vars
    BY <1>2 DEF vars, EncodedRead, Behind
  <1>3. CASE Parsing
    <2>1. text' = text /\ result = "running" /\ text = Quoted(enc[Len(s)])
      BY <1>3, StepsAt
    <2>2. /\ ctl = "string" => \E k : Behind(enc, s, k)
          /\ ctl = "end" => pos = Len(text) /\ str = s
      BY <2>1 DEF EncodedRead
    <2>3. enc[Len(s)] \in Seq(Chars) /\ enc[0] = << >> /\ Len(s) \in Nat
      <3>1. Len(s) \in 0 .. Len(s) /\ Len(s) \in Nat
        OBVIOUS
      <3>2. enc[Len(s)] \in Seq(Chars)
        BY <3>1, EncPrefix
      <3> QED BY <3>1, <3>2 DEF IsEnc
    <2>4. Len(text) >= 2 /\ text[1] = "quote"
      BY <2>1, <2>3, QuotedFacts
    <2>5. ctl \in {"value", "string", "end"}
      BY <1>0, <2>4 DEF IInv, Kinds, IsString
    <2>6. CASE ctl = "value"
      <3>1. Char = "quote" /\ pos = 0 /\ str = << >>
        BY <1>0, <2>4, <2>6 DEF IInv, Start, Char, CharAt
      <3>2. OpenString
        BY <1>3, <2>6, <3>1, StepsAt DEF EnterNumber, EnterKeyword, NoValue, Digits
      <3>3. ctl' = "string" /\ pos' = 1 /\ result' = result /\ str' = << >>
        BY <3>1, <3>2 DEF OpenString, Advance
      <3>4. Behind(enc, s, 0)'
        BY <2>3, <3>3 DEF Behind
      <3> QED BY <2>1, <3>3, <3>4
    <2>7. CASE ctl = "end"
      <3>1. Finish
        BY <1>3, <2>7, StepsAt
      <3> QED BY <2>1, <2>2, <2>7, <3>1 DEF Finish
    <2>8. CASE ctl = "string"
      <3>1. \/ PlainChar \/ CloseString \/ Unterminated \/ EscapeLetter \/ EscapeUnicode
            \/ BadEscape
        BY <1>3, <2>8, StepsAt
      <3>2. PICK k : Behind(enc, s, k)
        BY <2>2, <2>8
      <3>3. k \in 0 .. Len(s) /\ pos = 1 + Len(enc[k]) /\ Len(str) = k
            /\ \A i \in 1 .. k : str[i] = s[i]
        BY <3>2 DEF Behind
      <3>4. /\ k = Len(s) => pos + 1 = Len(text) /\ Char = "quote"
            /\ k < Len(s) =>
                 LET w == Escaped(s[k + 1], l)
                 IN  /\ Char = w[1] /\ Len(enc[k + 1]) = Len(enc[k]) + Len(w)
                     /\ Len(w) = 2 => CharAt(pos + 1) = w[2]
        BY <1>0, <2>1, <3>3, EncPlace
      <3>5. CASE k = Len(s)
        <4>1. CloseString
          BY <3>1, <3>4, <3>5 DEF PlainChar, Unterminated, EscapeLetter, EscapeUnicode, BadEscape
        <4>2. str = s
          BY <1>0, <3>3, <3>5
        <4> QED BY <2>1, <3>4, <3>5, <4>1, <4>2 DEF CloseString, Advance
      <3>6. CASE k < Len(s)
        <4> DEFINE c == s[k + 1]
                   w == Escaped(c, l)
        <4>1. c \in Chars /\ k \in Nat
          BY <2>3, <3>3, <3>6
        <4>2. \/ Len(w) = 1 /\ w[1] = c /\ c \notin Themselves \cup {"lf"}
              \/ Len(w) = 2 /\ w[1] = "back" /\ w[2] \in Letters /\ Meaning(w[2]) = c
          BY <4>1, EscapedFacts
        <4>3. Char = w[1] /\ Len(enc[k + 1]) = Len(enc[k]) + Len(w)
              /\ (Len(w) = 2 => CharAt(pos + 1) = w[2])
          BY <3>4, <3>6
        <4>4. "nul" \notin Chars
          BY DEF Chars, Digits
        <4> HIDE DEF w, c
        <4>5. /\ ctl' = "string" /\ result' = result /\ pos' = pos + Len(w)
              /\ str' = Append(str, c)
          <5>1. CASE Len(w) = 1
            <6>1. PlainChar
              BY <3>1, <4>1, <4>2, <4>3, <4>4, <5>1 DEF CloseString, Unterminated, EscapeLetter,
                 EscapeUnicode, BadEscape, Themselves
            <6> QED BY <4>2, <4>3, <5>1, <6>1 DEF PlainChar, Advance
          <5>2. CASE Len(w) = 2
            <6>1. EscapeLetter
              BY <3>1, <4>2, <4>3, <5>2 DEF CloseString, Unterminated, PlainChar,
                 EscapeUnicode, BadEscape, Letters, Themselves, ControlLetters
            <6> QED BY <4>2, <4>3, <5>2, <6>1 DEF EscapeLetter, Advance
          <5> QED BY <4>2, <5>1, <5>2
        <4>6. pos' = 1 + Len(enc[k + 1])
          <5>1. enc[k] \in Seq(Chars) /\ Len(enc[k]) \in Nat /\ Len(w) \in Nat
            BY <3>3, <4>2, EncPrefix
          <5> QED BY <3>3, <4>3, <4>5, <5>1
        <4>7. Len(str') = k + 1 /\ \A i \in 1 .. k + 1 : str'[i] = s[i]
          <5>1. Len(str') = k + 1 /\ (\A i \in 1 .. k : str'[i] = str[i]) /\ str'[k + 1] = c
            BY <1>0, <3>3, <4>1, <4>5
          <5>2. \A i \in 1 .. k + 1 : i \in 1 .. k \/ i = k + 1
            BY <4>1
          <5> QED BY <3>3, <5>1, <5>2 DEF c
        <4>8. Behind(enc, s, k + 1)'
          BY <2>3, <3>6, <4>1, <4>6, <4>7 DEF Behind
        <4> QED BY <2>1, <4>5, <4>8
      <3> QED BY <2>3, <3>3, <3>5, <3>6
    <2> QED BY <2>5, <2>6, <2>7, <2>8
  <1> QED BY <1>1, <1>2, <1>3 DEF Next

(* JSON strings, numbers and keywords are accepted unless a number is out  *)
(* of range, and an encoded string is read as it was meant                 *)
(* (json_parser.cpp:147-255).                                              *)
THEOREM ReadAsMeant == Spec => []JsonIsRead
  <1>1. Init => EncodedRead
    BY DEF Init, EncodedRead
  <1>2. IInv /\ FormInv /\ ReadInv /\ [Next]_vars => ReadInv'
    BY StringReadStep, NumberReadStep, KeywordReadStep DEF ReadInv
  <1>3. Spec => []FormInv
    BY FormInit, FormStep, Invariance, PTL DEF Spec
  <1>4. Spec => []ReadInv
    BY ReadInit, <1>2, <1>3, Invariance, PTL DEF Spec
  <1>5. Spec => []EncodedRead
    BY <1>1, EncodedReadStep, Invariance, PTL DEF Spec
  <1>6. IInv /\ ReadInv => RefusesNoScalar
    <2> SUFFICES ASSUME IInv, ReadInv, result = "thrown", IsJson(text)
                 PROVE  IsJsonNumber(text) /\ MayLeaveRange(text)
      BY DEF RefusesNoScalar
    <2>1. text \in Seq(Chars)
      BY DEF IInv, TypeOK
    <2>2. CASE IsJsonString(text)
      <3>1. \E cuts : JsonCut(cuts)
        BY <2>2 DEF IsJsonString, IsStringOf, JsonCut
      <3> QED BY <3>1 DEF ReadInv, StringRead
    <2>3. CASE IsJsonNumber(text)
      BY <2>1, <2>3, JsonNumbers DEF ReadInv, NumberRead
    <2>4. CASE text \in Keywords
      BY <2>4 DEF ReadInv, KeywordRead
    <2> QED BY <2>2, <2>3, <2>4 DEF IsJson
  <1>7. IInv /\ EncodedRead => EncodedIsRead
    <2> SUFFICES ASSUME IInv, EncodedRead, result # "running", NEW s \in Strings,
                        NEW l \in ControlLetters, text = Encoded(s, l)
                 PROVE  result = "value" /\ str = s
      BY DEF EncodedIsRead
    <2>1. s \in Seq(Chars)
      BY StringsAssumption
    <2>2. PICK enc : Encoded(s, l) = Quoted(enc[Len(s)]) /\ IsEnc(enc, s, l)
      BY <2>1, EncodedUnfolds
    <2>3. (ctl = "end" => str = s) /\ result # "thrown"
      BY <2>1, <2>2 DEF EncodedRead
    <2> QED BY <2>3 DEF IInv, TypeOK, Returned
  <1> QED BY <1>4, <1>5, <1>6, <1>7, Invariance, PTL DEF JsonIsRead
-----------------------------------------------------------------------------
(* The safety halves of Settles.  How far a parse is from its end: each    *)
(* step either consumes characters or goes on to a later loop or test of   *)
(* the same function.                                                      *)
Rank ==
  [value |-> 9, sign |-> 8, int |-> 7, point |-> 6, frac |-> 5, exp |-> 4,
   expsign |-> 3, expdigits |-> 2, stod |-> 1, keyword |-> 1, string |-> 0, end |-> 0]

Left == 10 * (Len(text) - pos) + Rank[ctl]

(* A parse never waits and never turns in a circle: a step of it ends it,  *)
(* or what is left of it, a natural number, gets smaller.  So a parse of a *)
(* text of n characters takes at most 10 n + 10 steps                      *)
(* (json_parser.cpp:18-28, 147-254).                                       *)
PartGoesOn == Parsing => result' # "running" \/ (Left' \in Nat /\ Left' < Left)

(* Nobody loads his own export into something longer: with every export    *)
(* after the first the string is the same again, or it gets shorter        *)
(* (json_parser.cpp:326-328).                                              *)
ExportNeverGrows ==
  ExportAndLoad /\ again => printed' = printed \/ Len(printed') < Len(printed)

LEMMA RankFacts ==
  ASSUME NEW c \in Controls
  PROVE  /\ Rank[c] \in 0 .. 9
         /\ c \in DOMAIN NumberPlaces =>
              /\ NumberPlaces[c].else \in Controls /\ NumberPlaces[c].then \in Controls
              /\ Rank[NumberPlaces[c].else] < Rank[c]
  BY DEF Rank, Controls, NumberPlaces, Place

(* A step that consumes n characters, or none and goes to a later place.   *)
LEMMA Nearer ==
  ASSUME IInv, TypeOK', NEW n \in Nat, NEW c \in Controls, Advance(n, c),
         n > 0 \/ Rank[c] < Rank[ctl]
  PROVE  Left' \in Nat /\ Left' < Left
  <1>1. /\ ctl \in Controls /\ pos \in Nat /\ Len(text) \in Nat
        /\ ctl' = c /\ pos' = pos + n /\ text' = text /\ pos' <= Len(text)
    BY DEF IInv, TypeOK, Advance
  <1>2. Rank[ctl] \in 0 .. 9 /\ Rank[c] \in 0 .. 9
    BY <1>1, RankFacts
  <1>3. Left' = 10 * (Len(text) - (pos + n)) + Rank[c]
    BY <1>1 DEF Left
  <1>4. Left = 10 * (Len(text) - pos) + Rank[ctl]
    BY DEF Left
  <1>5. ASSUME NEW l \in Nat, NEW p \in Nat, p + n <= l,
               NEW r \in 0 .. 9, NEW q \in 0 .. 9, n > 0 \/ q < r
        PROVE  /\ 10 * (l - (p + n)) + q \in Nat
               /\ 10 * (l - (p + n)) + q < 10 * (l - p) + r
    BY <1>5
  <1> QED BY <1>1, <1>2, <1>3, <1>4, <1>5

LEMMA PartProgress == IInv /\ TypeOK' => PartGoesOn
  <1> SUFFICES ASSUME IInv, TypeOK', Parsing PROVE result' # "running" \/ (Left' \in Nat /\ Left' < Left)
    BY DEF PartGoesOn
  <1> USE DEF At
  <1>c. {"value", "string", "end", "keyword", "stod", "sign"} \subseteq Controls
    BY DEF Controls, NumberPlaces
  <1>r. /\ Rank["sign"] < Rank["value"] /\ Rank["keyword"] < Rank["value"]
        /\ Rank["end"] < Rank["stod"]
    BY DEF Rank
  <1>1. CASE OpenString
    BY <1>1, <1>c, Nearer DEF OpenString
  <1>2. CASE EnterNumber
    BY <1>2, <1>c, <1>r, Nearer DEF EnterNumber
  <1>3. CASE EnterKeyword
    BY <1>3, <1>c, <1>r, Nearer DEF EnterKeyword
  <1>4. CASE NoValue \/ Unterminated \/ BadEscape
    BY <1>4 DEF NoValue, Unterminated, BadEscape, Throw
  <1>5. CASE Finish
    BY <1>5 DEF Finish, Throw
  <1>6. CASE PlainChar
    BY <1>6, <1>c, Nearer DEF PlainChar
  <1>7. CASE CloseString
    BY <1>7, <1>c, Nearer DEF CloseString
  <1>8. CASE EscapeLetter
    BY <1>8, <1>c, Nearer DEF EscapeLetter
  <1>9. CASE EscapeUnicode
    BY <1>9, <1>c, Nearer DEF EscapeUnicode, Taken
  <1>10. CASE NumberPart
    <2>1. PICK c \in DOMAIN NumberPlaces :
            /\ ctl = c
            /\ \/ Advance(1, NumberPlaces[c].then)
               \/ Advance(0, NumberPlaces[c].else)
      BY <1>10 DEF NumberPart
    <2>2. c \in Controls
      BY DEF Controls
    <2>3. /\ NumberPlaces[c].else \in Controls /\ NumberPlaces[c].then \in Controls
          /\ Rank[NumberPlaces[c].else] < Rank[c]
      BY <2>2, RankFacts
    <2> QED BY <2>1, <2>3, Nearer
  <1>11. CASE Stod
    <2>1. CASE Advance(0, "end") /\ ctl = "stod"
      BY <2>1, <1>c, <1>r, Nearer
    <2>2. CASE Throw
      BY <2>2 DEF Throw
    <2> QED BY <1>11, <2>1, <2>2 DEF Stod
  <1>12. CASE ParseKeyword
    <2>1. \A w \in Keywords : Len(w) \in Nat /\ Len(w) > 0
      BY DEF Keywords
    <2>2. CASE \E w \in Keywords : Advance(Len(w), "end")
      BY <2>1, <2>2, <1>c, Nearer
    <2>3. CASE Throw
      BY <2>3 DEF Throw
    <2> QED BY <1>12, <2>2, <2>3 DEF ParseKeyword
  <1> QED BY <1>1, <1>2, <1>3, <1>4, <1>5, <1>6, <1>7, <1>8, <1>9, <1>10, <1>11, <1>12
        DEF Parsing

(* The first half of Settles, as far as it is a property of the steps.     *)
THEOREM Progress == Spec => [][PartGoesOn]_vars
  <1>1. IInv /\ [Next]_vars => TypeOK'
    BY StepInv DEF IInv
  <1>2. IInv /\ [Next]_vars => [PartGoesOn]_vars
    BY <1>1, PartProgress
  <1> QED BY <1>2, Invariance, PTL DEF Spec

(* The second half: a string that is exported again has not grown.         *)
THEOREM Shrinking == Spec => [][ExportNeverGrows]_vars
  <1>1. PrintedComesBack => ExportNeverGrows
    BY DEF PrintedComesBack, ExportNeverGrows, ExportAndLoad
  <1> QED BY <1>1, Reloading, PTL
=============================================================================
