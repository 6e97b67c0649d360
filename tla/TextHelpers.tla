---------------------------- MODULE TextHelpers ----------------------------
(***************************************************************************)
(* The functions on texts that other code is offered and no handler calls: *)
(* splitPath and joinPath (src/windows_utils.cpp), extractDomain and       *)
(* extractPath of LogAnalyzer, TimeUtils (src/analyzer.cpp), and what      *)
(* LogEntry validates (src/log_entry.cpp).  A text is a sequence of        *)
(* characters, positions count from 1, and 0 is npos.                      *)
(*                                                                         *)
(* They are called in pairs, the second with what the first has answered:  *)
(* split and join, format and parse, format and filter.                    *)
(***************************************************************************)
EXTENDS Integers, SequencesExt

CONSTANTS
  Chars,        \* the characters of texts
  Paths,        \* texts given to splitPath
  FileNames,    \* texts joined to them
  Urls,         \* texts given to extractDomain and extractPath
  Addresses,    \* texts given to validateIP, as the fields between their dots
  Times         \* values of struct tm: [year, mon, mday, hour, min, sec]

(* A struct tm counts years from 1900 and months from 0; what is printed of*)
(* it has two digits, but for the year with up to five.                    *)
TimesTyped ==
  /\ Times \subseteq [year : Int, mon : Int, mday : Nat, hour : Nat, min : Nat, sec : Nat]
  /\ \A t \in Times : /\ 0 <= t.year + 1900 /\ t.year + 1900 < 100000
                      /\ 0 <= t.mon + 1 /\ t.mon + 1 < 100
                      /\ t.mday < 100 /\ t.hour < 100 /\ t.min < 100 /\ t.sec < 100

(* A file name has no separator, and the fields of an address no dot.      *)
TextsTyped ==
  /\ Paths \cup Urls \subseteq Seq(Chars)
  /\ FileNames \subseteq {n \in Seq(Chars) : \A i \in DOMAIN n : n[i] \notin {"/", "\\"}}
  /\ Addresses \subseteq Seq(Seq(Chars \ {"."})) \ {<< >>}
  /\ TimesTyped

ASSUME TextsAssumption == TextsTyped

VARIABLES at, arg, answer
textsVars == <<at, arg, answer>>

(* The function that was called last, and its callers' next question.      *)
Calls == {"none", "split", "rejoined", "join", "resplit", "domain", "path",
          "format", "parsed", "compared", "filtered", "checked", "address"}

TextsInit == at = "none" /\ arg = << >> /\ answer = << >>

Calling(from, fn, x, result) ==
  at = from /\ at' = fn /\ arg' = x /\ answer' = result

Forget == at # "none" /\ at' = "none" /\ arg' = << >> /\ answer' = << >>

(* string::find of a character, string::substr.                            *)
Find(c, s, from)  == SelectInSubSeq(s, from, Len(s), LAMBDA x : x = c)
From(s, i)        == SubSeq(s, i, Len(s))
UpTo(s, i)        == SubSeq(s, 1, i)

-----------------------------------------------------------------------------
(* Paths.                                                                  *)
Separators == {"/", "\\"}

LastSlash(s) == SelectLastInSeq(s, LAMBDA x : x \in Separators)
LastDot(s)   == SelectLastInSeq(s, LAMBDA x : x = ".")

(* A colon among the first two characters.                                 *)
Drive(s) == IF Find(":", s, 1) \in {1, 2} THEN UpTo(s, Find(":", s, 1)) ELSE << >>

SplitName(name) ==
  IF LastDot(name) = 0 THEN <<name, << >>>>
  ELSE <<UpTo(name, LastDot(name) - 1), From(name, LastDot(name))>>

(* The extension is looked for in names that follow a separator only.      *)
SplitPath(s) ==
  LET slash == LastSlash(s)
      name  == IF slash = 0 THEN <<s, << >>>> ELSE SplitName(From(s, slash + 1))
  IN  [drive |-> Drive(s), directory |-> UpTo(s, slash),
       filename |-> name[1], extension |-> name[2]]

(* A fault: a separator is always added.                                   *)
JoinPathAlways(dir, name) ==
  IF dir = << >> THEN name ELSE IF name = << >> THEN dir ELSE dir \o <<"\\">> \o name

JoinPath(dir, name) ==
  IF dir = << >> THEN name
  ELSE IF name = << >> THEN dir
  ELSE IF Last(dir) \in Separators THEN dir \o name
  ELSE dir \o <<"\\">> \o name

Split(s)  == Calling("none", "split", s, SplitPath(s))
Rejoin    == Calling("split", "rejoined", arg,
                  JoinPath(answer.directory, answer.filename \o answer.extension))
Join(d, n) == Calling("none", "join", <<d, n>>, JoinPath(d, n))
Resplit   == Calling("join", "resplit", arg, SplitPath(answer))

-----------------------------------------------------------------------------
(* Urls.  What comes before the first "://" is skipped, wherever it is.    *)
SchemeAt(u) ==
  SelectInSubSeq([i \in 1 .. Len(u) |-> SubSeq(u, i, i + 2) = <<":", "/", "/">>],
                 1, Len(u) - 2, LAMBDA b : b)
RestFrom(u) == IF SchemeAt(u) = 0 THEN 1 ELSE SchemeAt(u) + 3

(* A fault: a url without a path is cut by one character.                  *)
DomainCut(u) ==
  LET slash == Find("/", u, RestFrom(u))
  IN  SubSeq(u, RestFrom(u), IF slash = 0 THEN Len(u) - 1 ELSE slash - 1)

Domain(u) ==
  LET slash == Find("/", u, RestFrom(u))
  IN  SubSeq(u, RestFrom(u), IF slash = 0 THEN Len(u) ELSE slash - 1)

Path(u) ==
  LET slash == Find("/", u, RestFrom(u))
      query == Find("?", u, slash)
  IN  IF slash = 0 THEN <<"/">>
      ELSE SubSeq(u, slash, IF query = 0 THEN Len(u) ELSE query - 1)

ExtractDomain(u) == Calling("none", "domain", u, Domain(u))
ExtractPath(u)   == Calling("none", "path", u, Path(u))

-----------------------------------------------------------------------------
(* Timestamps.  %04d and %02d.                                             *)
Digit  == [d \in 0 .. 9 |-> <<"0", "1", "2", "3", "4", "5", "6", "7", "8", "9">>[d + 1]]
Digits == {Digit[d] : d \in 0 .. 9}
Power  == <<10, 100, 1000, 10000, 100000>>

Figures(n) == CHOOSE k \in 1 .. 5 : n < Power[k] /\ (k > 1 => n >= Power[k - 1])

Decimal(n, width) ==
  LET k == Max({width, Figures(n)})
  IN  [i \in 1 .. k |-> Digit[IF i = k THEN n % 10 ELSE (n \div Power[k - i]) % 10]]

DateText(d) ==
  Decimal(d.year, 4) \o <<"-">> \o Decimal(d.mon, 2) \o <<"-">> \o Decimal(d.mday, 2)
    \o <<"T">> \o Decimal(d.hour, 2) \o <<":">> \o Decimal(d.min, 2)
    \o <<":">> \o Decimal(d.sec, 2) \o <<"Z">>

(* The date of a struct tm, and the struct tm of a date.                   *)
Shifted(t, years, months) ==
  [year |-> t.year + years, mon |-> t.mon + months, mday |-> t.mday,
   hour |-> t.hour, min |-> t.min, sec |-> t.sec]

Date(t)   == Shifted(t, 1900, 1)
OfDate(d) == Shifted(d, -1900, -1)

Printed(t) == DateText(Date(t))

(* snprintf into a buffer of 20 bytes, one of them the terminating null.   *)
Buffer(s) == UpTo(s, Min({19, Len(s)}))

Format(t) == Buffer(Printed(t))

(* sscanf: six numbers and what is between them; it stops where the text   *)
(* does not match, and the numbers it has not reached stay zero.           *)
EndOfNumber(s, from) ==
  Min({i \in from .. Len(s) + 1 : i = Len(s) + 1 \/ s[i] \notin Digits})
Figure(c) == CHOOSE d \in 0 .. 9 : Digit[d] = c
ValueOf(s) ==
  LET v[i \in 0 .. Len(s)] == IF i = 0 THEN 0 ELSE 10 * v[i - 1] + Figure(s[i])
  IN  v[Len(s)]

Marks == <<"-", "-", "T", ":", ":", "Z">>

Scan(s, st, mark) ==
  LET end == EndOfNumber(s, st.pos)
  IN  IF st.stopped \/ end = st.pos
      THEN [found |-> 0, pos |-> st.pos, stopped |-> TRUE]
      ELSE [found |-> ValueOf(SubSeq(s, st.pos, end - 1)), pos |-> end + 1,
            stopped |-> end > Len(s) \/ s[end] # mark]

ReadDate(s) ==
  LET scan[k \in 0 .. 6] ==
        IF k = 0 THEN [found |-> 0, pos |-> 1, stopped |-> FALSE]
        ELSE Scan(s, scan[k - 1], Marks[k])
      f == [k \in 1 .. 6 |-> scan[k].found]
  IN  [year |-> f[1], mon |-> f[2], mday |-> f[3], hour |-> f[4], min |-> f[5], sec |-> f[6]]

(* A fault: the months of a struct tm are taken to count from 1.           *)
ParseMonthsFrom1(s) == Shifted(ReadDate(s), -1900, 0)

Parse(s) == OfDate(ReadDate(s))

(* operator< of std::string; isEarlier, isLater and isInTimeRange use it.  *)
Code(c) == CHOOSE i \in 1 .. 14 :
  <<"-", "0", "1", "2", "3", "4", "5", "6", "7", "8", "9", ":", "T", "Z">>[i] = c
Less(s, t) ==
  \E k \in 1 .. Len(t) :
     /\ \A i \in 1 .. k - 1 : i <= Len(s) /\ s[i] = t[i]
     /\ k > Len(s) \/ Code(s[k]) < Code(t[k])

(* filterByTimeRange of one record, with both bounds: the record's time as *)
(* records have it, the bounds as formatISOTimestamp gives them.           *)
IsInTimeRange(ts, start, end) == ~Less(ts, start) /\ ~Less(end, ts)

FormatTime(t)     == Calling("none", "format", t, Format(t))
ParseBack         == Calling("format", "parsed", arg, Parse(answer))
CompareWith(u)    == Calling("format", "compared", <<arg, u>>, Less(answer, Format(u)))
FilterBetween(u)  == Calling("format", "filtered", <<arg, u>>,
                          [v \in Times |-> IsInTimeRange(Printed(v), answer, Format(u))])

-----------------------------------------------------------------------------
(* LogEntry.  The pattern of a timestamp, with 0 for a figure.             *)
IsoPattern == <<"0", "0", "0", "0", "-", "0", "0", "-", "0", "0", "T",
                "0", "0", ":", "0", "0", ":", "0", "0", "Z">>

ValidateTimestamp(s) ==
  /\ Len(s) = Len(IsoPattern)
  /\ \A i \in 1 .. Len(s) : IF IsoPattern[i] = "0" THEN s[i] \in Digits
                                                    ELSE s[i] = IsoPattern[i]

(* A fault: the largest octet is 256.                                      *)
IsOctetTo256(g) == Len(g) \in 1 .. 3 /\ Range(g) \subseteq Digits /\ ValueOf(g) <= 256

(* What the pattern takes for an octet, with the number stoi makes of it.  *)
IsOctet(g) == Len(g) \in 1 .. 3 /\ Range(g) \subseteq Digits /\ ValueOf(g) <= 255

(* The pattern: four groups of figures, with a dot between each two.       *)
ValidateIP(s) ==
  \E i, j, k \in {d \in 1 .. Len(s) : s[d] = "."} :
     /\ IsOctet(UpTo(s, i - 1)) /\ IsOctet(SubSeq(s, i + 1, j - 1))
     /\ IsOctet(SubSeq(s, j + 1, k - 1)) /\ IsOctet(From(s, k + 1))

WithDots(fields) ==
  LET text[n \in 1 .. Len(fields)] ==
        IF n = 1 THEN fields[1] ELSE text[n - 1] \o <<".">> \o fields[n]
  IN  text[Len(fields)]

CheckFormatted  == Calling("format", "checked", arg, ValidateTimestamp(answer))
CheckAddress(a) == Calling("none", "address", a, ValidateIP(WithDots(a)))

First ==
  /\ at = "none"
  /\ \/ \E s \in Paths : Split(s) \/ \E n \in FileNames : Join(s, n)
     \/ \E u \in Urls : ExtractDomain(u) \/ ExtractPath(u)
     \/ \E t \in Times : FormatTime(t)
     \/ \E a \in Addresses : CheckAddress(a)

Second ==
  \/ Rejoin \/ Resplit \/ ParseBack \/ CheckFormatted
  \/ at = "format" /\ \E t \in Times : CompareWith(t) \/ FilterBetween(t)

TextsNext == First \/ Second \/ Forget

TextsSpec == TextsInit /\ [][TextsNext]_textsVars

-----------------------------------------------------------------------------
(* Joining the components that splitPath has cut a path into gives the path*)
(* back, whichever separators it has and wherever its dots are; and the    *)
(* drive is where the path begins (windows_utils.cpp:111-156).             *)
SplitComesBack ==
  /\ at = "rejoined" => answer = arg
  /\ at = "split" => IsPrefix(answer.drive, arg)

(* Splitting what joinPath has joined finds the directory and the name     *)
(* again: at most one separator has been added, and the name has an        *)
(* extension only when a directory stands before it                        *)
(* (windows_utils.cpp:123-140,146-156).                                    *)
NamesAreFound ==
  at = "resplit" =>
    LET dir == arg[1]  name == arg[2]
    IN  /\ answer.directory \in
             IF name = << >> THEN {UpTo(dir, LastSlash(dir))} ELSE {dir, dir \o <<"\\">>}
        /\ name # << >> => answer.filename \o answer.extension = name
        /\ answer.extension # << >> => dir # << >> /\ LastDot(answer.extension) = 1

(* splitPath and joinPath undo each other (windows_utils.cpp:111-156).     *)
PathsComeBack == SplitComesBack /\ NamesAreFound

(* A url without a scheme that is a path from the start.                   *)
IsRelative(u) == SchemeAt(u) = 0 /\ IsPrefix(<<"/">>, u)

(* A url is a scheme, the domain, the path and the query, in this order and*)
(* with nothing left over: no "/" is in the domain and no "?" in the path, *)
(* which is "/" where the url has none.  A relative url is a path and a    *)
(* query (analyzer.cpp:345-384).                                           *)
UrlIsItsParts ==
  at = "path" =>
    LET domain == IF IsRelative(arg) THEN << >> ELSE Domain(arg)
        rest   == From(arg, RestFrom(arg))
        query  == From(rest, Len(domain) + Len(answer) + 1)
    IN  /\ "/" \notin {domain[i] : i \in 1 .. Len(domain)}
        /\ "?" \notin {answer[i] : i \in 1 .. Len(answer)}
        /\ \/ rest = domain /\ answer = <<"/">>
           \/ /\ rest = domain \o answer \o query
              /\ query # << >> => Head(query) = "?"

(* What the test asserts of a url without a protocol: it is returned as it *)
(* is (tests/test_analyzer.cpp:412). The code does not satisfy it: find    *)
(* looks for the "/" from the start on and the domain is empty             *)
(* (analyzer.cpp:357-362).                                                 *)
RelativeUrlIsItsDomain == at = "domain" /\ IsRelative(arg) => answer = arg

(* The times whose text has a year of four digits.                         *)
FourDigits(times) == \A t \in times : Date(t).year <= 9999

(* A timestamp is parsed into the time it was formatted from: the years and*)
(* months that one adds the other takes away, and until the year 9999 all  *)
(* six numbers are in the buffer, though the Z is not; from then on, the   *)
(* last digit is not either (analyzer.cpp:406-427).                        *)
TimesComeBack ==
  at = "parsed" =>
    answer = [arg EXCEPT !.sec = IF FourDigits({arg}) THEN @ ELSE @ \div 10]

(* One time is before another.                                             *)
Before(t, u) ==
  LET a == <<t.year, t.mon, t.mday, t.hour, t.min, t.sec>>
      b == <<u.year, u.mon, u.mday, u.hour, u.min, u.sec>>
  IN  \E k \in 1 .. 6 : a[k] < b[k] /\ \A i \in 1 .. k - 1 : a[i] = b[i]

(* Until the year 9999 the order of the texts is the order of the times    *)
(* (analyzer.cpp:420-435).                                                 *)
OrderIsTime ==
  at = "compared" /\ FourDigits({arg[1], arg[2]}) => answer = Before(arg[1], arg[2])

(* The records of the range between two formatted times are those from the *)
(* first on and before the last.  Of the last second itself nothing is said*)
(* here: a record's time has the Z that the bound has lost                 *)
(* (analyzer.cpp:335-342,420-427).                                         *)
RangeIsBetween ==
  at = "filtered" =>
    \A v \in Times \ {arg[2]} :
      FourDigits({v, arg[1], arg[2]}) =>
        (answer[v] <=> ~Before(v, arg[1]) /\ Before(v, arg[2]))

(* A time keeps its value, its order and its ranges on its way through a   *)
(* text (analyzer.cpp:335-342, 406-435).                                   *)
FormattedTimes == TimesComeBack /\ OrderIsTime /\ RangeIsBetween

(* What the header promises: a time is formatted in ISO 8601               *)
(* (analyzer.h:124), as YYYY-MM-DDTHH:MM:SSZ (analyzer.cpp:409), the form  *)
(* that LogEntry takes for valid (log_entry.cpp:19-23). The code does not  *)
(* satisfy it: the buffer has no room for the Z (analyzer.cpp:421).        *)
FormattedIsISO == at = "checked" /\ FourDigits({arg}) => answer

(* An address is valid when it is four numbers up to 255, with up to three *)
(* figures each and any zeros before them (log_entry.cpp:26-43).           *)
AddressesAreQuads ==
  at = "address" =>
    (answer <=> /\ Len(arg) = 4
                /\ \A k \in 1 .. 4 : \E w \in 1 .. 3 :
                     arg[k] \in {Decimal(n, w) : n \in 0 .. 255})
=============================================================================
