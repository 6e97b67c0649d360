--------------------------- MODULE TerminalProofs ---------------------------
(***************************************************************************)
(* Theorems about Terminal for every set of lines, names, devices, code    *)
(* pages and output modes: what becomes of the rest of a line, where a     *)
(* file's name comes from, which messages are lost, that a dead input does *)
(* nothing, and in which state the console is used and left.               *)
(***************************************************************************)
EXTENDS Terminal, TLAPS, NaturalsInduction, WellFoundedInduction, SequenceTheorems

-----------------------------------------------------------------------------
(* What getline returns.                                                   *)
LEMMA FirstNewLine ==
  ASSUME input \in Texts, NewLines # {}
  PROVE  FirstNL \in 1 .. Len(input)
<1> DEFINE R == OpToRel(<, Nat)
<1>1. NewLines \subseteq Nat /\ NewLines \subseteq 1 .. Len(input)
  BY DEF NewLines, Texts
<1>2. PICK x \in NewLines : \A y \in NewLines : ~(<<y, x>> \in R)
  BY <1>1, NatLessThanWellFounded, WFMin
<1>3. \A y \in NewLines : ~(y < x)
  BY <1>1, <1>2 DEF OpToRel
<1>4. \A y \in NewLines : x <= y
  BY <1>1, <1>3
<1>5. FirstNL \in NewLines
  BY <1>4 DEF FirstNL
<1> QED BY <1>1, <1>5

Results == [text : Texts, rest : Texts, eof : BOOLEAN, fail : BOOLEAN, read : BOOLEAN]

(* A read that gets nothing leaves the string as it was, and says so in    *)
(* failbit; it is the only kind once cin is no longer good.                *)
LEMMA GetLineResult ==
  ASSUME input \in Texts, eofbit \in BOOLEAN, failbit \in BOOLEAN, NEW old \in Texts
  PROVE  /\ GetLine(old) \in Results
         /\ GetLine(old).read <=> Good
         /\ ~Good => GetLine(old).text = old /\ GetLine(old).fail
<1>1. CASE ~Good
  BY <1>1 DEF GetLine, Results
<1>2. CASE Good /\ NewLines # {}
  <2>1. FirstNL \in 1 .. Len(input)
    BY <1>2, FirstNewLine
  <2>2. /\ SubSeq(input, 1, FirstNL - 1) \in Texts
        /\ SubSeq(input, FirstNL + 1, Len(input)) \in Texts
    BY <2>1 DEF Texts
  <2> QED BY <1>2, <2>2 DEF GetLine, Results
<1>3. CASE Good /\ NewLines = {}
  <2>1. << >> \in Texts
    BY DEF Texts
  <2> QED BY <1>3, <2>1 DEF GetLine, Results
<1> QED BY <1>1, <1>2, <1>3

LEMMA NoText == << >> \in Texts
BY DEF Texts

-----------------------------------------------------------------------------
(***************************************************************************)
(* The inductive invariant.  Its parts: the types; where the console is on *)
(* the way in and out; where the rest of a line can be; whose "y" the      *)
(* string of filterByStatus holds; which message stands on the screen.     *)
(***************************************************************************)
(* The output mode at any time after the first call: the terminal flag is  *)
(* added where the host knows it, and FormatterSetup saves what it finds   *)
(* then.                                                                   *)
ModeLeft ==
  IF device.attached /\ device.vtKnown THEN before \cup {"vt"} ELSE before

Inside == Prompts \cup {"loop", "ignore", "get"}

ConsoleInv ==
  /\ "vt" \in conMode => device.vtKnown
  /\ "vt" \in before => device.vtKnown
  /\ pc = "start" => conMode = before /\ ~consoleInitialized
  /\ pc = "formatter" => conMode = ModeLeft /\ ~consoleInitialized
  /\ pc \notin {"start", "formatter", "codePages", "exited", "killed"} =>
       /\ conMode = ModeLeft /\ consoleInitialized
       /\ device.attached => originalConsoleMode = ModeLeft
  /\ pc \in {"codePages", "exited"} => conMode = ModeLeft
  /\ pc \in Inside \cup {"formatter", "encoding", "hide"} => outCP = UTF8 /\ inCP = UTF8
  /\ pc \in Inside => (device.attached => ~cursor)
  /\ pc \in {"mode", "codePages", "exited"} => (device.attached => cursor)
  /\ pc = "exited" => outCP = DOS /\ inCP = DOS

MidLineInv ==
  /\ midLine => pc \notin (Prompts \ {"menu"}) \cup {"ignore"}
  /\ TailsReachTheMenuOnly

NameInv ==
  /\ pc = "exportName" => answer.text \in Yes
  /\ StaleNameOnlyAtEnd

ScreenInv ==
  /\ pc \in Prompts \cup {"start", "formatter", "encoding", "hide"} => screen = "nothing"
  /\ OnlyLoadsGoUnread

IInv == TypeOK /\ ConsoleInv /\ MidLineInv /\ NameInv /\ ScreenInv

LEMMA InitOK == Init => IInv
<1> SUFFICES ASSUME Init PROVE IInv
  OBVIOUS
<1> USE TerminalAssumption, ConsoleAssumption, NoText
<1>1. TypeOK
  BY DEF Init, ConsoleInit, FreshInput, TypeOK, ConsoleTypeOK, NoAnswer, Nothing,
         Prompts, Places, Flags
<1>2. ConsoleInv
  BY DEF Init, ConsoleInit, FreshInput, ConsoleInv, Inside, Prompts
<1>3. MidLineInv /\ NameInv /\ ScreenInv
  BY DEF Init, FreshInput, MidLineInv, TailsReachTheMenuOnly, NameInv,
         StaleNameOnlyAtEnd, ScreenInv, OnlyLoadsGoUnread, NoAnswer, Nothing
<1> QED BY <1>1, <1>2, <1>3 DEF IInv

-----------------------------------------------------------------------------
(* What every answered prompt does, whatever the handler makes of it.      *)
StdinTypes ==
  /\ input \in Texts /\ open \in BOOLEAN
  /\ eofbit \in BOOLEAN /\ failbit \in BOOLEAN /\ midLine \in BOOLEAN
  /\ answer \in [at : Prompts, text : Texts, whole : BOOLEAN, read : BOOLEAN]

LEMMA AnsweredOK ==
  ASSUME StdinTypes, NEW at \in Prompts, NEW old \in Texts, Answered(at, GetLine(old))
  PROVE  /\ StdinTypes' /\ UNCHANGED consoleVars
         /\ GetLine(old) \in Results
         /\ answer'.at = at /\ answer'.text = GetLine(old).text
         /\ ~answer'.whole => midLine
         /\ midLine' => midLine /\ ~GetLine(old).read
         /\ ~GetLine(old).read => GetLine(old).text = old /\ failbit'
         /\ failbit => failbit'
<1> DEFINE r == GetLine(old)
<1>1. /\ r \in Results /\ (r.read <=> Good)
      /\ ~Good => r.text = old /\ r.fail
  BY GetLineResult DEF StdinTypes
<1> HIDE DEF r
<1>2. /\ input' = r.rest /\ eofbit' = r.eof /\ failbit' = r.fail
      /\ midLine' = (midLine /\ ~r.read)
      /\ answer' = [at |-> at, text |-> r.text, whole |-> ~midLine \/ ~r.read,
                    read |-> r.read]
      /\ UNCHANGED <<open, consoleVars>>
  BY DEF Answered, r
<1>3. StdinTypes'
  BY <1>1, <1>2 DEF StdinTypes, Results
<1>4. failbit => failbit'
  BY <1>1, <1>2 DEF Good
<1> QED BY <1>1, <1>2, <1>3, <1>4 DEF r, StdinTypes, Results

(***************************************************************************)
(* A handler's step keeps the invariant: the console is left alone, so     *)
(* only the places, the names and the messages are looked at.              *)
(***************************************************************************)
Moves ==
  /\ StdinTypes' /\ UNCHANGED consoleVars
  /\ pc \in Prompts /\ pc' \in Prompts \cup {"loop", "ignore", "cleanUp"}
  /\ after' \in {"loop", "cleanUp"} /\ hasData' \in BOOLEAN /\ option' \in Texts
  /\ screen' \in {"nothing", "load", "message"}
  /\ done' \in [what : {"nothing", "load", "statusExport", "export"},
                name : Texts, read : BOOLEAN]
  /\ midLine' => pc' = "loop"
  /\ answer'.at = pc /\ (~answer'.whole => pc = "menu")
  /\ pc' = "exportName" => answer'.text \in Yes
  /\ \/ done' = done
     \/ done'.read
     \/ done'.what = "statusExport" /\ done'.name \in Yes /\ failbit'
  /\ failbit => failbit'
  /\ pc' \in Prompts => screen' = "nothing"
  /\ pc' = "loop" => screen' \in {"nothing", "load"}

LEMMA MovesOK == IInv /\ Moves => IInv'
<1> SUFFICES ASSUME IInv, Moves PROVE IInv'
  OBVIOUS
<1>1. TypeOK'
  BY DEF IInv, TypeOK, ConsoleTypeOK, Moves, StdinTypes, Places, Prompts,
         consoleVars, console, statics, found
<1>2. ConsoleInv'
  BY DEF IInv, ConsoleInv, Moves, Inside, Prompts, ModeLeft, consoleVars, console,
         statics, found
<1>3. MidLineInv'
  BY DEF IInv, Moves, MidLineInv, TailsReachTheMenuOnly, Prompts
<1>4. NameInv'
  BY DEF IInv, Moves, NameInv, StaleNameOnlyAtEnd
<1>5. ScreenInv'
  BY DEF IInv, Moves, ScreenInv, OnlyLoadsGoUnread, Prompts
<1> QED BY <1>1, <1>2, <1>3, <1>4, <1>5 DEF IInv

(* A fresh string: what is not read is empty.                              *)
LEMMA FreshAnswer ==
  ASSUME IInv, NEW at \in Prompts, Answered(at, GetLine(<< >>))
  PROVE  LET r == GetLine(<< >>) IN
         /\ StdinTypes' /\ UNCHANGED consoleVars /\ pc = at
         /\ r.text \in Texts /\ r.read \in BOOLEAN
         /\ ~r.read => r.text = << >>
         /\ midLine' => at = "menu" /\ r.text = << >>
         /\ answer'.at = pc /\ (~answer'.whole => pc = "menu")
         /\ answer'.text = r.text
         /\ failbit => failbit'
         /\ screen = "nothing"
<1>1. StdinTypes
  BY DEF IInv, TypeOK, StdinTypes
<1>2. pc = at
  BY DEF Answered
<1>3. midLine => at = "menu"
  BY <1>2 DEF IInv, MidLineInv
<1>4. screen = "nothing"
  BY <1>2 DEF IInv, ScreenInv
<1> HIDE DEF IInv
<1> QED BY <1>1, <1>2, <1>3, <1>4, AnsweredOK, NoText DEF Results

(* A handler that goes on, waits for a key, or fails.                      *)
LocalTypes ==
  /\ after \in {"loop", "cleanUp"} /\ hasData \in BOOLEAN /\ option \in Texts
  /\ screen \in {"nothing", "load", "message"}
  /\ done \in [what : {"nothing", "load", "statusExport", "export"},
               name : Texts, read : BOOLEAN]

LEMMA MenuMoves == IInv /\ ChooseAtMenu => Moves
<1> SUFFICES ASSUME IInv, ChooseAtMenu PROVE Moves
  OBVIOUS
<1> DEFINE r == GetLine(<< >>)
<1>1. LocalTypes
  BY DEF IInv, TypeOK, LocalTypes
<1>2. /\ StdinTypes' /\ UNCHANGED consoleVars /\ pc = "menu"
      /\ midLine' => r.text = << >>
      /\ answer'.at = pc /\ (failbit => failbit') /\ screen = "nothing"
  BY FreshAnswer DEF ChooseAtMenu, Prompts
<1>3. /\ pc' \in {"fileName", "rows", "status", "method", "option", "loop",
                  "ignore", "cleanUp"}
      /\ after' \in {after, "loop", "cleanUp"} /\ UNCHANGED <<option, hasData, done>>
      /\ screen' = screen \/ (pc' = "ignore" /\ screen' = "message")
      /\ r.text = << >> => pc' = "loop"
  BY DEF ChooseAtMenu, GoTo, Message, WaitForKey, Critical, local, Number
<1> HIDE DEF r
<1> QED BY <1>1, <1>2, <1>3 DEF Moves, LocalTypes, Prompts

LEMMA FreshMoves ==
  ASSUME IInv,
         \/ LoadFile \/ AskRows \/ AskStatus \/ AskMethod \/ AskShow
         \/ AskOption \/ AskExportFile \/ AskOpen
  PROVE  Moves
<1> DEFINE r == GetLine(<< >>)
<1>1. LocalTypes
  BY DEF IInv, TypeOK, LocalTypes
<1>2. PICK at \in {"fileName", "rows", "status", "method", "showAsk", "option",
                  "exportFile", "openAsk"} : Answered(at, r)
  BY Zenon DEF LoadFile, AskRows, AskStatus, AskMethod, AskShow, AskOption,
               AskExportFile, AskOpen
<1>3. /\ StdinTypes' /\ UNCHANGED consoleVars /\ pc = at
      /\ r.text \in Texts /\ r.read \in BOOLEAN
      /\ ~r.read => r.text = << >>
      /\ ~midLine'
      /\ answer'.at = pc /\ answer'.whole
      /\ (failbit => failbit') /\ screen = "nothing"
  BY <1>2, FreshAnswer DEF Prompts
<1>4. /\ pc' \in (Prompts \ {"menu", "exportName"}) \cup {"loop", "ignore"}
      /\ after' \in {after, "loop", "cleanUp"} /\ option' \in {option, r.text}
      /\ hasData' = hasData \/ hasData' = (hasData \/ r.text \in LogNames)
      /\ \/ screen' = screen
         \/ pc' = "ignore" /\ screen' = "message"
         \/ pc' = "loop" /\ screen' = "load"
      /\ \/ done' = done
         \/ \E w \in {"load", "export"} :
              done' = [what |-> w, name |-> r.text, read |-> r.read] /\ r.text # << >>
  BY DEF LoadFile, AskRows, AskStatus, AskMethod, AskShow, AskOption, AskExportFile,
         AskOpen, GoTo, Message, WaitForKey, Critical, local, Prompts
<1> HIDE DEF r
<1>5. /\ done' \in [what : {"nothing", "load", "statusExport", "export"},
                    name : Texts, read : BOOLEAN]
      /\ done' = done \/ done'.read
  BY <1>1, <1>3, <1>4 DEF LocalTypes
<1>6. screen' \in {"nothing", "load", "message"} /\ hasData' \in BOOLEAN
      /\ option' \in Texts /\ after' \in {"loop", "cleanUp"}
  BY <1>1, <1>3, <1>4 DEF LocalTypes
<1>7. (pc' \in Prompts => screen' = "nothing") /\ (pc' = "loop" => screen' \in {"nothing", "load"})
  BY <1>3, <1>4 DEF Prompts
<1>8. pc \in Prompts /\ pc' \in Prompts \cup {"loop", "ignore", "cleanUp"} /\ pc' # "exportName"
  BY <1>3, <1>4 DEF Prompts
<1> QED BY <1>3, <1>5, <1>6, <1>7, <1>8 DEF Moves

(* filterByStatus: the string input still holds the "y" at the last        *)
(* question.                                                               *)
LEMMA FilterMoves == IInv /\ (AskExport \/ AskExportName) => Moves
<1> SUFFICES ASSUME IInv, AskExport \/ AskExportName PROVE Moves
  OBVIOUS
<1> DEFINE r == GetLine(answer.text)
<1>1. LocalTypes /\ StdinTypes
  BY DEF IInv, TypeOK, LocalTypes, StdinTypes
<1>2. answer.text \in Texts
  BY <1>1 DEF StdinTypes
<1>3. PICK at \in {"exportAsk", "exportName"} : Answered(at, r)
  BY Zenon DEF AskExport, AskExportName
<1>4. pc = at /\ ~midLine /\ screen = "nothing"
  BY <1>3 DEF Answered, IInv, MidLineInv, ScreenInv, Prompts
<1>5. /\ StdinTypes' /\ UNCHANGED consoleVars
      /\ r.text \in Texts /\ r.read \in BOOLEAN
      /\ ~r.read => r.text = answer.text /\ failbit'
      /\ ~midLine'
      /\ answer'.at = pc /\ answer'.whole /\ answer'.text = r.text
      /\ (failbit => failbit')
  BY <1>1, <1>2, <1>3, <1>4, AnsweredOK DEF Prompts, Results
<1>6. CASE AskExport
  <2>1. /\ pc' \in {"exportName", "ignore"} /\ (pc' = "exportName" => r.text \in Yes)
        /\ after' \in {after, "loop"} /\ UNCHANGED <<option, hasData, done>>
        /\ \/ screen' = screen /\ pc' = "exportName"
           \/ screen' = "message" /\ pc' = "ignore"
    BY <1>6 DEF AskExport, GoTo, Message, WaitForKey, local
  <2> HIDE DEF r
  <2> QED BY <1>1, <1>3, <1>4, <1>5, <2>1 DEF Moves, LocalTypes, Prompts
<1>7. CASE AskExportName
  <2>1. /\ pc = "exportName" /\ pc' = "ignore" /\ after' = "loop"
        /\ screen' = "message" /\ UNCHANGED <<option, hasData>>
        /\ \/ done' = done
           \/ done' = [what |-> "statusExport", name |-> r.text, read |-> r.read]
    BY <1>7 DEF AskExportName, Answered, WaitForKey, Exported
  <2>2. answer.text \in Yes
    BY <2>1 DEF IInv, NameInv
  <2> HIDE DEF r
  <2>3. /\ \/ done' = done
           \/ done'.read
           \/ done'.what = "statusExport" /\ done'.name \in Yes /\ failbit'
        /\ done' \in [what : {"nothing", "load", "statusExport", "export"},
                      name : Texts, read : BOOLEAN]
    BY <1>1, <1>5, <2>1, <2>2 DEF LocalTypes
  <2> QED BY <1>1, <1>4, <1>5, <2>1, <2>3 DEF Moves, LocalTypes, Prompts
<1> QED BY <1>6, <1>7

LEMMA HandlersOK == IInv /\ Handlers => IInv'
<1> SUFFICES ASSUME IInv, Handlers PROVE IInv'
  OBVIOUS
<1>1. Moves
  BY MenuMoves, FreshMoves, FilterMoves, Zenon DEF Handlers
<1> QED BY <1>1, MovesOK

-----------------------------------------------------------------------------
(* The two reads of waitForKey, the menu, and the console's calls.         *)
LEMMA KeysOK == IInv /\ (Ignore \/ Get \/ DrawMenu) => IInv'
<1> SUFFICES ASSUME IInv, Ignore \/ Get \/ DrawMenu PROVE IInv'
  OBVIOUS
<1>1. CASE Ignore \/ Get
  <2>1. /\ UNCHANGED consoleVars
        /\ \/ pc = "ignore" /\ pc' = "get" /\ screen' = screen
           \/ pc = "get" /\ pc' \in {"loop", "cleanUp"} /\ screen' = "nothing"
        /\ UNCHANGED <<after, hasData, done, open>>
        /\ answer' = NoAnswer /\ option' = << >>
        /\ failbit => failbit'
    BY <1>1 DEF Ignore, Get, TakeChar, Good, IInv, TypeOK
  <2>2. StdinTypes'
    <3>1. StdinTypes
      BY DEF IInv, TypeOK, StdinTypes
    <3>2. NoAnswer \in [at : Prompts, text : Texts, whole : BOOLEAN, read : BOOLEAN]
      BY NoText DEF NoAnswer, Prompts
    <3>3. TakeChar
      BY <1>1 DEF Ignore, Get
    <3>4. input' \in Texts
      <4>1. input' = input \/ (input # << >> /\ input' = Tail(input))
        BY <3>3 DEF TakeChar
      <4>2. ASSUME NEW s \in Texts, s # << >> PROVE Tail(s) \in Texts
        BY <4>2, HeadTailProperties DEF Texts
      <4> QED BY <3>1, <4>1, <4>2 DEF StdinTypes
    <3> QED BY <2>1, <3>1, <3>2, <3>3, <3>4 DEF TakeChar, StdinTypes
  <2>3. TypeOK'
    BY <2>1, <2>2, NoText DEF IInv, TypeOK, ConsoleTypeOK, StdinTypes, Places, Prompts,
                              consoleVars, console, statics, found
  <2>4. ConsoleInv'
    BY <2>1 DEF IInv, ConsoleInv, Inside, Prompts, ModeLeft, consoleVars, console,
                statics, found
  <2>5. MidLineInv' /\ NameInv'
    BY <2>1 DEF IInv, MidLineInv, TailsReachTheMenuOnly, Prompts, NameInv,
                StaleNameOnlyAtEnd, NoAnswer
  <2>6. ScreenInv'
    BY <2>1, <1>1 DEF Ignore, Get, IInv, ScreenInv, OnlyLoadsGoUnread, Prompts
  <2> QED BY <2>3, <2>4, <2>5, <2>6 DEF IInv
<1>2. CASE DrawMenu
  <2>1. TypeOK'
    BY <1>2, NoText DEF DrawMenu, IInv, TypeOK, ConsoleTypeOK, Places, Prompts, stdin,
                        consoleVars, console, statics, found, NoAnswer, Nothing
  <2>2. ConsoleInv'
    BY <1>2 DEF DrawMenu, IInv, ConsoleInv, Inside, Prompts, ModeLeft, consoleVars,
                console, statics, found
  <2>3. MidLineInv' /\ NameInv' /\ ScreenInv'
    BY <1>2 DEF DrawMenu, IInv, MidLineInv, TailsReachTheMenuOnly, Prompts, NameInv,
                StaleNameOnlyAtEnd, ScreenInv, OnlyLoadsGoUnread, stdin, NoAnswer,
                Nothing
  <2> QED BY <2>1, <2>2, <2>3 DEF IInv
<1> QED BY <1>1, <1>2

(* The console is set up call by call, with the mode it was found in and   *)
(* the terminal flag from the first call on.                               *)
LEMMA CallsOK == IInv /\ (SetUp \/ Leave) => IInv'
<1> SUFFICES ASSUME IInv, SetUp \/ Leave PROVE IInv'
  OBVIOUS
<1> DEFINE Way == {"start", "formatter", "encoding", "hide", "loop", "cleanUp", "show",
                   "mode", "codePages", "exited"}
<1>1. /\ pc \in Way \ {"loop", "exited"} /\ pc' \in Way \ {"start", "cleanUp"}
      /\ (pc \in {"start", "formatter", "encoding", "hide"}) <=>
           (pc' \in {"formatter", "encoding", "hide", "loop"})
      /\ UNCHANGED <<stdin, local, answer, screen, done>>
      /\ hasData' \in {hasData, FALSE}
  BY DEF SetUp, Leave, Call
<1>2. ConsoleTypeOK'
  BY DEF IInv, TypeOK, ConsoleTypeOK, SetUp, Leave, Call, WindowsSetup, FormatterSetup,
         EncodingAndTerminal, SetCursor, FormatterRestore, WindowsRestore, SetCodePages,
         AddVT, SetMode, Accepts, Flags, consoleVars, console, statics, found
<1>3. TypeOK'
  <2>1. pc' \in Places
    BY <1>1 DEF Places, Way
  <2>2. hasData' \in BOOLEAN
    BY <1>1 DEF IInv, TypeOK
  <2>3. UNCHANGED <<input, open, eofbit, failbit, midLine, after, option, answer, screen, done>>
    BY <1>1 DEF stdin, local
  <2> QED BY <1>2, <2>1, <2>2, <2>3 DEF IInv, TypeOK
<1>4. ConsoleInv'
  <2>0. ConsoleInv /\ ConsoleTypeOK
    BY DEF IInv, TypeOK
  <2>1. CASE SetUp
    <3>0. (before \cup {"vt"}) \cup {"vt"} = before \cup {"vt"}
      OBVIOUS
    <3>1. CASE Call("start", "formatter") /\ WindowsSetup
      BY <2>0, <3>1 DEF ConsoleInv, Inside, Prompts, ModeLeft, Call,
                        WindowsSetup, SetCodePages, AddVT, SetMode, Accepts, statics, found
    <3>2. CASE Call("formatter", "encoding") /\ FormatterSetup
      <4>1. /\ pc = "formatter" /\ pc' = "encoding" /\ ~consoleInitialized
            /\ conMode = ModeLeft /\ UNCHANGED <<device, before, foundCP>> /\ consoleInitialized'
            /\ device.attached => originalConsoleMode' = conMode
            /\ outCP' = UTF8 /\ inCP' = UTF8
            /\ conMode' = IF Accepts(conMode \cup {"vt"}) THEN conMode \cup {"vt"}
                                                          ELSE conMode
        BY <2>0, <3>2 DEF ConsoleInv, Inside, Prompts, ModeLeft, Call,
                        FormatterSetup, SetCodePages, AddVT, SetMode, found
      <4>2. conMode' = conMode
        BY <3>0, <4>1 DEF Accepts, ModeLeft
      <4> QED BY <2>0, <4>1, <4>2 DEF ConsoleInv, Inside, Prompts, ModeLeft
    <3>3. CASE Call("encoding", "hide") /\ EncodingAndTerminal
      BY <2>0, <3>3 DEF ConsoleInv, Inside, Prompts, ModeLeft, Call,
                        EncodingAndTerminal, SetCodePages, AddVT, SetMode,
                        Accepts, statics, found
    <3>4. CASE Call("hide", "loop") /\ SetCursor(FALSE)
      BY <2>0, <3>4 DEF ConsoleInv, Inside, Prompts, ModeLeft, Call,
                        SetCursor, statics, found
    <3> QED BY <2>1, <3>1, <3>2, <3>3, <3>4 DEF SetUp
  <2>2. CASE Leave
    BY <2>2 DEF IInv, ConsoleInv, TypeOK, ConsoleTypeOK, Leave, Call, SetCursor,
                FormatterRestore, WindowsRestore, SetCodePages, SetMode, Accepts,
                ModeLeft, Inside, Prompts, consoleVars, console, statics, found
  <2> QED BY <2>1, <2>2
<1>5. MidLineInv' /\ NameInv' /\ ScreenInv'
  BY <1>1 DEF IInv, MidLineInv, TailsReachTheMenuOnly, Prompts, NameInv,
              StaleNameOnlyAtEnd, ScreenInv, OnlyLoadsGoUnread, stdin, local
<1> QED BY <1>3, <1>4, <1>5 DEF IInv

LEMMA EnvironmentOK == IInv /\ Environment => IInv'
<1> SUFFICES ASSUME IInv, Environment PROVE IInv'
  OBVIOUS
<1>1. CASE \E l \in Lines : Type(l) \/ EndInput(l)
  <2>1. PICK l \in Lines : Type(l) \/ EndInput(l)
    BY <1>1
  <2>2. input' \in Texts
    <3>1. input \in Seq(STRING) /\ l \in Seq(STRING) /\ NL \in STRING
      BY TerminalAssumption DEF IInv, TypeOK, Texts
    <3>2. input \o l \in Seq(STRING) /\ input \o Append(l, NL) \in Seq(STRING)
      <4>1. Append(l, NL) \in Seq(STRING)
        BY <3>1, AppendProperties
      <4> QED BY <3>1, <4>1, ConcatProperties
    <3> QED BY <2>1, <3>2 DEF Type, EndInput, Texts
  <2>3. /\ open' \in BOOLEAN
        /\ UNCHANGED <<consoleVars, eofbit, failbit, midLine, pc, after, option, hasData,
                       answer, screen, done>>
    BY <2>1 DEF Type, EndInput, local, IInv, TypeOK
  <2>4. TypeOK'
    BY <2>2, <2>3 DEF IInv, TypeOK, ConsoleTypeOK, consoleVars, console, statics, found
  <2>5. ConsoleInv' /\ MidLineInv' /\ NameInv' /\ ScreenInv'
    BY <2>3 DEF IInv, ConsoleInv, MidLineInv, NameInv, ScreenInv, ModeLeft, consoleVars,
                console, statics, found, TailsReachTheMenuOnly, StaleNameOnlyAtEnd,
                OnlyLoadsGoUnread
  <2> QED BY <2>4, <2>5 DEF IInv
<1>2. CASE Kill \/ Restart
  <2>1. /\ Forgotten /\ UNCHANGED <<device, outCP, inCP, conMode, cursor>>
        /\ \/ pc' = "killed" /\ UNCHANGED <<consoleInitialized, originalConsoleMode, before, foundCP>>
           \/ /\ pc' = "start" /\ before' = conMode /\ foundCP' = outCP
              /\ consoleInitialized' = FALSE /\ originalConsoleMode' = {}
    BY <1>2 DEF Kill, Restart, ConsoleOfNewProcess, consoleVars, console, statics, found
  <2>2. TypeOK'
    BY <2>1, NoText DEF IInv, TypeOK, ConsoleTypeOK, Forgotten, NoAnswer, Nothing, Prompts,
                        Places
  <2>3. ConsoleInv'
    BY <2>1 DEF IInv, ConsoleInv, Inside, Prompts, ModeLeft
  <2>4. MidLineInv' /\ NameInv' /\ ScreenInv'
    BY <2>1 DEF Forgotten, NoAnswer, Nothing, Prompts, MidLineInv, TailsReachTheMenuOnly,
                NameInv, StaleNameOnlyAtEnd, ScreenInv, OnlyLoadsGoUnread
  <2> QED BY <2>2, <2>3, <2>4 DEF IInv
<1> QED BY <1>1, <1>2 DEF Environment

(* The inductive invariant holds in every reachable state.                 *)
THEOREM Invariance == Spec => []IInv
<1>1. IInv /\ [Next]_vars => IInv'
  <2> SUFFICES ASSUME IInv, [Next]_vars PROVE IInv'
    OBVIOUS
  <2>1. CASE Program
    BY <2>1, HandlersOK, KeysOK, CallsOK DEF Program
  <2>2. CASE Environment
    BY <2>2, EnvironmentOK
  <2>3. CASE UNCHANGED vars
    BY <2>3 DEF vars, stdin, local, consoleVars, console, statics, found, IInv, TypeOK,
                ConsoleTypeOK, ConsoleInv, MidLineInv, NameInv, ScreenInv, ModeLeft,
                TailsReachTheMenuOnly, StaleNameOnlyAtEnd, OnlyLoadsGoUnread
  <2> QED BY <2>1, <2>2, <2>3 DEF Next
<1> QED BY InitOK, <1>1, PTL DEF Spec

-----------------------------------------------------------------------------
(* Every variable keeps its type, the places are those of src/main.cpp.    *)
THEOREM Typing == Spec => []TypeOK
<1>1. IInv => TypeOK
  BY DEF IInv
<1> QED BY <1>1, Invariance, PTL

(* waitForKey is the last thing every handler does (src/main.cpp:53-57):   *)
(* what it leaves of a line can only become a menu choice.                 *)
THEOREM Tails == Spec => []TailsReachTheMenuOnly
<1>1. IInv => TailsReachTheMenuOnly
  BY DEF IInv, MidLineInv
<1> QED BY <1>1, Invariance, PTL

(* The only name a load or an export may use that was not read for it is   *)
(* the "y" of filterByStatus, and the input has ended (src/main.cpp:329).  *)
THEOREM Names == Spec => []StaleNameOnlyAtEnd
<1>1. IInv => StaleNameOnlyAtEnd
  BY DEF IInv, NameInv
<1> QED BY <1>1, Invariance, PTL

(* No message but loadLogs' is cleared unread (src/main.cpp:530).          *)
THEOREM Messages == Spec => []OnlyLoadsGoUnread
<1>1. IInv => OnlyLoadsGoUnread
  BY DEF IInv, ScreenInv
<1> QED BY <1>1, Invariance, PTL

(* The console is set up at every prompt, and left of use to the shell     *)
(* (src/main.cpp:20-45), however it was found and however many processes   *)
(* were killed in it before.                                               *)
THEOREM Console == Spec => []ConsoleIsKept
<1>1. IInv => ConsoleReady
  <2> SUFFICES ASSUME IInv, pc \in Inside PROVE
        /\ outCP = UTF8 /\ inCP = UTF8
        /\ device.attached => cursor = FALSE /\ ("vt" \in conMode <=> device.vtKnown)
    BY DEF ConsoleReady, Inside
  <2>1. cursor \in BOOLEAN
    BY DEF IInv, TypeOK, ConsoleTypeOK
  <2>2. /\ outCP = UTF8 /\ inCP = UTF8 /\ (device.attached => ~cursor)
        /\ conMode = ModeLeft /\ ("vt" \in conMode => device.vtKnown)
    BY DEF IInv, ConsoleInv, Inside, Prompts
  <2> QED BY <2>1, <2>2 DEF ModeLeft
<1>2. IInv => ConsoleUsable
  BY DEF IInv, ConsoleInv, ConsoleUsable, ModeLeft
<1>3. IInv => ConsoleIsKept
  BY <1>1, <1>2 DEF ConsoleIsKept
<1> QED BY <1>3, Invariance, PTL

(* Once a read at the menu has failed the program goes round its loop and  *)
(* does nothing else (src/main.cpp:529-650).                               *)
THEOREM DeadInput == Spec => DeadInputDoesNothing
<1> DEFINE Dead == failbit /\ AtMenu /\ Running' /\ pc' # "start" =>
                     failbit' /\ pc' \in {"loop", "menu"} /\ done' \in {done, Nothing}
<1>1. IInv /\ [Next]_vars => Dead
  <2> SUFFICES ASSUME IInv, [Next]_vars, failbit, AtMenu, Running', pc' # "start"
               PROVE  failbit' /\ pc' \in {"loop", "menu"} /\ done' \in {done, Nothing}
    OBVIOUS
  <2>1. CASE ChooseAtMenu
    <3>1. StdinTypes
      BY DEF IInv, TypeOK, StdinTypes
    <3>2. GetLine(<< >>).text = << >> /\ GetLine(<< >>).fail
      BY <3>1, NoText, GetLineResult DEF Good, StdinTypes
    <3>3. GoTo("loop") /\ failbit' = GetLine(<< >>).fail
      BY <2>1, <3>2 DEF ChooseAtMenu, Number, Answered
    <3> QED BY <3>2, <3>3 DEF GoTo
  <2>2. CASE DrawMenu
    BY <2>2 DEF DrawMenu, stdin
  <2>3. CASE Environment
    BY <2>3 DEF Environment, Type, EndInput, Kill, Restart, Running, AtMenu
  <2>4. CASE UNCHANGED vars
    BY <2>4 DEF vars, stdin, AtMenu
  <2>5. CASE (Handlers /\ ~ChooseAtMenu) \/ Ignore \/ Get \/ SetUp \/ Leave
    <3>1. pc \notin {"loop", "menu"}
      BY <2>5 DEF Handlers, LoadFile, AskRows, AskStatus, AskExport, AskExportName,
                  AskMethod, AskShow, AskOption, AskExportFile, AskOpen, Answered, Ignore,
                  Get, SetUp, Leave, Call
    <3> QED BY <3>1 DEF AtMenu
  <2> QED BY <2>1, <2>2, <2>3, <2>4, <2>5 DEF Next, Program
<1>2. Spec => [][Dead]_vars
  BY <1>1, Invariance, PTL DEF Spec
<1> QED BY <1>2 DEF DeadInputDoesNothing
=============================================================================
