------------------------------ MODULE Terminal ------------------------------
(***************************************************************************)
(* The program at its terminal (src/main.cpp): what every handler takes    *)
(* from standard input, character by character, what it leaves there for   *)
(* the next one, what becomes of the message on the screen, and how the    *)
(* console is set up before and given back after.                          *)
(*                                                                         *)
(* Session models what the handlers do to the globals and to the disk;     *)
(* here only "there is data" is kept of that, and where a handler's course *)
(* depends on the logs either course may be taken.  An action runs from    *)
(* one read of standard input to the next.                                 *)
(***************************************************************************)
EXTENDS ConsoleMode, Sequences

CONSTANTS
  NL,            \* the character that ends a line
  Lines,         \* the lines a user may type, without their NL
  LogNames,      \* the lines that name a file loadLogs accepts
  Statuses,      \* the lines stoi makes a status between 100 and 599 of
  MethodNames,   \* the lines that are a method, in upper or lower case
  Yes,           \* the lines "y" and "Y"
  MaxPending     \* bound on the unread characters another line is typed behind

Texts == Seq(STRING)

ASSUME TerminalAssumption ==
  /\ NL \in STRING
  /\ Lines \subseteq {l \in Texts : \A i \in DOMAIN l : l[i] # NL}
  /\ LogNames \subseteq Lines /\ Statuses \subseteq Lines
  /\ MethodNames \subseteq Lines
  /\ Yes \subseteq Texts
  /\ Statuses \cap Yes = {} /\ <<>> \notin Statuses /\ <<>> \notin Yes
  /\ MaxPending \in Nat

VARIABLES
  input,       \* characters typed and not yet read
  open,        \* whether more may come
  eofbit,      \* cin's state: a read has met the end of the input
  failbit,     \* cin's state: a read has got nothing
  midLine,     \* history: the first characters of the next line were taken
  pc,          \* where the program is, see Prompts and Places
  after,       \* where waitForKey returns to
  hasData,     \* analyzer && analyzer->getTotalRequests() > 0
  option,      \* what exportResults was asked for
  answer,      \* what this turn's last getline left in its string
  screen,      \* what stands on the screen: "nothing", "load" or "message"
  done         \* history: this turn's load or export, with its name

stdin == <<input, open, eofbit, failbit, midLine>>
local == <<after, option>>
vars  == <<consoleVars, stdin, pc, local, hasData, answer, screen, done>>

(* The calls of getline, each named for what it asks.                      *)
Prompts == {"menu", "fileName", "rows", "status", "exportAsk", "exportName",
            "method", "showAsk", "option", "exportFile", "openAsk"}

Places == Prompts \cup
  {"start", "formatter", "encoding", "hide",   \* main.cpp's setupConsole
   "loop",                                     \* the top of showMainMenu's loop
   "ignore", "get",                            \* the two reads of waitForKey
   "cleanUp", "show", "mode", "codePages",     \* the end of main
   "exited", "killed"}

Nothing  == [what |-> "nothing", name |-> << >>, read |-> TRUE]
NoAnswer == [at |-> "menu", text |-> << >>, whole |-> TRUE, read |-> TRUE]

FreshInput ==
  /\ input = << >> /\ open = TRUE /\ eofbit = FALSE /\ failbit = FALSE
  /\ midLine = FALSE

Init ==
  /\ ConsoleInit /\ FreshInput
  /\ pc = "start" /\ after = "loop" /\ hasData = FALSE /\ option = << >>
  /\ answer = NoAnswer /\ screen = "nothing" /\ done = Nothing

-----------------------------------------------------------------------------
(* Reading.  A read waits until the console has handed over a line, until  *)
(* the input has ended, or not at all when cin has failed before.          *)
Good     == ~eofbit /\ ~failbit
NewLines == {i \in DOMAIN input : input[i] = NL}
FirstNL  == CHOOSE i \in NewLines : \A j \in NewLines : i <= j

CanReadLine == ~Good \/ NewLines # {} \/ ~open
CanReadChar == ~Good \/ input # << >> \/ ~open

(* What getline(cin, s) leaves in s, which held old: nothing is assigned   *)
(* when cin is not good at the call, not even the empty string.            *)
(* A fault: cin.clear() before every read.                                 *)
GetLineClearing(old) ==
  IF NewLines # {}
  THEN [text |-> SubSeq(input, 1, FirstNL - 1),
        rest |-> SubSeq(input, FirstNL + 1, Len(input)),
        eof |-> FALSE, fail |-> FALSE, read |-> TRUE]
  ELSE [text |-> input, rest |-> << >>,
        eof |-> FALSE, fail |-> FALSE, read |-> TRUE]

GetLine(old) ==
  IF ~Good
  THEN [text |-> old, rest |-> input, eof |-> eofbit, fail |-> TRUE, read |-> FALSE]
  ELSE IF NewLines # {}
  THEN [text |-> SubSeq(input, 1, FirstNL - 1),
        rest |-> SubSeq(input, FirstNL + 1, Len(input)),
        eof |-> FALSE, fail |-> FALSE, read |-> TRUE]
  ELSE [text |-> input, rest |-> << >>,
        eof |-> TRUE, fail |-> input = << >>, read |-> TRUE]

(* The answer r is taken at the prompt where the program waits for it.     *)
Answered(at, r) ==
  /\ pc = at /\ CanReadLine
  /\ input' = r.rest /\ eofbit' = r.eof /\ failbit' = r.fail
  /\ midLine' = (midLine /\ ~r.read)
  /\ answer' = [at |-> at, text |-> r.text, whole |-> ~midLine \/ ~r.read,
                read |-> r.read]
  /\ UNCHANGED <<open, consoleVars>>

(* cin.ignore() and cin.get(): one character, if there is one.  They are   *)
(* the last thing a handler does: its strings are not read any more.       *)
TakeChar ==
  /\ CanReadChar
  /\ IF Good /\ input # << >>
     THEN /\ input' = Tail(input) /\ midLine' = (Head(input) # NL)
          /\ UNCHANGED <<eofbit, failbit>>
     ELSE /\ UNCHANGED <<input, midLine>>
          /\ eofbit' = (eofbit \/ Good)
          /\ failbit' = (failbit \/ ~Good \/ pc = "get")
  /\ answer' = NoAnswer /\ option' = << >>
  /\ UNCHANGED <<open, consoleVars, hasData, done>>

-----------------------------------------------------------------------------
(* Going on to the next prompt; showing a message and waiting for a key.   *)
GoTo(place) == pc' = place /\ UNCHANGED <<local, screen, hasData, done>>

WaitForKey ==
  /\ pc' = "ignore" /\ after' = "loop" /\ screen' = "message"
  /\ UNCHANGED <<option, hasData>>

Message == WaitForKey /\ UNCHANGED done

(* An exception in a handler that catches none: main shows it.             *)
Critical ==
  /\ pc' = "ignore" /\ after' = "cleanUp" /\ screen' = "message"
  /\ UNCHANGED <<option, hasData, done>>

Ignore == pc = "ignore" /\ TakeChar /\ pc' = "get" /\ UNCHANGED <<after, screen>>

(* A fault: the wait goes on to the end of the line, while (cin.get() !=   *)
(* '\n'), also when there is none.                                         *)
GetToLineEnd ==
  /\ pc = "get" /\ TakeChar
  /\ pc' = IF midLine' \/ input = << >> THEN "get" ELSE after
  /\ screen' = "nothing" /\ UNCHANGED after

Get ==
  /\ pc = "get" /\ TakeChar /\ pc' = after /\ screen' = "nothing"
  /\ UNCHANGED after

(* clearScreen and the menu.  The handler's strings are out of scope.      *)
DrawMenu ==
  /\ pc = "loop" /\ pc' = "menu" /\ screen' = "nothing"
  /\ after' = "loop" /\ option' = << >> /\ answer' = NoAnswer /\ done' = Nothing
  /\ UNCHANGED <<consoleVars, stdin, hasData>>

-----------------------------------------------------------------------------
(* showMainMenu's choices and loadLogs.                                    *)
Number(n) == <<n>>

ChooseAtMenu ==
  LET r == GetLine(<< >>) IN
  /\ Answered("menu", r)
  /\ \/ r.text = Number("0") /\ GoTo("cleanUp")
     \/ r.text = Number("1") /\ GoTo("fileName")
     \/ r.text = Number("2") /\ Message
     \/ r.text \in {Number("3"), Number("4")} /\ hasData /\ GoTo("rows")
     \/ r.text = Number("5") /\ hasData /\ GoTo("status")
     \/ r.text = Number("6") /\ hasData /\ GoTo("method")
     \/ r.text = Number("7") /\ hasData /\ GoTo("option")
     \/ r.text = Number("8") /\ hasData /\ (Message \/ Critical)
     \/ r.text \in {Number(n) : n \in {"3", "4", "5", "6", "7", "8"}}
          /\ ~hasData /\ Message
     \/ r.text \notin {Number(n) : n \in {"0", "1", "2", "3", "4", "5", "6", "7", "8"}}
          /\ GoTo("loop")

LoadFile ==
  LET r == GetLine(<< >>) IN
  /\ Answered("fileName", r)
  /\ pc' = "loop" /\ UNCHANGED local
  /\ \/ r.text = << >> /\ UNCHANGED <<screen, hasData, done>>
     \/ /\ r.text # << >> /\ screen' = "load"
        /\ done' = [what |-> "load", name |-> r.text, read |-> r.read]
        /\ hasData' = (hasData \/ r.text \in LogNames)

(* A fault: after the wait the number is asked for again.                  *)
AskRowsAgain ==
  LET r == GetLine(<< >>) IN
  /\ Answered("rows", r)
  /\ pc' = "ignore" /\ after' = "rows" /\ screen' = "message"
  /\ UNCHANGED <<option, hasData, done>>

(* showTopIPs, showTopURLs.                                                *)
AskRows ==
  LET r == GetLine(<< >>) IN Answered("rows", r) /\ Message

-----------------------------------------------------------------------------
(* filterByStatus asks three questions with one string, input.  The listing*)
(* may be empty, or throw, which is caught.                                *)
AskStatus ==
  LET r == GetLine(<< >>) IN
  /\ Answered("status", r)
  /\ \/ Message
     \/ r.text \in Statuses /\ GoTo("exportAsk")

AskExport ==
  LET r == GetLine(answer.text) IN
  /\ Answered("exportAsk", r)
  /\ \/ r.text \in Yes /\ GoTo("exportName")
     \/ r.text \notin Yes /\ Message

Exported(r) ==
  done' = [what |-> "statusExport", name |-> r.text, read |-> r.read]

AskExportName ==
  LET r == GetLine(answer.text) IN
  /\ Answered("exportName", r)
  /\ WaitForKey
  /\ \/ UNCHANGED done
     \/ r.text # << >> /\ Exported(r)

(* filterByMethod, which catches nothing.                                  *)
AskMethod ==
  LET r == GetLine(<< >>) IN
  /\ Answered("method", r)
  /\ \/ Message
     \/ r.text \in MethodNames /\ GoTo("showAsk")

AskShow ==
  LET r == GetLine(<< >>) IN
  /\ Answered("showAsk", r)
  /\ \/ Message
     \/ r.text \in Yes /\ Critical

(* exportResults.                                                          *)
AskOption ==
  LET r == GetLine(<< >>) IN
  /\ Answered("option", r)
  /\ \/ r.text = Number("0") /\ GoTo("loop")
     \/ /\ r.text # Number("0") /\ pc' = "exportFile" /\ option' = r.text
        /\ UNCHANGED <<after, screen, hasData, done>>

Exportable == {Number(n) : n \in {"1", "2", "3", "4"}}

(* A fault: the option and the file name share a string.                   *)
AskExportFileShared ==
  LET r == GetLine(option) IN
  /\ Answered("exportFile", r)
  /\ \/ Message
     \/ /\ r.text # << >> /\ option \in Exportable
        /\ pc' = "openAsk" /\ UNCHANGED <<local, screen, hasData>>
        /\ done' = [what |-> "export", name |-> r.text, read |-> r.read]

AskExportFile ==
  LET r == GetLine(<< >>) IN
  /\ Answered("exportFile", r)
  /\ \/ Message
     \/ /\ r.text # << >> /\ option \in Exportable
        /\ pc' = "openAsk" /\ UNCHANGED <<local, screen, hasData>>
        /\ done' = [what |-> "export", name |-> r.text, read |-> r.read]

AskOpen ==
  LET r == GetLine(<< >>) IN Answered("openAsk", r) /\ Message

-----------------------------------------------------------------------------
(* setupConsole, the end of main and restoreConsole, call by call.         *)
Call(from, to) ==
  /\ pc = from /\ pc' = to
  /\ UNCHANGED <<stdin, local, hasData, answer, screen, done>>

SetUp ==
  \/ Call("start", "formatter") /\ WindowsSetup
  \/ Call("formatter", "encoding") /\ FormatterSetup
  \/ Call("encoding", "hide") /\ EncodingAndTerminal
  \/ Call("hide", "loop") /\ SetCursor(FALSE)

Leave ==
  \/ /\ pc = "cleanUp" /\ pc' = "show" /\ hasData' = FALSE
     /\ UNCHANGED <<consoleVars, stdin, local, answer, screen, done>>
  \/ Call("show", "mode") /\ SetCursor(TRUE)
  \/ Call("mode", "codePages") /\ FormatterRestore
  \/ Call("codePages", "exited") /\ WindowsRestore

Handlers ==
  \/ ChooseAtMenu \/ LoadFile \/ AskRows
  \/ AskStatus \/ AskExport \/ AskExportName
  \/ AskMethod \/ AskShow \/ AskOption \/ AskExportFile \/ AskOpen

Program == SetUp \/ DrawMenu \/ Handlers \/ Ignore \/ Get \/ Leave

(* The user, who may type ahead; the end of the input, which may cut its   *)
(* last line short; the end of the process; its next start.                *)
Running == pc \notin {"exited", "killed"}

Type(l) ==
  /\ Running /\ open /\ Len(input) <= MaxPending
  /\ input' = input \o Append(l, NL)
  /\ UNCHANGED <<consoleVars, open, eofbit, failbit, midLine, pc, local, hasData,
                 answer, screen, done>>

EndInput(l) ==
  /\ Running /\ open /\ Len(input) <= MaxPending
  /\ input' = input \o l /\ open' = FALSE
  /\ UNCHANGED <<consoleVars, eofbit, failbit, midLine, pc, local, hasData,
                 answer, screen, done>>

(* The memory of a process ends with it, and what was typed for it.        *)
Forgotten ==
  /\ input' = << >> /\ open' = TRUE /\ eofbit' = FALSE /\ failbit' = FALSE
  /\ midLine' = FALSE /\ after' = "loop" /\ hasData' = FALSE /\ option' = << >>
  /\ answer' = NoAnswer /\ screen' = "nothing" /\ done' = Nothing

Kill == Running /\ pc' = "killed" /\ Forgotten /\ UNCHANGED consoleVars

Restart == ~Running /\ pc' = "start" /\ Forgotten /\ ConsoleOfNewProcess

Environment == (\E l \in Lines : Type(l) \/ EndInput(l)) \/ Kill \/ Restart

Next == Program \/ Environment

Spec     == Init /\ [][Next]_vars
FairSpec == Spec /\ WF_vars(Program)

-----------------------------------------------------------------------------
TypeOK ==
  /\ ConsoleTypeOK
  /\ input \in Texts /\ open \in BOOLEAN
  /\ eofbit \in BOOLEAN /\ failbit \in BOOLEAN /\ midLine \in BOOLEAN
  /\ pc \in Places /\ after \in {"loop", "cleanUp"}
  /\ hasData \in BOOLEAN /\ option \in Texts
  /\ answer \in [at : Prompts, text : Texts, whole : BOOLEAN, read : BOOLEAN]
  /\ screen \in {"nothing", "load", "message"}
  /\ done \in [what : {"nothing", "load", "statusExport", "export"},
               name : Texts, read : BOOLEAN]

(* waitForKey takes two characters and leaves the rest of their line       *)
(* (src/main.cpp:55-56).  The rest is never taken for a file name, a       *)
(* status, a method or a yes: every wait is the last thing its handler     *)
(* does, so the rest of a line can only become the next menu choice.       *)
TailsReachTheMenuOnly == ~answer.whole => answer.at = "menu"

(* A load or an export works on a name read at its own prompt, with one    *)
(* exception: filterByStatus asks with one string, so when the input ends  *)
(* right behind the "y" that asks for an export, the file is named "y"     *)
(* (src/main.cpp:326-331).                                                 *)
StaleNameOnlyAtEnd ==
  ~done.read => done.what = "statusExport" /\ done.name \in Yes /\ failbit

(* When the screen is cleared for the menu, the message on it has been     *)
(* waited for, unless it is what loadLogs said (src/main.cpp:99, 104 and   *)
(* 530).                                                                   *)
OnlyLoadsGoUnread == pc = "loop" => screen \in {"nothing", "load"}

(* Once a read at the menu has failed nothing more is loaded or exported,  *)
(* and the program does not end by itself (src/main.cpp:557).              *)
AtMenu == pc \in {"loop", "menu"}

DeadInputDoesNothing ==
  [][failbit /\ AtMenu /\ Running' /\ pc' # "start" =>
       failbit' /\ pc' \in {"loop", "menu"} /\ done' \in {done, Nothing}]_vars

(* When the input ends, every handler finds its way out: the program ends, *)
(* or it is back at a menu that turns for ever (src/main.cpp:529 and 557). *)
Spinning == AtMenu /\ failbit

EndIsNoticed == ~open ~> (~Running \/ Spinning)

(* At every prompt the console prints UTF-8, without a cursor and with     *)
(* escape sequences, as far as its host can (src/main.cpp:20-32).          *)
ConsoleReady ==
  pc \in Prompts \cup {"loop", "ignore", "get"} =>
    /\ outCP = UTF8 /\ inCP = UTF8
    /\ device.attached => cursor = FALSE /\ ("vt" \in conMode <=> device.vtKnown)

(* However the console was found, after earlier runs that were killed too, *)
(* a run that ends by itself leaves it of use to the shell: with a cursor, *)
(* with one code page for what is typed and what is printed, and with      *)
(* every flag of the output mode it was found with (src/main.cpp:35-45).   *)
ConsoleUsable ==
  pc = "exited" =>
    /\ device.attached => cursor
    /\ outCP = inCP
    /\ before \subseteq conMode

(* The console is as the program needs it while it asks, and the shell can *)
(* go on in it after the end (src/main.cpp:20-45).                         *)
ConsoleIsKept == ConsoleReady /\ ConsoleUsable

(* "Restoration of the original settings of the console"                   *)
(* (include/windows_utils.h:62; src/formatter.cpp:18 and 52 the same of    *)
(* the mode): a run that ends by itself leaves the code pages and the      *)
(* output mode it has found. The code does not satisfy it: it leaves code  *)
(* page 866 and the mode that setupConsole has set (src/formatter.cpp:21,  *)
(* src/windows_utils.cpp:176-177).                                         *)
ConsoleRestored ==
  pc = "exited" => outCP = foundCP /\ inCP = foundCP /\ conMode = before
=============================================================================
