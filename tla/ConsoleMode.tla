---------------------------- MODULE ConsoleMode ----------------------------
(***************************************************************************)
(* The console the program runs in, and the calls that set it up and give  *)
(* it back: src/windows_utils.cpp (setupConsole, restoreConsole), the same *)
(* in src/formatter.cpp, and their callers in src/main.cpp.                *)
(*                                                                         *)
(* The console is a device shared with the shell the program was started   *)
(* from: it keeps its code pages, its output mode and its cursor when the  *)
(* process ends, however it ends.  consoleInitialized and                  *)
(* originalConsoleMode are static members and end with the process.        *)
(***************************************************************************)
EXTENDS Integers

CONSTANTS
  CodePages,    \* the code pages a console may be found with
  StartModes,   \* the output modes a console may be found with
  Devices       \* what standard output may be: [attached, vtKnown]

UTF8 == 65001   \* CP_UTF8
DOS  == 866     \* the code page WindowsUtils::restoreConsole sets

Flags == {"processed", "vt"}   \* the bits of an output mode; {} is the mode 0

ASSUME ConsoleAssumption ==
  /\ StartModes \subseteq SUBSET Flags
  /\ Devices \subseteq [attached : BOOLEAN, vtKnown : BOOLEAN]

VARIABLES
  device,              \* attached: standard output is a console; vtKnown:
                       \* its host knows the virtual terminal flag
  outCP, inCP,         \* the console's code pages
  conMode,             \* its output mode
  cursor,              \* whether its cursor is shown
  consoleInitialized,  \* LogFormatter::consoleInitialized
  originalConsoleMode, \* LogFormatter::originalConsoleMode; {} is nullptr
  before,              \* history: the output mode this process found
  foundCP              \* history: the code page it found

console     == <<outCP, inCP, conMode, cursor>>
statics     == <<consoleInitialized, originalConsoleMode>>
found       == <<before, foundCP>>
consoleVars == <<device, console, statics, found>>

ConsoleInit ==
  /\ device \in Devices
  /\ outCP \in CodePages /\ inCP = outCP
  /\ conMode \in {m \in StartModes : "vt" \in m => device.vtKnown}
  /\ cursor = TRUE
  /\ consoleInitialized = FALSE /\ originalConsoleMode = {}
  /\ before = conMode /\ foundCP = outCP

-----------------------------------------------------------------------------
(* SetConsoleMode refuses a flag the console's host does not know, and     *)
(* everything when standard output is no console.                          *)
Accepts(m) == device.attached /\ ("vt" \in m => device.vtKnown)
SetMode(m) == conMode' = IF Accepts(m) THEN m ELSE conMode

(* GetConsoleMode, then the same mode with the flag added.                 *)
AddVT == SetMode(conMode \cup {"vt"})

SetCodePages(cp) == outCP' = cp /\ inCP' = cp

(* WindowsUtils::setupConsole.                                             *)
WindowsSetup ==
  /\ SetCodePages(UTF8) /\ AddVT
  /\ UNCHANGED <<device, cursor, statics, found>>

(* LogFormatter::setupConsole.  When GetConsoleMode fails, originalMode    *)
(* has not been written and holds anything.                                *)
FormatterSetup ==
  IF consoleInitialized THEN UNCHANGED consoleVars
  ELSE /\ IF device.attached THEN originalConsoleMode' = conMode
                             ELSE originalConsoleMode' \in SUBSET Flags
       /\ SetCodePages(UTF8) /\ AddVT
       /\ consoleInitialized' = TRUE
       /\ UNCHANGED <<device, cursor, found>>

(* LogFormatter::setUTF8Encoding and enableVirtualTerminal.                *)
EncodingAndTerminal ==
  /\ SetCodePages(UTF8) /\ AddVT
  /\ UNCHANGED <<device, cursor, statics, found>>

(* The cursor's calls fail when standard output is no console.             *)
SetCursor(shown) ==
  /\ cursor' = IF device.attached THEN shown ELSE cursor
  /\ UNCHANGED <<device, outCP, inCP, conMode, statics, found>>

(* LogFormatter::restoreConsole.                                           *)
FormatterRestore ==
  IF ~consoleInitialized \/ originalConsoleMode = {} THEN UNCHANGED consoleVars
  ELSE /\ SetMode(originalConsoleMode)
       /\ consoleInitialized' = FALSE /\ originalConsoleMode' = {}
       /\ UNCHANGED <<device, outCP, inCP, cursor, found>>

(* A fault: the input side is forgotten.                                   *)
WindowsRestoreHalf ==
  /\ outCP' = DOS
  /\ UNCHANGED <<device, inCP, conMode, cursor, statics, found>>

(* WindowsUtils::restoreConsole.                                           *)
WindowsRestore ==
  /\ SetCodePages(DOS)
  /\ UNCHANGED <<device, conMode, cursor, statics, found>>

(* A new process in the same console.                                      *)
ConsoleOfNewProcess ==
  /\ before' = conMode /\ foundCP' = outCP
  /\ consoleInitialized' = FALSE /\ originalConsoleMode' = {}
  /\ UNCHANGED <<device, console>>

ConsoleTypeOK ==
  /\ device \in Devices
  /\ outCP \in CodePages \cup {UTF8, DOS} /\ inCP \in CodePages \cup {UTF8, DOS}
  /\ conMode \in SUBSET Flags
  /\ cursor \in BOOLEAN /\ consoleInitialized \in BOOLEAN
  /\ originalConsoleMode \in SUBSET Flags
  /\ before \in SUBSET Flags /\ foundCP \in CodePages \cup {UTF8, DOS}
=============================================================================
