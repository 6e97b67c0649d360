------------------------------ MODULE Session ------------------------------
(***************************************************************************)
(* The program (src/main.cpp): the menu loop, its handlers, the three      *)
(* globals currentLogs, analyzer and currentFileName, the object analyzer  *)
(* points at, the files on the disk, and the ways a session ends.          *)
(*                                                                         *)
(* The program has one thread.  A handler asks its questions and then does *)
(* its work: it touches a file once, so another program's writes to that   *)
(* file fall before or after the handler (ForeignWrite), and the answers   *)
(* the user gives are the parameters of the action.                        *)
(***************************************************************************)
EXTENDS AnalyzerObject

CONSTANTS
  ShortTs,        \* timestamps of fewer than 11 bytes: substr(11, 8) throws
  ListedMethods,  \* the methods filterByMethod accepts, upper case
  PageSize,       \* records a filter lists: 20
  DefaultTop,     \* rows of a top list by default: 10
  TopIPCap,       \* the most rows showTopIPs takes: 50
  TopURLCap,      \* the most rows showTopURLs takes: 30
  Numbers,        \* the numbers the user types
  Foreign,        \* what other programs put into files
  AllocMayFail,   \* whether operator new may throw bad_alloc
  Remnants,       \* the logs the memory of a freed object may be read as
  MaxForeign,     \* bound on the writes by other programs
  MaxTorn         \* bound on the exports that stop short

ASSUME SessionAssumption ==
  /\ ShortTs \subseteq Nat
  /\ PageSize \in Nat \ {0}
  /\ DefaultTop \in Nat \ {0} /\ TopIPCap \in Nat /\ TopURLCap \in Nat
  /\ DefaultTop <= TopIPCap /\ DefaultTop <= TopURLCap
  /\ Numbers \subseteq Int
  /\ AllocMayFail \in BOOLEAN
  /\ MaxForeign \in Nat /\ MaxTorn \in Nat

ASSUME ForeignAssumption == Foreign \subseteq Contents
ASSUME RemnantsAssumption == Remnants \subseteq Seq(Entries)

VARIABLES
  currentLogs,      \* global: the logs of the last load
  analyzer,         \* global: "null", "live" or "dangling"
  obj,              \* what a read through analyzer finds
  allocated,        \* number of LogAnalyzer objects on the heap
  deletedTwice,     \* history: an object was deleted that had been freed
  currentFileName,  \* global: << >> is the empty string
  files,            \* the disk: the content of every file name
  mode,             \* where the program is
  outcome,          \* what the last handler told the user
  origin,           \* history: the file the logs in obj were read from
  unsettled,        \* history: a load of a file with records was told as
                    \* failed, and none as done since
  written,          \* history: per file, the logs the program last exported
  foreignWrites,    \* number of ForeignWrite steps
  tornWrites        \* number of exports that stopped short

globals == <<currentLogs, analyzer, obj, allocated, deletedTwice,
             currentFileName, origin>>
disk    == <<files, written, foreignWrites, tornWrites>>
vars    == <<globals, disk, unsettled, mode, outcome>>

(***************************************************************************)
(* "loop": at the top of showMainMenu's loop; "menu": the menu is drawn    *)
(* and a choice is awaited; "critical": an exception has reached main;     *)
(* "leaving": before the clean-up at the end of main.                      *)
(***************************************************************************)
Modes == {"loop", "menu", "critical", "leaving", "exited"}

NoOutcome ==
  [what |-> "none", ok |-> TRUE, file |-> << >>, told |-> << >>,
   rows |-> 0, asked |-> << >>, put |-> << >>, whole |-> TRUE]

(* A message the handler waits for the user to read (waitForKey).          *)
Seen(what, ok) == [NoOutcome EXCEPT !.what = what, !.ok = ok]

NoObject == Constructed(<< >>)
NotOurs  == [ours |-> FALSE, logs |-> << >>]

FreshProcess ==
  /\ currentLogs = << >> /\ analyzer = "null" /\ obj = NoObject
  /\ allocated = 0 /\ deletedTwice = FALSE
  /\ currentFileName = << >> /\ origin = << >> /\ unsettled = FALSE

Init ==
  /\ FreshProcess
  /\ files \in [Names -> Foreign] /\ written = [f \in Names |-> NotOurs]
  /\ foreignWrites = 0 /\ tornWrites = 0
  /\ mode = "loop" /\ outcome = NoOutcome

-----------------------------------------------------------------------------
(***************************************************************************)
(* Using a freed object is undefined.  Three things may come of it: the    *)
(* read finds what the memory held, or what was put there since            *)
(* (MemoryReused), and the program goes on with that; or the process       *)
(* crashes (UseCrashes).  Deleting it again is undefined in the same way.  *)
(***************************************************************************)
Leftovers ==
  {[Constructed(logs) EXCEPT !.indexesBuilt = built] :
     logs \in Remnants, built \in BOOLEAN}

MemoryReused ==
  /\ analyzer = "dangling" /\ obj' \in Leftovers
  /\ UNCHANGED <<currentLogs, analyzer, allocated, deletedTwice, currentFileName, origin>>
  /\ UNCHANGED <<disk, unsettled, mode, outcome>>

(* What a delete of the object leaves allocated, and whether it was one    *)
(* too many.                                                               *)
LeftAllocated == IF analyzer = "live" THEN allocated - 1 ELSE allocated
TooMany       == deletedTwice \/ analyzer = "dangling"

-----------------------------------------------------------------------------
(* clearScreen and the header, which reads the object through analyzer.    *)
DrawMenu ==
  /\ mode = "loop" /\ mode' = "menu" /\ outcome' = NoOutcome
  /\ UNCHANGED <<globals, disk, unsettled>>

(* Every handler: chosen at the menu, and back to the loop with a message. *)
BackToLoop(result) == mode = "menu" /\ mode' = "loop" /\ outcome' = result
Back(result)       == BackToLoop(result) /\ UNCHANGED unsettled

(* !analyzer || analyzer->getTotalRequests() == 0 is the way out; a freed  *)
(* object is asked like any other.                                         *)
HasData == analyzer # "null" /\ TotalRequests(obj) > 0

NoData == ~HasData /\ Back(Seen("noData", FALSE)) /\ UNCHANGED <<globals, disk>>

(* The handler told the user something and changed nothing.                *)
Told(what, ok) == Back(Seen(what, ok)) /\ UNCHANGED <<globals, disk>>

(* An exception leaves the handler and the menu loop, up to main.          *)
Throws ==
  /\ mode = "menu" /\ mode' = "critical" /\ outcome' = NoOutcome
  /\ UNCHANGED unsettled

Thrown == Throws /\ UNCHANGED <<globals, disk>>

(* bad_alloc in a handler that catches nothing and has changed nothing.    *)
OutOfMemory == AllocMayFail /\ HasData /\ Thrown

-----------------------------------------------------------------------------
(***************************************************************************)
(* loadLogs.  Its catch swallows every std::exception, and its statements  *)
(* take effect one by one: a bad_alloc at a point leaves what was done     *)
(* before it.                                                              *)
(***************************************************************************)
FailurePoints ==
  IF AllocMayFail THEN {"read", "assign", "construct", "name", "summary", "none"}
                  ELSE {"none"}

(* asLogEntries catches bad_alloc too, and drops the record it was copying.*)
LogsRead(c) ==
  IF AllocMayFail
  THEN {Kept([i \in DOMAIN c.items |-> IF i \in D THEN Junk ELSE c.items[i]]) :
          D \in SUBSET DOMAIN c.items}
  ELSE {AsLogEntries(c)}

LoadOutcome(f, ok) ==
  [NoOutcome EXCEPT !.what = "load", !.ok = ok, !.file = f]

BackFromLoad(f, ok) ==
  /\ BackToLoop(LoadOutcome(f, ok))
  /\ unsettled' = (~ok /\ (unsettled \/ Loadable(files[f])))

(* A fault: the old object is kept, with its caches, and given the new     *)
(* logs.                                                                   *)
ReplaceInPlace(f, logs) ==
  /\ analyzer' = "live" /\ obj' = [obj EXCEPT !.logs = logs]
  /\ allocated' = 1 /\ deletedTwice' = deletedTwice /\ origin' = f

(* delete analyzer; analyzer = new LogAnalyzer(currentLogs);               *)
Replace(f, logs) ==
  /\ analyzer' = "live" /\ obj' = Constructed(logs)
  /\ allocated' = LeftAllocated + 1 /\ deletedTwice' = TooMany
  /\ origin' = f

(* A fault: the pointer is cleared and nothing deleted.                    *)
ReplaceFailsLeaking ==
  /\ analyzer' = "null" /\ allocated' = allocated
  /\ deletedTwice' = deletedTwice
  /\ obj' = NoObject /\ origin' = << >>

(* operator new throws after the delete: nothing is assigned to analyzer.  *)
ReplaceFails ==
  /\ analyzer' = IF analyzer = "null" THEN "null" ELSE "dangling"
  /\ allocated' = LeftAllocated /\ deletedTwice' = TooMany
  /\ obj' = obj /\ origin' = << >>

(* currentLogs = logs; when it throws: the vector has given up its old     *)
(* buffer before it got a new one, or has overwritten its first records.   *)
HalfAssigned(logs) ==
  {<< >>} \cup
  {[i \in DOMAIN currentLogs |->
      IF i <= k /\ k <= Len(logs) THEN logs[i] ELSE currentLogs[i]] :
     k \in 0 .. Len(currentLogs)}

LoadUpTo(point, f, logs) ==
  \/ /\ point = "read"
     /\ UNCHANGED globals
  \/ /\ point = "assign"
     /\ currentLogs' \in HalfAssigned(logs)
     /\ UNCHANGED <<analyzer, obj, allocated, deletedTwice, currentFileName, origin>>
  \/ /\ point = "construct"
     /\ currentLogs' = logs /\ ReplaceFails /\ UNCHANGED currentFileName
  \/ /\ point = "name"
     /\ currentLogs' = logs /\ Replace(f, logs) /\ UNCHANGED currentFileName
  \/ /\ point \in {"summary", "none"}
     /\ currentLogs' = logs /\ Replace(f, logs) /\ currentFileName' = f

(* A fault: the name is assigned before the file is read.                  *)
LoadRefusedRenamed(f) ==
  /\ BackFromLoad(f, FALSE) /\ currentFileName' = f
  /\ UNCHANGED <<currentLogs, analyzer, obj, allocated, deletedTwice, origin, disk>>

LoadRefused(f) == BackFromLoad(f, FALSE) /\ UNCHANGED <<globals, disk>>

(* A fault: the catch forgets that the load has failed.                    *)
LoadAcceptedAnyway(f, logs) ==
  \E point \in FailurePoints :
     /\ LoadUpTo(point, f, logs)
     /\ BackFromLoad(f, TRUE)
     /\ UNCHANGED disk

LoadAccepted(f, logs) ==
  \E point \in FailurePoints :
     /\ LoadUpTo(point, f, logs)
     /\ BackFromLoad(f, point = "none")
     /\ UNCHANGED disk

LoadLogs(f) ==
  IF HasLogEntries(files[f])
  THEN \E logs \in LogsRead(files[f]) :
         IF logs = << >> THEN LoadRefused(f) ELSE LoadAccepted(f, logs)
  ELSE LoadRefused(f)

(* An empty file name loads nothing and says nothing.                      *)
LoadNothing == Back(NoOutcome) /\ UNCHANGED <<globals, disk>>

-----------------------------------------------------------------------------
(* The handlers that show something.  A line the user types is empty, a    *)
(* number stoi takes, or words it throws on.                               *)
Lines == {"empty", "words", "number"}

ShowStatistics == NoData \/ (HasData /\ Told("statistics", TRUE))

(* n = 10; stoi; if (n <= 0) n = 10; if (n > cap) n = cap.                 *)
Capped(n, cap)  == IF n > cap THEN cap ELSE n
Positive(n)     == IF n <= 0 THEN DefaultTop ELSE n
RowsAsked(line, n, cap) ==
  IF line = "number" THEN Capped(Positive(n), cap) ELSE DefaultTop

ShowTop(what, field, line, n, cap) ==
  /\ HasData
  /\ obj' = EnsureIndexesBuilt(obj)
  /\ Back([Seen(what, TRUE) EXCEPT !.rows =
             RowsKept(Cardinality(ValuesOf(field, obj.logs)),
                      RowsAsked(line, n, cap))])
  /\ UNCHANGED <<currentLogs, analyzer, allocated, deletedTwice, currentFileName, origin, disk>>

ShowTopIPs(line, n)  == NoData \/ ShowTop("topIPs", "ip", line, n, TopIPCap)
ShowTopURLs(line, n) == NoData \/ ShowTop("topURLs", "url", line, n, TopURLCap)

(* Listing the first page throws at a record with a short timestamp.       *)
PageOf(logs) == SubSeq(logs, 1, Min({PageSize, Len(logs)}))
ListingThrows(logs) == \E i \in DOMAIN PageOf(logs) : PageOf(logs)[i].ts \in ShortTs

-----------------------------------------------------------------------------
(***************************************************************************)
(* Writing a file.  The stream's state is looked at after the open and     *)
(* never again: a write that stops short (a full disk) is reported like a  *)
(* whole one.                                                              *)
(***************************************************************************)
(* A fault: the export replaces the file the logs came from.               *)
PutMoving(f, content, logs) ==
  /\ files' = [g \in Names |-> IF g = f THEN content
                               ELSE IF g = currentFileName THEN Absent ELSE files[g]]
  /\ written' = [written EXCEPT ![f] = [ours |-> TRUE, logs |-> logs]]
  /\ UNCHANGED foreignWrites

Put(f, content, logs) ==
  /\ files' = [files EXCEPT ![f] = content]
  /\ written' = [written EXCEPT ![f] = [ours |-> TRUE, logs |-> logs]]
  /\ UNCHANGED foreignWrites

(* What is told of a file that was touched.  exportResults appends the     *)
(* extension and reads one more answer first, and catches nothing; behind  *)
(* filterByStatus's export nothing allocates.                              *)
Report(result) ==
  Back(result) \/ (AllocMayFail /\ result.what # "statusExport" /\ Throws)

Write(f, whole, torn, result) ==
  \/ /\ Put(f, whole, result.put)
     /\ Report([result EXCEPT !.file = f])
     /\ UNCHANGED tornWrites
  \/ /\ tornWrites < MaxTorn /\ tornWrites' = tornWrites + 1
     /\ \E c \in torn : Put(f, c, result.put)
     /\ Report([result EXCEPT !.file = f, !.whole = FALSE])

(* The file cannot be opened for writing.                                  *)
WriteRefused(what) == Told(what, FALSE)

(* LogAnalyzer::exportToCSV writes every log of the object.                *)
ExportCsv(f, what, asked, told) ==
  \/ WriteRefused(what)
  \/ /\ Write(f, CsvOf(obj.logs), TornCsv(obj.logs),
              [Seen(what, TRUE) EXCEPT !.told = told, !.asked = asked,
                                       !.put = obj.logs])
     /\ UNCHANGED globals

(* A fault: the text goes into the file while it is built.                 *)
JsonFailsHalfway(f) ==
  /\ AllocMayFail
  /\ \E c \in TornJson(obj.logs) : Put(f, c, obj.logs)
  /\ Report([Seen("json", FALSE) EXCEPT !.file = f])
  /\ UNCHANGED <<globals, tornWrites>>

(* saveToFile opens the file, which empties it, before toString builds the *)
(* text; a bad_alloc there is caught.                                      *)
JsonFails(f) ==
  /\ AllocMayFail
  /\ Put(f, Garbage, obj.logs)
  /\ Report([Seen("json", FALSE) EXCEPT !.file = f])
  /\ UNCHANGED <<globals, tornWrites>>

(* exportToJson.                                                           *)
ExportJson(f, told) ==
  \/ WriteRefused("json")
  \/ /\ Write(f, JsonOf(obj.logs), TornJson(obj.logs),
              [Seen("json", TRUE) EXCEPT !.told = told, !.asked = obj.logs,
                                         !.put = obj.logs])
     /\ UNCHANGED globals
  \/ JsonFails(f)

(* Options 3 and 4 write the rows themselves; the caches are built first.  *)
ExportTop(f, what) ==
  /\ obj' = EnsureIndexesBuilt(obj)
  /\ UNCHANGED <<currentLogs, analyzer, allocated, deletedTwice, currentFileName, origin>>
  /\ \/ Back(Seen(what, FALSE)) /\ UNCHANGED disk
     \/ Write(f, TopList, {Garbage}, [Seen(what, TRUE) EXCEPT !.told = f])

ExportChoices == {"0", "1", "2", "3", "4", "other"}

ExportResults(choice, f) ==
  \/ NoData
  \/ /\ HasData
     /\ \/ choice = "0" /\ Back(NoOutcome) /\ UNCHANGED <<globals, disk>>
        \/ choice = "1" /\ ExportCsv(f, "csv", obj.logs, WithExtension(f, "csv"))
        \/ choice = "2" /\ ExportJson(f, WithExtension(f, "json"))
        \/ choice = "3" /\ ExportTop(f, "exportIPs")
        \/ choice = "4" /\ ExportTop(f, "exportURLs")
        \/ choice = "other" /\ Told("export", FALSE)

(* An empty name cancels whatever was chosen.                              *)
ExportCancelled == HasData /\ Told("cancelled", TRUE)

-----------------------------------------------------------------------------
(* filterByStatus: everything after the prompt is in a try/catch(...), so  *)
(* a throwing listing ends as "wrong status format".                       *)
FilterStatus(line, status, export, f) ==
  \/ NoData
  \/ HasData /\ line = "empty" /\ Told("cancelled", TRUE)
  \/ HasData /\ line = "words" /\ Told("format", FALSE)
  \/ /\ HasData /\ line = "number"
     /\ LET filtered == FilterByStatus(obj, status)
        IN  \/ status \notin 100 .. 599 /\ Told("range", FALSE)
            \/ /\ status \in 100 .. 599
               /\ \/ ListingThrows(filtered) /\ Told("format", FALSE)
                  \/ /\ ~ListingThrows(filtered)
                     /\ filtered = << >> \/ ~export
                     /\ Told("status", TRUE)
                  \/ /\ ~ListingThrows(filtered)
                     /\ filtered # << >> /\ export
                     /\ ExportCsv(f, "statusExport", filtered, f)

(* filterByMethod has no try: the listing, if asked for, may throw.  An    *)
(* empty line is one of the names UpperCase is given for; it is refused.   *)
FilterMethod(method, show) ==
  \/ NoData
  \/ HasData /\ UpperCase[method] \notin ListedMethods /\ Told("method", FALSE)
  \/ /\ HasData /\ UpperCase[method] \in ListedMethods
     /\ LET filtered == FilterByMethod(obj, UpperCase[method])
        IN  IF show /\ ListingThrows(filtered) THEN Thrown
                                               ELSE Told("methods", TRUE)

(* Choice 8: reads the current file again, by name, outside any try, and   *)
(* then times the two top lists and a filter, and prints how long.         *)

(* A fault: the file must be an array.                                     *)
CurrentFileIsArray ==
  currentFileName \in Names /\ HasLogEntries(files[currentFileName])

CurrentFileParses == currentFileName \in Names /\ Parses(files[currentFileName])

Benchmark ==
  \/ NoData
  \/ HasData /\ ~CurrentFileParses /\ Thrown
  \/ /\ HasData /\ CurrentFileParses
     /\ obj' = EnsureIndexesBuilt(obj)
     /\ Back(Seen("benchmark", TRUE))
     /\ UNCHANGED <<currentLogs, analyzer, allocated, deletedTwice, currentFileName, origin, disk>>

-----------------------------------------------------------------------------
UnknownChoice == Back(NoOutcome) /\ UNCHANGED <<globals, disk>>

ChooseExit ==
  /\ mode = "menu" /\ mode' = "leaving" /\ outcome' = NoOutcome
  /\ UNCHANGED <<globals, disk, unsettled>>

(* main's catch: the message, and waitForKey.                              *)
CriticalError ==
  /\ mode = "critical" /\ mode' = "leaving"
  /\ outcome' = Seen("critical", FALSE)
  /\ UNCHANGED <<globals, disk, unsettled>>

(* The end of main: if (analyzer) delete it and set it to null.            *)
CleanUp ==
  /\ mode = "leaving" /\ mode' = "exited"
  /\ analyzer' = "null" /\ obj' = NoObject /\ origin' = << >>
  /\ allocated' = LeftAllocated /\ deletedTwice' = TooMany
  /\ outcome' = NoOutcome
  /\ UNCHANGED <<currentLogs, currentFileName, disk, unsettled>>

(* The process ends from outside or crashes: memory goes, files stay.      *)
Gone ==
  /\ currentLogs' = << >> /\ analyzer' = "null" /\ obj' = NoObject
  /\ allocated' = 0 /\ deletedTwice' = FALSE
  /\ currentFileName' = << >> /\ origin' = << >> /\ unsettled' = FALSE

(* The menu's header, a handler or a delete uses a freed object.           *)
UseCrashes ==
  /\ analyzer = "dangling" /\ mode \in {"loop", "menu", "leaving"}
  /\ mode' = "exited" /\ Gone /\ outcome' = NoOutcome
  /\ UNCHANGED disk

(* The window is closed, or the process is killed.                         *)
Kill ==
  /\ mode # "exited" /\ mode' = "exited"
  /\ Gone /\ outcome' = NoOutcome
  /\ UNCHANGED disk

(* The same while an export is being written.                              *)
KillInExport(f) ==
  /\ mode = "menu" /\ HasData /\ mode' = "exited"
  /\ tornWrites < MaxTorn /\ tornWrites' = tornWrites + 1
  /\ \E c \in TornJson(obj.logs) \cup TornCsv(obj.logs) : Put(f, c, obj.logs)
  /\ Gone /\ outcome' = NoOutcome

(* The program is started again over the files it finds.                   *)
Restart ==
  /\ mode = "exited" /\ mode' = "loop"
  /\ Gone /\ outcome' = NoOutcome
  /\ UNCHANGED disk

(* Another program writes or deletes a file.                               *)
ForeignWrite(f, c) ==
  /\ foreignWrites < MaxForeign /\ foreignWrites' = foreignWrites + 1
  /\ files' = [files EXCEPT ![f] = c]
  /\ written' = [written EXCEPT ![f] = NotOurs]
  /\ UNCHANGED <<globals, unsettled, mode, outcome, tornWrites>>

Handlers ==
  \/ LoadNothing
  \/ \E f \in Names : LoadLogs(f)
  \/ ShowStatistics
  \/ \E line \in Lines, n \in Numbers : ShowTopIPs(line, n) \/ ShowTopURLs(line, n)
  \/ \E line \in Lines, s \in Numbers, export \in BOOLEAN, f \in Names :
       FilterStatus(line, s, export, f)
  \/ \E m \in DOMAIN UpperCase, show \in BOOLEAN : FilterMethod(m, show)
  \/ \E choice \in ExportChoices, f \in Names : ExportResults(choice, f)
  \/ ExportCancelled
  \/ Benchmark
  \/ OutOfMemory
  \/ UnknownChoice

Next ==
  \/ DrawMenu \/ Handlers \/ ChooseExit \/ CriticalError \/ CleanUp
  \/ MemoryReused \/ UseCrashes
  \/ Kill \/ (\E f \in Names : KillInExport(f)) \/ Restart
  \/ \E f \in Names, c \in Foreign : ForeignWrite(f, c)

Spec == Init /\ [][Next]_vars

-----------------------------------------------------------------------------
(* Every variable holds a value its declaration in main.cpp allows.        *)
IsObject(o) ==
  /\ DOMAIN o = {"logs", "ipIndex", "urlIndex", "timeIndex", "indexesBuilt"}
  /\ o.logs \in Seq(Entries) /\ o.indexesBuilt \in BOOLEAN

TypeOK ==
  /\ currentLogs \in Seq(Entries)
  /\ analyzer \in {"null", "live", "dangling"}
  /\ IsObject(obj)
  /\ allocated \in Nat
  /\ deletedTwice \in BOOLEAN /\ unsettled \in BOOLEAN
  /\ currentFileName \in Names \cup {<< >>} /\ origin \in Names \cup {<< >>}
  /\ files \in [Names -> Contents]
  /\ written \in [Names -> [ours : BOOLEAN, logs : Seq(Entries)]]
  /\ foreignWrites \in 0 .. MaxForeign /\ tornWrites \in 0 .. MaxTorn
  /\ mode \in Modes
  /\ outcome.ok \in BOOLEAN /\ outcome.rows \in Nat

(* The heap holds the object analyzer owns and no other, through every     *)
(* reload, failed allocation, exception and exit, and also where a freed   *)
(* object is used and deleted again: nothing leaks (src/main.cpp:82-83 and *)
(* 667-670).                                                               *)
HeapIsAccounted ==
  /\ allocated = IF analyzer = "live" THEN 1 ELSE 0
  /\ mode = "exited" => analyzer = "null"

(* Unless a load of a file with records was told as failed, and none as    *)
(* done since, the three globals describe one load: an object that exists  *)
(* is not a freed one, it holds currentLogs, which is not empty, and the   *)
(* name in the menu's header is that of the file those logs came from.     *)
(* The next load that is told as done mends whatever the failed one has    *)
(* left half done (src/main.cpp:81-84, 102-105, 537).                      *)
GlobalsAgree ==
  analyzer # "null" /\ ~unsettled =>
    /\ analyzer = "live"
    /\ obj.logs = currentLogs /\ currentLogs # << >>
    /\ currentFileName = origin /\ origin \in Names

(* An object is deleted a second time, by the next load or at the exit,    *)
(* only where the user has been told of a load that failed, and of none    *)
(* that was done since (src/main.cpp:82-83, 102-105, 668).                 *)
SecondDeleteIsAnnounced ==
  [][deletedTwice' => deletedTwice \/ unsettled]_vars

(* "Reliable error handling" (docs/REPORT.md:187): after a load that       *)
(* failed, and was told as failed, the object is deleted once like any     *)
(* other (src/main.cpp:82-83, 102-105, 668). The code does not satisfy it  *)
(* where allocations may fail: the pointer to the freed object is deleted  *)
(* again.                                                                  *)
NothingIsDeletedTwice == ~deletedTwice

(* The caches of the program's object agree with its logs at any time: the *)
(* program replaces the object where it changes the logs                   *)
(* (src/main.cpp:83, src/analyzer.cpp:387-401).                            *)
CachesAreFresh == analyzer = "live" => IndexFresh(obj)

(* A session ends with a critical error for two causes only: a listing by  *)
(* method met a short timestamp, or the benchmark found the current file   *)
(* gone or unreadable as JSON (src/main.cpp:425 and 610).                  *)
CriticalHasCause ==
  [][mode' = "critical" /\ mode # "critical" =>
       \/ \E i \in DOMAIN obj.logs : obj.logs[i].ts \in ShortTs
       \/ ~Parses(files[currentFileName])]_vars

(* "Bad records ignored, analysis continued" (README.md:397), "handled     *)
(* errors: invalid data (dates, statuses, IP)" (docs/REPORT.md:142): a     *)
(* record the program has loaded never ends the session; only a current    *)
(* file that can no longer be read does (src/main.cpp:425).                *)
BadRecordsAreIgnored ==
  [][mode' = "critical" /\ mode # "critical" =>
       ~Parses(files[currentFileName])]_vars

(* Reading back an export never invents or reorders records: when the      *)
(* program loads a file it wrote last itself, and every record written     *)
(* survives the printing, the records loaded are the first ones of those   *)
(* exported, however early the export stopped (src/analyzer.cpp:311-332,   *)
(* src/json_parser.cpp:112-144 and 413-440).                               *)
Faithful(logs) == \A i \in DOMAIN logs : ReadBack[logs[i]] = logs[i]

ReloadNeverInvents ==
  [][outcome'.what = "load" /\ outcome'.ok =>
       LET export == written[outcome'.file]
       IN  export.ours /\ Faithful(export.logs) =>
             IsPrefix(obj'.logs, export.logs)]_vars

(* An untorn JSON export of records that survive the printing can be       *)
(* loaded again and gives the same logs, as long as no other program       *)
(* writes the file (src/analyzer.cpp:311-332).                             *)
JsonExported ==
  /\ outcome.what = "json" /\ outcome.ok /\ outcome.whole
  /\ written[outcome.file].ours

WholeExportReloads ==
  JsonExported /\ Faithful(outcome.put) /\ analyzer = "live" =>
    /\ Loadable(files[outcome.file])
    /\ AsLogEntries(files[outcome.file]) = obj.logs

(* A handler that tells of a failure has touched no file, but for a JSON   *)
(* export: that may have emptied the file it was to write.  It leaves no   *)
(* records there that a load would take for an export, and no other file   *)
(* is touched (src/main.cpp:474-522, src/json_parser.cpp:298-307).         *)
FailedExportLeavesNoRecords ==
  [][mode = "menu" /\ mode' = "loop" /\ ~outcome'.ok =>
       \/ UNCHANGED files
       \/ /\ outcome'.what = "json"
          /\ files' = [files EXCEPT ![outcome'.file] = Garbage]]_vars

(* Every list is cut to the limit of its screen and is never the uncut     *)
(* list getTopIPs and getTopURLs give for n <= 0                           *)
(* (src/main.cpp:171-181 and 224-234).                                     *)
ListsAreCapped ==
  /\ outcome.what = "topIPs" => outcome.rows \in 1 .. TopIPCap
  /\ outcome.what = "topURLs" => outcome.rows \in 1 .. TopURLCap

(* Without allocation failures a session is a workbench: what the globals  *)
(* and the object hold together is one file's records, loaded in one step, *)
(* and the disk changes by exports of them and by other programs only.     *)
WB == INSTANCE Workbench WITH
        data    <- IF analyzer = "live" THEN obj.logs ELSE << >>,
        source  <- IF analyzer = "live" THEN currentFileName ELSE << >>,
        running <- mode # "exited",
        disk    <- files

ImplementsWorkbench == WB!Spec

(* "Export the results to a file?" and "Results saved in"                  *)
(* (src/main.cpp:325 and 332): the file holds the filtered records.        *)
FilterExportHoldsResults ==
  outcome.what = "statusExport" /\ outcome.ok /\ outcome.whole =>
    outcome.put = outcome.asked

(* "Data successfully exported to" (src/main.cpp:510): the file named is   *)
(* the one that was written.                                               *)
ToldWhatWasWritten == outcome.told # << >> => outcome.told = outcome.file
=============================================================================
