--------------------------- MODULE SessionProofs ---------------------------
(***************************************************************************)
(* Theorems about Session for every set of records, every set of files,    *)
(* every list limit and every bound: types, the heap, the second deletes,  *)
(* the three globals, the caches, the list limits, failed exports and the  *)
(* round trip of an export, whether or not memory runs out; the workbench, *)
(* the causes of a critical error and what a cut-off export gives back,    *)
(* when it does not.                                                       *)
(*                                                                         *)
(* The handlers are many and do few things to the globals.  GlobalsMove    *)
(* sorts every step into five kinds; the invariants of the globals are     *)
(* then proved over the kinds.  The disk and the messages are written by   *)
(* the handlers themselves, so their invariants go through the handlers.   *)
(***************************************************************************)
EXTENDS Session, AnalyzerObjectProofs

(* A new object holds the logs given and has no caches.                     *)
LEMMA NewObject ==
  ASSUME NEW logs \in Seq(Entries)
  PROVE  /\ IsObject(Constructed(logs))
         /\ Constructed(logs).logs = logs
         /\ IndexFresh(Constructed(logs))
<1>1. IsObject(Constructed(logs)) /\ Constructed(logs).logs = logs
  BY DEF IsObject, Constructed
<1>2. ~Constructed(logs).indexesBuilt
  BY DEF Constructed
<1> QED BY <1>1, <1>2 DEF IndexFresh

(* Building the caches leaves the logs and makes the caches fresh.          *)
LEMMA BuiltObject ==
  ASSUME NEW o, IsObject(o)
  PROVE  LET b == EnsureIndexesBuilt(o)
         IN  IsObject(b) /\ b.logs = o.logs /\ (IndexFresh(o) => IndexFresh(b))
<1>1. IsObject(EnsureIndexesBuilt(o)) /\ EnsureIndexesBuilt(o).logs = o.logs
  BY DEF IsObject, EnsureIndexesBuilt
<1>2. IndexFresh(o) => IndexFresh(EnsureIndexesBuilt(o))
  BY DEF IsObject, EnsureIndexesBuilt, IndexFresh
<1> QED BY <1>1, <1>2

-----------------------------------------------------------------------------
(***************************************************************************)
(* What a step does to the globals: nothing; it builds the caches of the   *)
(* object; it is a load that got past its checks; the memory of a freed    *)
(* object changes; or the process ends or is started again.  The message   *)
(* of a load that succeeded is new with the load only; another program's   *)
(* write leaves it on the screen.                                          *)
(***************************************************************************)
NewLoad == outcome'.what = "load" /\ outcome'.ok

Idles ==
  /\ UNCHANGED globals
  /\ unsettled \in BOOLEAN => unsettled' \in BOOLEAN
  /\ unsettled => unsettled'
  /\ unsettled' => unsettled \/ AllocMayFail
  /\ NewLoad => \E f \in Names, c \in Foreign : ForeignWrite(f, c)
  /\ \/ mode' = mode
     \/ mode = "loop" /\ mode' = "menu"
     \/ mode = "menu" /\ mode' \in {"loop", "critical", "leaving"}
     \/ mode = "critical" /\ mode' = "leaving"

Builds ==
  /\ mode = "menu" /\ HasData
  /\ mode' = "loop" \/ (AllocMayFail /\ mode' = "critical")
  /\ obj' = EnsureIndexesBuilt(obj)
  /\ UNCHANGED <<currentLogs, analyzer, allocated, deletedTwice, currentFileName, origin>>
  /\ UNCHANGED unsettled
  /\ outcome'.what # "load"

Loads ==
  /\ mode = "menu" /\ mode' = "loop" /\ UNCHANGED disk
  /\ \E f \in Names, point \in FailurePoints :
       /\ HasLogEntries(files[f])
       /\ BackFromLoad(f, point = "none")
       /\ \E logs \in LogsRead(files[f]) : logs # << >> /\ LoadUpTo(point, f, logs)

Leaves ==
  /\ \/ mode # "exited" /\ mode' = "exited"
     \/ mode = "exited" /\ mode' = "loop" /\ UNCHANGED disk
  /\ analyzer' = "null" /\ obj' = NoObject /\ origin' = << >>
  /\ allocated' \in {0, LeftAllocated}
  /\ deletedTwice \in BOOLEAN => deletedTwice' \in BOOLEAN
  /\ deletedTwice' => TooMany
  /\ unsettled \in BOOLEAN => unsettled' \in BOOLEAN
  /\ unsettled' => unsettled
  /\ currentLogs' \in {currentLogs, << >>}
  /\ currentFileName' \in {currentFileName, << >>}
  /\ outcome' = NoOutcome

(* The end of a handler that may run out of memory while it tells, and of  *)
(* one that writes a file.                                                 *)
Ends(results) ==
  /\ mode = "menu" /\ UNCHANGED unsettled
  /\ \/ mode' = "loop" /\ outcome' \in results
     \/ AllocMayFail /\ mode' = "critical" /\ outcome' = NoOutcome

LEMMA ReportEnds ==
  ASSUME NEW result, Report(result)
  PROVE  Ends({result})
  BY DEF Report, Back, BackToLoop, Throws, Ends

LEMMA WriteEnds ==
  ASSUME NEW f, NEW whole, NEW torn, NEW result, Write(f, whole, torn, result)
  PROVE  /\ Ends({[result EXCEPT !.file = f], [result EXCEPT !.file = f, !.whole = FALSE]})
         /\ \E c \in {whole} \cup torn : Put(f, c, result.put)
<1> DEFINE uncut == [result EXCEPT !.file = f]
           cut   == [result EXCEPT !.file = f, !.whole = FALSE]
<1> HIDE DEF uncut, cut
<1>1. CASE Put(f, whole, result.put) /\ Report(uncut)
  BY <1>1, ReportEnds DEF Ends, uncut, cut
<1>2. CASE (\E c \in torn : Put(f, c, result.put)) /\ Report(cut)
  BY <1>2, ReportEnds DEF Ends, uncut, cut
<1> QED BY <1>1, <1>2 DEF Write, uncut, cut

(* Every step is of one of the five kinds.                                 *)
LEMMA GlobalsMove == Next => Idles \/ Builds \/ Loads \/ MemoryReused \/ Leaves
<1> SUFFICES ASSUME Next PROVE Idles \/ Builds \/ Loads \/ MemoryReused \/ Leaves
  OBVIOUS
<1>a. ASSUME NEW what, what # "load", NEW ok, outcome' = Seen(what, ok) \/ outcome' = NoOutcome
      PROVE  ~NewLoad
  <2>1. Seen(what, ok).what = what /\ NoOutcome.what = "none"
    BY DEF Seen, NoOutcome
  <2> QED BY <1>a, <2>1 DEF NewLoad
<1>b. ASSUME NEW f, NEW whole, NEW torn, NEW result, Write(f, whole, torn, result),
             {"what", "file", "whole"} \subseteq DOMAIN result, result.what # "load"
      PROVE  /\ outcome'.what # "load" /\ mode = "menu" /\ UNCHANGED unsettled
             /\ mode' = "loop" \/ (AllocMayFail /\ mode' = "critical")
  <2>1. /\ [result EXCEPT !.file = f].what = result.what
        /\ [result EXCEPT !.file = f, !.whole = FALSE].what = result.what
    BY <1>b
  <2>2. NoOutcome.what # "load"
    BY DEF NoOutcome
  <2> QED BY <1>b, <2>1, <2>2, WriteEnds DEF Ends
<1>c. ASSUME NEW f, NEW what, what # "load", NEW asked, NEW told, ExportCsv(f, what, asked, told)
      PROVE  Idles
  <2> DEFINE result == [Seen(what, TRUE) EXCEPT !.told = told, !.asked = asked, !.put = obj.logs]
  <2>1. {"what", "file", "whole"} \subseteq DOMAIN result /\ result.what # "load"
    BY <1>c DEF Seen, NoOutcome
  <2>2. CASE WriteRefused(what)
    BY <2>2, <1>a, <1>c DEF WriteRefused, Told, Back, BackToLoop, Idles
  <2>3. CASE Write(f, CsvOf(obj.logs), TornCsv(obj.logs), result) /\ UNCHANGED globals
    <3> HIDE DEF result
    <3> QED BY <2>1, <2>3, <1>b DEF Idles, NewLoad
  <2> QED BY <1>c, <2>2, <2>3 DEF ExportCsv
<1>d. ASSUME NEW f, NEW told, ExportJson(f, told)
      PROVE  Idles
  <2> DEFINE result == [Seen("json", TRUE) EXCEPT !.told = told, !.asked = obj.logs, !.put = obj.logs]
             failed == [Seen("json", FALSE) EXCEPT !.file = f]
  <2>1. {"what", "file", "whole"} \subseteq DOMAIN result /\ result.what # "load"
    BY DEF Seen, NoOutcome
  <2>2. CASE WriteRefused("json")
    BY <2>2, <1>a DEF WriteRefused, Told, Back, BackToLoop, Idles
  <2>3. CASE Write(f, JsonOf(obj.logs), TornJson(obj.logs), result) /\ UNCHANGED globals
    <3> HIDE DEF result
    <3> QED BY <2>1, <2>3, <1>b DEF Idles, NewLoad
  <2>4. CASE Report(failed) /\ UNCHANGED globals
    <3>1. failed.what # "load" /\ NoOutcome.what # "load"
      BY DEF Seen, NoOutcome
    <3> HIDE DEF failed
    <3> QED BY <2>4, <3>1, ReportEnds DEF Ends, Idles, NewLoad
  <2> QED BY <1>d, <2>2, <2>3, <2>4 DEF ExportJson, JsonFails
<1>e. ASSUME NEW f, NEW what, what # "load", HasData, ExportTop(f, what)
      PROVE  Builds
  <2> DEFINE result == [Seen(what, TRUE) EXCEPT !.told = f]
  <2>1. {"what", "file", "whole"} \subseteq DOMAIN result /\ result.what # "load"
    BY <1>e DEF Seen, NoOutcome
  <2>2. CASE Write(f, TopList, {Garbage}, result)
    <3> HIDE DEF result
    <3> QED BY <1>e, <2>1, <2>2, <1>b DEF ExportTop, Builds
  <2>3. CASE Back(Seen(what, FALSE))
    BY <1>e, <2>3 DEF ExportTop, Builds, Back, BackToLoop, Seen, NoOutcome
  <2> QED BY <1>e, <2>2, <2>3 DEF ExportTop
<1>1. CASE DrawMenu
  BY <1>1, <1>a DEF Idles, DrawMenu
<1>2. CASE Handlers
  <2>1. CASE LoadNothing \/ ShowStatistics \/ ExportCancelled \/ OutOfMemory \/ UnknownChoice
    BY <2>1, <1>a DEF Idles, LoadNothing, ShowStatistics, ExportCancelled, OutOfMemory, UnknownChoice,
                      NoData, Told, Back, BackToLoop, Thrown, Throws
  <2>2. ASSUME NEW f \in Names, LoadLogs(f) PROVE Idles \/ Loads
    <3>1. ~LoadOutcome(f, FALSE).ok
      BY DEF LoadOutcome, NoOutcome
    <3>2. CASE LoadRefused(f) /\ (~AllocMayFail => ~Loadable(files[f]))
      BY <3>1, <3>2 DEF Idles, NewLoad, LoadRefused, BackFromLoad, BackToLoop
    <3>3. CASE HasLogEntries(files[f])
      <4>1. PICK logs \in LogsRead(files[f]) :
              IF logs = << >> THEN LoadRefused(f) ELSE LoadAccepted(f, logs)
        BY <2>2, <3>3 DEF LoadLogs
      <4>2. CASE logs = << >>
        BY <3>2, <4>1, <4>2 DEF LogsRead, Loadable
      <4>3. CASE logs # << >>
        BY <3>3, <4>1, <4>3 DEF LoadAccepted, Loads, BackFromLoad, BackToLoop
      <4> QED BY <4>2, <4>3
    <3> QED BY <2>2, <3>2, <3>3 DEF LoadLogs, Loadable
  <2>3. ASSUME NEW line \in Lines, NEW n \in Numbers, ShowTopIPs(line, n) \/ ShowTopURLs(line, n)
        PROVE  Idles \/ Builds
    <3>1. CASE NoData
      BY <3>1, <1>a DEF Idles, NoData, Back, BackToLoop
    <3>2. CASE ~NoData
      BY <2>3, <3>2 DEF ShowTopIPs, ShowTopURLs, ShowTop, Back, BackToLoop, Builds, Seen, NoOutcome
    <3> QED BY <3>1, <3>2
  <2>4. ASSUME NEW line \in Lines, NEW s \in Numbers, NEW export \in BOOLEAN, NEW f \in Names,
               FilterStatus(line, s, export, f)
        PROVE Idles
    <3>1. CASE \E what \in {"noData", "cancelled", "format", "range", "status"}, ok \in BOOLEAN :
                 Told(what, ok)
      BY <3>1, <1>a DEF Idles, Told, Back, BackToLoop
    <3> QED BY <2>4, <1>c, <3>1 DEF FilterStatus, NoData, Told
  <2>5. ASSUME NEW m \in DOMAIN UpperCase, NEW show \in BOOLEAN, FilterMethod(m, show)
        PROVE Idles
    BY <2>5, <1>a DEF Idles, FilterMethod, NoData, Told, Back, BackToLoop, Thrown, Throws
  <2>6. ASSUME NEW choice \in ExportChoices, NEW f \in Names, ExportResults(choice, f)
        PROVE Idles \/ Builds
    <3>1. CASE Told("noData", FALSE) \/ Told("export", FALSE) \/ LoadNothing
      BY <3>1, <1>a DEF Idles, Told, LoadNothing, Back, BackToLoop
    <3> QED BY <2>6, <1>c, <1>d, <1>e, <3>1 DEF ExportResults, NoData, Told, LoadNothing
  <2>7. CASE Benchmark
    <3>1. CASE NoData \/ Thrown
      BY <3>1, <1>a DEF Idles, NoData, Thrown, Throws, Back, BackToLoop
    <3>2. CASE ~(NoData \/ Thrown)
      BY <2>7, <3>2 DEF Benchmark, Back, BackToLoop, Builds, Seen, NoOutcome
    <3> QED BY <3>1, <3>2
  <2> QED BY <1>2, <2>1, <2>2, <2>3, <2>4, <2>5, <2>6, <2>7 DEF Handlers
<1>3. CASE ChooseExit \/ CriticalError
  BY <1>3, <1>a DEF Idles, ChooseExit, CriticalError
<1>4. CASE CleanUp
  BY <1>4 DEF CleanUp, Leaves, TooMany
<1>5. CASE Kill \/ Restart \/ UseCrashes
  BY <1>5 DEF Kill, Restart, UseCrashes, Gone, Leaves
<1>6. ASSUME NEW f \in Names, KillInExport(f) PROVE Leaves
  BY <1>6 DEF KillInExport, Gone, Leaves
<1>7. ASSUME NEW f \in Names, NEW c \in Foreign, ForeignWrite(f, c) PROVE Idles
  BY <1>7 DEF Idles, ForeignWrite
<1> QED BY <1>1, <1>2, <1>3, <1>4, <1>5, <1>6, <1>7 DEF Next

-----------------------------------------------------------------------------
(* The heap.  A load or an exit that meets a freed object deletes it once  *)
(* more and counts nothing; a live one is the only one there is.           *)
HeapInv ==
  /\ analyzer \in {"null", "live", "dangling"} /\ mode \in Modes
  /\ HeapIsAccounted

(* No step leaks an object or loses count of it.                           *)
LEMMA HeapStep == HeapInv /\ [Next]_vars => HeapInv'
<1> SUFFICES ASSUME HeapInv, [Next]_vars PROVE HeapInv'
  OBVIOUS
<1> USE DEF HeapInv, HeapIsAccounted, Modes
<1>1. CASE Idles
  BY <1>1 DEF Idles, globals
<1>2. CASE Builds
  BY <1>2 DEF Builds
<1>3. CASE Loads
  <2>1. PICK f, point, logs : LoadUpTo(point, f, logs)
    BY <1>3 DEF Loads
  <2>2. mode = "menu" /\ mode' = "loop"
    BY <1>3 DEF Loads
  <2> QED BY <2>1, <2>2 DEF LoadUpTo, Replace, ReplaceFails, LeftAllocated, globals
<1>4. CASE Leaves
  BY <1>4 DEF Leaves, LeftAllocated
<1>5. CASE UNCHANGED vars \/ MemoryReused
  BY <1>5 DEF vars, globals, MemoryReused
<1> QED BY <1>1, <1>2, <1>3, <1>4, <1>5, GlobalsMove

-----------------------------------------------------------------------------
(* What a load reads is a sequence of records, also when records are lost  *)
(* to failed allocations.                                                  *)
LEMMA LogsReadType ==
  ASSUME NEW c \in Contents, HasLogEntries(c), NEW logs \in LogsRead(c)
  PROVE  logs \in Seq(Entries)
<1>1. c.items \in Seq(Entries \cup {Junk})
  BY DEF Contents, HasLogEntries
<1>2. CASE logs = AsLogEntries(c)
  BY <1>1, <1>2, KeptType DEF AsLogEntries
<1>3. ASSUME NEW D, logs = Kept([i \in DOMAIN c.items |-> IF i \in D THEN Junk ELSE c.items[i]])
      PROVE  logs \in Seq(Entries)
  <2>1. [i \in DOMAIN c.items |-> IF i \in D THEN Junk ELSE c.items[i]] \in Seq(Entries \cup {Junk})
    BY <1>1
  <2> QED BY <1>3, <2>1, KeptType
<1> QED BY <1>2, <1>3 DEF LogsRead

(* A file some record of which is read holds a record.                     *)
LEMMA SomeRead ==
  ASSUME NEW c \in Contents, HasLogEntries(c), NEW logs \in LogsRead(c), logs # << >>
  PROVE  Loadable(c)
<1>1. c.items \in Seq(Entries \cup {Junk})
  BY DEF Contents, HasLogEntries
<1>2. CASE logs = AsLogEntries(c)
  BY <1>2 DEF Loadable
<1>3. ASSUME NEW D, logs = Kept([i \in DOMAIN c.items |-> IF i \in D THEN Junk ELSE c.items[i]])
      PROVE  Loadable(c)
  <2> DEFINE read == [i \in DOMAIN c.items |-> IF i \in D THEN Junk ELSE c.items[i]]
             Good == {i \in DOMAIN c.items : c.items[i] \in Entries}
  <2>1. read \in Seq(Entries \cup {Junk}) /\ DOMAIN read = DOMAIN c.items
    BY <1>1
  <2>2. logs \in Seq({read[i] : i \in DOMAIN read} \cap Entries)
    <3> HIDE DEF read
    <3> QED BY <1>3, <2>1, FilteredType DEF Kept, read
  <2>3. PICK e \in {read[i] : i \in DOMAIN read} \cap Entries : TRUE
    <3> HIDE DEF read
    <3> QED BY <2>2
  <2>4. \E i \in DOMAIN c.items : c.items[i] \in Entries
    BY <2>1, <2>3, EntriesAssumption
  <2>5. Good # {} /\ Good \subseteq 1 .. Len(c.items) /\ Len(c.items) \in Nat
    BY <1>1, <2>4
  <2>6. IsFiniteSet(Good) /\ Cardinality(Good) # 0
    <3> HIDE DEF Good
    <3>1. IsFiniteSet(1 .. Len(c.items))
      BY <2>5, FS_Interval
    <3>2. IsFiniteSet(Good)
      BY <2>5, <3>1, FS_Subset
    <3> QED BY <2>5, <3>2, FS_EmptySet
  <2>7. Len(AsLogEntries(c)) = Cardinality(Good)
    BY <1>1, FilteredLength DEF AsLogEntries, Kept
  <2> HIDE DEF Good
  <2>8. Len(<< >>) = 0
    OBVIOUS
  <2> QED BY <2>6, <2>7, <2>8 DEF Loadable
<1> QED BY <1>2, <1>3 DEF LogsRead

(* The parts of TypeOK: the globals and the object, then the disk.         *)
GlobalsTyped ==
  /\ deletedTwice \in BOOLEAN /\ unsettled \in BOOLEAN
  /\ currentLogs \in Seq(Entries) /\ IsObject(obj)
  /\ currentFileName \in Names \cup {<< >>} /\ origin \in Names \cup {<< >>}

DiskTyped ==
  /\ files \in [Names -> Contents]
  /\ written \in [Names -> [ours : BOOLEAN, logs : Seq(Entries)]]
  /\ foreignWrites \in 0 .. MaxForeign /\ tornWrites \in 0 .. MaxTorn

LEMMA GlobalsTypedStep ==
  GlobalsTyped /\ DiskTyped /\ [Next]_vars => GlobalsTyped'
<1> SUFFICES ASSUME GlobalsTyped, DiskTyped, [Next]_vars PROVE GlobalsTyped'
  OBVIOUS
<1> USE DEF GlobalsTyped
<1>0. << >> \in Seq(Entries) /\ IsObject(NoObject)
  <2>1. << >> \in Seq(Entries)
    OBVIOUS
  <2> QED BY <2>1, NewObject DEF NoObject
<1>1. CASE Idles
  BY <1>1 DEF Idles, globals
<1>2. CASE Builds
  BY <1>2, BuiltObject DEF Builds
<1>3. CASE Loads
  <2>1. PICK f \in Names, point \in FailurePoints :
          /\ HasLogEntries(files[f])
          /\ \E logs \in LogsRead(files[f]) : LoadUpTo(point, f, logs)
    BY <1>3 DEF Loads
  <2>2. PICK logs \in LogsRead(files[f]) : LoadUpTo(point, f, logs)
    BY <2>1
  <2>3. logs \in Seq(Entries)
    BY <2>1, LogsReadType DEF DiskTyped
  <2>4. IsObject(Constructed(logs))
    BY <2>3, NewObject
  <2>5. HalfAssigned(logs) \subseteq Seq(Entries)
    <3>1. currentLogs \in Seq(Entries)
      OBVIOUS
    <3>2. ASSUME NEW k \in 0 .. Len(currentLogs)
          PROVE  [i \in DOMAIN currentLogs |->
                    IF i <= k /\ k <= Len(logs) THEN logs[i] ELSE currentLogs[i]]
                      \in Seq(Entries)
      <4>1. \A i \in DOMAIN currentLogs :
              (IF i <= k /\ k <= Len(logs) THEN logs[i] ELSE currentLogs[i]) \in Entries
        BY <2>3, <3>1
      <4> QED BY <3>1, <4>1
    <3> QED BY <1>0, <3>2 DEF HalfAssigned
  <2>6. unsettled' \in BOOLEAN
    BY <1>3 DEF Loads, BackFromLoad
  <2>7. deletedTwice' \in BOOLEAN
    BY <2>2 DEF LoadUpTo, Replace, ReplaceFails, TooMany, globals
  <2> QED BY <2>2, <2>3, <2>4, <2>5, <2>6, <2>7, <1>0 DEF LoadUpTo, Replace, ReplaceFails, globals
<1>4. CASE Leaves
  BY <1>4, <1>0 DEF Leaves
<1>5. CASE UNCHANGED vars
  BY <1>5 DEF vars, globals
<1>6. CASE MemoryReused
  <2>1. ASSUME NEW logs \in Remnants, NEW built \in BOOLEAN
        PROVE  IsObject([Constructed(logs) EXCEPT !.indexesBuilt = built])
    BY RemnantsAssumption DEF IsObject, Constructed
  <2> QED BY <1>6, <2>1 DEF MemoryReused, Leftovers
<1> QED BY <1>1, <1>2, <1>3, <1>4, <1>5, <1>6, GlobalsMove

-----------------------------------------------------------------------------
(* Writing a file content keeps the disk typed, a whole export as well as  *)
(* one that stops short.                                                   *)
LEMMA PutTyped ==
  ASSUME DiskTyped, NEW f \in Names, NEW c \in Contents, NEW logs \in Seq(Entries),
         Put(f, c, logs), tornWrites' \in 0 .. MaxTorn
  PROVE  DiskTyped'
  BY DEF Put, DiskTyped

LEMMA WriteTyped ==
  ASSUME DiskTyped, NEW f \in Names, NEW whole \in Contents, NEW torn \in SUBSET Contents,
         NEW result, result.put \in Seq(Entries), Write(f, whole, torn, result)
  PROVE  DiskTyped'
<1>1. CASE Put(f, whole, result.put) /\ UNCHANGED tornWrites
  BY <1>1, PutTyped DEF DiskTyped
<1>2. ASSUME tornWrites < MaxTorn, tornWrites' = tornWrites + 1,
             NEW c \in torn, Put(f, c, result.put)
      PROVE  DiskTyped'
  <2>1. tornWrites' \in 0 .. MaxTorn
    BY <1>2, SessionAssumption DEF DiskTyped
  <2> QED BY <1>2, <2>1, PutTyped
<1> QED BY <1>1, <1>2 DEF Write

LEMMA DiskTypedStep ==
  GlobalsTyped /\ DiskTyped /\ [Next]_vars => DiskTyped'
<1> SUFFICES ASSUME GlobalsTyped, DiskTyped, [Next]_vars PROVE DiskTyped'
  OBVIOUS
<1>a. CASE UNCHANGED disk
  BY <1>a DEF disk, DiskTyped
<1>b. obj.logs \in Seq(Entries) /\ << >> \in Seq(Entries)
  BY DEF GlobalsTyped, IsObject
<1>c. ASSUME NEW f \in Names, NEW what, NEW asked, NEW told, ExportCsv(f, what, asked, told)
      PROVE  UNCHANGED disk \/ DiskTyped'
  <2> DEFINE result == [Seen(what, TRUE) EXCEPT !.told = told, !.asked = asked, !.put = obj.logs]
  <2>1. result.put = obj.logs
    BY DEF Seen, NoOutcome
  <2>2. CASE WriteRefused(what)
    BY <2>2 DEF WriteRefused, Told
  <2>3. CASE Write(f, CsvOf(obj.logs), TornCsv(obj.logs), result)
    <3> HIDE DEF result
    <3> QED BY <2>1, <2>3, <1>b, ExportsType, WriteTyped
  <2> QED BY <1>c, <2>2, <2>3 DEF ExportCsv
<1>d. ASSUME NEW f \in Names, NEW told, ExportJson(f, told)
      PROVE  UNCHANGED disk \/ DiskTyped'
  <2> DEFINE result == [Seen("json", TRUE) EXCEPT !.told = told, !.asked = obj.logs, !.put = obj.logs]
  <2>1. result.put = obj.logs
    BY DEF Seen, NoOutcome
  <2>2. CASE WriteRefused("json")
    BY <2>2 DEF WriteRefused, Told
  <2>3. CASE Write(f, JsonOf(obj.logs), TornJson(obj.logs), result)
    <3> HIDE DEF result
    <3> QED BY <2>1, <2>3, <1>b, ExportsType, WriteTyped
  <2>4. CASE Put(f, Garbage, obj.logs) /\ UNCHANGED tornWrites
    BY <2>4, <1>b, ExportsType, PutTyped DEF DiskTyped
  <2> QED BY <1>d, <2>2, <2>3, <2>4 DEF ExportJson, JsonFails
<1>e. ASSUME NEW f \in Names, NEW what, ExportTop(f, what)
      PROVE  UNCHANGED disk \/ DiskTyped'
  <2> DEFINE result == [Seen(what, TRUE) EXCEPT !.told = f]
  <2>1. result.put = << >>
    BY DEF Seen, NoOutcome
  <2>2. CASE Write(f, TopList, {Garbage}, result)
    <3> HIDE DEF result
    <3> QED BY <2>1, <2>2, <1>b, ExportsType, WriteTyped
  <2> QED BY <1>e, <2>2 DEF ExportTop
<1>1. CASE DrawMenu \/ ChooseExit \/ CriticalError \/ CleanUp \/ UseCrashes \/ Kill \/ Restart
  BY <1>1, <1>a DEF DrawMenu, ChooseExit, CriticalError, CleanUp, UseCrashes, Kill, Restart
<1>2. CASE Handlers
  <2>1. CASE LoadNothing \/ ShowStatistics \/ ExportCancelled \/ OutOfMemory \/ UnknownChoice \/ Benchmark
    BY <2>1, <1>a DEF LoadNothing, ShowStatistics, ExportCancelled, OutOfMemory, UnknownChoice, Benchmark,
                      NoData, Told, Thrown, Throws, disk
  <2>2. ASSUME NEW f \in Names, LoadLogs(f) PROVE DiskTyped'
    BY <2>2, <1>a DEF LoadLogs, LoadRefused, LoadAccepted
  <2>3. ASSUME NEW line \in Lines, NEW n \in Numbers, ShowTopIPs(line, n) \/ ShowTopURLs(line, n)
        PROVE  DiskTyped'
    BY <2>3, <1>a DEF ShowTopIPs, ShowTopURLs, ShowTop, NoData, disk
  <2>4. ASSUME NEW line \in Lines, NEW s \in Numbers, NEW export \in BOOLEAN, NEW f \in Names,
               FilterStatus(line, s, export, f)
        PROVE  DiskTyped'
    BY <2>4, <1>a, <1>c DEF FilterStatus, NoData, Told
  <2>5. ASSUME NEW m \in DOMAIN UpperCase, NEW show \in BOOLEAN, FilterMethod(m, show)
        PROVE  DiskTyped'
    BY <2>5, <1>a DEF FilterMethod, NoData, Told, Thrown, Throws
  <2>6. ASSUME NEW choice \in ExportChoices, NEW f \in Names, ExportResults(choice, f)
        PROVE  DiskTyped'
    BY <2>6, <1>a, <1>c, <1>d, <1>e DEF ExportResults, NoData, Told
  <2> QED BY <1>2, <2>1, <2>2, <2>3, <2>4, <2>5, <2>6 DEF Handlers
<1>3. ASSUME NEW f \in Names, KillInExport(f) PROVE DiskTyped'
  <2>1. PICK c \in TornJson(obj.logs) \cup TornCsv(obj.logs) : Put(f, c, obj.logs)
    BY <1>3 DEF KillInExport
  <2>2. c \in Contents
    BY <1>b, ExportsType
  <2>3. tornWrites' \in 0 .. MaxTorn
    BY <1>3, SessionAssumption DEF KillInExport, DiskTyped
  <2> QED BY <1>b, <2>1, <2>2, <2>3, PutTyped
<1>4. ASSUME NEW f \in Names, NEW c \in Foreign, ForeignWrite(f, c) PROVE DiskTyped'
  BY <1>4, <1>b, ForeignAssumption, SessionAssumption DEF ForeignWrite, DiskTyped, NotOurs
<1>5. CASE UNCHANGED vars \/ MemoryReused
  BY <1>5, <1>a DEF vars, MemoryReused
<1> QED BY <1>1, <1>2, <1>3, <1>4, <1>5 DEF Next

-----------------------------------------------------------------------------
(* The message of a handler, with the limits of the two lists.             *)
OutcomeOK(o) ==
  /\ o.ok \in BOOLEAN /\ o.rows \in Nat
  /\ o.what = "topIPs" => o.rows \in 1 .. TopIPCap
  /\ o.what = "topURLs" => o.rows \in 1 .. TopURLCap

LEMMA PlainOutcome ==
  ASSUME NEW what, what \notin {"topIPs", "topURLs"}, NEW ok \in BOOLEAN
  PROVE  OutcomeOK(Seen(what, ok)) /\ OutcomeOK(NoOutcome)
  BY DEF OutcomeOK, Seen, NoOutcome

(* However the user answers, a list asks for at least one row and for no   *)
(* more than its limit.                                                    *)
LEMMA RowsAskedRange ==
  ASSUME NEW line, NEW n \in Numbers, NEW cap \in {TopIPCap, TopURLCap}
  PROVE  RowsAsked(line, n, cap) \in 1 .. cap
  BY SessionAssumption DEF RowsAsked, Capped, Positive

LEMMA OutcomeStep ==
  GlobalsTyped /\ OutcomeOK(outcome) /\ [Next]_vars => OutcomeOK(outcome')
<1> SUFFICES ASSUME GlobalsTyped, OutcomeOK(outcome), [Next]_vars PROVE OutcomeOK(outcome')
  OBVIOUS
<1>a. OutcomeOK(NoOutcome)
  BY DEF OutcomeOK, NoOutcome
<1>b. ASSUME NEW f, NEW whole, NEW torn, NEW result, Write(f, whole, torn, result),
             {"file", "whole", "ok", "rows", "what"} \subseteq DOMAIN result, OutcomeOK(result)
      PROVE  OutcomeOK(outcome')
  <2>1. Ends({[result EXCEPT !.file = f], [result EXCEPT !.file = f, !.whole = FALSE]})
    BY <1>b, WriteEnds
  <2>2. /\ OutcomeOK([result EXCEPT !.file = f])
        /\ OutcomeOK([result EXCEPT !.file = f, !.whole = FALSE])
    BY <1>b DEF OutcomeOK
  <2> QED BY <1>a, <2>1, <2>2 DEF Ends
<1>c. ASSUME NEW f, NEW what \in {"csv", "statusExport"}, NEW asked, NEW told, ExportCsv(f, what, asked, told)
      PROVE  OutcomeOK(outcome')
  <2> DEFINE result == [Seen(what, TRUE) EXCEPT !.told = told, !.asked = asked, !.put = obj.logs]
  <2>1. {"file", "whole", "ok", "rows", "what"} \subseteq DOMAIN result /\ OutcomeOK(result)
    BY DEF Seen, NoOutcome, OutcomeOK
  <2>2. CASE WriteRefused(what)
    BY <2>2, PlainOutcome DEF WriteRefused, Told, Back, BackToLoop
  <2>3. CASE Write(f, CsvOf(obj.logs), TornCsv(obj.logs), result)
    <3> HIDE DEF result
    <3> QED BY <2>1, <2>3, <1>b
  <2> QED BY <1>c, <2>2, <2>3 DEF ExportCsv
<1>d. ASSUME NEW f, NEW told, ExportJson(f, told)
      PROVE  OutcomeOK(outcome')
  <2> DEFINE result == [Seen("json", TRUE) EXCEPT !.told = told, !.asked = obj.logs, !.put = obj.logs]
  <2>1. {"file", "whole", "ok", "rows", "what"} \subseteq DOMAIN result /\ OutcomeOK(result)
    BY DEF Seen, NoOutcome, OutcomeOK
  <2>2. CASE WriteRefused("json")
    BY <2>2, PlainOutcome DEF WriteRefused, Told, Back, BackToLoop
  <2>3. CASE Write(f, JsonOf(obj.logs), TornJson(obj.logs), result)
    <3> HIDE DEF result
    <3> QED BY <2>1, <2>3, <1>b
  <2>4. CASE Report([Seen("json", FALSE) EXCEPT !.file = f])
    <3> DEFINE failed == [Seen("json", FALSE) EXCEPT !.file = f]
    <3>1. OutcomeOK(failed)
      BY DEF Seen, NoOutcome, OutcomeOK
    <3> HIDE DEF failed
    <3>2. Ends({failed})
      BY <2>4, ReportEnds DEF failed
    <3> QED BY <1>a, <3>1, <3>2 DEF Ends
  <2> QED BY <1>d, <2>2, <2>3, <2>4 DEF ExportJson, JsonFails
<1>e. ASSUME NEW f, NEW what \in {"exportIPs", "exportURLs"}, ExportTop(f, what)
      PROVE  OutcomeOK(outcome')
  <2> DEFINE result == [Seen(what, TRUE) EXCEPT !.told = f]
  <2>1. {"file", "whole", "ok", "rows", "what"} \subseteq DOMAIN result /\ OutcomeOK(result)
    BY DEF Seen, NoOutcome, OutcomeOK
  <2>2. CASE Write(f, TopList, {Garbage}, result)
    <3> HIDE DEF result
    <3> QED BY <2>1, <2>2, <1>b
  <2>3. CASE Back(Seen(what, FALSE))
    BY <2>3, PlainOutcome DEF Back, BackToLoop
  <2> QED BY <1>e, <2>2, <2>3 DEF ExportTop
<1>f. ASSUME NEW what, NEW field, NEW line, NEW n \in Numbers, NEW cap,
             \/ what = "topIPs" /\ cap = TopIPCap
             \/ what = "topURLs" /\ cap = TopURLCap,
             ShowTop(what, field, line, n, cap)
      PROVE  OutcomeOK(outcome')
  <2> DEFINE distinct == Cardinality(ValuesOf(field, obj.logs))
             rows == RowsKept(distinct, RowsAsked(line, n, cap))
  <2>1. obj.logs \in Seq(Entries) /\ obj.logs # << >>
    BY <1>f DEF ShowTop, HasData, TotalRequests, GlobalsTyped, IsObject
  <2>2. distinct \in Nat \ {0}
    BY <2>1, ValuesFinite
  <2>3. RowsAsked(line, n, cap) \in 1 .. cap /\ cap \in Nat
    BY <1>f, RowsAskedRange, SessionAssumption
  <2>4. rows \in 1 .. cap
    <3> HIDE DEF distinct
    <3> QED BY <2>2, <2>3 DEF RowsKept
  <2>5. outcome' = [Seen(what, TRUE) EXCEPT !.rows = rows]
    BY <1>f DEF ShowTop, Back, BackToLoop
  <2> HIDE DEF rows
  <2> QED BY <1>f, <2>3, <2>4, <2>5 DEF Seen, NoOutcome, OutcomeOK
<1>1. CASE DrawMenu \/ ChooseExit \/ CriticalError \/ CleanUp \/ UseCrashes \/ Kill \/ Restart
  BY <1>1, <1>a, PlainOutcome DEF DrawMenu, ChooseExit, CriticalError, CleanUp, UseCrashes, Kill, Restart
<1>2. CASE Handlers
  <2>1. CASE LoadNothing \/ ShowStatistics \/ ExportCancelled \/ OutOfMemory \/ UnknownChoice \/ Benchmark
    BY <2>1, <1>a, PlainOutcome DEF LoadNothing, ShowStatistics, ExportCancelled, OutOfMemory,
         UnknownChoice, Benchmark, NoData, Told, Thrown, Throws, Back, BackToLoop
  <2>2. ASSUME NEW f \in Names, LoadLogs(f) PROVE OutcomeOK(outcome')
    <3>1. PICK ok \in BOOLEAN : outcome' = LoadOutcome(f, ok)
      BY <2>2 DEF LoadLogs, LoadRefused, LoadAccepted, BackFromLoad, BackToLoop
    <3> QED BY <3>1 DEF LoadOutcome, NoOutcome, OutcomeOK
  <2>3. ASSUME NEW line \in Lines, NEW n \in Numbers, ShowTopIPs(line, n) \/ ShowTopURLs(line, n)
        PROVE  OutcomeOK(outcome')
    BY <2>3, <1>f, PlainOutcome DEF ShowTopIPs, ShowTopURLs, NoData, Back, BackToLoop
  <2>4. ASSUME NEW line \in Lines, NEW s \in Numbers, NEW export \in BOOLEAN, NEW f \in Names,
               FilterStatus(line, s, export, f)
        PROVE  OutcomeOK(outcome')
    BY <2>4, <1>c, PlainOutcome DEF FilterStatus, NoData, Told, Back, BackToLoop
  <2>5. ASSUME NEW m \in DOMAIN UpperCase, NEW show \in BOOLEAN, FilterMethod(m, show)
        PROVE  OutcomeOK(outcome')
    BY <2>5, <1>a, PlainOutcome DEF FilterMethod, NoData, Told, Thrown, Throws, Back, BackToLoop
  <2>6. ASSUME NEW choice \in ExportChoices, NEW f \in Names, ExportResults(choice, f)
        PROVE  OutcomeOK(outcome')
    BY <2>6, <1>a, <1>c, <1>d, <1>e, PlainOutcome DEF ExportResults, NoData, Told, Back, BackToLoop
  <2> QED BY <1>2, <2>1, <2>2, <2>3, <2>4, <2>5, <2>6 DEF Handlers
<1>3. ASSUME NEW f \in Names, KillInExport(f) PROVE OutcomeOK(outcome')
  BY <1>3, <1>a DEF KillInExport
<1>4. ASSUME NEW f \in Names, NEW c \in Foreign, ForeignWrite(f, c) PROVE OutcomeOK(outcome')
  BY <1>4 DEF ForeignWrite
<1>5. CASE UNCHANGED vars \/ MemoryReused
  BY <1>5 DEF vars, MemoryReused
<1> QED BY <1>1, <1>2, <1>3, <1>4, <1>5 DEF Next

-----------------------------------------------------------------------------
(* The caches: an object is fresh when it is made, and building them makes *)
(* them fresh; nothing else writes an object that is live.                 *)
LEMMA CachesStep ==
  GlobalsTyped /\ CachesAreFresh /\ [Next]_vars => CachesAreFresh'
<1> SUFFICES ASSUME GlobalsTyped, CachesAreFresh, [Next]_vars PROVE CachesAreFresh'
  OBVIOUS
<1> USE DEF CachesAreFresh
<1>1. CASE Idles \/ UNCHANGED vars
  BY <1>1 DEF Idles, globals, vars
<1>2. CASE Builds
  BY <1>2, BuiltObject DEF Builds, GlobalsTyped
<1>3. CASE Loads
  <2>1. PICK f, point, logs : LoadUpTo(point, f, logs)
    BY <1>3 DEF Loads
  <2>2. IndexFresh(Constructed(logs))
    BY DEF Constructed, IndexFresh
  <2> QED BY <2>1, <2>2 DEF LoadUpTo, Replace, ReplaceFails, globals
<1>4. CASE Leaves \/ MemoryReused
  BY <1>4 DEF Leaves, MemoryReused
<1> QED BY <1>1, <1>2, <1>3, <1>4, GlobalsMove

-----------------------------------------------------------------------------
(* The globals.  A load that stops after the old object was deleted, or    *)
(* between two of its assignments, has read a record and is told as        *)
(* failed: from there on the three globals need not agree, until a load is *)
(* done.  When memory does not run out there is no such load.              *)
Settled == AllocMayFail \/ ~unsettled

LEMMA GlobalsStep ==
  GlobalsTyped /\ DiskTyped /\ GlobalsAgree /\ Settled /\ [Next]_vars
    => GlobalsAgree' /\ Settled'
<1> SUFFICES ASSUME GlobalsTyped, DiskTyped, GlobalsAgree, Settled, [Next]_vars
             PROVE  GlobalsAgree' /\ Settled'
  OBVIOUS
<1> USE DEF GlobalsAgree, Settled
<1>1. CASE Idles
  BY <1>1 DEF Idles, globals
<1>2. CASE Builds
  BY <1>2, BuiltObject DEF Builds, GlobalsTyped
<1>3. CASE Loads
  <2>1. PICK f \in Names, point \in FailurePoints :
          /\ HasLogEntries(files[f])
          /\ BackFromLoad(f, point = "none")
          /\ \E logs \in LogsRead(files[f]) : logs # << >> /\ LoadUpTo(point, f, logs)
    BY <1>3 DEF Loads
  <2>2. PICK logs \in LogsRead(files[f]) : logs # << >> /\ LoadUpTo(point, f, logs)
    BY <2>1
  <2>3. CASE point = "none"
    <3>1. Constructed(logs).logs = logs
      BY DEF Constructed
    <3>2. ~unsettled'
      BY <2>1, <2>3 DEF BackFromLoad
    <3> QED BY <2>2, <2>3, <3>1, <3>2 DEF LoadUpTo, Replace
  <2>4. CASE point # "none"
    <3>1. Loadable(files[f])
      BY <2>1, <2>2, SomeRead DEF DiskTyped
    <3>2. unsettled' /\ AllocMayFail
      BY <2>1, <2>4, <3>1 DEF BackFromLoad, FailurePoints
    <3> QED BY <3>2
  <2> QED BY <2>3, <2>4
<1>4. CASE Leaves
  BY <1>4 DEF Leaves
<1>5. CASE UNCHANGED vars \/ MemoryReused
  BY <1>5 DEF vars, globals, MemoryReused
<1> QED BY <1>1, <1>2, <1>3, <1>4, <1>5, GlobalsMove

-----------------------------------------------------------------------------
(* The inductive invariant.                                                *)
IInv ==
  /\ GlobalsTyped /\ DiskTyped /\ HeapInv /\ OutcomeOK(outcome)
  /\ CachesAreFresh /\ GlobalsAgree /\ Settled

LEMMA InitIInv == Init => IInv
<1> SUFFICES ASSUME Init PROVE IInv
  OBVIOUS
<1>0. << >> \in Seq(Entries)
  OBVIOUS
<1>1. GlobalsTyped
  BY <1>0, NewObject DEF Init, FreshProcess, GlobalsTyped, NoObject
<1>2. DiskTyped
  BY <1>0, ForeignAssumption, SessionAssumption DEF Init, DiskTyped, NotOurs
<1>3. HeapInv
  BY DEF Init, FreshProcess, HeapInv, HeapIsAccounted, Modes
<1>4. OutcomeOK(outcome)
  BY DEF Init, NoOutcome, OutcomeOK
<1>5. CachesAreFresh /\ GlobalsAgree /\ Settled
  BY DEF Init, FreshProcess, CachesAreFresh, GlobalsAgree, Settled
<1> QED BY <1>1, <1>2, <1>3, <1>4, <1>5 DEF IInv

LEMMA StepIInv == IInv /\ [Next]_vars => IInv'
<1> SUFFICES ASSUME IInv, [Next]_vars PROVE IInv'
  OBVIOUS
<1>1. /\ GlobalsTyped /\ DiskTyped /\ HeapInv /\ OutcomeOK(outcome)
      /\ CachesAreFresh /\ GlobalsAgree /\ Settled
  BY DEF IInv
<1>2. GlobalsTyped' /\ DiskTyped'
  BY <1>1, GlobalsTypedStep, DiskTypedStep
<1>3. HeapInv'
  BY <1>1, HeapStep
<1>4. OutcomeOK(outcome')
  BY <1>1, OutcomeStep
<1>5. CachesAreFresh' /\ GlobalsAgree' /\ Settled'
  BY <1>1, CachesStep, GlobalsStep
<1> QED BY <1>2, <1>3, <1>4, <1>5 DEF IInv

-----------------------------------------------------------------------------
(* The inductive invariant holds in every reachable state.                 *)
THEOREM Invariance == Spec => []IInv
  BY InitIInv, StepIInv, PTL DEF Spec

(* Every variable has its type (src/main.cpp:15-17).                       *)
THEOREM Typing == Spec => []TypeOK
<1>1. IInv => TypeOK
  <2> SUFFICES ASSUME IInv PROVE TypeOK
    OBVIOUS
  <2>1. allocated \in Nat
    BY DEF IInv, HeapInv, HeapIsAccounted
  <2>2. HeapInv /\ GlobalsTyped /\ DiskTyped /\ OutcomeOK(outcome)
    BY DEF IInv
  <2> QED BY <2>1, <2>2 DEF HeapInv, GlobalsTyped, DiskTyped, OutcomeOK, TypeOK
<1> QED BY <1>1, Invariance, PTL

(* The heap holds the object the pointer owns and no other, whatever load  *)
(* ran out of memory, and none is left when the program ends               *)
(* (src/main.cpp:82-83, 667-670).                                          *)
THEOREM Heap == Spec => []HeapIsAccounted
<1>1. IInv => HeapIsAccounted
  BY DEF IInv, HeapInv
<1> QED BY <1>1, Invariance, PTL

(* The object, the global logs and the file name in the header describe    *)
(* one load, unless the user was told of one that failed on a file with    *)
(* records, and of none that was done since (src/main.cpp:81-84, 537).     *)
THEOREM Globals == Spec => []GlobalsAgree
<1>1. IInv => GlobalsAgree
  BY DEF IInv
<1> QED BY <1>1, Invariance, PTL

(* Only such a failed load makes the program delete its object twice       *)
(* (src/main.cpp:82-83, 102-105, 668).                                     *)
THEOREM SecondDeletes == Spec => SecondDeleteIsAnnounced
<1>1. IInv /\ [Next]_vars => [deletedTwice' => deletedTwice \/ unsettled]_vars
  <2> SUFFICES ASSUME IInv, Next, deletedTwice' PROVE deletedTwice \/ unsettled
    OBVIOUS
  <2>1. TooMany => deletedTwice \/ unsettled
    BY DEF TooMany, IInv, GlobalsAgree
  <2>2. CASE Idles \/ Builds \/ MemoryReused
    BY <2>2 DEF Idles, Builds, MemoryReused, globals
  <2>3. CASE Loads
    <3>1. PICK f, point, logs : LoadUpTo(point, f, logs)
      BY <2>3 DEF Loads
    <3> QED BY <2>1, <3>1 DEF LoadUpTo, Replace, ReplaceFails, globals
  <2>4. CASE Leaves
    BY <2>1, <2>4 DEF Leaves
  <2> QED BY <2>2, <2>3, <2>4, GlobalsMove
<1>2. [][IInv /\ [Next]_vars]_vars => SecondDeleteIsAnnounced
  BY <1>1, PTL DEF SecondDeleteIsAnnounced
<1> QED BY <1>2, Invariance, PTL DEF Spec

(* The caches the program uses agree with the logs they are used for       *)
(* (src/main.cpp:83, src/analyzer.cpp:387-401).                            *)
THEOREM Caches == Spec => []CachesAreFresh
<1>1. IInv => CachesAreFresh
  BY DEF IInv, CachesAreFresh
<1> QED BY <1>1, Invariance, PTL

(* No answer of the user gets an uncut list (src/main.cpp:171-181 and      *)
(* 224-234).                                                               *)
THEOREM Lists == Spec => []ListsAreCapped
<1>1. IInv => ListsAreCapped
  BY DEF IInv, OutcomeOK, ListsAreCapped
<1> QED BY <1>1, Invariance, PTL

-----------------------------------------------------------------------------
(***************************************************************************)
(* When memory does not run out.  A load then either fails at its checks   *)
(* or runs to its end.                                                     *)
(***************************************************************************)
LEMMA LoadsComplete ==
  ASSUME ~AllocMayFail, Loads
  PROVE  \E f \in Names :
           LET logs == AsLogEntries(files[f])
           IN  /\ HasLogEntries(files[f]) /\ logs # << >>
               /\ analyzer' = "live" /\ obj' = Constructed(logs) /\ origin' = f
               /\ currentLogs' = logs /\ currentFileName' = f
               /\ outcome' = LoadOutcome(f, TRUE)
<1>1. PICK f \in Names, point \in FailurePoints :
        /\ HasLogEntries(files[f])
        /\ BackFromLoad(f, point = "none")
        /\ \E logs \in LogsRead(files[f]) : logs # << >> /\ LoadUpTo(point, f, logs)
  BY DEF Loads
<1>2. point = "none"
  BY DEF FailurePoints
<1>3. \A logs \in LogsRead(files[f]) : logs = AsLogEntries(files[f])
  BY DEF LogsRead
<1> QED BY <1>1, <1>2, <1>3 DEF LoadUpTo, Replace, BackFromLoad, BackToLoop

(* Nothing freed is met then, and an object comes with a file name.        *)
LEMMA NothingFreed ==
  ASSUME ~AllocMayFail, IInv
  PROVE  /\ analyzer \in {"null", "live"} /\ (mode = "exited" => analyzer = "null")
         /\ analyzer = "live" => currentFileName \in Names
  BY DEF IInv, HeapInv, HeapIsAccounted, GlobalsAgree, Settled

-----------------------------------------------------------------------------
(* Workbench has its own copy of LogFiles; the copies agree.               *)
LEMMA SameReading ==
  \A c : WB!AsLogEntries(c) = AsLogEntries(c) /\ (WB!Loadable(c) <=> Loadable(c))
<1>1. \A c : WB!AsLogEntries(c) = AsLogEntries(c)
  BY DEF WB!AsLogEntries, AsLogEntries, WB!Kept, Kept, WB!Filtered, Filtered
<1> QED BY <1>1 DEF WB!Loadable, Loadable, WB!HasLogEntries, HasLogEntries

LEMMA SameWriting ==
  \A logs : WB!Exports(logs) = {JsonOf(logs), CsvOf(logs), TopList, Garbage}
                                 \cup TornJson(logs) \cup TornCsv(logs)
<1>1. \A logs : WB!JsonOf(logs) = JsonOf(logs)
  BY DEF WB!JsonOf, JsonOf, WB!Survives, Survives, WB!ArrayOf, ArrayOf, WB!Garbage, Garbage
<1>2. \A logs : WB!TornJson(logs) = TornJson(logs)
  BY <1>1 DEF WB!TornJson, TornJson, WB!Garbage, Garbage
<1>3. \A logs : WB!TornCsv(logs) = TornCsv(logs) /\ WB!CsvOf(logs) = CsvOf(logs)
  BY DEF WB!TornCsv, TornCsv, WB!CsvOf, CsvOf
<1> QED BY <1>1, <1>2, <1>3 DEF WB!Exports, WB!TopList, TopList, WB!Garbage, Garbage

-----------------------------------------------------------------------------
(* A JSON export that ran out of memory.                                   *)
LeavesNoRecords ==
  outcome'.what = "json" /\ files' = [files EXCEPT ![outcome'.file] = Garbage]

(***************************************************************************)
(* What a step does to the disk: nothing; an export, or the end of the     *)
(* process in the middle of one, writes one file; another program writes.  *)
(***************************************************************************)
WritesFile ==
  /\ HasData /\ mode = "menu"
  /\ \/ mode' = "loop" /\ (outcome'.ok \/ (AllocMayFail /\ LeavesNoRecords))
     \/ mode' = "critical" /\ AllocMayFail
     \/ mode' = "exited"
  /\ \E f \in Names, c \in WB!Exports(obj.logs), logs \in {obj.logs, << >>} :
        Put(f, c, logs) /\ c \in WB!Exports(logs)

OthersWrite ==
  /\ \E f \in Names, c \in Foreign :
        /\ files' = [files EXCEPT ![f] = c]
        /\ written' = [written EXCEPT ![f] = NotOurs]
  /\ UNCHANGED <<globals, mode, outcome>>

(* Every step does one of the three to the files.                          *)
LEMMA FilesMove == Next => UNCHANGED <<files, written>> \/ WritesFile \/ OthersWrite
<1> SUFFICES ASSUME Next PROVE UNCHANGED <<files, written>> \/ WritesFile \/ OthersWrite
  OBVIOUS
<1>a. ASSUME UNCHANGED disk PROVE UNCHANGED <<files, written>>
  BY <1>a DEF disk
<1>b. ASSUME NEW f \in Names, NEW whole, NEW torn, NEW result, HasData,
             Write(f, whole, torn, result), {whole} \cup torn \subseteq WB!Exports(obj.logs),
             result.put \in {obj.logs, << >>}, {whole} \cup torn \subseteq WB!Exports(result.put),
             {"ok", "file", "whole"} \subseteq DOMAIN result, result.ok
      PROVE  WritesFile
  <2>1. /\ mode = "menu"
        /\ (mode' = "loop" /\ outcome'.ok) \/ (mode' = "critical" /\ AllocMayFail)
    <3>1. Ends({[result EXCEPT !.file = f], [result EXCEPT !.file = f, !.whole = FALSE]})
      BY <1>b, WriteEnds
    <3>2. [result EXCEPT !.file = f].ok /\ [result EXCEPT !.file = f, !.whole = FALSE].ok
      BY <1>b
    <3> QED BY <3>1, <3>2 DEF Ends
  <2>2. \E c \in {whole} \cup torn : Put(f, c, result.put)
    BY <1>b, WriteEnds
  <2> QED BY <1>b, <2>1, <2>2 DEF WritesFile
<1>c. ASSUME NEW f \in Names, NEW what, NEW asked, NEW told, HasData,
             ExportCsv(f, what, asked, told)
      PROVE  UNCHANGED <<files, written>> \/ WritesFile
  <2> DEFINE result == [Seen(what, TRUE) EXCEPT !.told = told, !.asked = asked, !.put = obj.logs]
  <2>1. {"ok", "file", "whole"} \subseteq DOMAIN result /\ result.ok /\ result.put = obj.logs
    BY DEF Seen, NoOutcome
  <2>2. CASE WriteRefused(what)
    BY <2>2, <1>a DEF WriteRefused, Told
  <2>3. CASE Write(f, CsvOf(obj.logs), TornCsv(obj.logs), result)
    <3> HIDE DEF result
    <3> QED BY <2>1, <2>3, <1>b, <1>c, SameWriting
  <2> QED BY <1>c, <2>2, <2>3 DEF ExportCsv
<1>d. ASSUME NEW f \in Names, NEW told, HasData, ExportJson(f, told)
      PROVE  UNCHANGED <<files, written>> \/ WritesFile
  <2> DEFINE result == [Seen("json", TRUE) EXCEPT !.told = told, !.asked = obj.logs, !.put = obj.logs]
  <2>1. {"ok", "file", "whole"} \subseteq DOMAIN result /\ result.ok /\ result.put = obj.logs
    BY DEF Seen, NoOutcome
  <2>2. CASE WriteRefused("json")
    BY <2>2, <1>a DEF WriteRefused, Told
  <2>3. CASE Write(f, JsonOf(obj.logs), TornJson(obj.logs), result)
    <3> HIDE DEF result
    <3> QED BY <2>1, <2>3, <1>b, <1>d, SameWriting
  <2>4. CASE JsonFails(f)
    <3> DEFINE failed == [Seen("json", FALSE) EXCEPT !.file = f]
    <3>1. Garbage \in WB!Exports(obj.logs)
      BY SameWriting
    <3>2. failed.what = "json" /\ failed.file = f
      BY DEF Seen, NoOutcome
    <3>3. AllocMayFail /\ Put(f, Garbage, obj.logs) /\ Ends({failed})
      BY <2>4, ReportEnds DEF JsonFails
    <3> HIDE DEF failed
    <3>4. mode = "menu" /\ ((mode' = "loop" /\ LeavesNoRecords) \/ mode' = "critical")
      BY <3>2, <3>3 DEF Ends, Put, LeavesNoRecords
    <3> QED BY <1>d, <3>1, <3>3, <3>4 DEF WritesFile
  <2> QED BY <1>d, <2>2, <2>3, <2>4 DEF ExportJson
<1>e. ASSUME NEW f \in Names, NEW what, HasData, ExportTop(f, what)
      PROVE  UNCHANGED <<files, written>> \/ WritesFile
  <2> DEFINE result == [Seen(what, TRUE) EXCEPT !.told = f]
  <2>1. {"ok", "file", "whole"} \subseteq DOMAIN result /\ result.ok /\ result.put = << >>
    BY DEF Seen, NoOutcome
  <2>2. CASE Write(f, TopList, {Garbage}, result)
    <3> HIDE DEF result
    <3> QED BY <2>1, <2>2, <1>b, <1>e, SameWriting
  <2> QED BY <1>e, <2>2, <1>a DEF ExportTop
<1>1. CASE DrawMenu \/ ChooseExit \/ CriticalError \/ CleanUp \/ UseCrashes \/ Kill \/ Restart
  BY <1>1, <1>a DEF DrawMenu, ChooseExit, CriticalError, CleanUp, UseCrashes, Kill, Restart
<1>2. CASE Handlers
  <2>1. CASE LoadNothing \/ ShowStatistics \/ ExportCancelled \/ OutOfMemory \/ UnknownChoice \/ Benchmark
    BY <2>1 DEF LoadNothing, ShowStatistics, ExportCancelled, OutOfMemory, UnknownChoice, Benchmark,
                NoData, Told, Thrown, Throws, disk
  <2>2. ASSUME NEW f \in Names, LoadLogs(f) PROVE UNCHANGED <<files, written>>
    BY <2>2, <1>a DEF LoadLogs, LoadRefused, LoadAccepted
  <2>3. ASSUME NEW line \in Lines, NEW n \in Numbers, ShowTopIPs(line, n) \/ ShowTopURLs(line, n)
        PROVE  UNCHANGED <<files, written>>
    BY <2>3 DEF ShowTopIPs, ShowTopURLs, ShowTop, NoData, disk
  <2>4. ASSUME NEW line \in Lines, NEW s \in Numbers, NEW export \in BOOLEAN, NEW f \in Names,
               FilterStatus(line, s, export, f)
        PROVE  UNCHANGED <<files, written>> \/ WritesFile
    BY <2>4, <1>a, <1>c DEF FilterStatus, NoData, Told
  <2>5. ASSUME NEW m \in DOMAIN UpperCase, NEW show \in BOOLEAN, FilterMethod(m, show)
        PROVE  UNCHANGED <<files, written>>
    BY <2>5, <1>a DEF FilterMethod, NoData, Told, Thrown, Throws
  <2>6. ASSUME NEW choice \in ExportChoices, NEW f \in Names, ExportResults(choice, f)
        PROVE  UNCHANGED <<files, written>> \/ WritesFile
    BY <2>6, <1>a, <1>c, <1>d, <1>e DEF ExportResults, NoData, Told
  <2> QED BY <1>2, <2>1, <2>2, <2>3, <2>4, <2>5, <2>6 DEF Handlers
<1>3. ASSUME NEW f \in Names, KillInExport(f) PROVE WritesFile
  <2>1. PICK c \in TornJson(obj.logs) \cup TornCsv(obj.logs) : Put(f, c, obj.logs)
    BY <1>3 DEF KillInExport
  <2>2. c \in WB!Exports(obj.logs)
    BY SameWriting
  <2> QED BY <1>3, <2>1, <2>2 DEF KillInExport, WritesFile
<1>4. ASSUME NEW f \in Names, NEW c \in Foreign, ForeignWrite(f, c) PROVE OthersWrite
  BY <1>4 DEF ForeignWrite, OthersWrite
<1>5. CASE MemoryReused
  BY <1>5, <1>a DEF MemoryReused
<1> QED BY <1>1, <1>2, <1>3, <1>4, <1>5 DEF Next

(* A handler that tells of a failure has touched no file, but for the one  *)
(* a JSON export was to write: no records are left there                   *)
(* (src/main.cpp:474-522, src/json_parser.cpp:298-307).                    *)
THEOREM FailedExports == Spec => FailedExportLeavesNoRecords
<1>1. [Next]_vars =>
        [mode = "menu" /\ mode' = "loop" /\ ~outcome'.ok =>
           \/ UNCHANGED files
           \/ /\ outcome'.what = "json"
              /\ files' = [files EXCEPT ![outcome'.file] = Garbage]]_vars
  BY FilesMove DEF WritesFile, LeavesNoRecords, OthersWrite
<1> QED BY <1>1, PTL DEF Spec, FailedExportLeavesNoRecords

-----------------------------------------------------------------------------
(* One step of a session is a step of the workbench, or changes nothing    *)
(* there.                                                                  *)
LEMMA RefinesNext ==
  ASSUME ~AllocMayFail, IInv, [Next]_vars
  PROVE  [WB!Next]_(WB!vars)
<1> DEFINE data    == IF analyzer = "live" THEN obj.logs ELSE << >>
           source  == IF analyzer = "live" THEN currentFileName ELSE << >>
           running == mode # "exited"
<1>0. analyzer \in {"null", "live"} /\ (mode = "exited" => analyzer = "null")
  BY NothingFreed
<1>1. CASE UNCHANGED vars
  BY <1>1 DEF vars, globals, disk, WB!vars
<1>2. CASE Next /\ UNCHANGED files
  <2>1. CASE Idles
    <3>1. UNCHANGED <<data, source, running, files>>
      BY <1>0, <1>2, <2>1 DEF Idles, globals
    <3> QED BY <3>1 DEF WB!vars
  <2>2. CASE Builds
    <3>1. obj'.logs = obj.logs
      BY <2>2, BuiltObject DEF Builds, IInv, GlobalsTyped
    <3>2. UNCHANGED <<data, source, running, files>>
      BY <1>2, <2>2, <3>1 DEF Builds
    <3> QED BY <3>2 DEF WB!vars
  <2>3. CASE Loads
    <3>1. PICK f \in Names :
            LET logs == AsLogEntries(files[f])
            IN  /\ HasLogEntries(files[f]) /\ logs # << >>
                /\ analyzer' = "live" /\ obj' = Constructed(logs)
                /\ currentFileName' = f
      BY <2>3, LoadsComplete
    <3>2. \A logs : Constructed(logs).logs = logs
      BY DEF Constructed
    <3>3. WB!Load(f)
      BY <1>2, <2>3, <3>1, <3>2, SameReading DEF Loads, Loadable, WB!Load
    <3> QED BY <3>3 DEF WB!Next
  <2>4. CASE Leaves
    <3>1. CASE mode' = "exited"
      BY <1>2, <2>4, <3>1 DEF Leaves, WB!Next, WB!Stop, WB!Forget
    <3>2. CASE mode' # "exited"
      BY <1>0, <1>2, <2>4, <3>2 DEF Leaves, WB!Next, WB!Start
    <3> QED BY <3>1, <3>2
  <2> QED BY <1>0, <1>2, <2>1, <2>2, <2>3, <2>4, GlobalsMove DEF MemoryReused
<1>3. CASE Next /\ WritesFile
  <2>1. PICK f \in Names, c \in WB!Exports(obj.logs) : files' = [files EXCEPT ![f] = c]
    BY <1>3 DEF WritesFile, Put
  <2>2. analyzer = "live" /\ mode = "menu" /\ obj.logs # << >>
    BY <1>0, <1>3 DEF WritesFile, HasData, TotalRequests
  <2>3. CASE mode' = "loop" /\ ~Loads
    <3>1. UNCHANGED <<data, source, running>>
      BY <1>3, <2>2, <2>3, GlobalsMove, BuiltObject
         DEF Idles, Builds, Leaves, MemoryReused, globals, IInv, GlobalsTyped
    <3> QED BY <2>1, <2>2, <2>3, <3>1 DEF WB!Next, WB!Export
  <2>4. CASE Loads
    <3>1. UNCHANGED files
      BY <2>4 DEF Loads, disk
    <3> QED BY <1>2, <1>3, <3>1
  <2>5. CASE mode' = "exited"
    <3>1. Leaves
      BY <1>3, <2>2, <2>5, GlobalsMove DEF Idles, Builds, Loads, MemoryReused
    <3> QED BY <2>1, <2>2, <2>5, <3>1 DEF Leaves, WB!Next, WB!CutOff, WB!Forget
  <2> QED BY <1>3, <2>3, <2>4, <2>5 DEF WritesFile
<1>4. CASE OthersWrite
  BY <1>4 DEF OthersWrite, globals, WB!Next, WB!ForeignWrite
<1> QED BY <1>1, <1>2, <1>3, <1>4, FilesMove

(* A session is a workbench: what it holds in memory is one file's         *)
(* records, loaded in one step, and the disk changes by exports of them    *)
(* and by other programs only (src/main.cpp).                              *)
THEOREM Refinement ==
  ASSUME ~AllocMayFail
  PROVE  Spec => ImplementsWorkbench
<1>1. Init => WB!Init
  BY DEF Init, FreshProcess, WB!Init
<1>2. IInv /\ [Next]_vars => [WB!Next]_(WB!vars)
  BY RefinesNext
<1> QED BY <1>1, <1>2, Invariance, PTL DEF Spec, ImplementsWorkbench, WB!Spec

-----------------------------------------------------------------------------
(***************************************************************************)
(* A whole JSON export.  While its message stands, the file named holds    *)
(* the export of the logs the object had, unless another program wrote it. *)
(***************************************************************************)
WholeJson(o) == o.what = "json" /\ o.ok /\ o.whole

ExportKnown ==
  JsonExported =>
    /\ outcome.put \in Seq(Entries) /\ outcome.put # << >>
    /\ analyzer = "live" => outcome.put = obj.logs
    /\ outcome.file \in Names /\ files[outcome.file] = JsonOf(outcome.put)

ExportsJson ==
  /\ HasData /\ UNCHANGED globals
  /\ outcome'.file \in Names /\ outcome'.put = obj.logs
  /\ files' = [files EXCEPT ![outcome'.file] = JsonOf(obj.logs)]

(* Only option 2 of exportResults ends with such a message.                *)
LEMMA MessagesMove ==
  Next => \/ ~WholeJson(outcome')
          \/ ExportsJson
          \/ MemoryReused
          \/ \E f \in Names, c \in Foreign : ForeignWrite(f, c)
<1> SUFFICES ASSUME Next
             PROVE  \/ ~WholeJson(outcome')
                    \/ ExportsJson
                    \/ MemoryReused
                    \/ \E f \in Names, c \in Foreign : ForeignWrite(f, c)
  OBVIOUS
<1>a. ASSUME NEW what, what # "json", NEW ok PROVE ~WholeJson(Seen(what, ok))
  BY <1>a DEF Seen, NoOutcome, WholeJson
<1>b. ~WholeJson(NoOutcome)
  BY DEF NoOutcome, WholeJson
<1>c. ASSUME NEW f, NEW whole, NEW torn, NEW result, Write(f, whole, torn, result),
             {"what", "file", "whole"} \subseteq DOMAIN result, result.what # "json"
      PROVE  ~WholeJson(outcome')
  <2>1. Ends({[result EXCEPT !.file = f], [result EXCEPT !.file = f, !.whole = FALSE]})
    BY <1>c, WriteEnds
  <2>2. /\ [result EXCEPT !.file = f].what # "json"
        /\ [result EXCEPT !.file = f, !.whole = FALSE].what # "json"
    BY <1>c
  <2> QED BY <1>b, <2>1, <2>2 DEF Ends, WholeJson
<1>d. ASSUME NEW f, NEW what, what # "json", NEW asked, NEW told, ExportCsv(f, what, asked, told)
      PROVE  ~WholeJson(outcome')
  <2> DEFINE result == [Seen(what, TRUE) EXCEPT !.told = told, !.asked = asked, !.put = obj.logs]
  <2>1. {"what", "file", "whole"} \subseteq DOMAIN result /\ result.what # "json"
    BY <1>d DEF Seen, NoOutcome
  <2>2. CASE WriteRefused(what)
    BY <2>2, <1>a, <1>d DEF WriteRefused, Told, Back, BackToLoop
  <2>3. CASE Write(f, CsvOf(obj.logs), TornCsv(obj.logs), result)
    <3> HIDE DEF result
    <3> QED BY <2>1, <2>3, <1>c
  <2> QED BY <1>d, <2>2, <2>3 DEF ExportCsv
<1>e. ASSUME NEW f \in Names, NEW told, HasData, ExportJson(f, told)
      PROVE  ~WholeJson(outcome') \/ ExportsJson
  <2> DEFINE result == [Seen("json", TRUE) EXCEPT !.told = told, !.asked = obj.logs, !.put = obj.logs]
  <2>1. {"what", "file", "whole", "put"} \subseteq DOMAIN result /\ result.put = obj.logs
    BY DEF Seen, NoOutcome
  <2>2. CASE WriteRefused("json")
    BY <2>2 DEF WriteRefused, Told, Back, BackToLoop, Seen, NoOutcome, WholeJson
  <2>3. CASE Write(f, JsonOf(obj.logs), TornJson(obj.logs), result) /\ UNCHANGED globals
    <3> HIDE DEF result
    <3>1. CASE Put(f, JsonOf(obj.logs), result.put) /\ Report([result EXCEPT !.file = f])
      <4>1. Ends({[result EXCEPT !.file = f]})
        BY <3>1, ReportEnds
      <4>2. [result EXCEPT !.file = f].file = f /\ [result EXCEPT !.file = f].put = obj.logs
        BY <2>1
      <4> QED BY <1>b, <1>e, <2>1, <2>3, <3>1, <4>1, <4>2 DEF Put, Ends, ExportsJson
    <3>2. CASE Report([result EXCEPT !.file = f, !.whole = FALSE])
      <4>1. Ends({[result EXCEPT !.file = f, !.whole = FALSE]})
        BY <3>2, ReportEnds
      <4>2. ~[result EXCEPT !.file = f, !.whole = FALSE].whole
        BY <2>1
      <4> QED BY <1>b, <4>1, <4>2 DEF Ends, WholeJson
    <3> QED BY <2>3, <3>1, <3>2 DEF Write
  <2>4. CASE Report([Seen("json", FALSE) EXCEPT !.file = f])
    <3> DEFINE failed == [Seen("json", FALSE) EXCEPT !.file = f]
    <3>1. ~failed.ok
      BY DEF Seen, NoOutcome
    <3> HIDE DEF failed
    <3>2. Ends({failed})
      BY <2>4, ReportEnds DEF failed
    <3> QED BY <1>b, <3>1, <3>2 DEF Ends, WholeJson
  <2> QED BY <1>e, <2>2, <2>3, <2>4 DEF ExportJson, JsonFails
<1>f. ASSUME NEW f, NEW what, what # "json", ExportTop(f, what)
      PROVE  ~WholeJson(outcome')
  <2> DEFINE result == [Seen(what, TRUE) EXCEPT !.told = f]
  <2>1. {"what", "file", "whole"} \subseteq DOMAIN result /\ result.what # "json"
    BY <1>f DEF Seen, NoOutcome
  <2>2. CASE Write(f, TopList, {Garbage}, result)
    <3> HIDE DEF result
    <3> QED BY <2>1, <2>2, <1>c
  <2> QED BY <1>f, <2>2, <1>a DEF ExportTop, Back, BackToLoop
<1>1. CASE DrawMenu \/ ChooseExit \/ CriticalError \/ CleanUp \/ UseCrashes \/ Kill \/ Restart
  BY <1>1, <1>a, <1>b DEF DrawMenu, ChooseExit, CriticalError, CleanUp, UseCrashes, Kill, Restart
<1>2. CASE Handlers
  <2>1. CASE LoadNothing \/ ShowStatistics \/ ExportCancelled \/ OutOfMemory \/ UnknownChoice \/ Benchmark
    BY <2>1, <1>a, <1>b DEF LoadNothing, ShowStatistics, ExportCancelled, OutOfMemory, UnknownChoice,
                            Benchmark, NoData, Told, Thrown, Throws, Back, BackToLoop
  <2>2. ASSUME NEW f \in Names, LoadLogs(f) PROVE ~WholeJson(outcome')
    <3>1. PICK ok \in BOOLEAN : outcome' = LoadOutcome(f, ok)
      BY <2>2 DEF LoadLogs, LoadRefused, LoadAccepted, BackFromLoad, BackToLoop
    <3> QED BY <3>1 DEF LoadOutcome, NoOutcome, WholeJson
  <2>3. ASSUME NEW line \in Lines, NEW n \in Numbers, ShowTopIPs(line, n) \/ ShowTopURLs(line, n)
        PROVE  ~WholeJson(outcome')
    BY <2>3, <1>a DEF ShowTopIPs, ShowTopURLs, ShowTop, NoData, Back, BackToLoop, Seen, NoOutcome, WholeJson
  <2>4. ASSUME NEW line \in Lines, NEW s \in Numbers, NEW export \in BOOLEAN, NEW f \in Names,
               FilterStatus(line, s, export, f)
        PROVE  ~WholeJson(outcome')
    BY <2>4, <1>a, <1>d DEF FilterStatus, NoData, Told, Back, BackToLoop
  <2>5. ASSUME NEW m \in DOMAIN UpperCase, NEW show \in BOOLEAN, FilterMethod(m, show)
        PROVE  ~WholeJson(outcome')
    BY <2>5, <1>a, <1>b DEF FilterMethod, NoData, Told, Thrown, Throws, Back, BackToLoop
  <2>6. ASSUME NEW choice \in ExportChoices, NEW f \in Names, ExportResults(choice, f)
        PROVE  ~WholeJson(outcome') \/ ExportsJson
    BY <2>6, <1>a, <1>b, <1>d, <1>e, <1>f DEF ExportResults, NoData, Told, Back, BackToLoop
  <2> QED BY <1>2, <2>1, <2>2, <2>3, <2>4, <2>5, <2>6 DEF Handlers
<1>3. ASSUME NEW f \in Names, KillInExport(f) PROVE ~WholeJson(outcome')
  BY <1>3, <1>b DEF KillInExport
<1> QED BY <1>1, <1>2, <1>3 DEF Next

LEMMA ExportKnownStep == IInv /\ ExportKnown /\ [Next]_vars => ExportKnown'
<1> SUFFICES ASSUME IInv, ExportKnown, [Next]_vars PROVE ExportKnown'
  OBVIOUS
<1>0. DiskTyped
  BY DEF IInv
<1>1. CASE UNCHANGED vars
  BY <1>1 DEF vars, globals, disk, ExportKnown, JsonExported
<1>2. CASE ~WholeJson(outcome')
  BY <1>2 DEF WholeJson, ExportKnown, JsonExported
<1>3. CASE ExportsJson
  <2>1. obj.logs \in Seq(Entries) /\ obj.logs # << >>
    BY <1>3 DEF ExportsJson, HasData, TotalRequests, IInv, GlobalsTyped, IsObject
  <2> QED BY <1>0, <1>3, <2>1 DEF ExportsJson, globals, DiskTyped, ExportKnown
<1>4. ASSUME NEW f \in Names, NEW c \in Foreign, ForeignWrite(f, c) PROVE ExportKnown'
  <2>1. CASE outcome.file = f
    <3>1. ~written'[f].ours
      BY <1>0, <1>4 DEF ForeignWrite, DiskTyped, NotOurs
    <3> QED BY <1>4, <2>1, <3>1 DEF ForeignWrite, ExportKnown, JsonExported
  <2>2. CASE outcome.file # f
    BY <1>0, <1>4, <2>2 DEF ForeignWrite, globals, DiskTyped, ExportKnown, JsonExported
  <2> QED BY <2>1, <2>2
<1>5. CASE MemoryReused
  BY <1>5 DEF MemoryReused, disk, ExportKnown, JsonExported
<1> QED BY <1>1, <1>2, <1>3, <1>4, <1>5, MessagesMove

(* A JSON export that was not cut off and whose records survive the        *)
(* printing loads again with the same logs (src/analyzer.cpp:311-332).     *)
THEOREM ExportsReload == Spec => []WholeExportReloads
<1>1. Init => ExportKnown
  BY DEF Init, NoOutcome, ExportKnown, JsonExported
<1>2. IInv /\ ExportKnown => WholeExportReloads
  BY RoundTrip DEF ExportKnown, WholeExportReloads, Faithful
<1> QED BY <1>1, <1>2, ExportKnownStep, Invariance, PTL DEF Spec

-----------------------------------------------------------------------------
(***************************************************************************)
(* Reading back.  Whatever happened between an export and a load, a file   *)
(* the program wrote last itself holds what an export of the logs it noted *)
(* may leave, and what a load read from it is still on the screen.         *)
(***************************************************************************)
FilesKnown ==
  \A f \in Names : written[f].ours => files[f] \in WB!Exports(written[f].logs)

LoadKnown ==
  outcome.what = "load" /\ outcome.ok =>
    LET export == written[outcome.file]
    IN  /\ outcome.file \in Names
        /\ export.ours /\ Faithful(export.logs) => IsPrefix(obj.logs, export.logs)

LEMMA FilesKnownStep == IInv /\ FilesKnown /\ [Next]_vars => FilesKnown'
<1> SUFFICES ASSUME IInv, FilesKnown, [Next]_vars PROVE FilesKnown'
  OBVIOUS
<1>0. DiskTyped
  BY DEF IInv
<1>1. CASE UNCHANGED <<files, written>>
  BY <1>1 DEF FilesKnown
<1>2. CASE WritesFile
  <2>1. PICK f \in Names, c \in WB!Exports(obj.logs), logs \in {obj.logs, << >>} :
          Put(f, c, logs) /\ c \in WB!Exports(logs)
    BY <1>2 DEF WritesFile
  <2>2. ASSUME NEW g \in Names PROVE written'[g].ours => files'[g] \in WB!Exports(written'[g].logs)
    <3>1. CASE g = f
      BY <1>0, <2>1, <3>1 DEF Put, DiskTyped
    <3>2. CASE g # f
      BY <1>0, <2>1, <3>2 DEF Put, DiskTyped, FilesKnown
    <3> QED BY <3>1, <3>2
  <2> QED BY <2>2 DEF FilesKnown
<1>3. CASE OthersWrite
  <2>1. PICK f \in Names : \E c \in Foreign : /\ files' = [files EXCEPT ![f] = c]
                                             /\ written' = [written EXCEPT ![f] = NotOurs]
    BY <1>3 DEF OthersWrite
  <2>2. ~NotOurs.ours
    BY DEF NotOurs
  <2>3. ASSUME NEW g \in Names PROVE written'[g].ours => files'[g] \in WB!Exports(written'[g].logs)
    BY <1>0, <2>1, <2>2 DEF DiskTyped, FilesKnown
  <2> QED BY <2>3 DEF FilesKnown
<1>4. CASE UNCHANGED vars
  BY <1>4 DEF vars, disk, FilesKnown
<1> QED BY <1>1, <1>2, <1>3, <1>4, FilesMove

(* What is loaded from an export, whole or cut off, is a beginning of it,  *)
(* when every record survives the printing.                                *)
LEMMA ExportsGiveBeginnings ==
  ASSUME NEW logs \in Seq(Entries), Faithful(logs),
         NEW c \in WB!Exports(logs), HasLogEntries(c)
  PROVE  IsPrefix(AsLogEntries(c), logs)
<1>1. ASSUME NEW k \in 0 .. Len(logs)
      PROVE  AsLogEntries(JsonOf(SubSeq(logs, 1, k))) = SubSeq(logs, 1, k)
  <2> DEFINE part == SubSeq(logs, 1, k)
  <2>1. part \in Seq(Entries) /\ \A i \in DOMAIN part : i \in DOMAIN logs /\ part[i] = logs[i]
    OBVIOUS
  <2>2. \A i \in DOMAIN part : ReadBack[part[i]] = part[i]
    BY <2>1 DEF Faithful
  <2> HIDE DEF part
  <2>3. \A i \in DOMAIN part : part[i] \in Entries
    BY <2>1
  <2>4. Survives(part)
    BY <2>2, <2>3, EntriesAssumption DEF Survives
  <2>5. [i \in DOMAIN part |-> ReadBack[part[i]]] = part
    BY <2>1, <2>2
  <2>6. JsonOf(part) = ArrayOf(part)
    BY <2>4, <2>5 DEF JsonOf
  <2>7. AsLogEntries(ArrayOf(part)) = part
    BY <2>1, KeptAll DEF AsLogEntries, ArrayOf
  <2> QED BY <2>6, <2>7 DEF part
<1>2. ASSUME NEW k \in 0 .. Len(logs) PROVE IsPrefix(SubSeq(logs, 1, k), logs)
  <2>1. Len(SubSeq(logs, 1, k)) = k
    BY <1>2
  <2>2. SubSeq(SubSeq(logs, 1, k), 1, k) = SubSeq(logs, 1, k)
    BY <1>2
  <2> QED BY <1>2, <2>1, <2>2 DEF IsPrefix
<1>3. SubSeq(logs, 1, Len(logs)) = logs
  OBVIOUS
<1>4. /\ ~HasLogEntries(Garbage) /\ ~HasLogEntries(TopList)
      /\ \A l : ~HasLogEntries(CsvOf(l))
  BY DEF HasLogEntries, Garbage, TopList, CsvOf
<1>5. c = JsonOf(logs) \/ c \in TornJson(logs)
  BY <1>4, SameWriting DEF TornCsv
<1>6. \E k \in 0 .. Len(logs) : c = JsonOf(SubSeq(logs, 1, k))
  <2>1. CASE c = JsonOf(logs)
    <3>1. Len(logs) \in 0 .. Len(logs)
      OBVIOUS
    <3>2. c = JsonOf(SubSeq(logs, 1, Len(logs)))
      BY <1>3, <2>1, Zenon
    <3> QED BY <3>1, <3>2, Zenon
  <2>2. CASE c \in TornJson(logs)
    BY <1>4, <2>2 DEF TornJson
  <2> QED BY <1>5, <2>1, <2>2
<1> QED BY <1>1, <1>2, <1>6

LEMMA LoadKnownStep ==
  ASSUME ~AllocMayFail, IInv, FilesKnown, LoadKnown, [Next]_vars
  PROVE  /\ LoadKnown'
         /\ NewLoad =>
              LET export == written[outcome'.file]
              IN  export.ours /\ Faithful(export.logs) => IsPrefix(obj'.logs, export.logs)
<1>0. DiskTyped
  BY DEF IInv
<1>1. CASE UNCHANGED vars
  BY <1>1 DEF vars, globals, disk, LoadKnown, NewLoad
<1>2. CASE ~NewLoad
  BY <1>2 DEF NewLoad, LoadKnown
<1>3. CASE Loads
  <2>1. PICK f \in Names :
          LET logs == AsLogEntries(files[f])
          IN  /\ HasLogEntries(files[f]) /\ obj' = Constructed(logs)
              /\ outcome' = LoadOutcome(f, TRUE)
    BY <1>3, LoadsComplete
  <2>2. outcome'.file = f /\ obj'.logs = AsLogEntries(files[f])
    BY <2>1 DEF LoadOutcome, NoOutcome, Constructed
  <2>3. written[f].logs \in Seq(Entries) /\ UNCHANGED <<files, written>>
    BY <1>0, <1>3 DEF DiskTyped, Loads, disk
  <2>4. written[f].ours /\ Faithful(written[f].logs) => IsPrefix(obj'.logs, written[f].logs)
    BY <2>1, <2>2, <2>3, ExportsGiveBeginnings DEF FilesKnown
  <2> QED BY <2>2, <2>3, <2>4 DEF LoadKnown
<1>4. ASSUME NewLoad, NEW f \in Names, NEW c \in Foreign, ForeignWrite(f, c)
      PROVE  /\ LoadKnown'
             /\ LET export == written[outcome'.file]
                IN  export.ours /\ Faithful(export.logs) => IsPrefix(obj'.logs, export.logs)
  <2>1. UNCHANGED outcome /\ UNCHANGED obj
    BY <1>4 DEF ForeignWrite, globals
  <2>2. outcome.file \in Names
        /\ LET export == written[outcome.file]
           IN  export.ours /\ Faithful(export.logs) => IsPrefix(obj.logs, export.logs)
    BY <1>4, <2>1 DEF NewLoad, LoadKnown
  <2>3. CASE outcome.file = f
    <3>1. ~written'[f].ours
      BY <1>0, <1>4 DEF ForeignWrite, DiskTyped, NotOurs
    <3> QED BY <2>1, <2>2, <2>3, <3>1 DEF LoadKnown
  <2>4. CASE outcome.file # f
    <3>1. written'[outcome.file] = written[outcome.file]
      BY <1>0, <1>4, <2>2, <2>4 DEF ForeignWrite, DiskTyped
    <3> QED BY <2>1, <2>2, <3>1 DEF LoadKnown
  <2> QED BY <2>3, <2>4
<1> QED BY <1>1, <1>2, <1>3, <1>4, GlobalsMove, NothingFreed
        DEF Idles, Builds, Leaves, MemoryReused, NewLoad, NoOutcome

(* A load of a file the program wrote last itself yields a beginning of    *)
(* the records exported, however early the export stopped, when all of     *)
(* them survive the printing (src/analyzer.cpp:311-332,                    *)
(* src/json_parser.cpp:112-144 and 413-440).                               *)
THEOREM Reloading ==
  ASSUME ~AllocMayFail
  PROVE  Spec => ReloadNeverInvents
<1>1. Init => FilesKnown /\ LoadKnown
  BY DEF Init, NotOurs, NoOutcome, FilesKnown, LoadKnown
<1>2. IInv /\ FilesKnown /\ LoadKnown /\ [Next]_vars => (FilesKnown /\ LoadKnown)'
  BY FilesKnownStep, LoadKnownStep
<1>3. IInv /\ FilesKnown /\ LoadKnown /\ [Next]_vars =>
        [outcome'.what = "load" /\ outcome'.ok =>
           LET export == written[outcome'.file]
           IN  export.ours /\ Faithful(export.logs) =>
                 IsPrefix(obj'.logs, export.logs)]_vars
  BY LoadKnownStep DEF NewLoad
<1> QED BY <1>1, <1>2, <1>3, Invariance, PTL DEF Spec, ReloadNeverInvents

-----------------------------------------------------------------------------
(* Listing a page reads records of the list only.                          *)
LEMMA ListingReadsLogs ==
  ASSUME NEW logs \in Seq(Entries), NEW T, ListingThrows(Filtered(logs, T))
  PROVE  \E i \in DOMAIN logs : logs[i].ts \in ShortTs
<1> DEFINE shown == Filtered(logs, T)
           E     == {logs[i] : i \in DOMAIN logs} \cap T
           last  == Min({PageSize, Len(shown)})
<1>1. shown \in Seq(E)
  BY FilteredType
<1> HIDE DEF shown, E
<1>2. Len(shown) \in Nat /\ PageSize \in Nat
  BY <1>1, SessionAssumption
<1>3. last \in {PageSize, Len(shown)} /\ last <= Len(shown)
  <2>1. \E x \in {PageSize, Len(shown)} : \A y \in {PageSize, Len(shown)} : x <= y
    BY <1>2
  <2> QED BY <2>1, Zenon DEF Min
<1> HIDE DEF last
<1>4. PICK i \in DOMAIN SubSeq(shown, 1, last) : SubSeq(shown, 1, last)[i].ts \in ShortTs
  BY DEF ListingThrows, PageOf, shown, last
<1>5. last \in Nat
  BY <1>2, <1>3
<1>6. i \in DOMAIN shown /\ SubSeq(shown, 1, last)[i] = shown[i]
  BY <1>1, <1>3, <1>4, <1>5
<1>7. shown[i] \in E
  BY <1>1, <1>6
<1>8. PICK j \in DOMAIN logs : shown[i] = logs[j]
  BY <1>7 DEF E
<1> QED BY <1>4, <1>6, <1>8

(* The two ways into a critical error, when memory does not run out.       *)
LEMMA CriticalMoves ==
  ASSUME ~AllocMayFail, Next, mode # "critical", mode' = "critical"
  PROVE  /\ HasData
         /\ \/ \E m \in DOMAIN UpperCase : ListingThrows(FilterByMethod(obj, UpperCase[m]))
            \/ ~CurrentFileParses
<1>a. ASSUME NEW result PROVE ~Back(result)
  BY DEF Back, BackToLoop
<1>b. ASSUME NEW f, NEW whole, NEW torn, NEW result PROVE ~Write(f, whole, torn, result)
  BY WriteEnds DEF Ends
<1>c. ASSUME NEW f, NEW what, NEW asked, NEW told PROVE ~ExportCsv(f, what, asked, told)
  BY <1>a, <1>b DEF ExportCsv, WriteRefused, Told
<1>d. ASSUME NEW f, NEW told PROVE ~ExportJson(f, told)
  BY <1>a, <1>b DEF ExportJson, JsonFails, WriteRefused, Told
<1>e. ASSUME NEW f, NEW what PROVE ~ExportTop(f, what)
  BY <1>a, <1>b DEF ExportTop
<1>f. ~NoData /\ \A what, ok : ~Told(what, ok)
  BY <1>a DEF NoData, Told
<1>1. ~(DrawMenu \/ ChooseExit \/ CriticalError \/ CleanUp \/ UseCrashes \/ Kill \/ Restart)
        /\ ~MemoryReused
  BY DEF DrawMenu, ChooseExit, CriticalError, CleanUp, UseCrashes, Kill, Restart,
         MemoryReused
<1>2. ~(\E f \in Names : KillInExport(f)) /\ ~(\E f \in Names, c \in Foreign : ForeignWrite(f, c))
  BY DEF KillInExport, ForeignWrite
<1>3. Handlers
  BY <1>1, <1>2 DEF Next
<1>4. ~(LoadNothing \/ ShowStatistics \/ ExportCancelled \/ OutOfMemory \/ UnknownChoice)
  BY <1>a, <1>f DEF LoadNothing, ShowStatistics, ExportCancelled, OutOfMemory, UnknownChoice
<1>5. \A f \in Names : ~LoadLogs(f)
  BY <1>a DEF LoadLogs, LoadRefused, LoadAccepted, BackFromLoad, BackToLoop
<1>6. \A line \in Lines, n \in Numbers : ~ShowTopIPs(line, n) /\ ~ShowTopURLs(line, n)
  BY <1>a, <1>f DEF ShowTopIPs, ShowTopURLs, ShowTop
<1>7. \A line \in Lines, s \in Numbers, export \in BOOLEAN, f \in Names :
        ~FilterStatus(line, s, export, f)
  <2> SUFFICES ASSUME NEW line \in Lines, NEW s \in Numbers, NEW export \in BOOLEAN,
                      NEW f \in Names
               PROVE  ~FilterStatus(line, s, export, f)
    OBVIOUS
  <2> DEFINE filtered == FilterByStatus(obj, s)
  <2>1. ~Told("cancelled", TRUE) /\ ~Told("format", FALSE) /\ ~Told("range", FALSE)
        /\ ~Told("status", TRUE) /\ ~ExportCsv(f, "statusExport", filtered, f)
    BY <1>c, <1>f
  <2> HIDE DEF filtered
  <2> QED BY <1>f, <2>1, Zenon DEF FilterStatus, filtered
<1>8. \A choice \in ExportChoices, f \in Names : ~ExportResults(choice, f)
  BY <1>a, <1>c, <1>d, <1>e, <1>f DEF ExportResults
<1>9. ASSUME NEW m \in DOMAIN UpperCase, NEW show \in BOOLEAN, FilterMethod(m, show)
      PROVE  HasData /\ ListingThrows(FilterByMethod(obj, UpperCase[m]))
  BY <1>9, <1>f DEF FilterMethod
<1>10. Benchmark => HasData /\ ~CurrentFileParses
  BY <1>a, <1>f DEF Benchmark
<1> QED BY <1>3, <1>4, <1>5, <1>6, <1>7, <1>8, <1>9, <1>10 DEF Handlers

(* A session ends with a critical error only because a listing met a short *)
(* timestamp or the benchmark found its file gone or unreadable            *)
(* (src/main.cpp:425 and 610).                                             *)
THEOREM CriticalErrors ==
  ASSUME ~AllocMayFail
  PROVE  Spec => CriticalHasCause
<1> DEFINE Step ==
      mode' = "critical" /\ mode # "critical" =>
        \/ \E i \in DOMAIN obj.logs : obj.logs[i].ts \in ShortTs
        \/ ~Parses(files[currentFileName])
<1>1. IInv /\ [Next]_vars => [Step]_vars
  <2> SUFFICES ASSUME IInv, Next, mode # "critical", mode' = "critical"
               PROVE  \/ \E i \in DOMAIN obj.logs : obj.logs[i].ts \in ShortTs
                      \/ ~Parses(files[currentFileName])
    OBVIOUS
  <2>1. obj.logs \in Seq(Entries)
    BY DEF IInv, GlobalsTyped, IsObject
  <2>2. currentFileName \in Names
    BY CriticalMoves, NothingFreed DEF HasData
  <2>3. CASE ~CurrentFileParses
    BY <2>2, <2>3 DEF CurrentFileParses
  <2>4. ASSUME NEW m \in DOMAIN UpperCase, ListingThrows(FilterByMethod(obj, UpperCase[m]))
        PROVE  \E i \in DOMAIN obj.logs : obj.logs[i].ts \in ShortTs
    <3> DEFINE T == {e \in Entries : UpperCase[e.method] = UpperCase[UpperCase[m]]}
    <3>1. FilterByMethod(obj, UpperCase[m]) = Filtered(obj.logs, T)
      BY DEF FilterByMethod
    <3> HIDE DEF T
    <3> QED BY <2>1, <2>4, <3>1, ListingReadsLogs
  <2> QED BY <2>3, <2>4, CriticalMoves
<1>2. [][IInv /\ [Next]_vars]_vars => CriticalHasCause
  BY <1>1, PTL DEF CriticalHasCause
<1> QED BY <1>2, Invariance, PTL DEF Spec
=============================================================================
