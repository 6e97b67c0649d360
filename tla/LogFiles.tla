------------------------------ MODULE LogFiles ------------------------------
(***************************************************************************)
(* The data the analyzer works on: log records (include/log_entry.h), the  *)
(* files they are read from and written to, and what the JSON and CSV      *)
(* conversions of src/json_parser.cpp and src/analyzer.cpp make of them.   *)
(* The module has operators only; the machines that own files and objects  *)
(* (LogAnalyzer, Session) extend it.                                       *)
(*                                                                         *)
(* A record is an element of Entries: a record with the fields ts, ip,     *)
(* method, url and status.  Nothing validates what is loaded, so Entries   *)
(* may hold records LogEntry::isValid would refuse.  Timestamps are        *)
(* naturals that stand for the position of the string in the byte order    *)
(* std::string compares by; 0 is the empty string, the least of them.      *)
(***************************************************************************)
EXTENDS Integers, Sequences

CONSTANTS
  Entries,      \* the log records that occur
  Junk,         \* an array element asLogEntries skips
  Broken,       \* "the text of this record is not JSON": a value of ReadBack
  ReadBack,     \* what the parser makes of a record the program has written
  Names         \* file names, each a sequence: the stem, then its extensions

ASSUME EntriesAssumption ==
  /\ Entries \subseteq [ts : Nat, ip : STRING, method : STRING,
                        url : STRING, status : Int]
  /\ Junk \notin Entries
  /\ Broken \notin Entries \cup {Junk}
  /\ ReadBack \in [Entries -> Entries \cup {Junk, Broken}]

ASSUME NamesAssumption ==
  \A f \in Names : f \in Seq(STRING) /\ f # << >>

-----------------------------------------------------------------------------
(***************************************************************************)
(* File contents.  "absent": the file cannot be opened; "garbage": text    *)
(* the JSON parser refuses; "object": JSON that is not an array; "array":  *)
(* a JSON array; "csv": a CSV export, which the parser refuses at its      *)
(* first letter; "top": an exported top list, refused in the same way.     *)
(***************************************************************************)
Absent  == [kind |-> "absent",  items |-> << >>]
Garbage == [kind |-> "garbage", items |-> << >>]
Object  == [kind |-> "object",  items |-> << >>]
TopList == [kind |-> "top",     items |-> << >>]

ArrayOf(items) == [kind |-> "array", items |-> items]
CsvOf(logs)    == [kind |-> "csv",   items |-> logs]

Contents ==
  [kind : {"absent", "garbage", "object", "top"}, items : {<< >>}]
    \cup [kind : {"array"}, items : Seq(Entries \cup {Junk})]
    \cup [kind : {"csv"},   items : Seq(Entries)]

(* JsonParser::loadFromFile returns (or throws). *)
Parses(c) == c.kind \in {"object", "array"}

(***************************************************************************)
(* The elements of s that are in T, in their order: what copy_if keeps for *)
(* a predicate, given as the set of records it holds for, and what the     *)
(* loop of asLogEntries keeps of an array.  Written as a function so that  *)
(* it can be reasoned about; kept[i] is what is left of the first i.       *)
(***************************************************************************)
Filtered(s, T) ==
  LET kept[i \in 0 .. Len(s)] ==
        IF i = 0 THEN << >>
        ELSE IF s[i] \in T THEN Append(kept[i - 1], s[i])
        ELSE kept[i - 1]
  IN  kept[Len(s)]

(* The records among the elements of an array.                             *)
Kept(items) == Filtered(items, Entries)

(* JsonValue::asLogEntries throws unless the value is an array, and skips  *)
(* elements that are no objects, lack a field or mistype it.               *)
HasLogEntries(c) == c.kind = "array"
AsLogEntries(c)  == Kept(c.items)

(* A file loadLogs accepts: it parses, is an array, and holds a record.    *)
Loadable(c) == HasLogEntries(c) /\ AsLogEntries(c) # << >>

-----------------------------------------------------------------------------
(* The file exportToJson leaves: toString escapes nothing and prints       *)
(* numbers with six digits, so a record need not come back as itself.      *)
Survives(logs) == \A i \in DOMAIN logs : ReadBack[logs[i]] # Broken

(* A fault: the loop over the records ends one too early.                  *)
JsonOfShort(logs) ==
  IF Survives(logs) THEN ArrayOf([i \in 1 .. Len(logs) - 1 |-> ReadBack[logs[i]]])
                    ELSE Garbage

JsonOf(logs) ==
  IF Survives(logs) THEN ArrayOf([i \in DOMAIN logs |-> ReadBack[logs[i]]])
                    ELSE Garbage

(* A fault: the records are written last to first, each in its place.      *)
TornJsonTail(logs) ==
  {Garbage} \cup {JsonOf(SubSeq(logs, k + 1, Len(logs))) : k \in 1 .. Len(logs)}

(* What is left of a JSON export that stopped before its end.  parseArray  *)
(* leaves its loop when the text ends right after a comma (or after the    *)
(* opening bracket) and returns what it has; anywhere else it throws.      *)
TornJson(logs) ==
  {Garbage} \cup {JsonOf(SubSeq(logs, 1, k)) : k \in 0 .. Len(logs) - 1}

(* What is left of a CSV export that stopped before its end.               *)
TornCsv(logs) == {CsvOf(SubSeq(logs, 1, k)) : k \in 0 .. Len(logs) - 1}

-----------------------------------------------------------------------------
(* exportResults: if (!filename.ends_with(".csv")) filename += ".csv".     *)
EndsWith(f, ext) == f[Len(f)] = ext
WithExtension(f, ext) == IF EndsWith(f, ext) THEN f ELSE Append(f, ext)
=============================================================================
