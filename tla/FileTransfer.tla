---------------------------- MODULE FileTransfer ----------------------------
(***************************************************************************)
(* One file, read by the program while another process writes it.          *)
(*                                                                         *)
(* The readers, JsonParser::loadFromFile and WindowsUtils::readFileToString*)
(* ask for the size of the file first and for its bytes afterwards, in as  *)
(* many blocks as the library likes; the writers, JsonParser::saveToFile   *)
(* and WindowsUtils::writeStringToFile (in a second instance of the        *)
(* program, say), empty the file when they open it and hand their text over*)
(* buffer by buffer.  Nobody locks anything.                               *)
(*                                                                         *)
(* Session takes a handler's use of a file for one step; this module says  *)
(* what that leaves out.  A block is a record, a bracket or a comma.       *)
(***************************************************************************)
EXTENDS Integers, Sequences

CONSTANTS
  Records,      \* the records that occur
  Logs,         \* the lists of records that are written
  BufferSize    \* the blocks a stream keeps before it writes them

Marks  == {"[", ",", "]", "nul"}
Blocks == Records \cup Marks

ASSUME TransferAssumption ==
  /\ Records \cap Marks = {}
  /\ Logs \subseteq Seq(Records) \ {<< >>}
  /\ BufferSize \in Nat \ {0}

VARIABLES
  file,     \* the blocks in the file
  target,   \* history: the records whose text was begun last in this file
  writer,   \* the process that writes
  reader,   \* the program
  result,   \* what the last read has returned
  raced     \* history: the file was emptied since the reader asked its size

vars == <<file, target, writer, reader, result, raced>>

-----------------------------------------------------------------------------
(* JsonParser::toString of an array of records.                            *)
TextOf(logs) ==
  [i \in 1 .. 2 * Len(logs) + 1 |->
     IF i = 1 THEN "["
     ELSE IF i = 2 * Len(logs) + 1 THEN "]"
     ELSE IF i % 2 = 0 THEN logs[i \div 2] ELSE ","]

(* JsonParser::parse of such a text: what it takes for an array.  A text   *)
(* that ends behind a comma, or behind the opening bracket, is taken too.  *)
Element(b)   == b \in Records
Separates(b) == b = ","

(* A fault: what follows the array is not looked at.                       *)
ParsesWithRest(text) ==
  /\ text # << >> /\ text[1] = "["
  /\ \E n \in DOMAIN text :
       /\ n % 2 = 1
       /\ \A i \in 2 .. n : IF i % 2 = 0 THEN Element(text[i])
                            ELSE Separates(text[i]) \/ (i = n /\ text[i] = "]")
       /\ n = Len(text) \/ text[n] = "]"

Parses(text) ==
  /\ text # << >> /\ text[1] = "["
  /\ \/ /\ Len(text) % 2 = 1
        /\ \A i \in 2 .. Len(text) :
             IF i % 2 = 0 THEN Element(text[i])
             ELSE Separates(text[i]) \/ (i = Len(text) /\ text[i] = "]")
     \/ Len(text) = 2 /\ text[2] = "]"

RecordsIn(text) == [i \in 1 .. (Len(text) - 1) \div 2 |-> text[2 * i]]

-----------------------------------------------------------------------------
NoResult    == [what |-> "none", text |-> << >>, records |-> << >>, short |-> FALSE]
IdleWriter  == [at |-> "idle", fn |-> "saveToFile", todo |-> << >>, buf |-> << >>,
                good |-> TRUE, told |-> "nothing"]
IdleReader  == [at |-> "idle", fn |-> "loadFromFile", size |-> 0, got |-> << >>]

Init ==
  /\ target \in Logs /\ file = TextOf(target)
  /\ writer = IdleWriter /\ reader = IdleReader
  /\ result = NoResult /\ raced = FALSE

(* The writers.                                                            *)
(* A fault: the file is opened to be appended to.                          *)
OpensAppending(fn, logs) ==
  /\ writer.at = "idle"
  /\ file' = file /\ target' = logs /\ raced' = TRUE
  /\ writer' = [IdleWriter EXCEPT !.at = "writing", !.fn = fn, !.todo = TextOf(logs)]
  /\ UNCHANGED <<reader, result>>

Opens(fn, logs) ==
  /\ writer.at = "idle"
  /\ file' = << >> /\ target' = logs /\ raced' = TRUE
  /\ writer' = [IdleWriter EXCEPT !.at = "writing", !.fn = fn, !.todo = TextOf(logs)]
  /\ UNCHANGED <<reader, result>>

OpenRefused(fn) ==
  /\ writer.at = "idle"
  /\ writer' = [IdleWriter EXCEPT !.fn = fn, !.told = "failed"]
  /\ UNCHANGED <<file, target, reader, result, raced>>

(* A block goes to the buffer; after an error the stream takes nothing.    *)
Buffer ==
  /\ writer.at = "writing" /\ writer.todo # << >> /\ writer.good
  /\ Len(writer.buf) < BufferSize
  /\ writer' = [writer EXCEPT !.buf = Append(writer.buf, Head(writer.todo)),
                              !.todo = Tail(writer.todo)]
  /\ UNCHANGED <<file, target, reader, result, raced>>

(* A full buffer is written.  On a full disk only a part of it is.         *)
Flush ==
  /\ writer.at = "writing" /\ writer.todo # << >> /\ writer.good
  /\ Len(writer.buf) = BufferSize
  /\ \/ file' = file \o writer.buf /\ writer' = [writer EXCEPT !.buf = << >>]
     \/ \E k \in 0 .. Len(writer.buf) - 1 :
          /\ file' = file \o SubSeq(writer.buf, 1, k)
          /\ writer' = [writer EXCEPT !.good = FALSE]
  /\ UNCHANGED <<target, reader, result, raced>>

(* return file.good(); saveToFile looks at nothing.                        *)
(* A fault: nobody looks.                                                  *)
TellsAlways == "done"

Tells == IF writer.fn = "saveToFile" \/ writer.good THEN "done" ELSE "failed"

Finish ==
  /\ writer.at = "writing" /\ (writer.todo = << >> \/ ~writer.good)
  /\ writer' = [writer EXCEPT !.at = "closing", !.told = Tells]
  /\ UNCHANGED <<file, target, reader, result, raced>>

(* The close writes what the buffer holds, and its failure is not seen.    *)
Close ==
  /\ writer.at = "closing"
  /\ writer' = [writer EXCEPT !.at = "idle", !.todo = << >>, !.buf = << >>]
  /\ \E k \in 0 .. Len(writer.buf) :
       file' = IF writer.good THEN file \o SubSeq(writer.buf, 1, k) ELSE file
  /\ UNCHANGED <<target, reader, result, raced>>

(* The writing process is killed: what is in its buffer is lost.           *)
WriterDies ==
  /\ writer.at # "idle" /\ writer' = IdleWriter
  /\ UNCHANGED <<file, target, reader, result, raced>>

Writes ==
  \/ \E fn \in {"saveToFile", "writeStringToFile"} :
       (\E logs \in Logs : Opens(fn, logs)) \/ OpenRefused(fn)
  \/ Buffer \/ Flush \/ Finish \/ Close \/ WriterDies

-----------------------------------------------------------------------------
(* The readers: the size first (seekg, tellg).                             *)
AskSize(fn) ==
  /\ reader.at = "idle"
  /\ reader' = [at |-> "reading", fn |-> fn, size |-> Len(file), got |-> << >>]
  /\ raced' = FALSE /\ result' = NoResult
  /\ UNCHANGED <<file, target, writer>>

Got      == Len(reader.got)
AtEnd    == Got >= Len(file)

ReadDone == Got = reader.size \/ AtEnd

ReadBlock ==
  /\ reader.at = "reading" /\ Got < reader.size /\ ~AtEnd
  /\ reader' = [reader EXCEPT !.got = Append(@, file[Got + 1])]
  /\ UNCHANGED <<file, target, writer, result, raced>>

(* The buffer was made for the size asked: what was not read stays zero.   *)
Padding(n) == [i \in 1 .. n |-> "nul"]
Content    == reader.got \o Padding(reader.size - Got)
IsShort    == Got < reader.size

(* loadFromFile parses whatever is in the buffer; readFileToString throws  *)
(* when the read came short.                                               *)
Returned ==
  IF reader.fn = "readFileToString"
  THEN IF IsShort THEN [NoResult EXCEPT !.what = "thrown", !.short = TRUE]
       ELSE [NoResult EXCEPT !.what = "string", !.text = Content]
  ELSE IF Parses(Content)
  THEN [NoResult EXCEPT !.what = "records", !.records = RecordsIn(Content),
                        !.short = IsShort]
  ELSE [NoResult EXCEPT !.what = "thrown", !.short = IsShort]

Return ==
  /\ reader.at = "reading" /\ ReadDone
  /\ result' = Returned /\ reader' = [IdleReader EXCEPT !.fn = reader.fn]
  /\ UNCHANGED <<file, target, writer, raced>>

Reads ==
  \/ \E fn \in {"loadFromFile", "readFileToString"} : AskSize(fn)
  \/ ReadBlock \/ Return

Next == Writes \/ Reads

Spec == Init /\ [][Next]_vars

-----------------------------------------------------------------------------
TypeOK ==
  /\ file \in Seq(Blocks) /\ target \in Logs /\ raced \in BOOLEAN
  /\ writer \in [at : {"idle", "writing", "closing"},
                 fn : {"saveToFile", "writeStringToFile"},
                 todo : Seq(Blocks), buf : Seq(Blocks), good : BOOLEAN,
                 told : {"nothing", "done", "failed"}]
  /\ Len(writer.buf) <= BufferSize
  /\ reader \in [at : {"idle", "reading"}, fn : {"loadFromFile", "readFileToString"},
                 size : Nat, got : Seq(Blocks)]
  /\ Len(reader.got) <= reader.size
  /\ result \in [what : {"none", "records", "string", "thrown"}, text : Seq(Blocks),
                 records : Seq(Records), short : BOOLEAN]

(* file.read is not looked at in loadFromFile: when the file has shrunk    *)
(* since its size was asked, the text is padded with zeros and parsed      *)
(* (src/json_parser.cpp:276-294).  No such text is ever taken, wherever    *)
(* the bytes stop.                                                         *)
ShortReadNeverLoads == result.short => result.what = "thrown"

IsPrefixOf(s, t) == Len(s) <= Len(t) /\ \A i \in DOMAIN s : s[i] = t[i]

(* Unless the file is emptied between the look at its size and the last    *)
(* byte, a read made while the file grows, is cut off or is left behind by *)
(* a dead writer gives the first records of one list, in their order, and  *)
(* never a mixture (src/json_parser.cpp:264-295,                           *)
(* src/windows_utils.cpp:59-74).                                           *)
ReadsOneVersion ==
  /\ result.what = "records" /\ ~raced => IsPrefixOf(result.records, target)
  /\ result.what = "string" /\ ~raced  => IsPrefixOf(result.text, TextOf(target))

(* A file that was whole when its size was asked is read whole.            *)
WholeFileIsReadWhole ==
  [][reader.at = "reading" /\ reader'.at = "idle" /\ ~raced
       /\ reader.size = Len(TextOf(target)) =>
     \/ result'.what = "records" /\ result'.records = target
     \/ result'.what = "string" /\ result'.text = TextOf(target)]_vars

(* writeStringToFile looks at the stream after the write and before the    *)
(* close: when it returns true no more than one buffer is missing from the *)
(* file, and what is there is the beginning of the text                    *)
(* (src/windows_utils.cpp:83-84).                                          *)
DoneUpToLastBuffer ==
  writer.told = "done" /\ writer.fn = "writeStringToFile" =>
    /\ IsPrefixOf(file, TextOf(target))
    /\ Len(file) + BufferSize >= Len(TextOf(target))

=============================================================================
