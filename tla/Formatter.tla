----------------------------- MODULE Formatter -----------------------------
(***************************************************************************)
(* LogFormatter (src/formatter.cpp) driven through its public interface:   *)
(* tables, and one ProgressBar whose members are ints of limited width.    *)
(* The program calls formatTable and formatTopTable (src/main.cpp:139, 197,*)
(* 249); nothing in it calls formatLogsTable or makes a ProgressBar.       *)
(***************************************************************************)
EXTENDS TextTable

CONSTANTS
  MaxInt,       \* the largest int
  Totals, Widths, Steps,        \* arguments of ProgressBar's methods
  Tables,       \* the arguments of formatTable: data, headers, config
  Tops,         \* the lists formatTopTable is given: pairs of texts
  Columns,      \* the headers formatTopTable and formatLogsTable are given
  Logs, MaxRows, Config         \* the arguments of formatLogsTable

IsConfig(config) ==
  /\ config.showBorder \in BOOLEAN /\ config.showHeader \in BOOLEAN
  /\ config.altRowColor \in BOOLEAN
  /\ config.minColumnWidth \in Nat /\ config.maxColumnWidth \in Nat

(* Bytes of texts: neither a space nor a border is one.                    *)
Glyphs == {"a", "lead", "cont", "."}
Texts  == Seq(Glyphs)

(* Columns are as many as a record has cells.                              *)
FormatterTyped ==
  /\ MaxInt \in Nat /\ Totals \cup Steps \subseteq -MaxInt - 1 .. MaxInt
  /\ Widths \subseteq 0 .. MaxInt
  /\ \A t \in Tables : /\ t.data \in Seq(Seq(Texts)) /\ t.headers \in Seq(Texts)
                       /\ IsConfig(t.config)
  /\ Tops \subseteq Seq(Seq(Texts)) /\ Columns \in Seq(Texts) /\ Len(Columns) = 5
  /\ Logs \subseteq Seq([timestamp : Texts, ip : Texts, method : Texts, url : Texts,
                        status : Texts])
  /\ MaxRows \subseteq Int /\ IsConfig(Config) /\ CutsTyped

ASSUME FormatterAssumption == FormatterTyped

VARIABLES
  bar,          \* the ProgressBar: total, current, width
  shown         \* the last call and what it returned

formatterVars == <<bar, shown>>

(* Arithmetic on ints that leaves their range comes back at the other end. *)
Wrap(n) == ((n + MaxInt + 1) % (2 * MaxInt + 2)) - (MaxInt + 1)

NewBar(total, width) == [total |-> total, current |-> 0, width |-> width]

Silence == [call |-> "none"]

(* Tables know nothing of bars, or of the tables before them: they are     *)
(* asked for while there is neither.                                       *)
NoBar == [total |-> 0, current |-> 0, width |-> -1]
Alive == bar # NoBar
Clear == bar = NoBar /\ shown = Silence

FormatterInit == bar = NoBar /\ shown = Silence

-----------------------------------------------------------------------------
Clamped(value) == AtMost(AtLeast(value, 0), bar.total)

SetTo(value) == bar' = [bar EXCEPT !.current = Clamped(value)]

Construct == /\ Clear /\ shown' = Silence
             /\ \E t \in Totals, w \in Widths : bar' = NewBar(t, w)
Drop      == ~Clear /\ bar' = NoBar /\ shown' = Silence
Update    == Alive /\ \E value \in Steps : SetTo(value) /\ shown' = Silence

Increment ==
  /\ Alive
  /\ \E step \in Steps :
       /\ SetTo(Wrap(bar.current + step))
       /\ shown' = [call |-> "increment", step |-> step, from |-> bar.current]

(* toString: division truncates towards zero; by zero it has no result.    *)
Quotient(a, b) ==
  LET Abs(n) == IF n < 0 THEN -n ELSE n
      q      == Abs(a) \div Abs(b)
  IN  IF (a < 0) # (b < 0) THEN -q ELSE q

(* A fault: the percentage is rounded up.                                  *)
PercentUp(b) == Quotient(Wrap(b.current * 100) + b.total - 1, b.total)

Percent(b) == Quotient(Wrap(b.current * 100), b.total)

Filled(b) == Quotient(Wrap(b.current * b.width), b.total)

Cells(b)  == [i \in 1 .. b.width |-> IF i - 1 < Filled(b) THEN "full"
                                      ELSE IF i - 1 = Filled(b) THEN "half" ELSE "empty"]
Drawn(b) ==
  IF b.total = 0 THEN [call |-> "toString", undefined |-> TRUE]
  ELSE [call |-> "toString", undefined |-> FALSE, cells |-> Cells(b), percent |-> Percent(b)]

Display == Alive /\ shown' = Drawn(bar) /\ UNCHANGED bar
Finish  == Alive /\ bar' = [bar EXCEPT !.current = bar.total] /\ shown' = Drawn(bar')

-----------------------------------------------------------------------------
TableAnswer(data, headers, config) ==
  [call |-> "formatTable", data |-> data, headers |-> headers, config |-> config,
   undefined |-> ReadsBeyondWidths(data, headers),
   lines |-> IF ReadsBeyondWidths(data, headers) THEN << >>
             ELSE FormatTableLines(data, headers, config)]

FormatTable ==
  /\ Clear /\ UNCHANGED bar
  /\ \E t \in Tables : shown' = TableAnswer(t.data, t.headers, t.config)

(* formatTopTable: two columns, a row for each pair.                       *)
FormatTopTable ==
  /\ Clear /\ UNCHANGED bar
  /\ \E top \in Tops : shown' = TableAnswer(top, SubSeq(Columns, 1, 2), Config)

(* formatLogsTable, with the number of records it says it leaves out.      *)
LogsAnswer(logs, n) ==
  LET rows  == DisplayCount(logs, n)
      table == TableAnswer(LogRows(logs, n), Columns, Config)
  IN  [call |-> "formatLogsTable", logs |-> logs, rows |-> rows,
       more |-> Len(logs) - rows, lines |-> table.lines]

FormatLogsTable ==
  /\ Clear /\ UNCHANGED bar
  /\ \E logs \in Logs, n \in MaxRows :
       shown' = IF logs = << >> THEN [call |-> "no_data"]
                 ELSE IF \A i \in 1 .. DisplayCount(logs, n) : HasClock(logs[i])
                 THEN LogsAnswer(logs, n) ELSE [call |-> "out_of_range"]

FormatterNext ==
  \/ Construct \/ Drop \/ Update \/ Increment \/ Display \/ Finish
  \/ FormatTable \/ FormatTopTable \/ FormatLogsTable

FormatterSpec == FormatterInit /\ [][FormatterNext]_formatterVars

-----------------------------------------------------------------------------
(* A bar is never behind its start or ahead of its total, whatever it is   *)
(* told; one with a negative total is at 0 until it is moved, then at its  *)
(* total (src/formatter.cpp:350-364).                                      *)
BarIsInside ==
  /\ ~Alive \/ bar \in [total : Totals, current : -MaxInt - 1 .. MaxInt, width : Widths]
  /\ bar.total >= 0 => bar.current \in 0 .. bar.total
  /\ bar.total < 0 => bar.current \in {0, bar.total}

(* The bar draws as many cells as it is wide, the full ones first and at   *)
(* most one half, with a percentage that is right to the per cent, and all *)
(* is full exactly at the end: as long as a hundred times the total, and   *)
(* the width times the total, are ints (src/formatter.cpp:379-394).        *)
Magnitude(b) == (IF b.total < 0 THEN -b.total ELSE b.total) * AtLeast(100, b.width)
DrawsWhatItHas ==
  shown.call = "toString" /\ bar.total # 0 /\ Magnitude(bar) <= MaxInt =>
    /\ bar.total > 0 => bar.current * 100 - shown.percent * bar.total \in 0 .. bar.total - 1
    /\ shown.percent \in 0 .. 100
    /\ shown.percent = 100 <=> bar.current = bar.total
    /\ \E f \in 0 .. bar.width :
         /\ f = bar.width <=> (bar.current = bar.total \/ bar.width = 0)
         /\ shown.cells = [i \in 1 .. bar.width |->
              IF i <= f THEN "full" ELSE IF i = f + 1 THEN "half" ELSE "empty"]

(* A step forward moves the bar forward or leaves it at the end, unless    *)
(* the sum leaves the range of int: then it falls back to the start        *)
(* (src/formatter.cpp:355-357).                                            *)
ForwardIsForward ==
  shown.call = "increment" /\ shown.step > 0 /\ bar.total > 0 =>
    \/ bar.current > shown.from \/ bar.current = bar.total
    \/ shown.from + shown.step > MaxInt /\ bar.current = 0

(* A progress bar stays between its start and its total, shows how far it  *)
(* is, and does not go back when it is told to go on                       *)
(* (src/formatter.cpp:350-394).                                            *)
BarIsHonest == BarIsInside /\ DrawsWhatItHas /\ ForwardIsForward

-----------------------------------------------------------------------------
(* Lines of a table whose rows have a cell for every header are of equal   *)
(* length, in bytes other than the colours: borders, header and rows       *)
(* (src/formatter.cpp:106-183).                                            *)
Only(kinds, line) ==
  LET seen[i \in 0 .. Len(line)] ==
        IF i = 0 THEN << >>
        ELSE IF line[i] \in kinds THEN Append(seen[i - 1], line[i]) ELSE seen[i - 1]
  IN  seen[Len(line)]
Letters(line) == Only(Glyphs, line)
Visible(line) == Only(Bytes, line)

Even(lines) == \A i, j \in DOMAIN lines : Len(Visible(lines[i])) = Len(Visible(lines[j]))

LinesAreEven ==
  shown.call = "formatTable" /\ ~shown.undefined /\ shown.headers # << >> =>
    ((\A r \in DOMAIN shown.data : Len(shown.data[r]) = Len(shown.headers))
       => Even(shown.lines))

(* A cell no longer than the widest column allowed is printed whole, so    *)
(* that a Cyrillic letter is cut in two only where a cell is longer than   *)
(* that; a line shows its cells in their order and no other text           *)
(* (src/formatter.cpp:302-340).                                            *)
FirstRow(a)    == IF a.config.showBorder THEN 2 ELSE 1
RowLine(a, r)  == a.lines[FirstRow(a) - 1 + r +
                    (IF a.config.showHeader /\ a.headers # << >>
                     THEN (IF a.config.showBorder THEN 2 ELSE 1) ELSE 0)]
CellsAreWhole ==
  shown.call = "formatTable" /\ ~shown.undefined =>
    \A r \in DOMAIN shown.data :
      (\A c \in DOMAIN shown.data[r] :
         Len(shown.data[r][c]) <= shown.config.maxColumnWidth) =>
      Letters(RowLine(shown, r)) = FlattenSeq(shown.data[r])

(* A colour ends with the line it is set in: neither the next line nor what*)
(* is printed behind the table has it (src/formatter.cpp:155-168).         *)
EndsPlain(line) == (\E i \in DOMAIN line : line[i] = "colour") => line[Len(line)] = "reset"
ColoursEnd ==
  shown.call \in {"formatTable", "formatLogsTable"} =>
    \A i \in DOMAIN shown.lines : EndsPlain(shown.lines[i])

(* The rows shown and the records said to be left out are all the records, *)
(* for any limit, zero and negative ones too, and there is a line for each *)
(* row shown (src/formatter.cpp:193-218).                                  *)
LogsAddUp ==
  shown.call = "formatLogsTable" =>
    /\ shown.rows \in 0 .. Len(shown.logs)
    /\ shown.rows + shown.more = Len(shown.logs)
    /\ Len(shown.lines) = shown.rows + Len(FormatTableLines(<< >>, Columns, Config))

(* A table is rectangular on the screen, says in every line what its row   *)
(* holds, keeps its colours to itself, and says how many records it leaves *)
(* out (src/formatter.cpp:106-218, 302-340).                               *)
TablesAreWhole == LinesAreEven /\ CellsAreWhole /\ ColoursEnd /\ LogsAddUp
=============================================================================
