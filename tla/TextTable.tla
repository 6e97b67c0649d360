----------------------------- MODULE TextTable -----------------------------
(***************************************************************************)
(* The tables of LogFormatter (src/formatter.cpp): column widths, the      *)
(* filling and cutting of cells, and the lines they make.                  *)
(*                                                                         *)
(* A text is a sequence of bytes, as std::string is, for the code counts   *)
(* bytes: "a" is a character of one byte, "lead" and "cont" are the two    *)
(* bytes of a Cyrillic letter in UTF-8.  A border character stands for     *)
(* itself, "rule" for the char that repeatChar is given.  The escape codes *)
(* that colour every second row, "colour" and "reset", are in the lines    *)
(* and not on the screen.                                                  *)
(***************************************************************************)
EXTENDS Integers, Sequences, SequencesExt, FiniteSetsExt

Bytes == {"a", "lead", "cont", "space", ".", "bar", "corner", "rule"}
Codes == {"colour", "reset"}

AtMost(x, y)  == IF x < y THEN x ELSE y
AtLeast(x, y) == IF x > y THEN x ELSE y

(* repeatChar.                                                             *)
RepeatChar(ch, count) == [i \in 1 .. AtLeast(0, count) |-> ch]

(* A fault: the text is filled and never cut.                              *)
AlignTextUncut(text, width, align) ==
  LET padding == AtLeast(0, width - Len(text))
      left    == IF align = "c" THEN padding \div 2 ELSE 0
  IN  RepeatChar("space", left) \o text \o RepeatChar("space", padding - left)

(* alignText for the two alignments formatTable uses.                      *)
AlignText(text, width, align) ==
  LET padding == width - Len(text)
      left    == IF align = "c" THEN padding \div 2 ELSE 0
  IN  IF padding <= 0 THEN SubSeq(text, 1, width)
      ELSE RepeatChar("space", left) \o text \o RepeatChar("space", padding - left)

(* calculateColumnWidths: a column is as wide as the widest cell the       *)
(* limits allow.                                                           *)
Width(data, headers, config, i) ==
  LET rows == {r \in DOMAIN data : i <= Len(data[r])}
  IN  Max({config.minColumnWidth, AtMost(config.maxColumnWidth, Len(headers[i]))}
            \cup {AtMost(config.maxColumnWidth, Len(data[r][i])) : r \in rows})

CalculateColumnWidths(data, headers, config) ==
  [i \in DOMAIN headers |-> Width(data, headers, config, i)]

(* The lines of a table.                                                   *)
Border(config) == IF config.showBorder THEN <<"bar">> ELSE << >>

CellsOf(cells, widths, align, config) ==
  FlattenSeq([i \in DOMAIN cells |->
    <<"space">> \o AlignText(cells[i], widths[i], align) \o <<"space">> \o Border(config)])

Line(cells, widths, align, config) ==
  Border(config) \o CellsOf(cells, widths, align, config)

(* Every second row is coloured, from behind its first border to its end,  *)
(* if there is a colour (config.altRowColor != Color::Default).            *)
Coloured(row, config)   == config.altRowColor /\ row % 2 = 0
CodeIf(row, config, c)  == IF Coloured(row, config) THEN <<c>> ELSE << >>

(* A fault: the colour is not taken back.                                  *)
DataLineRunning(cells, widths, config, row) ==
  Border(config) \o CodeIf(row, config, "colour")
    \o CellsOf(cells, widths, "l", config)

DataLine(cells, widths, config, row) ==
  Border(config) \o CodeIf(row, config, "colour")
    \o CellsOf(cells, widths, "l", config) \o CodeIf(row, config, "reset")

Rule(widths) ==
  <<"corner">> \o
  FlattenSeq([i \in DOMAIN widths |->
    RepeatChar("rule", widths[i] + 2) \o
    (IF i < Len(widths) THEN <<"corner">> ELSE << >>)]) \o <<"corner">>

RuleIf(shown, widths) == IF shown THEN <<Rule(widths)>> ELSE << >>

(* formatTable reads colWidths[col] for every cell of a row, and there are *)
(* as many widths as headers.                                              *)
ReadsBeyondWidths(data, headers) == \E r \in DOMAIN data : Len(data[r]) > Len(headers)

HeaderLines(headers, widths, config) ==
  IF config.showHeader /\ headers # << >>
  THEN <<Line(headers, widths, "c", config)>> \o RuleIf(config.showBorder, widths)
  ELSE << >>

FormatTableLines(data, headers, config) ==
  LET widths == CalculateColumnWidths(data, headers, config)
  IN  IF data = << >> /\ headers = << >> THEN << >>
      ELSE RuleIf(config.showBorder, widths)
             \o HeaderLines(headers, widths, config)
             \o [r \in DOMAIN data |-> DataLine(data[r], widths, config, r)]
             \o RuleIf(config.showBorder, widths)

-----------------------------------------------------------------------------
CONSTANTS
  ClockAt,      \* where the time of day starts in a timestamp (11)
  ClockLen,     \* its length (8)
  UrlMax,       \* the length up to which a url is shown as it is (30)
  UrlCut        \* what is kept of a longer one (27)

CutsTyped == ClockAt \in Nat /\ ClockLen \in Nat /\ UrlMax \in Nat /\ UrlCut \in 0 .. UrlMax

ASSUME LogsTableAssumption == CutsTyped

(* formatLogsTable: a row for a record; substr throws when the timestamp   *)
(* ends before the time of day.                                            *)
HasClock(log)   == Len(log.timestamp) >= ClockAt
Clock(log)      == SubSeq(log.timestamp, ClockAt + 1,
                          AtMost(Len(log.timestamp), ClockAt + ClockLen))
ShortUrl(url)   == IF Len(url) > UrlMax THEN SubSeq(url, 1, UrlCut) \o RepeatChar(".", 3) ELSE url
LogRow(log)     == <<Clock(log), log.ip, log.method, ShortUrl(log.url), log.status>>

(* min(logs.size(), static_cast<size_t>(maxRows)): a negative number of    *)
(* rows becomes a huge one.                                                *)
DisplayCount(logs, maxRows) ==
  IF maxRows < 0 THEN Len(logs) ELSE AtMost(Len(logs), maxRows)

LogRows(logs, maxRows) == [i \in 1 .. DisplayCount(logs, maxRows) |-> LogRow(logs[i])]
=============================================================================
