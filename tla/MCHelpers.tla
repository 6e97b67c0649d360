----------------------------- MODULE MCHelpers -----------------------------
(***************************************************************************)
(* Instance of Directories, TextHelpers and Formatter.  The three share    *)
(* nothing, so that a step of one says nothing about another: a behaviour  *)
(* is a behaviour of one of them, and the others are not asked anything.   *)
(*                                                                         *)
(* Directories: two processes, a tree of two branches, and paths written   *)
(* with one separator, with two, and with one at the end.  Texts: every    *)
(* short text over the characters the functions look for, and times on     *)
(* both sides of the years 1000 and 10000.  Formatter: ints of ten bits,   *)
(* so that totals of 6 and of 511 overflow; tables of up to two rows and   *)
(* three columns, with Cyrillic cells, cells longer than a column may be,  *)
(* and rows longer and shorter than the header.                            *)
(***************************************************************************)
EXTENDS Directories, TextHelpers, Formatter

VARIABLE asked      \* which of the three is asked

HelpersInit ==
  /\ asked \in {"directories", "texts", "formatter"}
  /\ Init /\ TextsInit /\ FormatterInit
  /\ asked # "directories" =>
       \A p \in Processes : call[p].walk = CHOOSE w \in Walks : TRUE

HelpersNext ==
  \/ asked = "directories" /\ Next /\ UNCHANGED <<asked, textsVars, formatterVars>>
  \/ asked = "texts" /\ TextsNext /\ UNCHANGED <<asked, vars, formatterVars>>
  \/ asked = "formatter" /\ FormatterNext /\ UNCHANGED <<asked, vars, textsVars>>

HelpersSpec == HelpersInit /\ [][HelpersNext]_<<asked, vars, textsVars, formatterVars>>

-----------------------------------------------------------------------------
MCNodes  == {"a", "a/b", "a/b/c", "a/d", "e"}
MCParent == [n \in MCNodes |->
               CASE n = "a/b" \/ n = "a/d" -> "a" [] n = "a/b/c" -> "a/b" [] OTHER -> "root"]

MCWalks == {<<"a", "a/b", "a/b/c">>,            \* a\b\c
            <<"a", "a", "a/b">>,                \* a\\b
            <<"a", "a/d", "a/d">>,              \* a\d\
            <<"e">>}
MCDenied == {"e"}
-----------------------------------------------------------------------------
MCChars == {"a", "b", ":", "/", "\\", ".", "?", "0", "1", "2", "5", "6", "9"}

TextsOver(chars, n) == UNION {[1 .. k -> chars] : k \in 0 .. n}

MCPaths == TextsOver({"a", ":", "/", "\\", "."}, 5)
MCUrls  == TextsOver({"a", ":", "/", "?"}, 7)

(* Names have no separator.                                                *)
MCFileNames == {<< >>, <<"a">>, <<"a", ".", "b">>, <<".", "a">>, <<"a", ".">>}

(* Fields below, at and above 255, empty, too long, and not of figures.    *)
MCFields == {<< >>, <<"0">>, <<"0", "9">>, <<"2", "5", "5">>, <<"2", "5", "6">>,
             <<"0", "2", "5", "5">>, <<"1", "a">>}
MCAddresses == UNION {[1 .. k -> MCFields] : k \in 1 .. 4} \cup
               [1 .. 5 -> {<< >>, <<"0">>, <<"0", "9">>}]

MCTimes ==
  [year : {999 - 1900, 9999 - 1900, 10000 - 1900}, mon : {0, 11}, mday : {31}, hour : {9, 23},
   min : {0}, sec : {0, 9, 10, 59}]
-----------------------------------------------------------------------------
Letter == <<"lead", "cont">>
Cell   == {<< >>, Letter, <<"a">> \o Letter \o <<"a">>}
Row(n) == UNION {[1 .. k -> Cell] : k \in 0 .. n}

Configs == [showBorder : BOOLEAN, showHeader : BOOLEAN, altRowColor : BOOLEAN,
            minColumnWidth : {1}, maxColumnWidth : {2, 4}]

MCConfig == [showBorder |-> TRUE, showHeader |-> TRUE, altRowColor |-> TRUE,
             minColumnWidth |-> 1, maxColumnWidth |-> 4]

MCTables ==
  [data : {<< >>} \cup {<<r>> : r \in Row(3)} \cup {<<r, s>> : r, s \in Row(2)},
   headers : {<< >>, <<Letter>>, <<Letter, <<"a", "a", "a">>>>}, config : Configs]

MCColumns == <<Letter, <<"a">>, <<"a">>, Letter, <<"a">>>>
MCTops    == UNION {[1 .. n -> {<<k, <<"a">>>> : k \in Cell}] : n \in 0 .. 2}

LogAt(ts, url) == [timestamp |-> ts, ip |-> <<"a">>, method |-> <<"a">>, url |-> url,
                   status |-> <<"a">>]
MCLogs ==
  LET logs == {LogAt(<<"a">>, <<"a">>), LogAt(<<"a", "a", "a">>, <<"a">>),
               LogAt(<<"a", "a", "a">>, Letter \o Letter \o Letter)}
  IN  UNION {[1 .. n -> logs] : n \in 0 .. 3}

MCTotals  == {-2, 0, 3, 5, 6, 511}
MCWidths  == {0, 1, 4}
MCSteps   == {-1, 0, 1, 2, 510, 511}
MCMaxRows == -1 .. 3
=============================================================================
