----------------------------- MODULE JsonParser -----------------------------
(***************************************************************************)
(* JsonParser::parse (src/json_parser.cpp) over a text of tokens: the      *)
(* recursive functions parseValue, parseObject and parseArray with their   *)
(* call stack made explicit, and the position they share.                  *)
(*                                                                         *)
(* A "str" or "scalar" token is a string, number or keyword its own        *)
(* function returns from, "bad" is text one of them (or parseValue) throws *)
(* at, "ws" is one character skipWhitespace skips.  pos is the number of   *)
(* tokens consumed; jsonStr[pos] past the end reads as the terminating     *)
(* null, which is no token.                                                *)
(***************************************************************************)
EXTENDS Naturals, Sequences

CONSTANT Texts          \* the texts to parse

Tokens == {"{", "}", "[", "]", ",", ":", "str", "scalar", "bad", "ws"}

ASSUME TextsAssumption == Texts \subseteq Seq(Tokens)

VARIABLES
  text,         \* jsonStr
  pos,          \* the position, shared by reference
  stack,        \* the parseObject and parseArray calls that are active
  ctl,          \* where the innermost call is
  elements,     \* values pushed into the outermost array so far
  result        \* "running", "value" (parse returned) or "thrown"
vars == <<text, pos, stack, ctl, elements, result>>

(***************************************************************************)
(* "value": in parseValue; "open": after an opening bracket; "loop": at    *)
(* the test of a while loop; "key" and "colon": in parseObject's loop;     *)
(* "next": a value has been returned to the caller; "end": back in parse.  *)
(***************************************************************************)
Controls == {"value", "open", "loop", "key", "colon", "next", "end"}

Init ==
  /\ text \in Texts /\ pos = 0 /\ stack = << >> /\ ctl = "value"
  /\ elements = 0 /\ result = "running"

Char == IF pos < Len(text) THEN text[pos + 1] ELSE "nul"

At(c) == result = "running" /\ ctl = c

Innermost == stack[Len(stack)]
Pop       == SubSeq(stack, 1, Len(stack) - 1)

(* A fault: parse is taken for a caller with a loop.                       *)
CallerAlways(s) == "next"

Caller(s) == IF s = << >> THEN "end" ELSE "next"
Closer(kind) == IF kind = "obj" THEN "}" ELSE "]"

Throw == result' = "thrown" /\ UNCHANGED <<text, pos, stack, ctl, elements>>

Goto(c) == ctl' = c /\ UNCHANGED <<text, result>>
Consume == pos' = pos + 1

-----------------------------------------------------------------------------
(* One turn of skipWhitespace's loop, wherever the code calls it; the      *)
(* other actions at these points wait for it to have finished.             *)
Skipping == ctl \in {"value", "open", "key", "colon", "next", "end"}

(* A fault: pos is not advanced.                                           *)
SkipNothing ==
  /\ result = "running" /\ Skipping /\ Char = "ws"
  /\ UNCHANGED vars

SkipWhitespace ==
  /\ result = "running" /\ Skipping /\ Char = "ws"
  /\ Consume /\ UNCHANGED <<text, stack, ctl, elements, result>>

AtToken(c) == At(c) /\ Char # "ws"

(* A fault: the elements of inner arrays are pushed into the outer one.    *)
PushedAnywhere(s) == IF s # << >> THEN elements + 1 ELSE elements

(* arr.push_back(element), when the caller is the outermost array.         *)
Pushed(s) == IF s = <<"arr">> THEN elements + 1 ELSE elements

Return(s) ==
  /\ stack' = s /\ elements' = Pushed(s) /\ Goto(Caller(s))

-----------------------------------------------------------------------------
(* parseValue.                                                             *)
ParseLeaf ==
  /\ AtToken("value") /\ Char \in {"str", "scalar"}
  /\ Consume /\ Return(stack)

Enter(opener, kind) ==
  /\ AtToken("value") /\ Char = opener
  /\ Consume /\ stack' = Append(stack, kind) /\ Goto("open")
  /\ UNCHANGED elements

EnterObject == Enter("{", "obj")
EnterArray  == Enter("[", "arr")

NoValue ==
  /\ AtToken("value") /\ Char \notin {"str", "scalar", "{", "["}
  /\ Throw

(* The empty object or array, tested once before the loop.                 *)
Open ==
  /\ AtToken("open")
  /\ IF Char = Closer(Innermost)
     THEN Consume /\ Return(Pop)
     ELSE Goto("loop") /\ UNCHANGED <<pos, stack, elements>>

(* while (pos < jsonStr.size()): at the end of the text the loop is left   *)
(* and the value built so far is returned.                                 *)
LoopBody(kind) == IF kind = "obj" THEN "key" ELSE "value"

LoopTest ==
  /\ At("loop")
  /\ IF pos < Len(text)
     THEN Goto(LoopBody(Innermost)) /\ UNCHANGED <<pos, stack, elements>>
     ELSE Return(Pop) /\ UNCHANGED pos

ParseKey ==
  /\ AtToken("key")
  /\ IF Char = "str" THEN Consume /\ Goto("colon") /\ UNCHANGED <<stack, elements>>
                     ELSE Throw

ParseColon ==
  /\ AtToken("colon")
  /\ IF Char = ":" THEN Consume /\ Goto("value") /\ UNCHANGED <<stack, elements>>
                   ELSE Throw

(* After a value: the closing bracket, a comma, or an error.               *)
AfterValue ==
  /\ AtToken("next")
  /\ \/ Char = Closer(Innermost) /\ Consume /\ Return(Pop)
     \/ Char = "," /\ Consume /\ Goto("loop") /\ UNCHANGED <<stack, elements>>
     \/ Char \notin {Closer(Innermost), ","} /\ Throw

(* A fault: what follows the value is not looked at.                       *)
FinishAnywhere ==
  /\ AtToken("end")
  /\ result' = "value" /\ UNCHANGED <<text, pos, stack, ctl, elements>>

(* parse: nothing but white space may follow.                              *)
Finish ==
  /\ AtToken("end")
  /\ IF pos # Len(text) THEN Throw
     ELSE result' = "value" /\ UNCHANGED <<text, pos, stack, ctl, elements>>

Next ==
  \/ SkipWhitespace
  \/ ParseLeaf \/ EnterObject \/ EnterArray \/ NoValue
  \/ Open \/ LoopTest \/ ParseKey \/ ParseColon \/ AfterValue
  \/ Finish

Spec == Init /\ [][Next]_vars

(* The parser is a call that runs until it returns or throws.              *)
FairSpec == Spec /\ WF_vars(Next)

-----------------------------------------------------------------------------
(* The variables have their types, and the position stays within the text: *)
(* no jsonStr[pos] ever reads past the terminating null, and a call is     *)
(* active for every bracket consumed and not closed at most                *)
(* (src/json_parser.cpp:18-144).                                           *)
TypeOK ==
  /\ text \in Seq(Tokens) /\ pos \in Nat /\ stack \in Seq({"obj", "arr"})
  /\ ctl \in Controls /\ elements \in Nat
  /\ result \in {"running", "value", "thrown"}

CursorSafe ==
  /\ pos <= Len(text)
  /\ Len(stack) <= pos
  /\ ctl \in {"open", "loop", "key", "colon", "next"} => stack # << >>
  /\ ctl \in {"key", "colon"} => Innermost = "obj"
  /\ ctl = "end" => stack = << >>

(* The work is linear in the text: between two tokens the parser takes at  *)
(* most two steps that consume nothing, so the measure falls with every    *)
(* step that does not end the call, and no text makes the loops of         *)
(* parseObject and parseArray turn in place (src/json_parser.cpp:61-144).  *)
Rank    == CASE ctl = "open" -> 2 [] ctl = "loop" -> 1 [] OTHER -> 0
Measure == 3 * (Len(text) - pos) + Rank

EveryStepProgresses == [][result' = "running" => Measure' < Measure]_vars

(* Every call of parse returns or throws (src/json_parser.cpp:18-28).      *)
Terminates == <>(result # "running")
=============================================================================
