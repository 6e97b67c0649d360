-------------------------- MODULE JsonParserProofs --------------------------
(***************************************************************************)
(* Theorems about JsonParser, for every set of texts: the position and the *)
(* call stack stay in bounds, every step gets closer to the end, JSON is   *)
(* accepted, and little else, and every complete element of the outermost  *)
(* array is in the result.                                                 *)
(***************************************************************************)
EXTENDS JsonGrammar, SequenceTheorems, FiniteSetTheorems, WellFoundedInduction, TLAPS

(* The two invariants are proved together: a step is safe because ctl says *)
(* which calls are active.                                                 *)
Inv == TypeOK /\ CursorSafe

(* What the return of a call leaves: the innermost frame is gone.          *)
LEMMA PopType ==
  ASSUME TypeOK, stack # << >>
  PROVE  /\ Pop \in Seq({"obj", "arr"})
         /\ Len(Pop) = Len(stack) - 1
<1> DEFINE Frames == {"obj", "arr"}
<1>1. stack \in Seq(Frames)
  BY DEF TypeOK
<1> HIDE DEF Frames
<1>2. Len(stack) \in Nat /\ Len(stack) # 0
  BY <1>1, EmptySeq, LenProperties
<1>3. \A i \in 1 .. Len(stack) - 1 : stack[i] \in Frames
  BY <1>1, <1>2, ElementOfSeq
<1>4. /\ Pop \in Seq(Frames)
      /\ Len(Pop) = IF 1 <= Len(stack) - 1 THEN (Len(stack) - 1) - 1 + 1 ELSE 0
  <2>1. Len(stack) - 1 \in Int
    BY <1>2
  <2> QED BY <1>3, <2>1, SubSeqProperties DEF Pop
<1>5. Len(Pop) = Len(stack) - 1
  <2>1. PICK n \in Nat : n = Len(stack)
    BY <1>2
  <2>2. PICK m : m = Len(Pop)
    OBVIOUS
  <2>3. n # 0 /\ m = IF 1 <= n - 1 THEN (n - 1) - 1 + 1 ELSE 0
    BY <1>2, <1>4, <2>1, <2>2
  <2>4. m = n - 1
    BY <2>3
  <2> QED BY <2>1, <2>2, <2>4
<1> QED BY <1>4, <1>5 DEF Frames

(* A call that is entered.                                                 *)
LEMMA AppendType ==
  ASSUME NEW s, NEW k \in {"obj", "arr"}, s \in Seq({"obj", "arr"})
  PROVE  /\ Append(s, k) \in Seq({"obj", "arr"}) /\ Append(s, k) # << >>
         /\ Len(Append(s, k)) = Len(s) + 1
<1> DEFINE Frames == {"obj", "arr"}
<1>1. s \in Seq(Frames) /\ k \in Frames
  OBVIOUS
<1> HIDE DEF Frames
<1>2. /\ Append(s, k) \in Seq(Frames) /\ Append(s, k) # << >>
      /\ Len(Append(s, k)) = Len(s) + 1
  BY <1>1, AppendProperties
<1> QED BY <1>2 DEF Frames

(* The numbers the invariant compares.                                     *)
LEMMA Counts ==
  ASSUME Inv
  PROVE  /\ pos \in Nat /\ Len(text) \in Nat /\ Len(stack) \in Nat
         /\ Len(stack) <= pos /\ pos <= Len(text)
BY LenProperties DEF Inv, TypeOK, CursorSafe

(* Consuming a token makes room for one more frame.                        *)
LEMMA RoomForFrame ==
  ASSUME Inv, pos' = pos + 1, pos + 1 <= Len(text), text' = text,
         Len(stack') \in {Len(stack), Len(stack) + 1}
  PROVE  pos' <= Len(text') /\ Len(stack') <= pos'
<1>1. PICK n \in Nat : n = Len(stack)
  BY Counts
<1>2. pos \in Nat /\ n <= pos
  BY <1>1, Counts
<1>3. Len(stack') \in {n, n + 1}
  BY <1>1
<1>4. Len(stack') <= pos + 1
  BY <1>2, <1>3
<1> QED BY <1>4

(* The caller's control point fits the frames that remain.                 *)
LEMMA CallerFits ==
  ASSUME NEW s \in Seq({"obj", "arr"})
  PROVE  /\ Caller(s) \in {"next", "end"}
         /\ Caller(s) = "next" => s # << >>
         /\ Caller(s) = "end" => s = << >>
BY DEF Caller

(* A return keeps the invariant, whether it consumes a token or not.       *)
LEMMA ReturnKeepsInv ==
  ASSUME Inv, NEW s \in Seq({"obj", "arr"}), Return(s),
         pos' \in Nat, pos' <= Len(text), Len(s) <= pos'
  PROVE  Inv'
<1>1. /\ text' = text /\ result' = result
      /\ stack' = s /\ ctl' = Caller(s) /\ elements' = Pushed(s)
  BY DEF Return, Goto
<1>2. elements' \in Nat
  BY <1>1 DEF Inv, TypeOK, Pushed
<1>3. TypeOK'
  BY <1>1, <1>2, CallerFits DEF Inv, TypeOK, Controls
<1>4. CursorSafe'
  BY <1>1, CallerFits DEF Inv, CursorSafe
<1> QED BY <1>3, <1>4 DEF Inv

(* Throwing keeps everything but the result.                               *)
LEMMA ThrowKeepsInv == ASSUME Inv, Throw PROVE Inv'
BY DEF Inv, TypeOK, CursorSafe, Throw, Innermost

(* At a character that is a token the position is inside the text.         *)
LEMMA CharIsInText ==
  ASSUME Inv, Char # "nul"
  PROVE  pos + 1 \in Nat /\ pos + 1 <= Len(text)
BY DEF Inv, TypeOK, CursorSafe, Char

(* The initial states: no call is active and nothing is consumed.          *)
LEMMA InitInv == ASSUME Init PROVE Inv
<1>1. text \in Seq(Tokens)
  BY TextsAssumption DEF Init
<1> QED BY <1>1 DEF Init, Inv, TypeOK, CursorSafe, Controls

(* Every step of the parser keeps the invariant.                           *)
LEMMA NextInv == ASSUME Inv, [Next]_vars PROVE Inv'
<1> USE DEF Inv
<1>1. CASE SkipWhitespace
  <2>1. pos + 1 \in Nat /\ pos + 1 <= Len(text)
    BY <1>1, CharIsInText DEF SkipWhitespace
  <2> QED BY <1>1, <2>1 DEF SkipWhitespace, Consume, TypeOK, CursorSafe, Innermost
<1>2. CASE ParseLeaf
  <2>1. pos + 1 \in Nat /\ pos + 1 <= Len(text) /\ Char # "nul"
    BY <1>2, CharIsInText DEF ParseLeaf
  <2>2. Return(stack) /\ pos' = pos + 1 /\ stack \in Seq({"obj", "arr"})
    BY <1>2 DEF ParseLeaf, Consume, TypeOK
  <2>3. Len(stack) <= pos + 1
    BY DEF TypeOK, CursorSafe
  <2> QED BY <2>1, <2>2, <2>3, ReturnKeepsInv
<1>3. ASSUME NEW opener \in {"{", "["}, NEW kind \in {"obj", "arr"}, Enter(opener, kind)
      PROVE  Inv'
  <2>1. pos + 1 \in Nat /\ pos + 1 <= Len(text)
    BY <1>3, CharIsInText DEF Enter
  <2>2. stack' = Append(stack, kind) /\ Len(stack') = Len(stack) + 1
        /\ stack' \in Seq({"obj", "arr"}) /\ stack' # << >>
    <3>1. stack \in Seq({"obj", "arr"}) /\ stack' = Append(stack, kind)
      BY <1>3 DEF Enter, TypeOK
    <3> QED BY <3>1, AppendType, Zenon
  <2>3. /\ text' = text /\ pos' = pos + 1 /\ ctl' = "open"
        /\ elements' = elements /\ result' = result
    BY <1>3 DEF Enter, Consume, Goto
  <2>4. TypeOK'
    BY <2>1, <2>2, <2>3 DEF TypeOK, Controls
  <2>5. CursorSafe'
    <3>1. pos' <= Len(text') /\ Len(stack') <= pos'
      BY <2>1, <2>2, <2>3, RoomForFrame
    <3>2. stack' # << >> /\ ctl' \notin {"key", "colon", "end"}
      BY <2>2, <2>3
    <3> QED BY <3>1, <3>2 DEF CursorSafe
  <2> QED BY <2>4, <2>5
<1>4. CASE EnterObject
  BY <1>3, <1>4 DEF EnterObject
<1>5. CASE EnterArray
  BY <1>3, <1>5 DEF EnterArray
<1>6. CASE NoValue
  BY <1>6, ThrowKeepsInv DEF NoValue
<1>7. CASE Open
  <2>0. stack # << >>
    BY <1>7 DEF Open, AtToken, At, CursorSafe
  <2>1. CASE Char = Closer(Innermost)
    <3>1. pos + 1 \in Nat /\ pos + 1 <= Len(text)
      BY <2>1, CharIsInText DEF Closer
    <3>2. Return(Pop) /\ pos' = pos + 1
      BY <1>7, <2>1 DEF Open, Consume
    <3>3. Pop \in Seq({"obj", "arr"}) /\ Len(Pop) <= pos + 1
      BY <2>0, PopType DEF TypeOK, CursorSafe
    <3> QED BY <3>1, <3>2, <3>3, ReturnKeepsInv
  <2>2. CASE Char # Closer(Innermost)
    BY <1>7, <2>0, <2>2 DEF Open, Goto, TypeOK, CursorSafe, Controls
  <2> QED BY <2>1, <2>2
<1>8. CASE LoopTest
  <2>0. stack # << >>
    BY <1>8 DEF LoopTest, At, CursorSafe
  <2>1. CASE pos < Len(text)
    <3>1. Innermost \in {"obj", "arr"}
      BY <2>0 DEF Innermost, TypeOK
    <3>2. ctl' = LoopBody(Innermost) /\ UNCHANGED <<text, result, pos, stack, elements>>
      BY <1>8, <2>1 DEF LoopTest, Goto
    <3> QED BY <2>0, <3>1, <3>2 DEF LoopBody, TypeOK, CursorSafe, Controls, Innermost
  <2>2. CASE ~(pos < Len(text))
    <3>1. Return(Pop) /\ pos' = pos
      BY <1>8, <2>2 DEF LoopTest
    <3>2. Pop \in Seq({"obj", "arr"}) /\ Len(Pop) <= pos
      BY <2>0, PopType DEF TypeOK, CursorSafe
    <3> QED BY <3>1, <3>2, ReturnKeepsInv DEF TypeOK, CursorSafe
  <2> QED BY <2>1, <2>2
<1>9. CASE ParseKey
  <2>1. CASE Char = "str"
    <3>1. pos + 1 \in Nat /\ pos + 1 <= Len(text)
      BY <2>1, CharIsInText
    <3> QED BY <1>9, <2>1, <3>1
            DEF ParseKey, AtToken, At, Consume, Goto, TypeOK, CursorSafe, Controls, Innermost
  <2>2. CASE Char # "str"
    BY <1>9, <2>2, ThrowKeepsInv DEF ParseKey
  <2> QED BY <2>1, <2>2
<1>10. CASE ParseColon
  <2>1. CASE Char = ":"
    <3>1. pos + 1 \in Nat /\ pos + 1 <= Len(text)
      BY <2>1, CharIsInText
    <3> QED BY <1>10, <2>1, <3>1
            DEF ParseColon, AtToken, At, Consume, Goto, TypeOK, CursorSafe, Controls
  <2>2. CASE Char # ":"
    BY <1>10, <2>2, ThrowKeepsInv DEF ParseColon
  <2> QED BY <2>1, <2>2
<1>11. CASE AfterValue
  <2>0. stack # << >>
    BY <1>11 DEF AfterValue, AtToken, At, CursorSafe
  <2>1. CASE Char = Closer(Innermost) /\ Consume /\ Return(Pop)
    <3>1. pos + 1 \in Nat /\ pos + 1 <= Len(text)
      BY <2>1, CharIsInText DEF Closer
    <3>2. Pop \in Seq({"obj", "arr"}) /\ Len(Pop) <= pos + 1
      BY <2>0, PopType DEF TypeOK, CursorSafe
    <3> QED BY <2>1, <3>1, <3>2, ReturnKeepsInv DEF Consume
  <2>2. CASE Char = "," /\ Consume /\ Goto("loop") /\ UNCHANGED <<stack, elements>>
    <3>1. pos + 1 \in Nat /\ pos + 1 <= Len(text)
      BY <2>2, CharIsInText
    <3>2. TypeOK'
      BY <2>2, <3>1 DEF Consume, Goto, TypeOK, Controls
    <3>3. CursorSafe'
      <4>1. pos' <= Len(text') /\ Len(stack') <= pos'
        BY <2>2, <3>1, RoomForFrame DEF Consume, Goto
      <4>2. stack' # << >> /\ ctl' \notin {"key", "colon", "end"}
        BY <2>0, <2>2 DEF Goto
      <4> QED BY <4>1, <4>2 DEF CursorSafe
    <3> QED BY <3>2, <3>3
  <2>3. CASE Throw
    BY <2>3, ThrowKeepsInv
  <2> QED BY <1>11, <2>1, <2>2, <2>3 DEF AfterValue
<1>12. CASE Finish
  <2>1. CASE Throw
    BY <2>1, ThrowKeepsInv
  <2>2. CASE result' = "value" /\ UNCHANGED <<text, pos, stack, ctl, elements>>
    BY <2>2 DEF TypeOK, CursorSafe, Innermost
  <2> QED BY <1>12, <2>1, <2>2 DEF Finish
<1>13. CASE UNCHANGED vars
  BY <1>13 DEF vars, TypeOK, CursorSafe, Innermost
<1> QED
  BY <1>1, <1>2, <1>4, <1>5, <1>6, <1>7, <1>8, <1>9, <1>10, <1>11, <1>12, <1>13
  DEF Next

(* Types: pos and elements are counts, ctl a control point, the stack one  *)
(* of parseObject and parseArray frames.                                   *)
THEOREM Typing == Spec => []TypeOK
<1>1. Init => Inv
  BY InitInv
<1>2. Inv /\ [Next]_vars => Inv'
  BY NextInv
<1>3. Inv => TypeOK
  BY DEF Inv
<1> QED BY <1>1, <1>2, <1>3, PTL DEF Spec

(* On no text does the parser read past the terminating null or return     *)
(* from a call that is not active.                                         *)
THEOREM Safety == Spec => []CursorSafe
<1>1. Init => Inv
  BY InitInv
<1>2. Inv /\ [Next]_vars => Inv'
  BY NextInv
<1>3. Inv => CursorSafe
  BY DEF Inv
<1> QED BY <1>1, <1>2, <1>3, PTL DEF Spec

-----------------------------------------------------------------------------
(* A step that consumes a token pays for any control point it may reach.   *)
LEMMA ConsumingProgresses ==
  ASSUME Inv, pos' = pos + 1, text' = text, ctl' \in Controls
  PROVE  Measure' < Measure
<1>1. Rank \in 0 .. 2 /\ Rank' \in 0 .. 2
  BY DEF Rank
<1>2. Len(text) \in Nat /\ pos \in Nat
  BY DEF Inv, TypeOK
<1> QED BY <1>1, <1>2 DEF Measure

(* The steps that consume nothing move down in rank.                       *)
LEMMA StayingProgresses ==
  ASSUME Inv, pos' = pos, text' = text, Rank' < Rank
  PROVE  Measure' < Measure
<1>1. Rank \in 0 .. 2 /\ Rank' \in 0 .. 2
  BY DEF Rank
<1>2. Len(text) \in Nat /\ pos \in Nat
  BY DEF Inv, TypeOK
<1> QED BY <1>1, <1>2 DEF Measure

(* One step: it ends the call or the measure falls.                        *)
LEMMA StepProgresses ==
  ASSUME Inv, Inv', Next, result' = "running"
  PROVE  Measure' < Measure
<1>0. ctl' \in Controls
  BY DEF Inv, TypeOK
<1>1. CASE SkipWhitespace
  BY <1>0, <1>1, ConsumingProgresses DEF SkipWhitespace, Consume
<1>2. CASE ParseLeaf
  BY <1>0, <1>2, ConsumingProgresses DEF ParseLeaf, Consume, Return, Goto
<1>3. CASE EnterObject \/ EnterArray
  BY <1>0, <1>3, ConsumingProgresses DEF EnterObject, EnterArray, Enter, Consume, Goto
<1>4. CASE NoValue
  BY <1>4 DEF NoValue, Throw
<1>5. CASE Open
  <2>1. CASE Consume /\ Return(Pop)
    BY <1>0, <2>1, ConsumingProgresses DEF Consume, Return, Goto
  <2>2. CASE Goto("loop") /\ UNCHANGED <<pos, stack, elements>>
    <3>1. Rank = 2 /\ Rank' = 1
      BY <1>5, <2>2 DEF Open, AtToken, At, Goto, Rank
    <3> QED BY <2>2, <3>1, StayingProgresses DEF Goto
  <2> QED BY <1>5, <2>1, <2>2 DEF Open
<1>6. CASE LoopTest
  <2>1. ctl = "loop" /\ pos' = pos /\ text' = text
    BY <1>6 DEF LoopTest, At, Return, Goto
  <2>2. ctl' \in {"key", "value", "next", "end"}
    BY <1>6 DEF LoopTest, Return, Goto, LoopBody, Caller
  <2>3. Rank = 1 /\ Rank' = 0
    BY <2>1, <2>2 DEF Rank
  <2> QED BY <2>1, <2>3, StayingProgresses
<1>7. CASE ParseKey
  BY <1>0, <1>7, ConsumingProgresses DEF ParseKey, Consume, Goto, Throw
<1>8. CASE ParseColon
  BY <1>0, <1>8, ConsumingProgresses DEF ParseColon, Consume, Goto, Throw
<1>9. CASE AfterValue
  BY <1>0, <1>9, ConsumingProgresses DEF AfterValue, Consume, Return, Goto, Throw
<1>10. CASE Finish
  BY <1>10 DEF Finish, Throw
<1> QED
  BY <1>1, <1>2, <1>3, <1>4, <1>5, <1>6, <1>7, <1>8, <1>9, <1>10 DEF Next

(* The parser does linear work on every text, however deep or broken: each *)
(* step that does not end the call lowers 3 * (tokens left) + Rank.        *)
THEOREM Progress == Spec => EveryStepProgresses
<1>1. Init => Inv
  BY InitInv
<1>2. Inv /\ [Next]_vars => Inv'
  BY NextInv
<1>3. Inv /\ Inv' /\ [Next]_vars => [result' = "running" => Measure' < Measure]_vars
  BY StepProgresses
<1> QED BY <1>1, <1>2, <1>3, PTL DEF Spec, EveryStepProgresses

-----------------------------------------------------------------------------
(***************************************************************************)
(* What is accepted.  The theorems below relate the position in the text,  *)
(* which the parser moves, with the words of the grammar, which white      *)
(* space does not count among.                                             *)
(***************************************************************************)
(* A set that holds 0 and, with a number, its successor, holds all of Nat. *)
LEMMA Induct ==
  ASSUME NEW G, 0 \in G, \A n \in Nat : n \in G => n + 1 \in G
  PROVE  Nat \subseteq G
<1> DEFINE R == OpToRel(<, Nat)
<1> SUFFICES ASSUME Nat \ G # {} PROVE FALSE
  OBVIOUS
<1>1. IsWellFoundedOn(R, Nat)
  BY NatLessThanWellFounded
<1>2. PICK x \in Nat \ G : \A y \in Nat \ G : ~(<<y, x>> \in R)
  BY <1>1, WFMin
<1>3. \A y \in Nat \ G : ~(y < x)
  BY <1>2 DEF OpToRel
<1>4. \A y \in Nat \ G : x <= y
  BY <1>3
<1>5. x # 0 /\ x - 1 \in Nat
  BY <1>4
<1>6. x - 1 \in G
  BY <1>4, <1>5
<1> QED BY <1>4, <1>5, <1>6

(* The right-hand side of the definition of kept in Words.                 *)
KeptBody(g, i, s) ==
  IF i = 0 THEN << >> ELSE IF s[i] = "ws" THEN g[i - 1] ELSE Append(g[i - 1], s[i])

LEMMA KeptExists ==
  ASSUME NEW s
  PROVE  \A n \in Nat : \E g : g = [i \in 0 .. n |-> KeptBody(g, i, s)]
<1> DEFINE Good == {n \in Nat : \E g : g = [i \in 0 .. n |-> KeptBody(g, i, s)]}
<1>1. 0 \in Good
  <2> DEFINE g0 == [i \in 0 .. 0 |-> << >>]
  <2>1. g0 = [i \in 0 .. 0 |-> KeptBody(g0, i, s)]
    BY DEF KeptBody
  <2> QED BY <2>1
<1>2. ASSUME NEW n \in Nat, n \in Good PROVE n + 1 \in Good
  <2>1. PICK g : g = [i \in 0 .. n |-> KeptBody(g, i, s)]
    BY <1>2
  <2> DEFINE h == [i \in 0 .. (n + 1) |-> IF i <= n THEN g[i] ELSE KeptBody(g, n + 1, s)]
             b == [i \in 0 .. (n + 1) |-> KeptBody(h, i, s)]
  <2>2. ASSUME NEW i \in 0 .. (n + 1) PROVE h[i] = KeptBody(h, i, s)
    <3>1. CASE i = 0
      BY <2>1, <3>1 DEF KeptBody
    <3>2. CASE i # 0
      <4>1. i - 1 \in 0 .. n /\ h[i - 1] = g[i - 1]
        BY <3>2
      <4>2. h[i] = KeptBody(g, i, s)
        BY <2>1
      <4> QED BY <4>1, <4>2, <3>2 DEF KeptBody
    <3> QED BY <3>1, <3>2
  <2>3. \A i \in 0 .. (n + 1) : h[i] = b[i]
    BY <2>2
  <2>4. h = b
    <3> HIDE DEF b
    <3> QED BY <2>3 DEF b
  <2>5. \E k : k = [i \in 0 .. (n + 1) |-> KeptBody(k, i, s)]
    <3> HIDE DEF h
    <3> QED BY <2>4
  <2> QED BY <2>5
<1>3. Nat \subseteq Good
  <2> HIDE DEF Good
  <2> QED BY <1>1, <1>2, Induct
<1> QED BY <1>3

(* f[k] is what is kept of the first k tokens.                             *)
IsKept(f, s) ==
  /\ f[0] = << >> /\ Words(s) = f[Len(s)]
  /\ \A k \in Nat : k + 1 <= Len(s) =>
       f[k + 1] = IF s[k + 1] = "ws" THEN f[k] ELSE Append(f[k], s[k + 1])

LEMMA WordsUnfold ==
  ASSUME NEW s \in Seq(Tokens)
  PROVE  \E f : IsKept(f, s)
<1>0. PICK n \in Nat : n = Len(s)
  OBVIOUS
<1> DEFINE f == CHOOSE g : g = [i \in 0 .. n |-> KeptBody(g, i, s)]
           b == [i \in 0 .. n |-> KeptBody(f, i, s)]
<1>1. Words(s) = f[n]
  BY <1>0 DEF Words, KeptBody
<1>2. \E g : g = [i \in 0 .. n |-> KeptBody(g, i, s)]
  BY KeptExists
<1>3. f = b
  BY <1>2, Zenon
<1> HIDE DEF f
<1>4. b[0] = << >>
  BY DEF KeptBody
<1>5. ASSUME NEW k \in Nat, k + 1 <= n
      PROVE  b[k + 1] = IF s[k + 1] = "ws" THEN f[k] ELSE Append(f[k], s[k + 1])
  <2>1. k + 1 \in 0 .. n /\ k + 1 # 0 /\ (k + 1) - 1 = k
    BY <1>5
  <2> QED BY <2>1 DEF KeptBody
<1> HIDE DEF b
<1>6. IsKept(f, s)
  BY <1>0, <1>1, <1>3, <1>4, <1>5 DEF IsKept
<1> QED BY <1>6

(* The number of words among the first i tokens.                           *)
Count(s, i) == Len((CHOOSE f : IsKept(f, s))[i])

LEMMA WordFacts ==
  ASSUME NEW s \in Seq(Tokens)
  PROVE  /\ Words(s) \in Seq(Tokens) /\ Count(s, 0) = 0 /\ Count(s, Len(s)) = Len(Words(s))
         /\ \A i \in 0 .. Len(s) : Count(s, i) \in Nat /\ Count(s, i) <= Len(Words(s))
         /\ \A i \in 0 .. Len(s) - 1 :
              IF s[i + 1] = "ws" THEN Count(s, i + 1) = Count(s, i)
              ELSE Count(s, i + 1) = Count(s, i) + 1 /\ Words(s)[Count(s, i) + 1] = s[i + 1]
<1> DEFINE f == CHOOSE g : IsKept(g, s)
           n == Len(s)
<1>1. IsKept(f, s)
  BY WordsUnfold
<1> HIDE DEF f
<1>2. n \in Nat
  OBVIOUS
<1> DEFINE Before(k, m) == /\ Len(f[k]) <= Len(f[m])
                           /\ \A i \in 1 .. Len(f[k]) : f[k][i] = f[m][i]
           G == {m \in Nat : m <= n =>
                   /\ f[m] \in Seq(Tokens)
                   /\ \A k \in 0 .. m : f[k] \in Seq(Tokens) /\ Before(k, m)}
<1>3. 0 \in G
  <2>1. f[0] \in Seq(Tokens) /\ Len(f[0]) = 0
    BY <1>1 DEF IsKept
  <2>2. Before(0, 0)
    BY <2>1
  <2>3. \A k \in 0 .. 0 : k = 0
    OBVIOUS
  <2> HIDE DEF Before
  <2> QED BY <2>1, <2>2, <2>3
<1>4. ASSUME NEW m \in Nat, m \in G PROVE m + 1 \in G
  <2> SUFFICES ASSUME m + 1 <= n
               PROVE  /\ f[m + 1] \in Seq(Tokens)
                      /\ \A k \in 0 .. m + 1 : f[k] \in Seq(Tokens) /\ Before(k, m + 1)
    OBVIOUS
  <2>1. f[m] \in Seq(Tokens) /\ \A k \in 0 .. m : f[k] \in Seq(Tokens) /\ Before(k, m)
    BY <1>2, <1>4
  <2>2. f[m + 1] = f[m] \/ f[m + 1] = Append(f[m], s[m + 1])
    BY <1>1 DEF IsKept
  <2>3. s[m + 1] \in Tokens
    BY <1>2
  <2>4. f[m + 1] \in Seq(Tokens) /\ Before(m, m + 1) /\ Before(m + 1, m + 1)
    <3>1. f[m] \in Seq(Tokens) /\ Len(f[m]) \in Nat
      BY <2>1
    <3>2. f[m + 1] \in Seq(Tokens) /\ Before(m, m + 1)
      <4>1. CASE f[m + 1] = f[m]
        BY <3>1, <4>1
      <4>2. CASE f[m + 1] = Append(f[m], s[m + 1])
        BY <2>3, <3>1, <4>2
      <4> QED BY <2>2, <4>1, <4>2
    <3>3. Before(m + 1, m + 1)
      BY <3>2
    <3> QED BY <3>2, <3>3
  <2>5. ASSUME NEW k \in 0 .. m PROVE Before(k, m + 1)
    BY <2>1, <2>4
  <2> HIDE DEF Before
  <2>6. \A k \in 0 .. m + 1 : k \in 0 .. m \/ k = m + 1
    OBVIOUS
  <2> QED BY <2>1, <2>4, <2>5, <2>6
<1>5. n \in G
  <2>1. Nat \subseteq G
    <3> HIDE DEF G
    <3> QED BY <1>3, <1>4, Induct
  <2> QED BY <1>2, <2>1
<1>6. f[n] \in Seq(Tokens) /\ \A k \in 0 .. n : f[k] \in Seq(Tokens) /\ Before(k, n)
  BY <1>2, <1>5
<1>7. Words(s) = f[n] /\ f[0] = << >>
  BY <1>1 DEF IsKept
<1>8. \A i : Count(s, i) = Len(f[i])
  BY DEF Count, f
<1>9. ASSUME NEW i \in 0 .. n - 1
      PROVE  IF s[i + 1] = "ws" THEN Count(s, i + 1) = Count(s, i)
             ELSE Count(s, i + 1) = Count(s, i) + 1 /\ Words(s)[Count(s, i) + 1] = s[i + 1]
  <2>1. i \in Nat /\ i + 1 <= n /\ i \in 0 .. n /\ i + 1 \in 0 .. n
    BY <1>2
  <2>2. CASE s[i + 1] = "ws"
    BY <1>1, <1>8, <2>1, <2>2 DEF IsKept
  <2>3. CASE s[i + 1] # "ws"
    <3>1. f[i + 1] = Append(f[i], s[i + 1])
      BY <1>1, <2>1, <2>3 DEF IsKept
    <3>2. f[i] \in Seq(Tokens) /\ f[i + 1] \in Seq(Tokens)
      BY <1>6, <2>1
    <3>3. Len(f[i + 1]) = Len(f[i]) + 1 /\ f[i + 1][Len(f[i]) + 1] = s[i + 1]
          /\ Len(f[i]) \in Nat
      BY <3>1, <3>2
    <3>4. Len(f[i]) + 1 \in 1 .. Len(f[i + 1])
      BY <3>3
    <3>5. f[n][Len(f[i]) + 1] = s[i + 1]
      BY <1>6, <2>1, <3>3, <3>4
    <3>6. Count(s, i + 1) = Count(s, i) + 1
      BY <1>8, <3>3
    <3>7. Words(s)[Count(s, i) + 1] = s[i + 1]
      BY <1>7, <1>8, <3>5
    <3> QED BY <2>3, <3>6, <3>7
  <2> QED BY <2>2, <2>3
<1>10. Count(s, 0) = 0 /\ Count(s, n) = Len(Words(s)) /\ Words(s) \in Seq(Tokens)
  BY <1>6, <1>7, <1>8
<1>11. \A i \in 0 .. n : Count(s, i) \in Nat /\ Count(s, i) <= Len(Words(s))
  BY <1>6, <1>7, <1>8
<1> HIDE DEF G, Before
<1> QED BY <1>9, <1>10, <1>11

-----------------------------------------------------------------------------
(* The spans of the grammar, with the lists it is made of.                 *)
Value(w, a, b)      == IsValue(w, Lists(w), a, b)
Item(w, kind, a, b) == IsItem(w, Lists(w), kind, a, b)
List(w, kind, a, b) == IsList(w, Lists(w), kind, a, b)

(* The right-hand side of the definition of lists in Lists.                *)
ListsBody(w, g, n) ==
  [kind \in Kinds |-> {a \in 0 .. Len(w) - n : IsList(w, g, kind, a, a + n)}]

(* A list is made of shorter ones.                                         *)
LEMMA ShorterLists ==
  ASSUME NEW w, NEW g, NEW h, NEW n \in Nat, \A j \in Nat : j < n => g[j] = h[j]
  PROVE  ListsBody(w, g, n) = ListsBody(w, h, n)
<1>1. ASSUME NEW a \in Nat, NEW b \in Nat, b <= a + n
      PROVE  IsValue(w, g, a, b) <=> IsValue(w, h, a, b)
  <2>1. b >= a + 2 => b - a - 2 \in Nat /\ b - a - 2 < n
    BY <1>1
  <2>2. b >= a + 2 => g[b - a - 2] = h[b - a - 2]
    BY <2>1
  <2> QED BY <2>2 DEF IsValue
<1>2. ASSUME NEW a \in Nat, NEW b \in Nat, b <= a + n, NEW kind
      PROVE  IsItem(w, g, kind, a, b) <=> IsItem(w, h, kind, a, b)
  <2>1. a + 2 \in Nat /\ b <= (a + 2) + n
    BY <1>2
  <2>2. /\ IsValue(w, g, a, b) <=> IsValue(w, h, a, b)
        /\ IsValue(w, g, a + 2, b) <=> IsValue(w, h, a + 2, b)
    BY <1>1, <1>2, <2>1
  <2> QED BY <2>2 DEF IsItem, IsPair
<1>3. ASSUME NEW a \in Nat, NEW kind
      PROVE  IsList(w, g, kind, a, a + n) <=> IsList(w, h, kind, a, a + n)
  <2>0. PICK b \in Nat : b = a + n
    OBVIOUS
  <2>1. IsItem(w, g, kind, a, b) <=> IsItem(w, h, kind, a, b)
    BY <1>2, <2>0
  <2>2. ASSUME NEW c \in a + 1 .. b - 2
        PROVE  /\ IsItem(w, g, kind, a, c) <=> IsItem(w, h, kind, a, c)
               /\ g[b - c - 1] = h[b - c - 1]
    <3>1. c \in Nat /\ c <= a + n /\ b - c - 1 \in Nat /\ b - c - 1 < n
      BY <2>0
    <3> QED BY <1>2, <3>1
  <2>3. IsList(w, g, kind, a, b) <=> IsList(w, h, kind, a, b)
    BY <2>1, <2>2 DEF IsList
  <2> QED BY <2>0, <2>3
<1>4. ASSUME NEW kind \in Kinds
      PROVE  {a \in 0 .. Len(w) - n : IsList(w, g, kind, a, a + n)}
               = {a \in 0 .. Len(w) - n : IsList(w, h, kind, a, a + n)}
  <2>1. \A a \in 0 .. Len(w) - n : a \in Nat
    OBVIOUS
  <2> QED BY <1>3, <2>1
<1> QED BY <1>4 DEF ListsBody

LEMMA ListsExist ==
  ASSUME NEW w
  PROVE  \A n \in Nat : \E g : g = [i \in 0 .. n |-> ListsBody(w, g, i)]
<1> DEFINE Good == {n \in Nat : \E g : g = [i \in 0 .. n |-> ListsBody(w, g, i)]}
<1>1. 0 \in Good
  <2> DEFINE g0 == [i \in 0 .. 0 |-> ListsBody(w, << >>, 0)]
             b  == [i \in 0 .. 0 |-> ListsBody(w, g0, i)]
  <2>1. ListsBody(w, << >>, 0) = ListsBody(w, g0, 0)
    <3> HIDE DEF g0
    <3> QED BY ShorterLists
  <2>2. g0 = b
    <3>1. \A i \in 0 .. 0 : i = 0
      OBVIOUS
    <3>2. \A i \in 0 .. 0 : g0[i] = b[i]
      BY <2>1, <3>1
    <3> QED BY <3>2
  <2>3. \E g : g = [i \in 0 .. 0 |-> ListsBody(w, g, i)]
    <3> HIDE DEF g0
    <3> QED BY <2>2
  <2> QED BY <2>3
<1>2. ASSUME NEW n \in Nat, n \in Good PROVE n + 1 \in Good
  <2>1. PICK g : g = [i \in 0 .. n |-> ListsBody(w, g, i)]
    BY <1>2
  <2> DEFINE h == [i \in 0 .. (n + 1) |-> IF i <= n THEN g[i] ELSE ListsBody(w, g, n + 1)]
             b == [i \in 0 .. (n + 1) |-> ListsBody(w, h, i)]
  <2>2. ASSUME NEW i \in 0 .. (n + 1) PROVE h[i] = ListsBody(w, h, i)
    <3>1. h[i] = ListsBody(w, g, i)
      <4>1. CASE i <= n
        <5>1. i \in 0 .. n
          BY <4>1
        <5>2. g[i] = ListsBody(w, g, i)
          BY <2>1, <5>1
        <5> QED BY <4>1, <5>2
      <4>2. CASE ~(i <= n)
        BY <4>2
      <4> QED BY <4>1, <4>2
    <3>2. \A j \in Nat : j < i => g[j] = h[j]
      OBVIOUS
    <3>3. ListsBody(w, g, i) = ListsBody(w, h, i)
      <4>1. i \in Nat
        OBVIOUS
      <4> HIDE DEF h
      <4> QED BY <3>2, <4>1, ShorterLists
    <3> QED BY <3>1, <3>3
  <2>3. \A i \in 0 .. (n + 1) : h[i] = b[i]
    BY <2>2
  <2>4. h = b
    <3> HIDE DEF b
    <3> QED BY <2>3 DEF b
  <2>5. \E k : k = [i \in 0 .. (n + 1) |-> ListsBody(w, k, i)]
    <3> HIDE DEF h
    <3> QED BY <2>4
  <2> QED BY <2>5
<1>3. Nat \subseteq Good
  <2> HIDE DEF Good
  <2> QED BY <1>1, <1>2, Induct
<1> QED BY <1>3

LEMMA ListsUnfold ==
  ASSUME NEW w, Len(w) \in Nat, NEW n \in 0 .. Len(w)
  PROVE  Lists(w)[n] = ListsBody(w, Lists(w), n)
<1>0. PICK m \in Nat : m = Len(w)
  OBVIOUS
<1> DEFINE f == CHOOSE g : g = [i \in 0 .. m |-> ListsBody(w, g, i)]
           b == [i \in 0 .. m |-> ListsBody(w, f, i)]
<1>1. Lists(w) = f
  BY <1>0 DEF Lists, ListsBody
<1>2. \E g : g = [i \in 0 .. m |-> ListsBody(w, g, i)]
  BY ListsExist
<1>3. f = b
  BY <1>2, Zenon
<1> HIDE DEF f
<1>4. b[n] = ListsBody(w, f, n)
  BY <1>0
<1> QED BY <1>1, <1>3, <1>4

(* The grammar as rules for spans.                                         *)
LEMMA Rules ==
  ASSUME NEW w, Len(w) \in Nat, NEW a \in Nat, NEW b \in Nat, b <= Len(w), NEW kind \in Kinds
  PROVE  /\ Value(w, a, b) <=>
               \/ b = a + 1 /\ w[b] \in {"str", "scalar"}
               \/ /\ b >= a + 2
                  /\ \E k \in Kinds : /\ w[a + 1] = Opener(k) /\ w[b] = Closer(k)
                                      /\ b = a + 2 \/ List(w, k, a + 1, b - 1)
         /\ Item(w, kind, a, b) <=>
               IF kind = "arr" THEN Value(w, a, b)
               ELSE b >= a + 3 /\ w[a + 1] = "str" /\ w[a + 2] = Colon /\ Value(w, a + 2, b)
         /\ List(w, kind, a, b) <=>
               \/ Item(w, kind, a, b)
               \/ \E c \in a + 1 .. b - 2 : /\ w[c + 1] = Comma /\ Item(w, kind, a, c)
                                            /\ List(w, kind, c + 1, b)
<1>1. ASSUME NEW x \in Nat, NEW y \in Nat, x <= y, y <= Len(w), NEW k \in Kinds
      PROVE  x \in Lists(w)[y - x][k] <=> List(w, k, x, y)
  <2>1. y - x \in 0 .. Len(w) /\ x \in 0 .. Len(w) - (y - x) /\ x + (y - x) = y
    BY <1>1
  <2>2. PICK n \in 0 .. Len(w) : n = y - x
    BY <2>1
  <2>3. Lists(w)[n] = ListsBody(w, Lists(w), n)
    BY ListsUnfold
  <2>4. Lists(w)[n][k] = {z \in 0 .. Len(w) - n : IsList(w, Lists(w), k, z, z + n)}
    BY <2>3 DEF ListsBody
  <2> QED BY <2>1, <2>2, <2>4 DEF List
<1>2. Value(w, a, b) <=>
        \/ b = a + 1 /\ w[b] \in {"str", "scalar"}
        \/ /\ b >= a + 2
           /\ \E k \in Kinds : /\ w[a + 1] = Opener(k) /\ w[b] = Closer(k)
                               /\ b = a + 2 \/ List(w, k, a + 1, b - 1)
  <2>1. ASSUME b >= a + 2, NEW k \in Kinds
        PROVE  a + 1 \in Lists(w)[b - a - 2][k] <=> List(w, k, a + 1, b - 1)
    <3>1. a + 1 \in Nat /\ b - 1 \in Nat /\ a + 1 <= b - 1 /\ b - 1 <= Len(w)
          /\ (b - 1) - (a + 1) = b - a - 2
      BY <2>1
    <3> QED BY <1>1, <3>1
  <2> QED BY <2>1 DEF Value, IsValue
<1>3. Item(w, kind, a, b) <=>
        IF kind = "arr" THEN Value(w, a, b)
        ELSE b >= a + 3 /\ w[a + 1] = "str" /\ w[a + 2] = Colon /\ Value(w, a + 2, b)
  BY DEF Item, IsItem, IsPair, Value
<1>4. List(w, kind, a, b) <=>
        \/ Item(w, kind, a, b)
        \/ \E c \in a + 1 .. b - 2 : /\ w[c + 1] = Comma /\ Item(w, kind, a, c)
                                     /\ List(w, kind, c + 1, b)
  <2>1. ASSUME NEW c \in a + 1 .. b - 2
        PROVE  c + 1 \in Lists(w)[b - c - 1][kind] <=> List(w, kind, c + 1, b)
    <3>1. c + 1 \in Nat /\ c + 1 <= b /\ b - (c + 1) = b - c - 1
      OBVIOUS
    <3>2. c + 1 \in Lists(w)[b - (c + 1)][kind] <=> List(w, kind, c + 1, b)
      BY <1>1, <3>1
    <3> QED BY <3>1, <3>2
  <2> QED BY <2>1 DEF List, Item, IsList
<1> QED BY <1>2, <1>3, <1>4

(* Nothing of the grammar is empty.                                        *)
LEMMA NotEmpty ==
  ASSUME NEW w, Len(w) \in Nat, NEW a \in Nat, NEW b \in Nat, b <= Len(w), NEW kind \in Kinds
  PROVE  /\ Value(w, a, b) => b >= a + 1
         /\ Item(w, kind, a, b) => b >= a + 1
         /\ List(w, kind, a, b) => b >= a + 1
<1>1. Value(w, a, b) => b >= a + 1
  BY DEF Value, IsValue
<1>2. Item(w, kind, a, b) => b >= a + 1
  BY <1>1, Rules
<1>3. List(w, kind, a, b) => b >= a + 1
  BY <1>2 DEF List, IsList, Item
<1> QED BY <1>1, <1>2, <1>3

(* The grammar puts an item in front of a list, the parser behind it.      *)
LEMMA ItemBehind ==
  ASSUME NEW w, Len(w) \in Nat, NEW kind \in Kinds,
         NEW x \in Nat, NEW y \in Nat, y <= Len(w), w[x + 1] = Comma, Item(w, kind, x + 1, y)
  PROVE  \A a \in Nat : List(w, kind, a, x) => List(w, kind, a, y)
<1>1. y >= x + 2
  BY NotEmpty
<1> DEFINE G == {n \in Nat : \A a \in Nat :
                   x - a <= n /\ List(w, kind, a, x) => List(w, kind, a, y)}
<1>2. ASSUME NEW a \in Nat, List(w, kind, a, x), a + 1 <= x,
             \A c \in Nat : c > a /\ List(w, kind, c, x) => List(w, kind, c, y)
      PROVE  List(w, kind, a, y)
  <2>0. x <= Len(w) /\ x + 1 \in Nat
    BY <1>1
  <2>1. CASE Item(w, kind, a, x)
    <3>1. x \in a + 1 .. y - 2
      BY <1>1, <1>2
    <3>2. List(w, kind, x + 1, y)
      BY <2>0, Rules
    <3> QED BY <2>1, <3>1, <3>2, Rules
  <2>2. CASE \E c \in a + 1 .. x - 2 : /\ w[c + 1] = Comma /\ Item(w, kind, a, c)
                                      /\ List(w, kind, c + 1, x)
    <3>1. PICK c \in a + 1 .. x - 2 : /\ w[c + 1] = Comma /\ Item(w, kind, a, c)
                                      /\ List(w, kind, c + 1, x)
      BY <2>2
    <3>2. c + 1 \in Nat /\ c + 1 > a /\ c \in a + 1 .. y - 2
      BY <1>1
    <3>3. List(w, kind, c + 1, y)
      BY <1>2, <3>1, <3>2
    <3> QED BY <3>1, <3>2, <3>3, Rules
  <2> QED BY <1>2, <2>0, <2>1, <2>2, Rules
<1>3. 0 \in G
  <2>1. ASSUME NEW a \in Nat, x - a <= 0, List(w, kind, a, x) PROVE FALSE
    <3>1. x <= Len(w)
      BY <1>1
    <3> QED BY <2>1, <3>1, NotEmpty
  <2> QED BY <2>1
<1>4. ASSUME NEW n \in Nat, n \in G PROVE n + 1 \in G
  <2> SUFFICES ASSUME NEW a \in Nat, x - a <= n + 1, List(w, kind, a, x)
               PROVE  List(w, kind, a, y)
    OBVIOUS
  <2>1. x <= Len(w)
    BY <1>1
  <2>2. a + 1 <= x
    BY <2>1, NotEmpty
  <2>3. \A c \in Nat : c > a /\ List(w, kind, c, x) => List(w, kind, c, y)
    <3>1. \A c \in Nat : c > a => x - c <= n
      OBVIOUS
    <3> QED BY <1>4, <3>1
  <2> QED BY <1>2, <2>2, <2>3
<1>5. Nat \subseteq G
  <2> HIDE DEF G
  <2> QED BY <1>3, <1>4, Induct
<1>6. ASSUME NEW a \in Nat, List(w, kind, a, x) PROVE List(w, kind, a, y)
  <2>1. x \in G /\ x - a <= x
    BY <1>5
  <2> QED BY <1>6, <2>1
<1> QED BY <1>6

-----------------------------------------------------------------------------
(* Behind the bracket at a + 1, an item of that kind may start at x.       *)
ItemPlace(w, kind, a, x) ==
  x = a + 1 \/ (x >= a + 3 /\ w[x] = Comma /\ List(w, kind, a + 1, x - 1))

(* And a value may start at x: in an object behind a key and a colon.      *)
ValuePlace(w, kind, a, x) ==
  IF kind = "arr" THEN ItemPlace(w, kind, a, x)
  ELSE x >= a + 3 /\ w[x - 1] = "str" /\ w[x] = Colon /\ ItemPlace(w, kind, a, x - 2)

(* A value at its place completes a list.                                  *)
LEMMA ValueCompletes ==
  ASSUME NEW w, Len(w) \in Nat, NEW kind \in Kinds, NEW a \in Nat, NEW x \in Nat,
         NEW y \in Nat, y <= Len(w), ValuePlace(w, kind, a, x), Value(w, x, y)
  PROVE  List(w, kind, a + 1, y)
<1>0. y >= x + 1 /\ kind \in {"arr", "obj"}
  BY NotEmpty DEF Kinds
<1>1. PICK z \in Nat : z <= y /\ ItemPlace(w, kind, a, z) /\ Item(w, kind, z, y)
  <2>1. CASE kind = "arr"
    BY <1>0, <2>1, Rules DEF ValuePlace
  <2>2. CASE kind = "obj"
    <3>1. x - 2 \in Nat /\ (x - 2) + 1 = x - 1 /\ (x - 2) + 2 = x /\ y >= (x - 2) + 3
      BY <1>0, <2>2 DEF ValuePlace
    <3>2. Item(w, kind, x - 2, y)
      BY <2>2, <3>1, Rules DEF ValuePlace
    <3> QED BY <1>0, <2>2, <3>1, <3>2 DEF ValuePlace
  <2> QED BY <1>0, <2>1, <2>2
<1>2. CASE z = a + 1
  BY <1>1, <1>2, Rules
<1>3. CASE z # a + 1
  <2>1. z - 1 \in Nat /\ (z - 1) + 1 = z /\ w[z] = Comma /\ List(w, kind, a + 1, z - 1)
    BY <1>1, <1>3 DEF ItemPlace
  <2>2. a + 1 \in Nat
    OBVIOUS
  <2> QED BY <1>1, <2>1, <2>2, ItemBehind
<1> QED BY <1>2, <1>3

(* A bracket, nothing or a list, and the other bracket are a value.        *)
LEMMA BracketsClose ==
  ASSUME NEW w, Len(w) \in Nat, NEW kind \in Kinds, NEW a \in Nat, NEW c \in Nat,
         c + 1 <= Len(w), w[a + 1] = Opener(kind), w[c + 1] = Closer(kind),
         c = a + 1 \/ List(w, kind, a + 1, c)
  PROVE  Value(w, a, c + 1)
<1>1. c >= a + 1
  <2>1. c <= Len(w) /\ a + 1 \in Nat
    OBVIOUS
  <2> QED BY <2>1, NotEmpty
<1>2. c + 1 \in Nat /\ c + 1 >= a + 2 /\ (c + 1) - 1 = c /\ (c = a + 1 => c + 1 = a + 2)
  BY <1>1
<1> QED BY <1>2, Rules

-----------------------------------------------------------------------------
(***************************************************************************)
(* Where the parser is among the words: behind the first Here of them.     *)
(***************************************************************************)
Here == Count(text, pos)

LEMMA HereFacts ==
  ASSUME Inv
  PROVE  /\ Words(text) \in Seq(Tokens) /\ Len(Words(text)) \in Nat
         /\ Here \in Nat /\ Here <= Len(Words(text))
         /\ pos = Len(text) => Here = Len(Words(text))
         /\ pos < Len(text) /\ Char = "ws" => Count(text, pos + 1) = Here
         /\ pos < Len(text) /\ Char # "ws" =>
              /\ Count(text, pos + 1) = Here + 1 /\ Here + 1 <= Len(Words(text))
              /\ Words(text)[Here + 1] = Char
<1>1. text \in Seq(Tokens) /\ pos \in Nat /\ Len(text) \in Nat /\ pos <= Len(text)
  BY Counts DEF Inv, TypeOK
<1>2. pos \in 0 .. Len(text)
  BY <1>1
<1>3. Here \in Nat /\ Here <= Len(Words(text)) /\ Words(text) \in Seq(Tokens)
  BY <1>1, <1>2, WordFacts DEF Here
<1>4. ASSUME pos < Len(text)
      PROVE  /\ Char = text[pos + 1] /\ pos \in 0 .. Len(text) - 1
             /\ pos + 1 \in 0 .. Len(text)
  BY <1>1, <1>4 DEF Char
<1>5. ASSUME pos < Len(text), Char = "ws" PROVE Count(text, pos + 1) = Here
  BY <1>1, <1>4, <1>5, WordFacts DEF Here
<1>6. ASSUME pos < Len(text), Char # "ws"
      PROVE  /\ Count(text, pos + 1) = Here + 1 /\ Here + 1 <= Len(Words(text))
             /\ Words(text)[Here + 1] = Char
  <2>1. Count(text, pos + 1) = Here + 1 /\ Words(text)[Here + 1] = Char
    BY <1>1, <1>4, <1>6, WordFacts DEF Here
  <2>2. Count(text, pos + 1) <= Len(Words(text))
    BY <1>1, <1>4, <1>6, WordFacts
  <2> QED BY <2>1, <2>2
<1>7. pos = Len(text) => Here = Len(Words(text))
  BY <1>1, WordFacts DEF Here
<1>8. Len(Words(text)) \in Nat
  BY <1>3
<1> QED BY <1>3, <1>5, <1>6, <1>7, <1>8

(* Kinds are the frames of the stack.                                      *)
LEMMA FrameKinds ==
  ASSUME TypeOK
  PROVE  /\ \A i \in 1 .. Len(stack) : stack[i] \in Kinds
         /\ stack # << >> => Innermost \in Kinds /\ Innermost = stack[Len(stack)]
                             /\ Len(stack) \in Nat /\ Len(stack) >= 1
         /\ \A i \in 1 .. Len(stack) - 1 : stack # << >> => Pop[i] = stack[i]
<1> DEFINE F == {"obj", "arr"}
<1>1. stack \in Seq(F)
  BY DEF TypeOK
<1>2. F = Kinds
  BY DEF Kinds
<1> HIDE DEF F
<1>3. Len(stack) \in Nat /\ (stack # << >> => Len(stack) >= 1)
  BY <1>1, EmptySeq, LenProperties
<1>4. \A i \in 1 .. Len(stack) : stack[i] \in Kinds
  BY <1>1, <1>2, ElementOfSeq
<1>5. stack # << >> => Innermost \in Kinds
  BY <1>3, <1>4 DEF Innermost
<1>6. ASSUME stack # << >>, NEW i \in 1 .. Len(stack) - 1 PROVE Pop[i] = stack[i]
  <2>1. Len(stack) - 1 \in Int /\ \A j \in 1 .. Len(stack) - 1 : stack[j] \in F
    BY <1>2, <1>3, <1>4
  <2>2. PICK n \in Nat : n = Len(stack)
    BY <1>3
  <2>3. i \in Nat /\ i >= 1 /\ n >= 1 /\ i <= n - 1
    BY <1>3, <1>6, <2>2
  <2>4. i \in 1 .. IF 1 <= n - 1 THEN (n - 1) - 1 + 1 ELSE 0
    BY <2>3
  <2>5. Pop[i] = stack[1 + i - 1]
    BY <2>1, <2>2, <2>4, SubSeqProperties DEF Pop
  <2>6. 1 + i - 1 = i
    BY <2>3
  <2> QED BY <2>5, <2>6
<1> QED BY <1>3, <1>4, <1>5, <1>6 DEF Innermost

-----------------------------------------------------------------------------
(***************************************************************************)
(* What is accepted is JSON or cut off.  b[i] + 1 is the place of the      *)
(* bracket that call i of the stack entered; what lies between two such    *)
(* brackets, and before the first, is what the grammar wants there.        *)
(***************************************************************************)
BeforeAt(w, b, K, i, x) == IF i = 0 THEN x = 0 ELSE ValuePlace(w, K[i], b[i], x)

Begun(w, b, K) ==
  /\ b \in [Nat -> Nat]
  /\ \A i \in 1 .. Len(K) : /\ b[i] + 1 <= Len(w) /\ w[b[i] + 1] = Opener(K[i])
                            /\ BeforeAt(w, b, K, i - 1, b[i])

(* K2 is K with a frame more.                                              *)
Entered(K2, K, kind) ==
  /\ Len(K) \in Nat /\ Len(K2) = Len(K) + 1 /\ K2[Len(K) + 1] = kind
  /\ \A i \in 1 .. Len(K) : K2[i] = K[i]

(* K2 is K without its last frame.                                         *)
Popped(K2, K) ==
  /\ Len(K) \in Nat /\ Len(K) >= 1 /\ Len(K2) = Len(K) - 1
  /\ \A i \in 1 .. Len(K) - 1 : K2[i] = K[i]

LEMMA StackGrows ==
  ASSUME Inv, NEW kind \in Kinds, stack' = Append(stack, kind)
  PROVE  Entered(stack', stack, kind) /\ stack' # << >>
<1> DEFINE F == {"obj", "arr"}
<1>1. stack \in Seq(F) /\ kind \in F
  BY DEF Inv, TypeOK, Kinds
<1> HIDE DEF F
<1> QED BY <1>1, AppendProperties DEF Entered

LEMMA StackShrinks ==
  ASSUME Inv, stack # << >>
  PROVE  Popped(Pop, stack) /\ Pop \in Seq({"obj", "arr"})
BY FrameKinds, PopType DEF Inv, Popped

(* A call that starts at the next word.                                    *)
LEMMA BegunPush ==
  ASSUME NEW w, NEW b, NEW K, NEW K2, NEW kind, NEW a \in Nat, Entered(K2, K, kind),
         Begun(w, b, K), BeforeAt(w, b, K, Len(K), a),
         a + 1 <= Len(w), w[a + 1] = Opener(kind)
  PROVE  \E b2 : Begun(w, b2, K2) /\ b2[Len(K2)] = a
<1>0. PICK d \in Nat : /\ d = Len(K) /\ Len(K2) = d + 1 /\ K2[d + 1] = kind
                      /\ \A i \in 1 .. d : K2[i] = K[i]
  BY DEF Entered
<1> DEFINE b2 == [i \in Nat |-> IF i = d + 1 THEN a ELSE b[i]]
<1>a. b \in [Nat -> Nat]
  BY DEF Begun
<1>1. b2 \in [Nat -> Nat] /\ b2[d + 1] = a /\ \A i \in 1 .. d : b2[i] = b[i]
  <2>1. b2 \in [Nat -> Nat]
    BY <1>a
  <2>2. d + 1 \in Nat /\ b2[d + 1] = a
    OBVIOUS
  <2>3. \A i \in 1 .. d : i \in Nat /\ i # d + 1
    OBVIOUS
  <2>4. \A i \in 1 .. d : b2[i] = b[i]
    BY <2>3
  <2> HIDE DEF b2
  <2> QED BY <2>1, <2>2, <2>4
<1> HIDE DEF b2
<1>2. ASSUME NEW i \in 0 .. d, NEW x PROVE BeforeAt(w, b2, K2, i, x) <=> BeforeAt(w, b, K, i, x)
  <2>0. i # 0 => i \in 1 .. d
    OBVIOUS
  <2>1. i # 0 => b2[i] = b[i] /\ K2[i] = K[i]
    BY <1>0, <1>1, <2>0, Zenon
  <2> QED BY <2>1 DEF BeforeAt
<1>3. ASSUME NEW i \in 1 .. d + 1
      PROVE  /\ b2[i] + 1 <= Len(w) /\ w[b2[i] + 1] = Opener(K2[i])
             /\ BeforeAt(w, b2, K2, i - 1, b2[i])
  <2>1. CASE i = d + 1
    <3>1. i - 1 = d /\ i - 1 \in 0 .. d
      BY <2>1
    <3>2. BeforeAt(w, b2, K2, i - 1, a)
      BY <1>0, <1>2, <3>1
    <3> QED BY <1>0, <1>1, <2>1, <3>2
  <2>2. CASE i # d + 1
    <3>1. i \in 1 .. d /\ i - 1 \in 0 .. d
      BY <2>2
    <3>2. b[i] + 1 <= Len(w) /\ w[b[i] + 1] = Opener(K[i]) /\ BeforeAt(w, b, K, i - 1, b[i])
      BY <1>0, <3>1 DEF Begun
    <3>3. b2[i] = b[i] /\ K2[i] = K[i]
      BY <1>0, <1>1, <3>1
    <3>4. BeforeAt(w, b2, K2, i - 1, b[i])
      BY <1>2, <3>1, <3>2
    <3> QED BY <3>2, <3>3, <3>4
  <2> QED BY <2>1, <2>2
<1>4. Begun(w, b2, K2)
  BY <1>0, <1>1, <1>3 DEF Begun
<1> QED BY <1>0, <1>1, <1>4

(* A call that returns: the bracket it entered stands where a value may.   *)
LEMMA BegunPop ==
  ASSUME NEW w, NEW b, NEW K, NEW K2, Begun(w, b, K), Popped(K2, K)
  PROVE  /\ Begun(w, b, K2) /\ BeforeAt(w, b, K2, Len(K2), b[Len(K)])
         /\ b[Len(K)] \in Nat /\ b[Len(K)] + 1 <= Len(w)
         /\ w[b[Len(K)] + 1] = Opener(K[Len(K)])
<1>0. PICK d \in Nat : d = Len(K) /\ d >= 1 /\ Len(K2) = d - 1
  BY DEF Popped
<1>1. b \in [Nat -> Nat] /\ b[d] \in Nat
  BY DEF Begun
<1>2. ASSUME NEW i \in 0 .. d - 1, NEW x PROVE BeforeAt(w, b, K2, i, x) <=> BeforeAt(w, b, K, i, x)
  <2>1. i # 0 => K2[i] = K[i]
    BY <1>0 DEF Popped
  <2> QED BY <2>1 DEF BeforeAt
<1>3. ASSUME NEW i \in 1 .. d
      PROVE  /\ b[i] + 1 <= Len(w) /\ w[b[i] + 1] = Opener(K[i])
             /\ BeforeAt(w, b, K2, i - 1, b[i])
  <2>1. i - 1 \in 0 .. d - 1
    OBVIOUS
  <2>2. b[i] + 1 <= Len(w) /\ w[b[i] + 1] = Opener(K[i]) /\ BeforeAt(w, b, K, i - 1, b[i])
    BY <1>0 DEF Begun
  <2> QED BY <1>2, <2>1, <2>2
<1>4. ASSUME NEW i \in 1 .. d - 1 PROVE i \in 1 .. d /\ K2[i] = K[i]
  BY <1>0 DEF Popped
<1>5. Begun(w, b, K2)
  BY <1>0, <1>1, <1>3, <1>4 DEF Begun
<1>6. d \in 1 .. d
  BY <1>0
<1> QED BY <1>0, <1>1, <1>3, <1>5, <1>6

(* A value where one may stand is the text, or completes its caller's list.*)
LEMMA ValueReturned ==
  ASSUME NEW w, NEW b, NEW K, Len(w) \in Nat, Len(K) \in Nat,
         \A i \in 1 .. Len(K) : K[i] \in Kinds, Begun(w, b, K),
         NEW x \in Nat, NEW y \in Nat, y <= Len(w),
         BeforeAt(w, b, K, Len(K), x), Value(w, x, y)
  PROVE  /\ Len(K) = 0 => Value(w, 0, y)
         /\ Len(K) # 0 => List(w, K[Len(K)], b[Len(K)] + 1, y)
<1>1. CASE Len(K) = 0
  BY <1>1 DEF BeforeAt
<1>2. CASE Len(K) # 0
  <2>1. K[Len(K)] \in Kinds /\ b[Len(K)] \in Nat /\ ValuePlace(w, K[Len(K)], b[Len(K)], x)
    BY <1>2 DEF BeforeAt, Begun
  <2> QED BY <1>2, <2>1, ValueCompletes
<1> QED BY <1>1, <1>2

(* What the parser has read, by the point it has reached: the innermost    *)
(* call has read a list (or nothing yet, or a list and a comma), and what  *)
(* parse has read is a value unless the text ended too early.              *)
Place(t, p, K, at, b) ==
  LET w == Words(t)
      c == Count(t, p)
      d == Len(K)
  IN  /\ at = "value" => BeforeAt(w, b, K, d, c)
      /\ at = "open"  => c = b[d] + 1
      /\ at = "loop"  => ItemPlace(w, K[d], b[d], c) /\ (c = b[d] + 1 \/ t[p] = Comma)
      /\ at = "key"   => ItemPlace(w, "obj", b[d], c)
      /\ at = "colon" => c >= 1 /\ w[c] = "str" /\ ItemPlace(w, "obj", b[d], c - 1)
      /\ at = "next"  => p = Len(t) \/ List(w, K[d], b[d] + 1, c)
      /\ at = "end"   => \/ Value(w, 0, c)
                         \/ /\ p = Len(t) /\ c >= 1
                            /\ \E kind \in Kinds :
                                 /\ w[1] = Opener(kind)
                                 /\ c = 1 \/ (t[p] = Comma /\ List(w, kind, 1, c - 1))

Sound(t, p, K, at) == \E b : Begun(Words(t), b, K) /\ Place(t, p, K, at, b)

(* A value is returned to the calls that remain.                           *)
LEMMA ReturnSound ==
  ASSUME NEW t, NEW p, NEW K \in Seq({"obj", "arr"}), NEW b,
         Len(Words(t)) \in Nat, Count(t, p) \in Nat, Count(t, p) <= Len(Words(t)),
         Begun(Words(t), b, K), NEW x \in Nat, BeforeAt(Words(t), b, K, Len(K), x),
         Value(Words(t), x, Count(t, p))
  PROVE  Sound(t, p, K, Caller(K))
<1> DEFINE F == {"obj", "arr"}
<1>1. F = Kinds /\ K \in Seq(F)
  BY DEF Kinds
<1> HIDE DEF F
<1>2. Len(K) \in Nat /\ (K = << >> <=> Len(K) = 0)
  BY <1>1, EmptySeq, LenProperties
<1>3. \A i \in 1 .. Len(K) : K[i] \in Kinds
  BY <1>1, ElementOfSeq
<1>4. /\ Len(K) = 0 => Value(Words(t), 0, Count(t, p))
      /\ Len(K) # 0 => List(Words(t), K[Len(K)], b[Len(K)] + 1, Count(t, p))
  BY <1>2, <1>3, ValueReturned
<1>5. Place(t, p, K, Caller(K), b)
  BY <1>2, <1>4 DEF Place, Caller
<1> QED BY <1>5 DEF Sound

(* What is known of the innermost call, and of the calls behind it.        *)
LEMMA InnermostSound ==
  ASSUME Inv, stack # << >>, NEW b, Begun(Words(text), b, stack)
  PROVE  /\ Len(stack) \in Nat /\ Len(stack) >= 1
         /\ Innermost = stack[Len(stack)] /\ Innermost \in Kinds
         /\ b[Len(stack)] \in Nat /\ b[Len(stack)] + 1 <= Len(Words(text))
         /\ Words(text)[b[Len(stack)] + 1] = Opener(Innermost)
         /\ Pop \in Seq({"obj", "arr"}) /\ Begun(Words(text), b, Pop)
         /\ BeforeAt(Words(text), b, Pop, Len(Pop), b[Len(stack)])
<1>1. /\ Len(stack) \in Nat /\ Len(stack) >= 1
      /\ Innermost = stack[Len(stack)] /\ Innermost \in Kinds
  BY FrameKinds DEF Inv
<1>2. Pop \in Seq({"obj", "arr"}) /\ Popped(Pop, stack)
  BY StackShrinks
<1>3. /\ Begun(Words(text), b, Pop) /\ BeforeAt(Words(text), b, Pop, Len(Pop), b[Len(stack)])
      /\ b[Len(stack)] \in Nat /\ b[Len(stack)] + 1 <= Len(Words(text))
      /\ Words(text)[b[Len(stack)] + 1] = Opener(stack[Len(stack)])
  BY <1>2, BegunPop, Zenon
<1> QED BY <1>1, <1>2, <1>3

(* The loop is left at the end of the text.                                *)
LEMMA CutSound ==
  ASSUME Inv, Sound(text, pos, stack, ctl), ctl = "loop", pos = Len(text)
  PROVE  Sound(text, pos, Pop, Caller(Pop))
<1> DEFINE w == Words(text)
           d == Len(stack)
<1>1. PICK b : Begun(w, b, stack) /\ Place(text, pos, stack, ctl, b)
  BY DEF Sound
<1>2. stack # << >>
  BY DEF Inv, CursorSafe
<1>3. /\ d \in Nat /\ Innermost = stack[d] /\ Innermost \in Kinds
      /\ b[d] \in Nat /\ w[b[d] + 1] = Opener(Innermost)
      /\ Pop \in Seq({"obj", "arr"}) /\ Begun(w, b, Pop) /\ BeforeAt(w, b, Pop, Len(Pop), b[d])
  BY <1>1, <1>2, InnermostSound
<1>4. /\ ItemPlace(w, Innermost, b[d], Here)
      /\ Here = b[d] + 1 \/ text[pos] = Comma
  <2>1. /\ ItemPlace(w, stack[d], b[d], Here)
        /\ Here = b[d] + 1 \/ text[pos] = Comma
    BY <1>1, Zenon DEF Place, Here
  <2>2. stack[d] = Innermost
    BY <1>3
  <2> QED BY <2>1, <2>2, Zenon
<1>5. CASE Pop = << >>
  <2>1. Caller(Pop) = "end" /\ b[d] = 0
    BY <1>3, <1>5 DEF Caller, BeforeAt
  <2>2. Here >= 1 /\ (Here = 1 \/ (text[pos] = Comma /\ List(w, Innermost, 1, Here - 1)))
    BY <1>3, <1>4, <2>1, HereFacts DEF ItemPlace
  <2>3. w[1] = Opener(Innermost)
    BY <1>3, <2>1
  <2>4. Place(text, pos, Pop, "end", b)
    BY <1>3, <2>2, <2>3 DEF Place, Here
  <2> QED BY <1>3, <2>1, <2>4 DEF Sound
<1>6. CASE Pop # << >>
  <2>1. Caller(Pop) = "next" /\ Place(text, pos, Pop, "next", b)
    BY <1>6 DEF Caller, Place
  <2> QED BY <1>3, <2>1 DEF Sound
<1> QED BY <1>5, <1>6

(* A step that does not throw has read what the grammar wants.             *)
LEMMA SoundStep ==
  ASSUME Inv, Sound(text, pos, stack, ctl), Next, result' # "thrown"
  PROVE  Sound(text, pos', stack', ctl')
<1> DEFINE w == Words(text)
           d == Len(stack)
<1>1. PICK b : Begun(w, b, stack) /\ Place(text, pos, stack, ctl, b)
  BY DEF Sound
<1>2. /\ Len(w) \in Nat /\ Here \in Nat /\ Here <= Len(w) /\ pos \in Nat /\ Len(text) \in Nat
      /\ pos <= Len(text) /\ Here = Count(text, pos)
  BY HereFacts, Counts DEF Here
<1>3. ASSUME Char # "nul", Char # "ws"
      PROVE  /\ pos < Len(text) /\ Count(text, pos + 1) = Here + 1 /\ Here + 1 <= Len(w)
             /\ Here + 1 \in Nat /\ w[Here + 1] = Char /\ text[pos + 1] = Char
  <2>1. pos < Len(text)
    BY <1>2, <1>3, CharIsInText
  <2> QED BY <1>2, <1>3, <2>1, HereFacts DEF Char
<1>4. ASSUME stack # << >>
      PROVE  /\ d \in Nat /\ d >= 1 /\ Innermost = stack[d] /\ Innermost \in Kinds
             /\ b[d] \in Nat /\ w[b[d] + 1] = Opener(Innermost)
             /\ Pop \in Seq({"obj", "arr"}) /\ Begun(w, b, Pop)
             /\ BeforeAt(w, b, Pop, Len(Pop), b[d])
  BY <1>1, <1>4, InnermostSound
<1> HIDE DEF w, d
(* The closing bracket returns the bracket that was entered.               *)
<1>5. ASSUME stack # << >>, Char = Closer(Innermost), Char # "ws", pos' = pos + 1, Return(Pop),
             Here = b[d] + 1 \/ List(w, Innermost, b[d] + 1, Here)
      PROVE  Sound(text, pos', stack', ctl')
  <2>1. Char # "nul"
    BY <1>5 DEF Closer
  <2>2. Value(w, b[d], Here + 1)
    BY <1>2, <1>3, <1>4, <1>5, <2>1, BracketsClose
  <2>3. stack' = Pop /\ ctl' = Caller(Pop)
    BY <1>5 DEF Return, Goto
  <2>4. Sound(text, pos + 1, Pop, Caller(Pop))
    BY <1>2, <1>3, <1>4, <1>5, <2>1, <2>2, ReturnSound DEF w
  <2> QED BY <1>5, <2>3, <2>4
<1>6. ASSUME pos' = pos + 1, stack' = stack, NEW b2, b2 = b, Place(text, pos + 1, stack, ctl', b2)
      PROVE  Sound(text, pos', stack', ctl')
  BY <1>1, <1>6 DEF Sound, w
<1>11. CASE SkipWhitespace
  <2>1. Char = "ws" /\ pos' = pos + 1 /\ stack' = stack /\ ctl' = ctl
        /\ ctl \in {"value", "open", "key", "colon", "next", "end"}
    BY <1>11 DEF SkipWhitespace, Skipping, Consume
  <2>2. pos < Len(text) /\ pos # Len(text) /\ Count(text, pos + 1) = Here
    BY <1>2, <2>1, CharIsInText, HereFacts
  <2>3. Place(text, pos + 1, stack, ctl, b)
    BY <1>1, <1>2, <2>1, <2>2 DEF Place, w, d
  <2> QED BY <1>6, <2>1, <2>3
<1>12. CASE ParseLeaf
  <2>1. ctl = "value" /\ Char \in {"str", "scalar"} /\ pos' = pos + 1 /\ stack' = stack
        /\ ctl' = Caller(stack) /\ stack \in Seq({"obj", "arr"})
    BY <1>12 DEF ParseLeaf, AtToken, At, Consume, Return, Goto, Inv, TypeOK
  <2>2. Char # "nul" /\ Char # "ws"
    BY <2>1
  <2>3. Value(w, Here, Here + 1)
    BY <1>2, <1>3, <2>1, <2>2 DEF Value, IsValue
  <2>4. BeforeAt(w, b, stack, Len(stack), Here)
    BY <1>1, <1>2, <2>1 DEF Place, w, d
  <2>5. Sound(text, pos + 1, stack, Caller(stack))
    BY <1>1, <1>2, <1>3, <2>1, <2>2, <2>3, <2>4, ReturnSound DEF w
  <2> QED BY <2>1, <2>5
<1>13. ASSUME NEW kind \in Kinds, Enter(Opener(kind), kind), Opener(kind) \notin {"nul", "ws"}
       PROVE  Sound(text, pos', stack', ctl')
  <2>1. ctl = "value" /\ Char = Opener(kind) /\ pos' = pos + 1 /\ ctl' = "open"
        /\ stack' = Append(stack, kind)
    BY <1>13 DEF Enter, AtToken, At, Consume, Goto
  <2>2. BeforeAt(w, b, stack, Len(stack), Here)
    BY <1>1, <1>2, <2>1 DEF Place, w, d
  <2>3. Entered(stack', stack, kind)
    BY <2>1, StackGrows
  <2>4. PICK b2 : Begun(w, b2, stack') /\ b2[Len(stack')] = Here
    <3>1. PICK K2 : K2 = stack'
      OBVIOUS
    <3>2. Here + 1 <= Len(w) /\ w[Here + 1] = Opener(kind)
      BY <1>3, <1>13, <2>1
    <3>3. \E b2 : Begun(w, b2, K2) /\ b2[Len(K2)] = Here
      BY <1>1, <1>2, <2>2, <2>3, <3>1, <3>2, BegunPush DEF w
    <3> QED BY <3>1, <3>3
  <2>5. Place(text, pos + 1, stack', "open", b2)
    BY <1>3, <1>13, <2>1, <2>4 DEF Place
  <2> QED BY <2>1, <2>4, <2>5 DEF Sound, w
<1>14. CASE EnterObject \/ EnterArray
  <2>1. Enter(Opener("obj"), "obj") \/ Enter(Opener("arr"), "arr")
    BY <1>14, Zenon DEF EnterObject, EnterArray, Opener
  <2>2. Opener("obj") \notin {"nul", "ws"} /\ Opener("arr") \notin {"nul", "ws"}
    BY Zenon DEF Opener
  <2>3. "obj" \in Kinds /\ "arr" \in Kinds
    BY DEF Kinds
  <2> QED BY <1>13, <2>1, <2>2, <2>3
<1>15. CASE NoValue
  BY <1>15 DEF NoValue, Throw
<1>16. CASE Open
  <2>1. ctl = "open" /\ Char # "ws" /\ stack # << >>
    BY <1>16 DEF Open, AtToken, At, Inv, CursorSafe
  <2>2. Here = b[d] + 1
    BY <1>1, <1>2, <2>1 DEF Place, w, d
  <2>3. CASE Char = Closer(Innermost)
    <3>1. pos' = pos + 1 /\ Return(Pop)
      BY <1>16, <2>3 DEF Open, Consume
    <3> QED BY <1>5, <2>1, <2>2, <2>3, <3>1
  <2>4. CASE Char # Closer(Innermost)
    <3>1. pos' = pos /\ stack' = stack /\ ctl' = "loop"
      BY <1>16, <2>4 DEF Open, Goto
    <3>2. Place(text, pos, stack, "loop", b)
      BY <1>2, <2>2 DEF Place, ItemPlace, w, d
    <3> QED BY <1>1, <3>1, <3>2 DEF Sound, w
  <2> QED BY <2>3, <2>4
<1>17. CASE LoopTest
  <2>1. ctl = "loop" /\ stack # << >>
    BY <1>17 DEF LoopTest, At, Inv, CursorSafe
  <2>2. CASE pos < Len(text)
    <3>1. pos' = pos /\ stack' = stack /\ ctl' = LoopBody(Innermost)
      BY <1>17, <2>2 DEF LoopTest, Goto
    <3>2. ItemPlace(w, Innermost, b[d], Here)
      BY <1>1, <1>2, <1>4, <2>1, Zenon DEF Place, w, d
    <3>3. Place(text, pos, stack, ctl', b)
      <4>1. CASE Innermost = "obj"
        <5>1. ctl' = "key"
          BY <3>1, <4>1 DEF LoopBody
        <5> QED BY <1>2, <3>2, <4>1, <5>1 DEF Place, w, d
      <4>2. CASE Innermost = "arr"
        <5>1. ctl' = "value" /\ BeforeAt(w, b, stack, d, Here)
          BY <1>4, <2>1, <3>1, <3>2, <4>2 DEF LoopBody, BeforeAt, ValuePlace
        <5> QED BY <1>2, <5>1 DEF Place, w, d
      <4> QED BY <1>4, <2>1, <4>1, <4>2 DEF Kinds
    <3> QED BY <1>1, <3>1, <3>3 DEF Sound, w
  <2>3. CASE ~(pos < Len(text))
    <3>1. pos' = pos /\ stack' = Pop /\ ctl' = Caller(Pop) /\ pos = Len(text)
      BY <1>2, <1>17, <2>3 DEF LoopTest, Return, Goto
    <3> QED BY <2>1, <3>1, CutSound
  <2> QED BY <2>2, <2>3
<1>18. CASE ParseKey
  <2>1. ctl = "key" /\ Char = "str" /\ pos' = pos + 1 /\ ctl' = "colon" /\ stack' = stack
    BY <1>18 DEF ParseKey, AtToken, At, Consume, Goto, Throw
  <2>2. ItemPlace(w, "obj", b[d], Here)
    BY <1>1, <1>2, <2>1 DEF Place, w, d
  <2>3. Count(text, pos + 1) = Here + 1 /\ w[Here + 1] = "str"
    BY <1>3, <2>1
  <2>4. Here + 1 >= 1 /\ (Here + 1) - 1 = Here
    BY <1>2
  <2>5. Place(text, pos + 1, stack, "colon", b)
    BY <2>2, <2>3, <2>4 DEF Place, w, d
  <2> QED BY <1>6, <2>1, <2>5
<1>19. CASE ParseColon
  <2>1. ctl = "colon" /\ Char = Colon /\ pos' = pos + 1 /\ ctl' = "value" /\ stack' = stack
        /\ Char # "ws" /\ Char # "nul" /\ stack # << >> /\ Innermost = "obj"
    BY <1>19 DEF ParseColon, AtToken, At, Consume, Goto, Throw, Colon, Inv, CursorSafe
  <2>2. Here >= 1 /\ w[Here] = "str" /\ ItemPlace(w, "obj", b[d], Here - 1)
    BY <1>1, <1>2, <2>1 DEF Place, w, d
  <2>3. Count(text, pos + 1) = Here + 1 /\ w[Here + 1] = Colon
    BY <1>3, <2>1
  <2>4. (Here + 1) - 1 = Here /\ (Here + 1) - 2 = Here - 1
    BY <1>2
  <2>5. Here + 1 >= b[d] + 3
    BY <1>2, <1>4, <2>1, <2>2 DEF ItemPlace
  <2>6. d # 0 /\ stack[d] = "obj"
    BY <1>4, <2>1
  <2>7. BeforeAt(w, b, stack, d, Here + 1)
    BY <2>2, <2>3, <2>4, <2>5, <2>6 DEF BeforeAt, ValuePlace
  <2>8. Place(text, pos + 1, stack, "value", b)
    BY <2>3, <2>7 DEF Place, w, d
  <2> QED BY <1>6, <2>1, <2>8
<1>20. CASE AfterValue
  <2>1. ctl = "next" /\ Char # "ws" /\ stack # << >>
    BY <1>20 DEF AfterValue, AtToken, At, Inv, CursorSafe
  <2>2. ASSUME Char # "nul" PROVE List(w, Innermost, b[d] + 1, Here)
    <3>1. pos # Len(text)
      BY <1>2, <1>3, <2>1, <2>2
    <3> QED BY <1>1, <1>2, <1>4, <2>1, <3>1, Zenon DEF Place, w, d
  <2>3. CASE Char = Closer(Innermost) /\ Consume /\ Return(Pop)
    <3>1. Char # "nul"
      BY <2>3 DEF Closer
    <3> QED BY <1>5, <2>1, <2>2, <2>3, <3>1 DEF Consume
  <2>4. CASE Char = Comma /\ Consume /\ Goto("loop") /\ UNCHANGED <<stack, elements>>
    <3>1. pos' = pos + 1 /\ stack' = stack /\ ctl' = "loop"
      BY <2>4 DEF Consume, Goto
    <3>2. Char # "nul"
      BY <2>4, Zenon DEF Comma
    <3>3. /\ Count(text, pos + 1) = Here + 1 /\ w[Here + 1] = Comma /\ text[pos + 1] = Comma
          /\ List(w, Innermost, b[d] + 1, Here)
      BY <1>3, <2>1, <2>2, <2>4, <3>2
    <3>4. Here + 1 >= b[d] + 3 /\ (Here + 1) - 1 = Here
      <4>1. b[d] + 1 \in Nat /\ Innermost \in Kinds /\ b[d] \in Nat
        BY <1>4, <2>1
      <4>2. Here >= (b[d] + 1) + 1
        BY <1>2, <3>3, <4>1, NotEmpty
      <4> QED BY <1>2, <4>1, <4>2
    <3>5. ItemPlace(w, Innermost, b[d], Here + 1)
      BY <3>3, <3>4 DEF ItemPlace
    <3>6. Innermost = stack[d]
      BY <1>4, <2>1
    <3>7. Place(text, pos + 1, stack, "loop", b)
      BY <3>3, <3>5, <3>6 DEF Place, w, d
    <3> QED BY <1>6, <3>1, <3>7
  <2>5. CASE Throw
    BY <2>5 DEF Throw
  <2> QED BY <1>20, <2>3, <2>4, <2>5, Zenon DEF AfterValue, Comma
<1>21. CASE Finish
  <2>1. pos' = pos /\ stack' = stack /\ ctl' = ctl
    BY <1>21 DEF Finish, Throw
  <2> QED BY <2>1
<1> QED
  BY <1>11, <1>12, <1>14, <1>15, <1>16, <1>17, <1>18, <1>19, <1>20, <1>21 DEF Next

-----------------------------------------------------------------------------
(***************************************************************************)
(* JSON is accepted, and what is cut off inside its outermost bracket.     *)
(* e[i] is the place of the bracket that will close call i of the stack,   *)
(* and one behind the last word for the outermost call in a text cut off;  *)
(* what lies ahead of the parser, and between two such places, is what it  *)
(* is going to ask for.                                                    *)
(***************************************************************************)
LEMMA Distinct ==
  ASSUME NEW k \in Kinds, NEW j \in Kinds
  PROVE  /\ Opener(k) = Opener(j) => k = j
         /\ Opener(k) \notin {"str", "scalar", "ws", "nul"}
         /\ Closer(k) \notin {"str", "scalar", "ws", "nul"}
         /\ Opener(k) # Closer(j) /\ Comma # Closer(k)
<1>1. \A m \in Kinds : m = "arr" \/ m = "obj"
  BY DEF Kinds
<1>2. Opener("arr") = "[" /\ Opener("obj") = "{" /\ Closer("arr") = "]" /\ Closer("obj") = "}"
  BY Zenon DEF Opener, Closer
<1>3. Opener(k) = Opener(j) => k = j
  <2>1. Opener("arr") # Opener("obj")
    BY <1>2, Zenon
  <2> QED BY <1>1, <2>1, Zenon
<1>4. Opener(k) \notin {"str", "scalar", "ws", "nul"}
  BY <1>1, <1>2, Zenon
<1>5. Closer(k) \notin {"str", "scalar", "ws", "nul"}
  BY <1>1, <1>2, Zenon
<1>6. Opener(k) # Closer(j)
  <2>1. /\ Opener("arr") # Closer("arr") /\ Opener("arr") # Closer("obj")
        /\ Opener("obj") # Closer("arr") /\ Opener("obj") # Closer("obj")
    BY <1>2, Zenon
  <2> QED BY <1>1, <2>1, Zenon
<1>7. Comma # Closer(k)
  BY <1>1, <1>2, Zenon DEF Comma
<1> QED BY <1>3, <1>4, <1>5, <1>6, <1>7

(* The word a value, an item or a list begins with.                        *)
LEMMA FirstWord ==
  ASSUME NEW w, Len(w) \in Nat, NEW a \in Nat, NEW b \in Nat, b <= Len(w), NEW kind \in Kinds
  PROVE  /\ Value(w, a, b) => w[a + 1] \in {"str", "scalar"}
                              \/ \E k \in Kinds : w[a + 1] = Opener(k)
         /\ Item(w, kind, a, b) => /\ \A k \in Kinds : w[a + 1] # Closer(k)
                                   /\ kind = "obj" => w[a + 1] = "str"
         /\ List(w, kind, a, b) => /\ \A k \in Kinds : w[a + 1] # Closer(k)
                                   /\ kind = "obj" => w[a + 1] = "str"
<1>1. ASSUME NEW y \in Nat, y <= Len(w), Value(w, a, y)
      PROVE  w[a + 1] \in {"str", "scalar"} \/ \E k \in Kinds : w[a + 1] = Opener(k)
  BY <1>1 DEF Value, IsValue
<1>2. ASSUME NEW y \in Nat, y <= Len(w), Item(w, kind, a, y)
      PROVE  /\ \A k \in Kinds : w[a + 1] # Closer(k)
             /\ kind = "obj" => w[a + 1] = "str"
  <2>1. CASE kind = "arr"
    <3>1. w[a + 1] \in {"str", "scalar"} \/ \E k \in Kinds : w[a + 1] = Opener(k)
      BY <1>1, <1>2, <2>1, Rules
    <3>2. \A k \in Kinds : w[a + 1] # Closer(k)
      BY <3>1, Distinct
    <3> QED BY <2>1, <3>2
  <2>2. CASE kind = "obj"
    <3>1. w[a + 1] = "str"
      BY <1>2, <2>2, Rules
    <3>2. \A k \in Kinds : w[a + 1] # Closer(k)
      BY <3>1, Distinct
    <3> QED BY <3>1, <3>2
  <2> QED BY <2>1, <2>2 DEF Kinds
<1>3. List(w, kind, a, b) => \E y \in Nat : y <= Len(w) /\ Item(w, kind, a, y)
  <2>1. \A c \in a + 1 .. b - 2 : c \in Nat /\ c <= Len(w)
    OBVIOUS
  <2> QED BY <2>1, Rules
<1> QED BY <1>1, <1>2, <1>3

(* Behind y, what is left up to the bracket at z that closes, or up to the *)
(* comma that a text cut off ends with.                                    *)
Rest(w, kind, y, z) ==
  \/ /\ y < z /\ z <= Len(w) /\ w[z] = Closer(kind)
     /\ z = y + 1 \/ (w[y + 1] = Comma /\ List(w, kind, y + 1, z - 1))
  \/ /\ z = Len(w) + 1 /\ y < Len(w) /\ w[Len(w)] = Comma /\ w[y + 1] = Comma
     /\ y + 1 = Len(w) \/ List(w, kind, y + 1, Len(w) - 1)

(* The same before a list.                                                 *)
Inside(w, kind, x, z) ==
  \/ x < z /\ z <= Len(w) /\ w[z] = Closer(kind) /\ List(w, kind, x, z - 1)
  \/ z = Len(w) + 1 /\ x < Len(w) /\ w[Len(w)] = Comma /\ List(w, kind, x, Len(w) - 1)

LEMMA FirstItem ==
  ASSUME NEW w, Len(w) \in Nat, NEW kind \in Kinds, NEW x \in Nat, NEW z \in Nat,
         Inside(w, kind, x, z)
  PROVE  \E y \in Nat : y <= Len(w) /\ Item(w, kind, x, y) /\ Rest(w, kind, y, z)
<1>1. PICK v \in Nat : /\ v + 1 <= Len(w) /\ List(w, kind, x, v)
                       /\ \/ z = v + 1 /\ w[z] = Closer(kind)
                          \/ z = v + 2 /\ Len(w) = v + 1 /\ w[Len(w)] = Comma
  <2>1. CASE x < z /\ z <= Len(w) /\ w[z] = Closer(kind) /\ List(w, kind, x, z - 1)
    <3>1. z - 1 \in Nat /\ z = (z - 1) + 1
      BY <2>1
    <3> QED BY <2>1, <3>1
  <2>2. CASE z = Len(w) + 1 /\ x < Len(w) /\ w[Len(w)] = Comma /\ List(w, kind, x, Len(w) - 1)
    <3>1. PICK v \in Nat : Len(w) = v + 1
      <4>1. Len(w) - 1 \in Nat /\ Len(w) = (Len(w) - 1) + 1
        BY <2>2
      <4> QED BY <4>1
    <3>2. z = v + 2 /\ Len(w) - 1 = v /\ v + 1 <= Len(w)
      BY <2>2, <3>1
    <3> QED BY <2>2, <3>1, <3>2
  <2> QED BY <2>1, <2>2 DEF Inside
(* An item that a comma and a list follow, or one that ends what is left.  *)
<1>2. ASSUME NEW y \in Nat, y <= v,
             y = v \/ (w[y + 1] = Comma /\ List(w, kind, y + 1, v))
      PROVE  Rest(w, kind, y, z)
  <2>1. CASE z = v + 1 /\ w[z] = Closer(kind)
    <3>1. y < z /\ z <= Len(w) /\ z - 1 = v /\ (y = v => z = y + 1)
      BY <1>1, <1>2, <2>1
    <3> QED BY <1>2, <2>1, <3>1 DEF Rest
  <2>2. CASE z = v + 2 /\ Len(w) = v + 1 /\ w[Len(w)] = Comma
    <3>1. z = Len(w) + 1 /\ y < Len(w) /\ Len(w) - 1 = v /\ (y = v => y + 1 = Len(w))
      BY <1>2, <2>2
    <3> QED BY <1>2, <2>2, <3>1 DEF Rest
  <2> QED BY <1>1, <2>1, <2>2
<1>3. CASE Item(w, kind, x, v)
  BY <1>1, <1>2, <1>3
<1>4. CASE \E c \in x + 1 .. v - 2 : /\ w[c + 1] = Comma /\ Item(w, kind, x, c)
                                    /\ List(w, kind, c + 1, v)
  <2>1. PICK c \in x + 1 .. v - 2 : /\ w[c + 1] = Comma /\ Item(w, kind, x, c)
                                    /\ List(w, kind, c + 1, v)
    BY <1>4
  <2>2. c \in Nat /\ c <= v /\ c <= Len(w)
    BY <1>1
  <2> QED BY <1>2, <2>1, <2>2
<1>5. v <= Len(w)
  BY <1>1
<1> QED BY <1>1, <1>3, <1>4, <1>5, Rules

AfterAt(w, e, K, i, y) ==
  IF i = 0 THEN y \in {Len(w), Len(w) + 1} ELSE Rest(w, K[i], y, e[i])

Ends(w, e, K) ==
  /\ e \in [Nat -> Nat]
  /\ \A i \in 1 .. Len(K) : AfterAt(w, e, K, i - 1, e[i])

LEMMA EndsPush ==
  ASSUME NEW w, NEW e, NEW K, NEW K2, NEW kind, NEW z \in Nat, Entered(K2, K, kind),
         Ends(w, e, K), AfterAt(w, e, K, Len(K), z)
  PROVE  \E e2 : Ends(w, e2, K2) /\ e2[Len(K2)] = z
<1>0. PICK d \in Nat : d = Len(K) /\ Len(K2) = d + 1 /\ \A i \in 1 .. d : K2[i] = K[i]
  BY DEF Entered
<1> DEFINE e2 == [i \in Nat |-> IF i = d + 1 THEN z ELSE e[i]]
<1>a. e \in [Nat -> Nat]
  BY DEF Ends
<1>1. e2 \in [Nat -> Nat] /\ e2[d + 1] = z /\ \A i \in 1 .. d : e2[i] = e[i]
  <2>1. e2 \in [Nat -> Nat]
    BY <1>a
  <2>2. d + 1 \in Nat /\ e2[d + 1] = z
    OBVIOUS
  <2>3. \A i \in 1 .. d : i \in Nat /\ i # d + 1
    OBVIOUS
  <2>4. \A i \in 1 .. d : e2[i] = e[i]
    BY <2>3
  <2> HIDE DEF e2
  <2> QED BY <2>1, <2>2, <2>4
<1> HIDE DEF e2
<1>2. ASSUME NEW i \in 0 .. d, NEW x PROVE AfterAt(w, e2, K2, i, x) <=> AfterAt(w, e, K, i, x)
  <2>0. i # 0 => i \in 1 .. d
    OBVIOUS
  <2>1. i # 0 => e2[i] = e[i] /\ K2[i] = K[i]
    BY <1>0, <1>1, <2>0, Zenon
  <2> QED BY <2>1 DEF AfterAt
<1>3. ASSUME NEW i \in 1 .. d + 1
      PROVE  AfterAt(w, e2, K2, i - 1, e2[i])
  <2>1. CASE i = d + 1
    <3>1. i - 1 = d /\ i - 1 \in 0 .. d
      BY <2>1
    <3>2. AfterAt(w, e2, K2, i - 1, z)
      BY <1>0, <1>2, <3>1
    <3> QED BY <1>0, <1>1, <2>1, <3>2
  <2>2. CASE i # d + 1
    <3>1. i \in 1 .. d /\ i - 1 \in 0 .. d
      BY <2>2
    <3>2. AfterAt(w, e, K, i - 1, e[i])
      BY <1>0, <3>1 DEF Ends
    <3>3. e2[i] = e[i]
      BY <1>1, <3>1
    <3>4. AfterAt(w, e2, K2, i - 1, e[i])
      BY <1>2, <3>1, <3>2
    <3> QED BY <3>2, <3>3, <3>4
  <2> QED BY <2>1, <2>2
<1>4. Ends(w, e2, K2)
  BY <1>0, <1>1, <1>3 DEF Ends
<1> QED BY <1>0, <1>1, <1>4

LEMMA EndsPop ==
  ASSUME NEW w, NEW e, NEW K, NEW K2, Ends(w, e, K), Popped(K2, K)
  PROVE  Ends(w, e, K2) /\ AfterAt(w, e, K2, Len(K2), e[Len(K)])
<1>0. PICK d \in Nat : d = Len(K) /\ d >= 1 /\ Len(K2) = d - 1
  BY DEF Popped
<1>1. e \in [Nat -> Nat] /\ e[d] \in Nat
  BY DEF Ends
<1>2. ASSUME NEW i \in 0 .. d - 1, NEW x PROVE AfterAt(w, e, K2, i, x) <=> AfterAt(w, e, K, i, x)
  <2>1. i # 0 => K2[i] = K[i]
    BY <1>0 DEF Popped
  <2> QED BY <2>1 DEF AfterAt
<1>3. ASSUME NEW i \in 1 .. d
      PROVE  AfterAt(w, e, K2, i - 1, e[i])
  <2>1. i - 1 \in 0 .. d - 1
    OBVIOUS
  <2>2. AfterAt(w, e, K, i - 1, e[i])
    BY <1>0 DEF Ends
  <2> QED BY <1>2, <2>1, <2>2
<1>4. Ends(w, e, K2)
  <2>1. \A i \in 1 .. d - 1 : i \in 1 .. d
    BY <1>0
  <2> QED BY <1>0, <1>1, <1>3, <2>1 DEF Ends
<1>5. d \in 1 .. d
  BY <1>0
<1> QED BY <1>0, <1>3, <1>4, <1>5

(* Only the outermost call may wait for a bracket that never comes.        *)
LEMMA EndsInText ==
  ASSUME NEW w, Len(w) \in Nat, NEW e, NEW K, Ends(w, e, K), NEW i \in 1 .. Len(K)
  PROVE  e[i] \in Nat /\ e[i] <= Len(w) + 1 /\ (i # 1 => e[i] <= Len(w))
<1>1. i \in Nat /\ i >= 1 /\ e[i] \in Nat /\ AfterAt(w, e, K, i - 1, e[i])
  BY DEF Ends
<1>2. CASE i = 1
  BY <1>1, <1>2 DEF AfterAt
<1>3. CASE i # 1
  <2>1. i - 1 \in Nat /\ i - 1 # 0 /\ e[i - 1] \in Nat
    BY <1>1, <1>3 DEF Ends
  <2>2. Rest(w, K[i - 1], e[i], e[i - 1])
    BY <1>1, <2>1 DEF AfterAt
  <2>3. e[i] <= Len(w)
    BY <1>1, <2>1, <2>2 DEF Rest
  <2> QED BY <1>1, <2>3
<1> QED BY <1>2, <1>3

(* A text cut off, by its words.                                           *)
CutShort(w) ==
  /\ Len(w) >= 1
  /\ \E kind \in Kinds : /\ w[1] = Opener(kind)
                         /\ Len(w) = 1 \/ (w[Len(w)] = Comma /\ List(w, kind, 1, Len(w) - 1))

(* A text that ends with a comma has it for its last word.                 *)
LEMMA LastWord ==
  ASSUME Inv, Len(Words(text)) >= 1, text[Len(text)] = Comma
  PROVE  Words(text)[Len(Words(text))] = Comma
<1>1. text \in Seq(Tokens) /\ Len(text) \in Nat
  BY Counts DEF Inv, TypeOK
<1>2. Count(text, Len(text)) = Len(Words(text)) /\ Len(text) # 0
  BY <1>1, WordFacts
<1>3. PICK p \in Nat : p + 1 = Len(text) /\ p \in 0 .. Len(text) - 1 /\ p \in 0 .. Len(text)
  <2>1. Len(text) - 1 \in Nat /\ (Len(text) - 1) + 1 = Len(text)
        /\ Len(text) - 1 \in 0 .. Len(text) - 1 /\ Len(text) - 1 \in 0 .. Len(text)
    BY <1>1, <1>2
  <2> QED BY <2>1
<1>4. Comma # "ws"
  BY Zenon DEF Comma
<1>5. Count(text, p + 1) = Count(text, p) + 1 /\ Words(text)[Count(text, p) + 1] = text[p + 1]
  BY <1>1, <1>3, <1>4, WordFacts
<1> QED BY <1>2, <1>3, <1>5

LEMMA CutIsShort ==
  ASSUME Inv, IsCutOff(text) PROVE CutShort(Words(text))
<1> DEFINE w == Words(text)
<1>1. w \in Seq(Tokens) /\ Len(w) \in Nat
  BY HereFacts
<1>2. PICK kind \in Kinds :
         /\ w # << >> /\ w[1] = Opener(kind)
         /\ Len(w) = 1 \/ (text[Len(text)] = Comma /\ List(w, kind, 1, Len(w) - 1))
  BY Zenon DEF IsCutOff, List
<1>3. Len(w) >= 1
  BY <1>1, <1>2, EmptySeq
<1>4. text[Len(text)] = Comma => w[Len(w)] = Comma
  BY <1>3, LastWord
<1> QED BY <1>2, <1>3, <1>4 DEF CutShort

(* What lies ahead of the parser, by the point it has reached: the         *)
(* innermost call is asked for a list, for the rest of one or for the      *)
(* bracket that closes it, or the outermost one has come to the cut.       *)
Ahead(t, p, K, at, e) ==
  LET w == Words(t)
      c == Count(t, p)
      d == Len(K)
  IN  /\ at = "value" =>
           \/ \E y \in Nat : y <= Len(w) /\ Value(w, c, y) /\ AfterAt(w, e, K, d, y)
           \/ d = 0 /\ c = 0 /\ CutShort(w)
      /\ at = "open" =>
           \/ e[d] = c + 1 /\ c + 1 <= Len(w) /\ w[c + 1] = Closer(K[d])
           \/ Inside(w, K[d], c, e[d])
           \/ d = 1 /\ c = Len(w)
      /\ at = "loop" =>
           \/ Inside(w, K[d], c, e[d])
           \/ d = 1 /\ c = Len(w) /\ p = Len(t)
      /\ at = "key" => Inside(w, K[d], c, e[d])
      /\ at = "colon" =>
           w[c + 1] = Colon /\ \E y \in Nat : /\ y <= Len(w) /\ Value(w, c + 1, y)
                                             /\ Rest(w, "obj", y, e[d])
      /\ at = "next" => Rest(w, K[d], c, e[d])
      /\ at = "end"  => c = Len(w)

Expects(t, p, K, at) == \E e : Ends(Words(t), e, K) /\ Ahead(t, p, K, at, e)

(* The position behind the last word is the end, if the text ends with it. *)
LEMMA CountGrows ==
  ASSUME NEW s \in Seq(Tokens), NEW i \in Nat
  PROVE  \A n \in Nat : i + n <= Len(s) => Count(s, i) <= Count(s, i + n)
<1> DEFINE G == {n \in Nat : i + n <= Len(s) => Count(s, i) <= Count(s, i + n)}
           l == Len(s)
<1>1. l \in Nat
  OBVIOUS
<1>2. ASSUME NEW j \in Nat, j <= l PROVE Count(s, j) \in Nat
  <2>1. j \in 0 .. Len(s)
    BY <1>1, <1>2
  <2> QED BY <2>1, WordFacts
<1>3. 0 \in G
  <2>1. i + 0 = i
    OBVIOUS
  <2>2. i <= l => Count(s, i) <= Count(s, i + 0)
    BY <1>2, <2>1
  <2> QED BY <2>1, <2>2
<1>4. ASSUME NEW n \in Nat, n \in G PROVE n + 1 \in G
  <2> SUFFICES ASSUME i + (n + 1) <= l PROVE Count(s, i) <= Count(s, i + (n + 1))
    OBVIOUS
  <2>1. PICK j \in Nat : j = i + n /\ j + 1 = i + (n + 1) /\ j + 1 <= l
    OBVIOUS
  <2>2. Count(s, i) <= Count(s, j) /\ i <= l
    BY <1>1, <1>4, <2>1
  <2>3. Count(s, j + 1) \in {Count(s, j), Count(s, j) + 1}
    <3>1. j \in 0 .. l - 1
      BY <1>1, <2>1
    <3> QED BY <3>1, WordFacts
  <2>4. Count(s, i) \in Nat /\ Count(s, j) \in Nat
    BY <1>1, <1>2, <2>1, <2>2
  <2> QED BY <2>1, <2>2, <2>3, <2>4
<1>5. Nat \subseteq G
  <2> HIDE DEF G
  <2> QED BY <1>3, <1>4, Induct
<1> QED BY <1>5

LEMMA CutIsTheEnd ==
  ASSUME Inv, NEW p \in Nat, p <= Len(text), Count(text, p) = Len(Words(text)),
         text[Len(text)] = Comma
  PROVE  p = Len(text)
<1>1. text \in Seq(Tokens) /\ Len(text) \in Nat /\ Len(Words(text)) \in Nat
  BY Counts, HereFacts DEF Inv, TypeOK
<1> SUFFICES ASSUME p # Len(text) PROVE FALSE
  OBVIOUS
<1>2. PICK n \in Nat : p + n + 1 = Len(text)
  <2>1. (Len(text) - p) - 1 \in Nat /\ p + ((Len(text) - p) - 1) + 1 = Len(text)
    BY <1>1
  <2> QED BY <2>1
<1>3. PICK q \in Nat : q = p + n /\ q + 1 = Len(text) /\ q \in 0 .. Len(text) - 1
                       /\ q \in 0 .. Len(text) /\ q <= Len(text)
  BY <1>1, <1>2
<1>4. Len(Words(text)) <= Count(text, q) /\ Count(text, q) \in Nat
  <2>1. Count(text, p) <= Count(text, p + n)
    BY <1>1, <1>3, CountGrows
  <2> QED BY <1>1, <1>3, <2>1, WordFacts
<1>5. Count(text, q + 1) = Count(text, q) + 1
  <2>1. text[q + 1] # "ws"
    BY <1>3, Zenon DEF Comma
  <2> QED BY <1>1, <1>3, <2>1, WordFacts
<1>6. Count(text, q + 1) = Len(Words(text))
  BY <1>1, <1>3, WordFacts
<1> QED BY <1>1, <1>4, <1>5, <1>6

(* A value ends with a string, a scalar or a closing bracket, so that only *)
(* a text that is cut off behind a comma has one for its last word.        *)
LEMMA NoTrailingComma ==
  ASSUME NEW w, Len(w) \in Nat, w[Len(w)] = Comma PROVE ~Value(w, 0, Len(w))
<1>1. \A k \in Kinds : Comma # Closer(k)
  BY Distinct
<1>2. Comma \notin {"str", "scalar"}
  BY Zenon DEF Comma
<1> QED BY <1>1, <1>2 DEF Value, IsValue

LEMMA CutWords ==
  ASSUME Inv, IsCutOff(text)
  PROVE  Len(Words(text)) = 1 \/ text[Len(text)] = Comma
BY Zenon DEF IsCutOff

LEMMA TrailingComma ==
  ASSUME Inv, IsJson(text) \/ IsCutOff(text), Words(text)[Len(Words(text))] = Comma
  PROVE  text[Len(text)] = Comma
<1>1. Len(Words(text)) \in Nat
  BY HereFacts
<1>2. ~IsJson(text)
  BY <1>1, NoTrailingComma DEF IsJson, Value
<1>3. Len(Words(text)) # 1
  <2>1. PICK kind \in Kinds : Words(text)[1] = Opener(kind)
    BY <1>2, Zenon DEF IsCutOff
  <2>2. Comma # Opener(kind)
    BY Zenon DEF Comma, Opener
  <2> QED BY <2>1, <2>2
<1> QED BY <1>2, <1>3, CutWords

(* No step throws at what the grammar goes on with.                        *)
LEMMA CompleteStep ==
  ASSUME Inv, IsJson(text) \/ IsCutOff(text), Expects(text, pos, stack, ctl), Next
  PROVE  result' # "thrown" /\ Expects(text, pos', stack', ctl')
<1> DEFINE w == Words(text)
           d == Len(stack)
           Goal == result' # "thrown" /\ Expects(text, pos', stack', ctl')
<1>1. PICK e : Ends(w, e, stack) /\ Ahead(text, pos, stack, ctl, e)
  BY DEF Expects, Here
<1>2. /\ Len(w) \in Nat /\ Here \in Nat /\ Here <= Len(w) /\ pos \in Nat /\ Len(text) \in Nat
      /\ pos <= Len(text) /\ result # "thrown"
  BY HereFacts, Counts DEF Next, SkipWhitespace, ParseLeaf, EnterObject, EnterArray, Enter,
     NoValue, Open, LoopTest, ParseKey, ParseColon, AfterValue, Finish, AtToken, At
(* Where a word lies ahead and no white space does, the word is Char.      *)
<1>3. ASSUME Char # "ws", Here + 1 <= Len(w) \/ Char # "nul" \/ pos < Len(text)
      PROVE  /\ pos < Len(text) /\ Count(text, pos + 1) = Here + 1 /\ Here + 1 <= Len(w)
             /\ Here + 1 \in Nat /\ w[Here + 1] = Char
  <2>1. pos < Len(text)
    <3>1. pos # Len(text) \/ Here = Len(w)
      BY HereFacts
    <3> QED BY <1>2, <1>3, <3>1, CharIsInText
  <2> QED BY <1>2, <1>3, <2>1, HereFacts
<1>4. ASSUME stack # << >>
      PROVE  /\ d \in Nat /\ d >= 1 /\ Innermost = stack[d] /\ Innermost \in Kinds
             /\ e[d] \in Nat /\ e[d] <= Len(w) + 1 /\ (d # 1 => e[d] <= Len(w))
             /\ Ends(w, e, Pop) /\ AfterAt(w, e, Pop, Len(Pop), e[d])
             /\ (Pop = << >> <=> Len(Pop) = 0)
  <2>1. d \in Nat /\ d >= 1 /\ Innermost = stack[d] /\ Innermost \in Kinds
    BY <1>4, FrameKinds DEF Inv
  <2>2. Pop \in Seq({"obj", "arr"})
    BY <1>4, StackShrinks
  <2>3. Popped(Pop, stack)
    BY <1>4, StackShrinks
  <2>4. Ends(w, e, Pop) /\ AfterAt(w, e, Pop, Len(Pop), e[d])
    BY <1>1, <2>3, EndsPop, Zenon
  <2>5. e[d] \in Nat /\ e[d] <= Len(w) + 1 /\ (d # 1 => e[d] <= Len(w))
    <3>1. d \in 1 .. Len(stack)
      BY <2>1
    <3> QED BY <1>1, <1>2, <3>1, EndsInText
  <2>6. Pop = << >> <=> Len(Pop) = 0
    BY <2>2, EmptySeq
  <2> QED BY <2>1, <2>4, <2>5, <2>6
<1> HIDE DEF w, d
(* A value ends where the calls that remain go on.                         *)
<1>5. ASSUME NEW K, K = << >> <=> Len(K) = 0, Ends(w, e, K), NEW p,
             Count(text, p) <= Len(w), AfterAt(w, e, K, Len(K), Count(text, p))
      PROVE  Expects(text, p, K, Caller(K))
  <2>1. Ahead(text, p, K, Caller(K), e)
    <3>1. CASE K = << >>
      <4>1. Count(text, p) = Len(w)
        BY <1>2, <1>5, <3>1 DEF AfterAt
      <4> QED BY <3>1, <4>1 DEF Ahead, Caller, w
    <3>2. CASE K # << >>
      <4>1. Rest(w, K[Len(K)], Count(text, p), e[Len(K)])
        BY <1>5, <3>2 DEF AfterAt
      <4> QED BY <3>2, <4>1 DEF Ahead, Caller, w
    <3> QED BY <3>1, <3>2
  <2> QED BY <1>5, <2>1 DEF Expects, w
(* The closing bracket is where it was expected.                           *)
<1>6. ASSUME stack # << >>, Char # "ws", Char = Closer(Innermost), pos' = pos + 1,
             Return(Pop), e[d] = Here + 1
      PROVE  Goal
  <2>1. Char # "nul"
    BY <1>4, <1>6, Distinct
  <2>2. /\ stack' = Pop /\ ctl' = Caller(Pop) /\ result' # "thrown"
        /\ Count(text, pos + 1) = e[d] /\ e[d] <= Len(w)
    BY <1>2, <1>3, <1>6, <2>1 DEF Return, Goto
  <2>3. Expects(text, pos + 1, Pop, Caller(Pop))
    BY <1>4, <1>5, <1>6, <2>2
  <2> QED BY <1>6, <2>2, <2>3
<1>7. ASSUME stack' = stack, Ahead(text, pos', stack, ctl', e)
      PROVE  Expects(text, pos', stack', ctl')
  BY <1>1, <1>7 DEF Expects, w
<1>11. CASE SkipWhitespace
  <2>1. /\ Char = "ws" /\ pos' = pos + 1 /\ stack' = stack /\ ctl' = ctl /\ result' = result
    BY <1>11 DEF SkipWhitespace, Consume
  <2>2. Count(text, pos + 1) = Here
    BY <1>2, <2>1, CharIsInText, HereFacts
  <2>3. pos < Len(text) /\ pos # Len(text)
    BY <1>2, <2>1, CharIsInText
  <2>4. ctl # "loop"
    BY <1>11, Zenon DEF SkipWhitespace, Skipping
  <2>5. Ahead(text, pos + 1, stack, ctl, e)
    BY <1>1, <2>2, <2>4 DEF Ahead, Here
  <2> QED BY <1>2, <1>7, <2>1, <2>5
<1>12. ASSUME ctl = "value", Char # "ws"
       PROVE  /\ Here + 1 <= Len(w) /\ w[Here + 1] = Char /\ Count(text, pos + 1) = Here + 1
              /\ Char \in {"str", "scalar"} \/ \E k \in Kinds : Char = Opener(k)
              /\ \/ \E y \in Nat : y <= Len(w) /\ Value(w, Here, y) /\ AfterAt(w, e, stack, d, y)
                 \/ d = 0 /\ Here = 0 /\ CutShort(w)
  <2>1. \/ \E y \in Nat : y <= Len(w) /\ Value(w, Here, y) /\ AfterAt(w, e, stack, d, y)
        \/ d = 0 /\ Here = 0 /\ CutShort(w)
    BY <1>1, <1>12 DEF Ahead, Here, w, d
  <2>2. /\ Here + 1 <= Len(w)
        /\ w[Here + 1] \in {"str", "scalar"} \/ \E k \in Kinds : w[Here + 1] = Opener(k)
    <3>1. CASE \E y \in Nat : y <= Len(w) /\ Value(w, Here, y) /\ AfterAt(w, e, stack, d, y)
      <4>1. PICK y \in Nat : y <= Len(w) /\ Value(w, Here, y)
        BY <3>1
      <4>2. "arr" \in Kinds
        BY DEF Kinds
      <4>3. y >= Here + 1
        BY <1>2, <4>1, <4>2, NotEmpty
      <4>4. Here + 1 <= Len(w)
        BY <1>2, <4>1, <4>3
      <4> QED BY <1>2, <4>1, <4>2, <4>4, FirstWord
    <3>2. CASE d = 0 /\ Here = 0 /\ CutShort(w)
      <4>1. Here + 1 = 1
        BY <3>2
      <4> QED BY <3>2, <4>1 DEF CutShort
    <3> QED BY <2>1, <3>1, <3>2
  <2>3. w[Here + 1] = Char /\ Count(text, pos + 1) = Here + 1
    BY <1>3, <1>12, <2>2
  <2> QED BY <2>1, <2>2, <2>3
<1>13. CASE ParseLeaf
  <2>1. ctl = "value" /\ Char \in {"str", "scalar"} /\ pos' = pos + 1 /\ stack' = stack
        /\ ctl' = Caller(stack) /\ result' = result /\ Char # "ws"
    BY <1>13 DEF ParseLeaf, AtToken, At, Consume, Return, Goto
  <2>2. /\ Here + 1 <= Len(w) /\ w[Here + 1] = Char /\ Count(text, pos + 1) = Here + 1
        /\ \A k \in Kinds : w[Here + 1] # Opener(k)
    BY <1>12, <2>1, Distinct
  <2>3. ~(Here = 0 /\ CutShort(w))
    <3>1. Here = 0 => Here + 1 = 1
      OBVIOUS
    <3> QED BY <2>2, <3>1 DEF CutShort
  <2>4. PICK y \in Nat : y <= Len(w) /\ Value(w, Here, y) /\ AfterAt(w, e, stack, d, y)
    BY <1>12, <2>1, <2>3
  <2>5. y = Here + 1
    BY <2>2, <2>4 DEF Value, IsValue
  <2>6. stack = << >> <=> Len(stack) = 0
    <3>1. stack \in Seq({"obj", "arr"})
      BY DEF Inv, TypeOK
    <3> QED BY <3>1, EmptySeq
  <2>7. Expects(text, pos + 1, stack, Caller(stack))
    BY <1>1, <1>5, <2>2, <2>4, <2>5, <2>6 DEF d
  <2> QED BY <1>2, <2>1, <2>7
<1>14. ASSUME NEW kind \in Kinds, Enter(Opener(kind), kind) PROVE Goal
  <2>1. ctl = "value" /\ Char = Opener(kind) /\ pos' = pos + 1 /\ ctl' = "open"
        /\ stack' = Append(stack, kind) /\ result' = result /\ Char # "ws"
    BY <1>14 DEF Enter, AtToken, At, Consume, Goto
  <2>2. /\ Here + 1 <= Len(w) /\ w[Here + 1] = Char /\ Count(text, pos + 1) = Here + 1
        /\ \A k \in Kinds : w[Here + 1] = Opener(k) => k = kind
        /\ w[Here + 1] \notin {"str", "scalar"}
    BY <1>12, <2>1, Distinct
  <2>3. /\ Entered(stack', stack, kind) /\ Len(stack') = d + 1 /\ stack'[d + 1] = kind
        /\ d \in Nat
    <3>1. Entered(stack', stack, kind)
      BY <2>1, StackGrows
    <3> QED BY <3>1 DEF Entered, d
  (* What the bracket holds ends before z, where it is closed or cut off. *)
  <2>4. PICK z \in Nat : /\ AfterAt(w, e, stack, d, z)
                         /\ \/ z = (Here + 1) + 1 /\ z <= Len(w) /\ w[z] = Closer(kind)
                            \/ Inside(w, kind, Here + 1, z)
                            \/ d + 1 = 1 /\ Here + 1 = Len(w)
    <3>1. ASSUME NEW y \in Nat, y <= Len(w), Value(w, Here, y), AfterAt(w, e, stack, d, y)
          PROVE  \/ y = (Here + 1) + 1 /\ y <= Len(w) /\ w[y] = Closer(kind)
                 \/ Inside(w, kind, Here + 1, y)
      <4>1. /\ y >= Here + 2
            /\ \E k \in Kinds : /\ w[Here + 1] = Opener(k) /\ w[y] = Closer(k)
                                /\ y = Here + 2 \/ List(w, k, Here + 1, y - 1)
        BY <1>2, <2>2, <3>1, Rules
      <4>2. w[y] = Closer(kind) /\ (y = Here + 2 \/ List(w, kind, Here + 1, y - 1))
        BY <2>2, <4>1
      <4>3. Here + 1 < y /\ (y = Here + 2 => y = (Here + 1) + 1)
        BY <1>2, <4>1
      <4> QED BY <3>1, <4>2, <4>3 DEF Inside
    <3>2. ASSUME d = 0, Here = 0, CutShort(w)
          PROVE  /\ Len(w) + 1 \in Nat /\ AfterAt(w, e, stack, d, Len(w) + 1)
                 /\ Inside(w, kind, Here + 1, Len(w) + 1) \/ (d + 1 = 1 /\ Here + 1 = Len(w))
      <4>1. Here + 1 = 1 /\ d + 1 = 1 /\ Len(w) >= 1 /\ (Len(w) # 1 => 1 < Len(w))
        <5>1. Len(w) >= 1
          BY <3>2, Zenon DEF CutShort
        <5>2. PICK n \in Nat : n = Len(w)
          BY <1>2
        <5>3. n # 1 => 1 < n
          BY <5>1, <5>2
        <5> QED BY <3>2, <5>1, <5>2, <5>3
      <4>2. Len(w) = 1 \/ (w[Len(w)] = Comma /\ List(w, kind, 1, Len(w) - 1))
        <5>1. PICK k \in Kinds :
                 /\ w[1] = Opener(k)
                 /\ Len(w) = 1 \/ (w[Len(w)] = Comma /\ List(w, k, 1, Len(w) - 1))
          BY <3>2 DEF CutShort
        <5>2. k = kind
          <6>1. w[Here + 1] = Opener(k)
            BY <4>1, <5>1
          <6> QED BY <2>2, <6>1
        <5> QED BY <5>1, <5>2
      <4>3. Len(w) + 1 \in Nat /\ AfterAt(w, e, stack, d, Len(w) + 1)
        BY <1>2, <3>2 DEF AfterAt
      <4> QED BY <4>1, <4>2, <4>3 DEF Inside
    <3>3. CASE \E y \in Nat : y <= Len(w) /\ Value(w, Here, y) /\ AfterAt(w, e, stack, d, y)
      BY <3>1, <3>3
    <3>4. CASE d = 0 /\ Here = 0 /\ CutShort(w)
      BY <3>2, <3>4
    <3> QED BY <1>12, <2>1, <3>3, <3>4
  <2>5. PICK K2 : K2 = stack'
    OBVIOUS
  <2>6. PICK e2 : Ends(w, e2, K2) /\ e2[Len(K2)] = z
    BY <1>1, <2>3, <2>4, <2>5, EndsPush DEF d
  <2>7. Len(K2) = d + 1 /\ K2[d + 1] = kind /\ e2[d + 1] = z
    BY <2>3, <2>5, <2>6
  <2>8. \/ e2[d + 1] = (Here + 1) + 1 /\ (Here + 1) + 1 <= Len(w)
           /\ w[(Here + 1) + 1] = Closer(K2[d + 1])
        \/ Inside(w, K2[d + 1], Here + 1, e2[d + 1])
        \/ d + 1 = 1 /\ Here + 1 = Len(w)
    BY <2>4, <2>7
  <2>9. Ahead(text, pos + 1, K2, "open", e2)
    BY <2>2, <2>7, <2>8 DEF Ahead, w
  <2>10. Expects(text, pos + 1, K2, "open")
    BY <2>6, <2>9 DEF Expects, w
  <2> QED BY <1>2, <2>1, <2>5, <2>10
<1>15. CASE EnterObject \/ EnterArray
  <2>1. Enter(Opener("obj"), "obj") \/ Enter(Opener("arr"), "arr")
    BY <1>15, Zenon DEF EnterObject, EnterArray, Opener
  <2>2. "obj" \in Kinds /\ "arr" \in Kinds
    BY DEF Kinds
  <2> QED BY <1>14, <2>1, <2>2
<1>16. CASE NoValue
  <2>1. ctl = "value" /\ Char # "ws" /\ Char \notin {"str", "scalar"}
    BY <1>16 DEF NoValue, AtToken, At
  <2>2. \A k \in Kinds : Char # Opener(k)
    <3>1. Char \notin {"{", "["}
      BY <1>16, Zenon DEF NoValue
    <3> QED BY <3>1, Zenon DEF Opener
  <2> QED BY <1>12, <2>1, <2>2
(* Before a list: its first word is there, and it closes no bracket.       *)
<1>17. ASSUME stack # << >>, Inside(w, Innermost, Here, e[d])
       PROVE  /\ Here + 1 <= Len(w) /\ \A k \in Kinds : w[Here + 1] # Closer(k)
              /\ Innermost = "obj" => w[Here + 1] = "str"
              /\ pos < Len(text)
  <2>1. Innermost \in Kinds
    BY <1>4, <1>17
  <2>2. PICK y \in Nat : y <= Len(w) /\ Item(w, Innermost, Here, y)
    <3>1. e[d] \in Nat
      BY <1>4, <1>17
    <3> QED BY <1>2, <1>17, <2>1, <3>1, FirstItem
  <2>3. /\ y >= Here + 1 /\ \A k \in Kinds : w[Here + 1] # Closer(k)
        /\ Innermost = "obj" => w[Here + 1] = "str"
    BY <1>2, <2>1, <2>2, NotEmpty, FirstWord
  <2>4. Here + 1 <= Len(w)
    BY <1>2, <2>2, <2>3
  <2>5. pos # Len(text)
    BY <1>2, <2>4, HereFacts DEF w
  <2> QED BY <1>2, <2>3, <2>4, <2>5
<1>18. CASE Open
  <2>1. ctl = "open" /\ Char # "ws" /\ stack # << >>
    BY <1>18 DEF Open, AtToken, At, Inv, CursorSafe
  <2>2. \/ e[d] = Here + 1 /\ Here + 1 <= Len(w) /\ w[Here + 1] = Closer(Innermost)
        \/ Inside(w, Innermost, Here, e[d])
        \/ d = 1 /\ Here = Len(w)
    <3>1. \/ e[d] = Here + 1 /\ Here + 1 <= Len(w) /\ w[Here + 1] = Closer(stack[d])
          \/ Inside(w, stack[d], Here, e[d])
          \/ d = 1 /\ Here = Len(w)
      BY <1>1, <2>1, Zenon DEF Ahead, d, w, Here
    <3> QED BY <1>4, <2>1, <3>1, Zenon
  <2>3. CASE e[d] = Here + 1 /\ Here + 1 <= Len(w) /\ w[Here + 1] = Closer(Innermost)
    <3>1. Char = Closer(Innermost)
      BY <1>3, <1>4, <2>1, <2>3
    <3>2. pos' = pos + 1 /\ Return(Pop)
      BY <1>18, <3>1 DEF Open, Consume
    <3> QED BY <1>6, <2>1, <2>3, <3>1, <3>2
  <2>4. CASE Inside(w, Innermost, Here, e[d])
    <3>1. Char # Closer(Innermost)
      BY <1>3, <1>4, <1>17, <2>1, <2>4
    <3>2. pos' = pos /\ stack' = stack /\ ctl' = "loop" /\ result' = result
      BY <1>18, <3>1 DEF Open, Goto
    <3>3. Inside(w, stack[d], Here, e[d])
      BY <1>4, <2>1, <2>4
    <3>4. Ahead(text, pos, stack, "loop", e)
      BY <3>3 DEF Ahead, d, w, Here
    <3> QED BY <1>2, <1>7, <3>2, <3>4
  <2>5. CASE d = 1 /\ Here = Len(w)
    <3>1. ~(Here + 1 <= Len(w))
      BY <1>2, <2>5
    <3>2. Char = "nul" /\ pos = Len(text)
      BY <1>2, <1>3, <2>1, <3>1
    <3>3. Char # Closer(Innermost)
      BY <1>4, <2>1, <3>2, Distinct
    <3>4. pos' = pos /\ stack' = stack /\ ctl' = "loop" /\ result' = result
      BY <1>18, <3>3 DEF Open, Goto
    <3>5. Ahead(text, pos, stack, "loop", e)
      BY <2>5, <3>2 DEF Ahead, d, w, Here
    <3> QED BY <1>2, <1>7, <3>4, <3>5
  <2> QED BY <2>2, <2>3, <2>4, <2>5
<1>19. CASE LoopTest
  <2>1. ctl = "loop" /\ stack # << >>
    BY <1>19 DEF LoopTest, At, Inv, CursorSafe
  <2>2. \/ Inside(w, Innermost, Here, e[d])
        \/ d = 1 /\ Here = Len(w) /\ pos = Len(text)
    <3>1. \/ Inside(w, stack[d], Here, e[d])
          \/ d = 1 /\ Here = Len(w) /\ pos = Len(text)
      BY <1>1, <2>1, Zenon DEF Ahead, d, w, Here
    <3> QED BY <1>4, <2>1, <3>1, Zenon
  <2>3. CASE Inside(w, Innermost, Here, e[d])
    <3>1. /\ pos' = pos /\ stack' = stack /\ ctl' = LoopBody(Innermost) /\ result' = result
      BY <1>17, <1>19, <2>1, <2>3 DEF LoopTest, Goto
    <3>2. Ahead(text, pos, stack, ctl', e)
      <4>1. CASE Innermost = "obj"
        <5>1. ctl' = "key" /\ Inside(w, stack[d], Here, e[d])
          BY <1>4, <2>1, <2>3, <3>1, <4>1 DEF LoopBody
        <5> QED BY <5>1 DEF Ahead, d, w, Here
      <4>2. CASE Innermost = "arr"
        <5>1. PICK y \in Nat : y <= Len(w) /\ Item(w, "arr", Here, y) /\ Rest(w, "arr", y, e[d])
          BY <1>2, <1>4, <2>1, <2>3, <4>2, FirstItem
        <5>2. Value(w, Here, y)
          BY <5>1 DEF Item, IsItem, Value
        <5>3. AfterAt(w, e, stack, d, y)
          BY <1>4, <2>1, <4>2, <5>1 DEF AfterAt
        <5>4. ctl' = "value"
          BY <3>1, <4>2 DEF LoopBody
        <5> QED BY <5>1, <5>2, <5>3, <5>4 DEF Ahead, d, w, Here
      <4> QED BY <1>4, <2>1, <4>1, <4>2 DEF Kinds
    <3> QED BY <1>2, <1>7, <3>1, <3>2
  <2>4. CASE d = 1 /\ Here = Len(w) /\ pos = Len(text)
    <3>1. pos' = pos /\ stack' = Pop /\ ctl' = Caller(Pop) /\ result' # "thrown"
      <4>1. ~(pos < Len(text))
        BY <1>2, <2>4
      <4>2. Return(Pop) /\ pos' = pos
        BY <1>19, <4>1 DEF LoopTest
      <4> QED BY <1>2, <4>2 DEF Return, Goto
    <3>2. Pop = << >>
      <4>1. Len(Pop) = Len(stack) - 1 /\ d = Len(stack)
        BY <2>1, StackShrinks DEF Popped, d
      <4>2. Len(stack) = 1
        BY <2>4, <4>1
      <4>3. Len(Pop) = 1 - 1 /\ 1 - 1 = 0
        BY <4>1, <4>2
      <4> QED BY <1>4, <2>1, <4>3
    <3>3. Ends(w, e, Pop) /\ AfterAt(w, e, Pop, Len(Pop), Count(text, pos))
      <4>1. Len(Pop) = 0
        BY <1>4, <2>1, <3>2
      <4> QED BY <1>2, <1>4, <2>1, <2>4, <4>1 DEF AfterAt, Here
    <3>4. Expects(text, pos, Pop, Caller(Pop))
      BY <1>2, <1>4, <1>5, <2>1, <3>3 DEF Here
    <3> QED BY <3>1, <3>4
  <2> QED BY <2>2, <2>3, <2>4
<1>20. CASE ParseKey
  <2>1. ctl = "key" /\ Char # "ws" /\ stack # << >> /\ Innermost = "obj"
    BY <1>20 DEF ParseKey, AtToken, At, Inv, CursorSafe
  <2>2. Inside(w, "obj", Here, e[d])
    <3>1. Inside(w, stack[d], Here, e[d])
      BY <1>1, <2>1, Zenon DEF Ahead, d, w, Here
    <3> QED BY <1>4, <2>1, <3>1, Zenon
  <2>3. Char = "str" /\ Count(text, pos + 1) = Here + 1
    BY <1>3, <1>17, <2>1, <2>2
  <2>4. pos' = pos + 1 /\ ctl' = "colon" /\ stack' = stack /\ result' = result
    BY <1>20, <2>3 DEF ParseKey, Consume, Goto
  <2>5. PICK y \in Nat : y <= Len(w) /\ Item(w, "obj", Here, y) /\ Rest(w, "obj", y, e[d])
    BY <1>2, <1>4, <2>1, <2>2, FirstItem
  <2>6. w[(Here + 1) + 1] = Colon /\ Value(w, (Here + 1) + 1, y)
    <3>1. (Here + 1) + 1 = Here + 2
      BY <1>2
    <3>2. w[Here + 2] = Colon /\ Value(w, Here + 2, y)
      BY <2>5 DEF Item, IsItem, IsPair, Value
    <3> QED BY <3>1, <3>2
  <2>7. Ahead(text, pos + 1, stack, "colon", e)
    BY <2>3, <2>5, <2>6 DEF Ahead, d, w
  <2> QED BY <1>2, <1>7, <2>4, <2>7
<1>21. CASE ParseColon
  <2>1. ctl = "colon" /\ Char # "ws" /\ stack # << >> /\ Innermost = "obj"
    BY <1>21 DEF ParseColon, AtToken, At, Inv, CursorSafe
  <2>2. w[Here + 1] = Colon /\ \E y \in Nat : y <= Len(w) /\ Value(w, Here + 1, y)
                                             /\ Rest(w, "obj", y, e[d])
    BY <1>1, <2>1 DEF Ahead, d, w, Here
  <2>3. PICK y \in Nat : y <= Len(w) /\ Value(w, Here + 1, y) /\ Rest(w, "obj", y, e[d])
    BY <2>2
  <2>4. Here + 1 <= Len(w)
    <3>1. Here + 1 \in Nat /\ Innermost \in Kinds
      BY <1>2, <1>4, <2>1
    <3>2. y >= (Here + 1) + 1
      BY <1>2, <2>3, <3>1, NotEmpty
    <3> QED BY <1>2, <2>3, <3>2
  <2>5. Char = Colon /\ Count(text, pos + 1) = Here + 1
    BY <1>3, <2>1, <2>2, <2>4
  <2>6. pos' = pos + 1 /\ ctl' = "value" /\ stack' = stack /\ result' = result
    BY <1>21, <2>5 DEF ParseColon, Consume, Goto, Colon
  <2>7. AfterAt(w, e, stack, d, y)
    BY <1>4, <2>1, <2>3 DEF AfterAt
  <2>8. Ahead(text, pos + 1, stack, "value", e)
    BY <2>3, <2>5, <2>7 DEF Ahead, d, w
  <2> QED BY <1>2, <1>7, <2>6, <2>8
<1>22. CASE AfterValue
  <2>1. ctl = "next" /\ Char # "ws" /\ stack # << >>
    BY <1>22 DEF AfterValue, AtToken, At, Inv, CursorSafe
  <2>2. Rest(w, Innermost, Here, e[d])
    <3>1. Rest(w, stack[d], Here, e[d])
      BY <1>1, <2>1, Zenon DEF Ahead, d, w, Here
    <3> QED BY <1>4, <2>1, <3>1, Zenon
  <2>3. Here + 1 <= Len(w) /\ Char = w[Here + 1] /\ Count(text, pos + 1) = Here + 1
    <3>1. Here + 1 <= Len(w)
      BY <1>2, <1>4, <2>1, <2>2 DEF Rest
    <3> QED BY <1>3, <2>1, <3>1
  <2>4. Comma # Closer(Innermost)
    BY <1>4, <2>1, Distinct
  <2>5. CASE Char = Closer(Innermost) /\ Consume /\ Return(Pop)
    <3>1. e[d] = Here + 1
      BY <2>2, <2>3, <2>4, <2>5 DEF Rest
    <3> QED BY <1>6, <2>1, <2>5, <3>1 DEF Consume
  <2>6. CASE Char = Comma /\ Consume /\ Goto("loop") /\ UNCHANGED <<stack, elements>>
    <3>1. pos' = pos + 1 /\ stack' = stack /\ ctl' = "loop" /\ result' = result
      BY <2>6 DEF Consume, Goto
    <3>2. \/ Inside(w, Innermost, Here + 1, e[d])
          \/ d = 1 /\ Here + 1 = Len(w) /\ pos + 1 = Len(text)
      <4>1. CASE /\ Here < e[d] /\ e[d] <= Len(w) /\ w[e[d]] = Closer(Innermost)
                 /\ e[d] = Here + 1 \/ (w[Here + 1] = Comma
                                        /\ List(w, Innermost, Here + 1, e[d] - 1))
        <5>1. e[d] # Here + 1
          BY <2>3, <2>4, <2>6, <4>1
        <5>2. Here + 1 < e[d]
          BY <1>2, <1>4, <2>1, <4>1, <5>1
        <5> QED BY <4>1, <5>1, <5>2 DEF Inside
      <4>2. CASE /\ e[d] = Len(w) + 1 /\ Here < Len(w) /\ w[Len(w)] = Comma
                 /\ Here + 1 = Len(w) \/ List(w, Innermost, Here + 1, Len(w) - 1)
        <5>1. CASE Here + 1 = Len(w)
          <6>1. d = 1
            BY <1>2, <1>4, <2>1, <4>2
          <6>2. text[Len(text)] = Comma
            BY <4>2, TrailingComma DEF w
          <6>3. pos + 1 = Len(text)
            <7>1. pos + 1 \in Nat /\ pos + 1 <= Len(text)
              BY <1>2, <1>3, <2>1, <2>3
            <7> QED BY <2>3, <5>1, <6>2, <7>1, CutIsTheEnd DEF w
          <6> QED BY <5>1, <6>1, <6>3
        <5>2. CASE Here + 1 # Len(w)
          <6>1. Here + 1 < Len(w)
            BY <1>2, <2>3, <5>2
          <6> QED BY <4>2, <5>2, <6>1 DEF Inside
        <5> QED BY <5>1, <5>2
      <4> QED BY <2>2, <4>1, <4>2 DEF Rest
    <3>3. \/ Inside(w, stack[d], Here + 1, e[d])
          \/ d = 1 /\ Here + 1 = Len(w) /\ pos + 1 = Len(text)
      BY <1>4, <2>1, <3>2, Zenon
    <3>4. Ahead(text, pos + 1, stack, "loop", e)
      BY <2>3, <3>3 DEF Ahead, d, w
    <3> QED BY <1>2, <1>7, <3>1, <3>4
  <2>7. CASE Char \notin {Closer(Innermost), Comma} /\ Throw
    <3>1. FALSE
      BY <2>2, <2>3, <2>7 DEF Rest
    <3> QED BY <3>1
  <2> QED BY <1>22, <2>5, <2>6, <2>7, Zenon DEF AfterValue, Comma
<1>23. CASE Finish
  <2>1. ctl = "end" /\ Char # "ws"
    BY <1>23 DEF Finish, AtToken, At
  <2>2. Here = Len(w)
    BY <1>1, <2>1 DEF Ahead, w, Here
  <2>3. pos = Len(text)
    BY <1>2, <1>3, <2>1, <2>2
  <2>4. result' = "value" /\ pos' = pos /\ stack' = stack /\ ctl' = ctl
    BY <1>23, <2>3 DEF Finish
  <2> QED BY <2>4
<1> QED
  BY <1>11, <1>13, <1>15, <1>16, <1>18, <1>19, <1>20, <1>21, <1>22, <1>23 DEF Next

-----------------------------------------------------------------------------
(* A call that has not thrown has read what the grammar wants, and, if the *)
(* text is JSON or cut off, expects what is there; a call throws only at a *)
(* text that is neither.                                                   *)
Accepting ==
  /\ result # "thrown" => Sound(text, pos, stack, ctl)
  /\ result = "value"  => ctl = "end" /\ pos = Len(text)
  /\ IsJson(text) \/ IsCutOff(text) =>
       result # "thrown" /\ Expects(text, pos, stack, ctl)

LEMMA InitAccepting == ASSUME Init PROVE Accepting
<1> DEFINE w == Words(text)
<1>1. Inv /\ pos = 0 /\ stack = << >> /\ ctl = "value" /\ result = "running"
  BY InitInv DEF Init
<1>2. Count(text, 0) = 0 /\ Len(w) \in Nat /\ Len(<< >>) = 0
  BY <1>1, WordFacts, HereFacts DEF Inv, TypeOK
<1>3. PICK b : b = [i \in Nat |-> 0]
  OBVIOUS
<1>4. b \in [Nat -> Nat] /\ \A i \in 1 .. 0 : FALSE
  BY <1>3
<1>5. Begun(w, b, << >>) /\ Ends(w, b, << >>)
  BY <1>2, <1>4 DEF Begun, Ends
<1>6. Place(text, 0, << >>, "value", b)
  BY <1>2 DEF Place, BeforeAt
<1>7. Value(w, 0, Len(w)) \/ CutShort(w) => Ahead(text, 0, << >>, "value", b)
  BY <1>2 DEF Ahead, AfterAt
<1>8. IsJson(text) => Value(w, 0, Len(w))
  BY DEF IsJson, Value
<1>9. IsCutOff(text) => CutShort(w)
  BY <1>1, CutIsShort
<1> QED BY <1>1, <1>2, <1>5, <1>6, <1>7, <1>8, <1>9 DEF Accepting, Sound, Expects

LEMMA NextAccepting == ASSUME Inv, Accepting, [Next]_vars PROVE Accepting'
<1>1. CASE UNCHANGED vars
  BY <1>1 DEF vars, Accepting
<1>2. CASE Next
  <2>1. text' = text /\ result = "running"
    BY <1>2 DEF Next, SkipWhitespace, ParseLeaf, EnterObject, EnterArray, Enter, NoValue, Open,
       LoopTest, ParseKey, ParseColon, AfterValue, Finish, AtToken, At, Throw, Goto, Return
  <2>2. result' # "thrown" => Sound(text, pos', stack', ctl')
    BY <1>2, <2>1, SoundStep DEF Accepting
  <2>3. IsJson(text) \/ IsCutOff(text) =>
          result' # "thrown" /\ Expects(text, pos', stack', ctl')
    BY <1>2, <2>1, CompleteStep DEF Accepting
  <2>4. result' = "value" => ctl' = "end" /\ pos' = Len(text)
    BY <1>2, <2>1 DEF Next, SkipWhitespace, ParseLeaf, EnterObject, EnterArray, Enter, NoValue,
       Open, LoopTest, ParseKey, ParseColon, AfterValue, Finish, AtToken, At, Throw, Goto, Return
  <2> QED BY <2>1, <2>2, <2>3, <2>4 DEF Accepting
<1> QED BY <1>1, <1>2

(* The end of the text, read by parse itself.                              *)
LEMMA AcceptedAtEnd ==
  ASSUME Inv, Accepting, result = "value"
  PROVE  IsJson(text) \/ IsCutOff(text)
<1> DEFINE w == Words(text)
<1>1. ctl = "end" /\ pos = Len(text) /\ \E b : Place(text, pos, stack, ctl, b)
  BY DEF Accepting, Sound
<1>2. Here = Len(w) /\ Len(w) \in Nat /\ Here = Count(text, pos)
  BY <1>1, HereFacts DEF Here
<1>3. \/ Value(w, 0, Len(w))
      \/ /\ Len(w) >= 1
         /\ \E kind \in Kinds :
              /\ w[1] = Opener(kind)
              /\ Len(w) = 1 \/ (text[Len(text)] = Comma /\ List(w, kind, 1, Len(w) - 1))
  BY <1>1, <1>2 DEF Place
<1>4. CASE Value(w, 0, Len(w))
  BY <1>4 DEF IsJson, Value
<1>5. CASE /\ Len(w) >= 1
           /\ \E kind \in Kinds :
                /\ w[1] = Opener(kind)
                /\ Len(w) = 1 \/ (text[Len(text)] = Comma /\ List(w, kind, 1, Len(w) - 1))
  <2>1. w # << >>
    BY <1>5
  <2> QED BY <1>5, <2>1, Zenon DEF IsCutOff, List
<1> QED BY <1>3, <1>4, <1>5

(* JSON is accepted, whatever its length and depth, and of other texts at  *)
(* most those cut off inside their outermost bracket                       *)
(* (src/json_parser.cpp:18-28, 54-144).                                    *)
THEOREM AcceptsJson == Spec => []JsonIsAccepted
<1>1. Init => Inv /\ Accepting
  BY InitInv, InitAccepting
<1>2. Inv /\ Accepting /\ [Next]_vars => (Inv /\ Accepting)'
  BY NextInv, NextAccepting
<1>3. Inv /\ Accepting => JsonIsAccepted
  BY AcceptedAtEnd DEF JsonIsAccepted, RefusesNoJson, AcceptsLittleElse, Accepting
<1> QED BY <1>1, <1>2, <1>3, PTL DEF Spec

-----------------------------------------------------------------------------
(***************************************************************************)
(* The elements that are counted: one for every comma of the outermost     *)
(* array, and one more behind the last.                                    *)
(***************************************************************************)
UpTo(T, n) == Cardinality({j \in 1 .. n : j \in T})

LEMMA UpToNext ==
  ASSUME NEW T, NEW n \in Nat
  PROVE  /\ UpTo(T, n) \in Nat /\ UpTo(T, 0) = 0
         /\ UpTo(T, n + 1) = IF n + 1 \in T THEN UpTo(T, n) + 1 ELSE UpTo(T, n)
<1> DEFINE S(m) == {j \in 1 .. m : j \in T}
<1>1. IsFiniteSet(S(n)) /\ Cardinality(S(n)) \in Nat
  <2>1. IsFiniteSet(1 .. n)
    BY FS_Interval
  <2>2. S(n) \in SUBSET (1 .. n)
    OBVIOUS
  <2>3. IsFiniteSet(S(n))
    BY <2>1, <2>2, FS_Subset
  <2> QED BY <2>3, FS_CardinalityType
<1>2. S(0) = {}
  OBVIOUS
<1>3. n + 1 \notin S(n)
  OBVIOUS
<1>4. n + 1 \in T => S(n + 1) = S(n) \cup {n + 1}
  OBVIOUS
<1>5. n + 1 \notin T => S(n + 1) = S(n)
  OBVIOUS
<1>6. Cardinality(S(n) \cup {n + 1}) = Cardinality(S(n)) + 1
  <2> HIDE DEF S
  <2> QED BY <1>1, <1>3, FS_AddElement
<1>7. Cardinality(S(0)) = 0
  BY <1>2, FS_EmptySet
<1> HIDE DEF S
<1>8. UpTo(T, n) = Cardinality(S(n)) /\ UpTo(T, 0) = Cardinality(S(0))
      /\ UpTo(T, n + 1) = Cardinality(S(n + 1))
  BY DEF S, UpTo
<1> QED BY <1>1, <1>4, <1>5, <1>6, <1>7, <1>8

(* TopCommas of the first i words.                                         *)
Commas(w, i) == Cardinality({j \in 1 .. i : w[j] = Comma /\ Depth(w, j) = 1})

LEMMA DepthNext ==
  ASSUME NEW w, NEW n \in Nat
  PROVE  /\ Depth(w, n) \in Int /\ Depth(w, 0) = 0
         /\ \A k \in Kinds : w[n + 1] = Opener(k) => Depth(w, n + 1) = Depth(w, n) + 1
         /\ \A k \in Kinds : w[n + 1] = Closer(k) => Depth(w, n + 1) = Depth(w, n) - 1
         /\ (\A k \in Kinds : w[n + 1] # Opener(k) /\ w[n + 1] # Closer(k))
              => Depth(w, n + 1) = Depth(w, n)
<1> DEFINE O == {j \in Nat : \E k \in Kinds : w[j] = Opener(k)}
           C == {j \in Nat : \E k \in Kinds : w[j] = Closer(k)}
<1>1. ASSUME NEW m \in Nat
      PROVE  Depth(w, m) = UpTo(O, m) - UpTo(C, m)
  <2>1. {j \in 1 .. m : \E k \in Kinds : w[j] = Opener(k)} = {j \in 1 .. m : j \in O}
    OBVIOUS
  <2>2. {j \in 1 .. m : \E k \in Kinds : w[j] = Closer(k)} = {j \in 1 .. m : j \in C}
    OBVIOUS
  <2> HIDE DEF O, C
  <2> QED BY <2>1, <2>2, Zenon DEF Depth, UpTo
<1>2. ASSUME NEW k \in Kinds, NEW j \in Kinds PROVE Opener(k) # Closer(j)
  BY Distinct
<1>3. /\ \A k \in Kinds : w[n + 1] = Opener(k) => n + 1 \in O /\ n + 1 \notin C
      /\ \A k \in Kinds : w[n + 1] = Closer(k) => n + 1 \in C /\ n + 1 \notin O
      /\ (\A k \in Kinds : w[n + 1] # Opener(k) /\ w[n + 1] # Closer(k))
           => n + 1 \notin O /\ n + 1 \notin C
  BY <1>2
<1> HIDE DEF O, C
<1>4. /\ UpTo(O, n) \in Nat /\ UpTo(O, 0) = 0
      /\ UpTo(O, n + 1) = IF n + 1 \in O THEN UpTo(O, n) + 1 ELSE UpTo(O, n)
  BY UpToNext
<1>5. /\ UpTo(C, n) \in Nat /\ UpTo(C, 0) = 0
      /\ UpTo(C, n + 1) = IF n + 1 \in C THEN UpTo(C, n) + 1 ELSE UpTo(C, n)
  BY UpToNext
<1>6. /\ Depth(w, n) = UpTo(O, n) - UpTo(C, n) /\ Depth(w, 0) = UpTo(O, 0) - UpTo(C, 0)
      /\ Depth(w, n + 1) = UpTo(O, n + 1) - UpTo(C, n + 1)
  BY <1>1
<1>7. Depth(w, n) \in Int /\ Depth(w, 0) = 0
  BY <1>4, <1>5, <1>6
<1>8. n + 1 \in O /\ n + 1 \notin C => Depth(w, n + 1) = Depth(w, n) + 1
  BY <1>4, <1>5, <1>6
<1>9. n + 1 \in C /\ n + 1 \notin O => Depth(w, n + 1) = Depth(w, n) - 1
  BY <1>4, <1>5, <1>6
<1>10. n + 1 \notin O /\ n + 1 \notin C => Depth(w, n + 1) = Depth(w, n)
  BY <1>4, <1>5, <1>6
<1> QED BY <1>3, <1>7, <1>8, <1>9, <1>10

LEMMA CommasNext ==
  ASSUME NEW w, NEW n \in Nat
  PROVE  /\ Commas(w, n) \in Nat /\ Commas(w, 0) = 0
         /\ Commas(w, n + 1) = IF w[n + 1] = Comma /\ Depth(w, n + 1) = 1
                               THEN Commas(w, n) + 1 ELSE Commas(w, n)
<1> DEFINE T == {j \in Nat : w[j] = Comma /\ Depth(w, j) = 1}
<1>1. ASSUME NEW m \in Nat PROVE Commas(w, m) = UpTo(T, m)
  <2>1. {j \in 1 .. m : w[j] = Comma /\ Depth(w, j) = 1} = {j \in 1 .. m : j \in T}
    OBVIOUS
  <2> HIDE DEF T
  <2> QED BY <2>1, Zenon DEF Commas, UpTo
<1>2. n + 1 \in T <=> w[n + 1] = Comma /\ Depth(w, n + 1) = 1
  OBVIOUS
<1> HIDE DEF T
<1> QED BY <1>1, <1>2, UpToNext

(* What a word does to the depth and to the commas.                        *)
LEMMA WordCounts ==
  ASSUME NEW w, NEW n \in Nat
  PROVE  /\ w[n + 1] \in {"str", "scalar", Colon} =>
              Depth(w, n + 1) = Depth(w, n) /\ Commas(w, n + 1) = Commas(w, n)
         /\ \A k \in Kinds : w[n + 1] = Opener(k) =>
              Depth(w, n + 1) = Depth(w, n) + 1 /\ Commas(w, n + 1) = Commas(w, n)
         /\ \A k \in Kinds : w[n + 1] = Closer(k) =>
              Depth(w, n + 1) = Depth(w, n) - 1 /\ Commas(w, n + 1) = Commas(w, n)
         /\ w[n + 1] = Comma =>
              /\ Depth(w, n + 1) = Depth(w, n)
              /\ Commas(w, n + 1) = IF Depth(w, n) = 1 THEN Commas(w, n) + 1 ELSE Commas(w, n)
<1>1. \A k \in Kinds : Comma # Closer(k) /\ Comma # Opener(k)
                       /\ Colon # Closer(k) /\ Colon # Opener(k)
  <2>1. \A k \in Kinds : Opener(k) = "[" \/ Opener(k) = "{"
    BY Zenon DEF Opener
  <2>2. \A k \in Kinds : Closer(k) = "]" \/ Closer(k) = "}"
    BY Zenon DEF Closer
  <2>3. \A k \in Kinds : Comma # Closer(k)
    BY Distinct
  <2>4. \A k \in Kinds : Comma # Opener(k)
    BY <2>1, Zenon DEF Comma
  <2>5. \A k \in Kinds : Colon # Closer(k)
    BY <2>2, Zenon DEF Colon
  <2>6. \A k \in Kinds : Colon # Opener(k)
    BY <2>1, Zenon DEF Colon
  <2> QED BY <2>3, <2>4, <2>5, <2>6
<1>2. Comma \notin {"str", "scalar", Colon}
  BY Zenon DEF Comma, Colon
<1>3. \A k \in Kinds : /\ Opener(k) \notin {"str", "scalar"}
                       /\ Closer(k) \notin {"str", "scalar"}
  BY Distinct
<1>4. w[n + 1] \in {"str", "scalar", Colon, Comma} => Depth(w, n + 1) = Depth(w, n)
  BY <1>1, <1>3, DepthNext
<1>5. \A k \in Kinds : /\ w[n + 1] = Opener(k) => Depth(w, n + 1) = Depth(w, n) + 1
                       /\ w[n + 1] = Closer(k) => Depth(w, n + 1) = Depth(w, n) - 1
  BY DepthNext
<1>6. w[n + 1] # Comma => Commas(w, n + 1) = Commas(w, n)
  BY CommasNext
<1>7. w[n + 1] = Comma => Commas(w, n + 1) = IF Depth(w, n + 1) = 1 THEN Commas(w, n) + 1
                                             ELSE Commas(w, n)
  BY CommasNext
<1> QED BY <1>1, <1>2, <1>4, <1>5, <1>6, <1>7

(* What elements is, in a text whose first word opens an array: a call is  *)
(* active for every bracket that is open, the outermost for the first, and *)
(* an element has been pushed for every comma, and for the one that has    *)
(* just been read.                                                         *)
Tally(t, p, K, at, n) ==
  LET w == Words(t)
      c == Count(t, p)
  IN  /\ Depth(w, c) = Len(K) \/ (p = Len(t) /\ at \in {"next", "end"})
      /\ K # << >> =>
           /\ K[1] = "arr"
           /\ n = IF at = "next" /\ Len(K) = 1 THEN Commas(w, c) + 1 ELSE Commas(w, c)
      /\ K = << >> /\ at # "end" => n = 0
      /\ at = "end" =>
           \/ c >= 3 /\ w[c] = Closer("arr") /\ n = Commas(w, c) + 1
           \/ c = 2 /\ w[2] = Closer("arr") /\ n = Commas(w, c)
           \/ p = Len(t) /\ (c = 1 \/ t[p] = Comma) /\ n = Commas(w, c)

(* An element is pushed into the outermost array and into no other.        *)
LEMMA PushedTally ==
  ASSUME NEW t, NEW p, NEW K \in Seq({"obj", "arr"}), K # << >>, K[1] = "arr",
         elements = Commas(Words(t), Count(t, p)),
         Depth(Words(t), Count(t, p)) = Len(K) \/ p = Len(t)
  PROVE  Tally(t, p, K, "next", Pushed(K))
<1>1. K = <<"arr">> <=> Len(K) = 1
  <2>1. Len(K) = 1 => K = <<"arr">>
    OBVIOUS
  <2> QED BY <2>1
<1> QED BY <1>1 DEF Tally, Pushed

LEMMA TallyStep ==
  ASSUME Inv, Sound(text, pos, stack, ctl), Tally(text, pos, stack, ctl, elements),
         Words(text)[1] = Opener("arr"), Next, result' # "thrown"
  PROVE  Tally(text, pos', stack', ctl', elements')
<1> DEFINE w == Words(text)
           d == Len(stack)
           n == elements
<1>1. PICK b : Begun(w, b, stack) /\ Place(text, pos, stack, ctl, b)
  BY DEF Sound
<1>2. /\ Len(w) \in Nat /\ Here \in Nat /\ Here <= Len(w) /\ pos \in Nat /\ Len(text) \in Nat
      /\ pos <= Len(text) /\ Here = Count(text, pos) /\ d \in Nat /\ elements \in Nat
      /\ Commas(w, Here) \in Nat /\ Depth(w, Here) \in Int /\ "arr" \in Kinds
  BY HereFacts, Counts, CommasNext, DepthNext DEF Here, Inv, TypeOK, Kinds
<1>3. ASSUME Char # "nul", Char # "ws"
      PROVE  /\ pos < Len(text) /\ Count(text, pos + 1) = Here + 1 /\ Here + 1 <= Len(w)
             /\ w[Here + 1] = Char /\ text[pos + 1] = Char
  <2>1. pos < Len(text)
    BY <1>2, <1>3, CharIsInText
  <2> QED BY <1>2, <1>3, <2>1, HereFacts DEF Char
<1>4. ASSUME stack # << >>
      PROVE  /\ d \in Nat /\ d >= 1 /\ Innermost = stack[d] /\ Innermost \in Kinds
             /\ b[d] \in Nat /\ stack[1] = "arr"
             /\ Pop \in Seq({"obj", "arr"}) /\ Len(Pop) = d - 1 /\ (Pop = << >> <=> d = 1)
             /\ Pop # << >> => Pop[1] = "arr"
             /\ d = 1 => Innermost = "arr" /\ b[d] = 0
  <2>1. /\ d \in Nat /\ d >= 1 /\ Innermost = stack[d] /\ Innermost \in Kinds
        /\ b[d] \in Nat /\ BeforeAt(w, b, Pop, Len(Pop), b[d])
    BY <1>1, <1>4, InnermostSound
  <2>2. /\ \A i \in 1 .. Len(stack) - 1 : Pop[i] = stack[i]
    BY <1>4, FrameKinds DEF Inv
  <2>3. Pop \in Seq({"obj", "arr"}) /\ Len(Pop) = d - 1
    BY <1>4, PopType DEF Inv
  <2>4. stack[1] = "arr"
    BY <1>4 DEF Tally
  <2>5. Pop = << >> <=> d = 1
    <3>1. Pop = << >> <=> Len(Pop) = 0
      BY <2>3, EmptySeq
    <3> QED BY <2>1, <2>3, <3>1
  <2>6. Pop # << >> => Pop[1] = "arr"
    <3>1. PICK m \in Nat : m = d /\ m >= 1
      BY <2>1
    <3>2. m # 1 => 1 \in 1 .. m - 1
      BY <3>1
    <3> QED BY <2>2, <2>4, <2>5, <3>1, <3>2
  <2>7. d = 1 => b[d] = 0
    BY <2>1, <2>3 DEF BeforeAt
  <2> QED BY <2>1, <2>3, <2>4, <2>5, <2>6, <2>7
<1>5. ASSUME pos # Len(text) PROVE Depth(w, Here) = d
  BY <1>2, <1>5 DEF Tally
<1>6. ASSUME stack # << >>
      PROVE  n = IF ctl = "next" /\ d = 1 THEN Commas(w, Here) + 1 ELSE Commas(w, Here)
  BY <1>2, <1>6 DEF Tally
<1> HIDE DEF w, d, n
(* A word that neither opens, closes nor separates.                        *)
<1>7. ASSUME stack # << >>, Char \in {"str", "scalar", Colon}, Char # "nul", Char # "ws",
             ctl # "next", pos' = pos + 1, stack' = stack, elements' = elements,
             ctl' \notin {"next", "end"}
      PROVE  Tally(text, pos', stack', ctl', elements')
  <2>1. Depth(w, Here + 1) = d /\ Commas(w, Here + 1) = n /\ Count(text, pos + 1) = Here + 1
    BY <1>2, <1>3, <1>5, <1>6, <1>7, WordCounts
  <2>2. Tally(text, pos + 1, stack, ctl', elements)
    BY <1>4, <1>7, <2>1 DEF Tally, w, d, n
  <2> QED BY <1>7, <2>2
(* The closing bracket.                                                    *)
<1>8. ASSUME stack # << >>, Char = Closer(Innermost), Char # "ws", Char # "nul", pos' = pos + 1,
             Return(Pop), d = 1 => \/ ctl = "open" /\ Here = 1
                                   \/ ctl = "next" /\ Here >= 2,
             ctl \in {"open", "next"}
      PROVE  Tally(text, pos', stack', ctl', elements')
  <2>1. /\ stack' = Pop /\ ctl' = Caller(Pop) /\ elements' = Pushed(Pop)
        /\ Count(text, pos + 1) = Here + 1 /\ w[Here + 1] = Closer(Innermost)
    BY <1>3, <1>8 DEF Return, Goto
  <2>2. Depth(w, Here + 1) = d - 1 /\ Commas(w, Here + 1) = Commas(w, Here)
    BY <1>2, <1>3, <1>4, <1>5, <1>8, <2>1, WordCounts
  <2>3. CASE d = 1
    <3>1. /\ Pop = << >> /\ ctl' = "end" /\ elements' = elements /\ Innermost = "arr"
      BY <1>4, <1>8, <2>1, <2>3 DEF Caller, Pushed
    <3>2. elements = IF ctl = "next" THEN Commas(w, Here) + 1 ELSE Commas(w, Here)
      BY <1>6, <1>8, <2>3 DEF n
    <3>3. \/ Here + 1 >= 3 /\ elements = Commas(w, Here + 1) + 1
          \/ Here + 1 = 2 /\ elements = Commas(w, Here + 1)
      BY <1>2, <1>8, <2>2, <2>3, <3>2
    <3>4. Tally(text, pos + 1, << >>, "end", elements)
      BY <2>1, <2>2, <2>3, <3>1, <3>3 DEF Tally, w
    <3> QED BY <1>8, <2>1, <3>1, <3>4
  <2>4. CASE d # 1
    <3>1. Pop # << >> /\ Pop[1] = "arr" /\ ctl' = "next" /\ Len(Pop) = d - 1
      BY <1>4, <1>8, <2>1, <2>4 DEF Caller
    <3>2. elements = Commas(w, Here + 1)
      BY <1>6, <1>8, <2>2, <2>4 DEF n
    <3>3. Tally(text, pos + 1, Pop, "next", Pushed(Pop))
      BY <1>4, <1>8, <2>1, <2>2, <3>1, <3>2, PushedTally DEF w
    <3> QED BY <1>8, <2>1, <3>1, <3>3
  <2> QED BY <2>3, <2>4
(* Nothing has been read before the first value.                           *)
<1>9. ASSUME stack = << >>, ctl = "value" PROVE Here = 0 /\ n = 0
  <2>1. Len(stack) = 0
    BY <1>9
  <2>2. Here = 0
    BY <1>1, <1>2, <1>9, <2>1 DEF Place, BeforeAt
  <2> QED BY <1>9, <2>2 DEF Tally, n
<1>11. CASE SkipWhitespace
  <2>1. Char = "ws" /\ pos' = pos + 1 /\ stack' = stack /\ ctl' = ctl /\ elements' = elements
    BY <1>11 DEF SkipWhitespace, Consume
  <2>2. pos # Len(text) /\ Count(text, pos + 1) = Here
    BY <1>2, <2>1, CharIsInText, HereFacts
  <2>3. Tally(text, pos + 1, stack, ctl, elements)
    BY <1>2, <2>2 DEF Tally
  <2> QED BY <2>1, <2>3
<1>12. CASE ParseLeaf
  <2>1. ctl = "value" /\ Char \in {"str", "scalar"} /\ pos' = pos + 1 /\ stack' = stack
        /\ ctl' = Caller(stack) /\ elements' = Pushed(stack) /\ stack \in Seq({"obj", "arr"})
    BY <1>12 DEF ParseLeaf, AtToken, At, Consume, Return, Goto, Inv, TypeOK
  <2>2. stack # << >>
    <3>1. ASSUME stack = << >> PROVE FALSE
      <4>1. w[1] = Char
        BY <1>3, <1>9, <2>1, <3>1
      <4>2. Opener("arr") \notin {"str", "scalar"}
        BY <1>2, Distinct
      <4> QED BY <2>1, <4>1, <4>2 DEF w
    <3> QED BY <3>1
  <2>3. Depth(w, Here + 1) = d /\ Commas(w, Here + 1) = n /\ Count(text, pos + 1) = Here + 1
    <3>1. pos < Len(text) /\ w[Here + 1] \in {"str", "scalar", Colon}
      BY <1>3, <2>1
    <3> QED BY <1>2, <1>3, <1>5, <1>6, <2>1, <2>2, <3>1, WordCounts
  <2>4. Tally(text, pos + 1, stack, "next", Pushed(stack))
    BY <1>4, <2>1, <2>2, <2>3, PushedTally DEF w, d, n
  <2> QED BY <2>1, <2>2, <2>4 DEF Caller
<1>13. ASSUME NEW kind \in Kinds, Enter(Opener(kind), kind)
       PROVE  Tally(text, pos', stack', ctl', elements')
  <2>1. ctl = "value" /\ Char = Opener(kind) /\ pos' = pos + 1 /\ ctl' = "open"
        /\ stack' = Append(stack, kind) /\ elements' = elements
    BY <1>13 DEF Enter, AtToken, At, Consume, Goto
  <2>2. /\ Count(text, pos + 1) = Here + 1 /\ w[Here + 1] = Char /\ pos # Len(text)
    BY <1>2, <1>3, <2>1, Distinct
  <2>3. Depth(w, Here + 1) = d + 1 /\ Commas(w, Here + 1) = Commas(w, Here)
    BY <1>2, <1>5, <2>1, <2>2, WordCounts
  <2>4. n = Commas(w, Here)
    <3>1. CASE stack = << >>
      BY <1>9, <2>1, <3>1, CommasNext
    <3>2. CASE stack # << >>
      BY <1>6, <2>1, <3>2
    <3> QED BY <3>1, <3>2
  <2>5. /\ Len(stack') = d + 1 /\ stack' # << >>
        /\ stack'[1] = IF stack = << >> THEN kind ELSE stack[1]
    <3>1. Entered(stack', stack, kind) /\ stack' # << >>
      BY <2>1, StackGrows
    <3>2. /\ Len(stack) \in Nat /\ Len(stack') = Len(stack) + 1
          /\ stack'[Len(stack) + 1] = kind /\ \A i \in 1 .. Len(stack) : stack'[i] = stack[i]
          /\ stack = << >> <=> Len(stack) = 0
      <4>1. stack \in Seq({"obj", "arr"})
        BY DEF Inv, TypeOK
      <4> QED BY <3>1, <4>1, EmptySeq DEF Entered
    <3>3. Len(stack) # 0 => 1 \in 1 .. Len(stack)
      BY <3>2
    <3> QED BY <3>1, <3>2, <3>3 DEF d
  <2>6. stack'[1] = "arr"
    <3>1. CASE stack = << >>
      <4>1. Opener(kind) = Opener("arr")
        BY <1>9, <2>1, <2>2, <3>1 DEF w
      <4>2. kind = "arr"
        BY <1>2, <4>1, Distinct
      <4> QED BY <2>5, <3>1, <4>2
    <3>2. CASE stack # << >>
      BY <1>4, <2>5, <3>2
    <3> QED BY <3>1, <3>2
  <2>7. PICK K2 : K2 = stack'
    OBVIOUS
  <2>8. Tally(text, pos + 1, K2, "open", elements)
    BY <2>2, <2>3, <2>4, <2>5, <2>6, <2>7 DEF Tally, w, n
  <2> QED BY <2>1, <2>7, <2>8
<1>14. CASE EnterObject \/ EnterArray
  <2>1. Enter(Opener("obj"), "obj") \/ Enter(Opener("arr"), "arr")
    BY <1>14, Zenon DEF EnterObject, EnterArray, Opener
  <2>2. "obj" \in Kinds /\ "arr" \in Kinds
    BY DEF Kinds
  <2> QED BY <1>13, <2>1, <2>2
<1>15. CASE NoValue
  BY <1>15 DEF NoValue, Throw
<1>16. CASE Open
  <2>1. ctl = "open" /\ Char # "ws" /\ stack # << >>
    BY <1>16 DEF Open, AtToken, At, Inv, CursorSafe
  <2>2. CASE Char = Closer(Innermost)
    <3>1. pos' = pos + 1 /\ Return(Pop)
      BY <1>16, <2>2 DEF Open, Consume
    <3>2. Char # "nul"
      BY <1>4, <2>1, <2>2, Distinct
    <3>3. d = 1 => Here = 1
      <4>1. Here = b[d] + 1
        BY <1>1, <1>2, <2>1 DEF Place, d
      <4> QED BY <1>4, <2>1, <4>1
    <3> QED BY <1>8, <2>1, <2>2, <3>1, <3>2, <3>3
  <2>3. CASE Char # Closer(Innermost)
    <3>1. pos' = pos /\ stack' = stack /\ ctl' = "loop" /\ elements' = elements
      BY <1>16, <2>3 DEF Open, Goto
    <3>2. Tally(text, pos, stack, "loop", elements)
      BY <2>1 DEF Tally
    <3> QED BY <3>1, <3>2
  <2> QED BY <2>2, <2>3
<1>17. CASE LoopTest
  <2>1. ctl = "loop" /\ stack # << >>
    BY <1>17 DEF LoopTest, At, Inv, CursorSafe
  <2>2. CASE pos < Len(text)
    <3>1. /\ pos' = pos /\ stack' = stack /\ ctl' = LoopBody(Innermost) /\ elements' = elements
      BY <1>17, <2>2 DEF LoopTest, Goto
    <3>2. ctl' \in {"key", "value"}
      BY <3>1 DEF LoopBody
    <3>3. Tally(text, pos, stack, ctl', elements)
      BY <2>1, <3>2 DEF Tally
    <3> QED BY <3>1, <3>3
  <2>3. CASE ~(pos < Len(text))
    <3>1. /\ pos' = pos /\ stack' = Pop /\ ctl' = Caller(Pop) /\ elements' = Pushed(Pop)
          /\ pos = Len(text)
      BY <1>2, <1>17, <2>3 DEF LoopTest, Return, Goto
    <3>2. elements = Commas(w, Here)
      BY <1>6, <2>1 DEF n
    <3>3. CASE d = 1
      <4>1. Here = 1 \/ text[pos] = Comma
        <5>1. Here = b[d] + 1 \/ text[pos] = Comma
          BY <1>1, <1>2, <2>1 DEF Place, d
        <5> QED BY <1>4, <2>1, <3>3, <5>1
      <4>2. Pop = << >> /\ ctl' = "end" /\ elements' = elements
        BY <1>4, <2>1, <3>1, <3>3 DEF Caller, Pushed
      <4>3. Tally(text, pos, << >>, "end", elements)
        BY <1>2, <3>1, <3>2, <4>1 DEF Tally, w
      <4> QED BY <3>1, <4>2, <4>3
    <3>4. CASE d # 1
      <4>1. Pop # << >> /\ Pop[1] = "arr" /\ ctl' = "next"
        BY <1>4, <2>1, <3>1, <3>4 DEF Caller
      <4>2. Tally(text, pos, Pop, "next", Pushed(Pop))
        BY <1>2, <1>4, <2>1, <3>1, <3>2, <4>1, PushedTally DEF w
      <4> QED BY <3>1, <4>1, <4>2
    <3> QED BY <3>3, <3>4
  <2> QED BY <2>2, <2>3
<1>18. CASE ParseKey
  <2>1. ctl = "key" /\ Char = "str" /\ pos' = pos + 1 /\ ctl' = "colon" /\ stack' = stack
        /\ elements' = elements /\ stack # << >>
    BY <1>18 DEF ParseKey, AtToken, At, Consume, Goto, Throw, Inv, CursorSafe
  <2> QED BY <1>7, <2>1
<1>19. CASE ParseColon
  <2>1. ctl = "colon" /\ Char = Colon /\ pos' = pos + 1 /\ ctl' = "value" /\ stack' = stack
        /\ Char # "ws" /\ Char # "nul" /\ stack # << >> /\ elements' = elements
    BY <1>19 DEF ParseColon, AtToken, At, Consume, Goto, Throw, Colon, Inv, CursorSafe
  <2> QED BY <1>7, <2>1
<1>20. CASE AfterValue
  <2>1. ctl = "next" /\ Char # "ws" /\ stack # << >>
    BY <1>20 DEF AfterValue, AtToken, At, Inv, CursorSafe
  <2>2. CASE Char = Closer(Innermost) /\ Consume /\ Return(Pop)
    <3>1. Char # "nul"
      BY <1>4, <2>1, <2>2, Distinct
    <3>2. pos # Len(text)
      BY <1>2, <1>3, <2>1, <3>1
    <3>3. d = 1 => Here >= 2
      <4>1. List(w, Innermost, b[d] + 1, Here)
        BY <1>1, <1>2, <1>4, <2>1, <3>2, Zenon DEF Place, w, d
      <4>2. b[d] + 1 \in Nat /\ Innermost \in Kinds
        BY <1>4, <2>1
      <4>3. Here >= (b[d] + 1) + 1
        BY <1>2, <4>1, <4>2, NotEmpty
      <4> QED BY <1>4, <2>1, <4>3
    <3>4. pos' = pos + 1 /\ Return(Pop)
      BY <2>2 DEF Consume
    <3> QED BY <1>8, <2>1, <2>2, <3>1, <3>3, <3>4
  <2>3. CASE Char = Comma /\ Consume /\ Goto("loop") /\ UNCHANGED <<stack, elements>>
    <3>1. pos' = pos + 1 /\ stack' = stack /\ ctl' = "loop" /\ elements' = elements
      BY <2>3 DEF Consume, Goto
    <3>2. Char # "nul"
      BY <2>3, Zenon DEF Comma
    <3>3. /\ Count(text, pos + 1) = Here + 1 /\ w[Here + 1] = Comma /\ Depth(w, Here) = d
      BY <1>2, <1>3, <1>5, <2>1, <2>3, <3>2
    <3>4. /\ Depth(w, Here + 1) = d
          /\ Commas(w, Here + 1) = IF d = 1 THEN Commas(w, Here) + 1 ELSE Commas(w, Here)
      BY <1>2, <3>3, WordCounts
    <3>5. Commas(w, Here + 1) = n
      BY <1>6, <2>1, <3>4
    <3>6. Tally(text, pos + 1, stack, "loop", elements)
      BY <1>4, <2>1, <3>3, <3>4, <3>5 DEF Tally, w, d, n
    <3> QED BY <3>1, <3>6
  <2>4. CASE Throw
    BY <2>4 DEF Throw
  <2> QED BY <1>20, <2>2, <2>3, <2>4, Zenon DEF AfterValue, Comma
<1>21. CASE Finish
  <2>1. pos' = pos /\ stack' = stack /\ ctl' = ctl /\ elements' = elements
    BY <1>21 DEF Finish, Throw
  <2> QED BY <2>1
<1> QED
  BY <1>11, <1>12, <1>14, <1>15, <1>16, <1>17, <1>18, <1>19, <1>20, <1>21 DEF Next

Counting ==
  result # "thrown" /\ Words(text)[1] = Opener("arr") => Tally(text, pos, stack, ctl, elements)

LEMMA InitCounting == ASSUME Init PROVE Counting
<1>1. Inv /\ pos = 0 /\ stack = << >> /\ ctl = "value" /\ elements = 0
  BY InitInv DEF Init
<1>2. Count(text, 0) = 0 /\ Len(<< >>) = 0 /\ Depth(Words(text), 0) = 0
  BY <1>1, WordFacts, DepthNext DEF Inv, TypeOK
<1> QED BY <1>1, <1>2 DEF Counting, Tally

LEMMA NextCounting == ASSUME Inv, Accepting, Counting, [Next]_vars PROVE Counting'
<1>1. CASE UNCHANGED vars
  BY <1>1 DEF vars, Counting
<1>2. CASE Next
  <2>1. text' = text /\ result = "running"
    BY <1>2 DEF Next, SkipWhitespace, ParseLeaf, EnterObject, EnterArray, Enter, NoValue, Open,
       LoopTest, ParseKey, ParseColon, AfterValue, Finish, AtToken, At, Throw, Goto, Return
  <2>2. ASSUME result' # "thrown", Words(text)[1] = Opener("arr")
        PROVE  Tally(text, pos', stack', ctl', elements')
    <3>1. Sound(text, pos, stack, ctl) /\ Tally(text, pos, stack, ctl, elements)
      BY <2>1, <2>2 DEF Accepting, Counting
    <3> QED BY <1>2, <2>2, <3>1, TallyStep
  <2> QED BY <2>1, <2>2 DEF Counting
<1> QED BY <1>1, <1>2

LEMMA CountedAtEnd ==
  ASSUME Inv, Accepting, Counting
  PROVE  ElementsAreCounted
<1> DEFINE w == Words(text)
<1> SUFFICES ASSUME result = "value", w[1] = "["
             PROVE  elements = IF IsCutOff(text) \/ w = <<"[", "]">>
                               THEN TopCommas(w) ELSE TopCommas(w) + 1
  BY DEF ElementsAreCounted
<1>1. w[1] = Opener("arr") /\ Closer("arr") = "]"
  BY Zenon DEF Opener, Closer
<1>2. ctl = "end" /\ pos = Len(text) /\ Tally(text, pos, stack, ctl, elements)
  BY <1>1 DEF Accepting, Counting
<1>3. Here = Len(w) /\ Len(w) \in Nat /\ Here = Count(text, pos) /\ w \in Seq(Tokens)
  BY <1>2, HereFacts DEF Here
<1>4. TopCommas(w) = Commas(w, Len(w))
  <2> HIDE DEF w
  <2>1. DOMAIN w = 1 .. Len(w)
    BY <1>3, LenProperties
  <2>2. {i \in DOMAIN w : w[i] = Comma /\ Depth(w, i) = 1}
          = {i \in 1 .. Len(w) : w[i] = Comma /\ Depth(w, i) = 1}
    BY <2>1
  <2> QED BY <2>2, Zenon DEF TopCommas, Commas
<1>5. w[1] \notin {"str", "scalar"}
  OBVIOUS
<1>6. IsJson(text) \/ IsCutOff(text)
  BY AcceptedAtEnd
<1>7. IsJson(text) <=> Value(w, 0, Len(w))
  BY DEF IsJson, Value
<1>8. IsCutOff(text) => Len(w) = 1 \/ text[Len(text)] = Comma
  BY Zenon DEF IsCutOff
<1>9. text[Len(text)] = Comma /\ Len(w) >= 1 => w[Len(w)] = Comma
  BY LastWord
<1>10. CASE Len(w) >= 3 /\ w[Len(w)] = Closer("arr") /\ elements = Commas(w, Len(w)) + 1
  <2>1. "arr" \in Kinds
    BY DEF Kinds
  <2>2. Comma # Closer("arr")
    BY <2>1, Distinct
  <2>3. ~IsCutOff(text)
    BY <1>8, <1>9, <1>10, <2>2
  <2>4. w # <<"[", "]">>
    <3>1. Len(<<"[", "]">>) = 2
      OBVIOUS
    <3> QED BY <1>10, <3>1
  <2> QED BY <1>4, <1>10, <2>3, <2>4
<1>11. CASE Len(w) = 2 /\ w[2] = Closer("arr") /\ elements = Commas(w, Len(w))
  <2>1. w[1] = "[" /\ w[2] = "]"
    BY <1>1, <1>11
  <2>2. w = <<w[1], w[2]>>
    <3> HIDE DEF w
    <3> QED BY <1>3, <1>11
  <2>3. w = <<"[", "]">>
    BY <2>1, <2>2
  <2> QED BY <1>4, <1>11, <2>3
<1>12. CASE (Len(w) = 1 \/ text[Len(text)] = Comma) /\ elements = Commas(w, Len(w))
  <2>1. ~Value(w, 0, Len(w))
    <3>1. CASE Len(w) = 1
      BY <1>5, <3>1 DEF Value, IsValue
    <3>2. CASE Len(w) # 1 /\ text[Len(text)] = Comma
      <4>1. Len(w) = 0 => ~Value(w, 0, Len(w))
        BY DEF Value, IsValue
      <4>2. Len(w) # 0 => w[Len(w)] = Comma
        BY <1>3, <1>9, <3>2
      <4> QED BY <1>3, <4>1, <4>2, NoTrailingComma
    <3> QED BY <1>12, <3>1, <3>2
  <2>2. IsCutOff(text)
    BY <1>6, <1>7, <2>1
  <2> QED BY <1>4, <1>12, <2>2
<1>13. \/ Len(w) >= 3 /\ w[Len(w)] = Closer("arr") /\ elements = Commas(w, Len(w)) + 1
       \/ Len(w) = 2 /\ w[2] = Closer("arr") /\ elements = Commas(w, Len(w))
       \/ (Len(w) = 1 \/ text[Len(text)] = Comma) /\ elements = Commas(w, Len(w))
  BY <1>2, <1>3 DEF Tally
<1> QED BY <1>10, <1>11, <1>12, <1>13

(* The array returned holds every element that was complete, however       *)
(* deeply the elements nest and wherever the text ends                     *)
(* (src/json_parser.cpp:123-143).                                          *)
THEOREM CountsElements == Spec => []ElementsAreCounted
<1>1. Init => Inv /\ Accepting /\ Counting
  BY InitInv, InitAccepting, InitCounting
<1>2. Inv /\ Accepting /\ Counting /\ [Next]_vars => (Inv /\ Accepting /\ Counting)'
  BY NextInv, NextAccepting, NextCounting
<1>3. Inv /\ Accepting /\ Counting => ElementsAreCounted
  BY CountedAtEnd
<1> QED BY <1>1, <1>2, <1>3, PTL DEF Spec
=============================================================================
