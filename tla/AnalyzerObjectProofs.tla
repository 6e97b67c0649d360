------------------------ MODULE AnalyzerObjectProofs ------------------------
(***************************************************************************)
(* Lemmas about the operators of LogFiles and AnalyzerObject, for every    *)
(* set of records: what asLogEntries keeps, what the loops of the filters  *)
(* keep, that counts of a map add up to counts of records, and that a top  *)
(* list is a ranking of all values cut at its end.                         *)
(*                                                                         *)
(* Kept, SelectSeq and the folds are recursive functions.  The library     *)
(* states induction with an operator parameter, so the first two lemmas    *)
(* derive it for sets, from the well-foundedness of < on Nat.              *)
(***************************************************************************)
EXTENDS AnalyzerObject, FiniteSetTheorems, NaturalsInduction, TLAPS

(* A nonempty set of naturals has a least element.                         *)
LEMMA Least ==
  ASSUME NEW T \in SUBSET Nat, T # {}
  PROVE  \E x \in T : \A y \in T : x <= y
<1> DEFINE R == OpToRel(<, Nat)
<1>1. IsWellFoundedOn(R, Nat)
  BY NatLessThanWellFounded
<1>2. PICK x \in T : \A y \in T : ~(<<y, x>> \in R)
  BY <1>1, WFMin
<1>3. \A y \in T : ~(y < x)
  BY <1>2 DEF OpToRel
<1> QED BY <1>3

(* A set that holds 0 and, with a number, its successor, holds all of Nat. *)
LEMMA Induct ==
  ASSUME NEW G, 0 \in G, \A n \in Nat : n \in G => n + 1 \in G
  PROVE  Nat \subseteq G
<1> SUFFICES ASSUME Nat \ G # {} PROVE FALSE
  OBVIOUS
<1>1. PICK x \in Nat \ G : \A y \in Nat \ G : x <= y
  BY Least
<1>2. x # 0 /\ x - 1 \in Nat
  BY <1>1
<1>3. x - 1 \in G
  BY <1>1, <1>2
<1> QED BY <1>1, <1>2, <1>3

(* A finite set of naturals has an upper bound.                            *)
LEMMA Bounded ==
  ASSUME NEW S \in SUBSET Nat, IsFiniteSet(S)
  PROVE  \E n \in Nat : \A y \in S : n >= y
<1> DEFINE Good == {c \in Nat : \A T \in SUBSET S :
                      IsFiniteSet(T) /\ Cardinality(T) = c =>
                        \E n \in Nat : \A y \in T : n >= y}
<1>1. 0 \in Good
  BY FS_EmptySet
<1>2. ASSUME NEW c \in Nat, c \in Good PROVE c + 1 \in Good
  <2> SUFFICES ASSUME NEW T \in SUBSET S, IsFiniteSet(T), Cardinality(T) = c + 1
               PROVE  \E n \in Nat : \A y \in T : n >= y
    OBVIOUS
  <2>0. T # {}
    BY FS_EmptySet
  <2>1. PICK x \in T : TRUE
    BY <2>0
  <2>2. IsFiniteSet(T \ {x}) /\ Cardinality(T \ {x}) = c
    <3>1. IsFiniteSet(T \ {x}) /\ Cardinality(T \ {x}) = Cardinality(T) - 1
      BY FS_RemoveElement
    <3> QED BY <3>1
  <2>3. PICK n \in Nat : \A y \in T \ {x} : n >= y
    BY <1>2, <2>2
  <2>4. x \in Nat
    OBVIOUS
  <2>5. CASE n >= x
    BY <2>3, <2>5
  <2>6. CASE ~(n >= x)
    <3>1. \A y \in T : x >= y
      BY <2>3, <2>4, <2>6
    <3> QED BY <2>4, <3>1
  <2> QED BY <2>5, <2>6
<1>3. Nat \subseteq Good
  <2> HIDE DEF Good
  <2> QED BY <1>1, <1>2, Induct
<1> QED BY <1>3, FS_CardinalityType

-----------------------------------------------------------------------------
(* The right-hand side of the definition of kept in Filtered.              *)
KeptBody(g, i, s, T) ==
  IF i = 0 THEN << >>
  ELSE IF s[i] \in T THEN Append(g[i - 1], s[i]) ELSE g[i - 1]

(* For every length a function satisfies the recursion.                    *)
LEMMA KeptExists ==
  ASSUME NEW s, NEW T
  PROVE  \A n \in Nat : \E g : g = [i \in 0 .. n |-> KeptBody(g, i, s, T)]
<1> DEFINE Good == {n \in Nat : \E g : g = [i \in 0 .. n |-> KeptBody(g, i, s, T)]}
<1>1. 0 \in Good
  <2> DEFINE g0 == [i \in 0 .. 0 |-> << >>]
  <2>1. g0 = [i \in 0 .. 0 |-> KeptBody(g0, i, s, T)]
    BY DEF KeptBody
  <2> QED BY <2>1
<1>2. ASSUME NEW n \in Nat, n \in Good PROVE n + 1 \in Good
  <2>1. PICK g : g = [i \in 0 .. n |-> KeptBody(g, i, s, T)]
    BY <1>2
  <2> DEFINE h == [i \in 0 .. (n + 1) |->
                     IF i <= n THEN g[i] ELSE KeptBody(g, n + 1, s, T)]
  <2>2. ASSUME NEW i \in 0 .. (n + 1) PROVE h[i] = KeptBody(h, i, s, T)
    <3>1. CASE i = 0
      BY <2>1, <3>1 DEF KeptBody
    <3>2. CASE i # 0
      <4>1. i - 1 \in 0 .. n /\ h[i - 1] = g[i - 1]
        BY <3>2
      <4>2. h[i] = KeptBody(g, i, s, T)
        BY <2>1
      <4> QED BY <4>1, <4>2, <3>2 DEF KeptBody
    <3> QED BY <3>1, <3>2
  <2>3. h = [i \in 0 .. (n + 1) |-> KeptBody(h, i, s, T)]
    <3> DEFINE hh == [i \in 0 .. (n + 1) |-> KeptBody(h, i, s, T)]
    <3>1. \A i \in 0 .. (n + 1) : h[i] = hh[i]
      BY <2>2
    <3> HIDE DEF hh
    <3> QED BY <3>1 DEF hh
  <2>4. \E k : k = [i \in 0 .. (n + 1) |-> KeptBody(k, i, s, T)]
    <3> HIDE DEF h
    <3> QED BY <2>3
  <2> QED BY <2>4
<1>3. Nat \subseteq Good
  <2> HIDE DEF Good
  <2> QED BY <1>1, <1>2, Induct
<1> QED BY <1>3

(* f[k] is what is kept of the first k elements, up to n.                  *)
IsKept(f, s, T, n) ==
  /\ f[0] = << >>
  /\ \A k \in Nat : k + 1 <= n =>
       f[k + 1] = IF s[k + 1] \in T THEN Append(f[k], s[k + 1]) ELSE f[k]

(* Filtered(s, T) is the last value of a function that starts empty and    *)
(* takes the elements one by one.                                          *)
LEMMA FilteredUnfolds ==
  ASSUME NEW s, NEW T, Len(s) \in Nat
  PROVE  \E f : Filtered(s, T) = f[Len(s)] /\ IsKept(f, s, T, Len(s))
<1>0. PICK n \in Nat : n = Len(s)
  OBVIOUS
<1> DEFINE f == CHOOSE g : g = [i \in 0 .. n |-> KeptBody(g, i, s, T)]
           b == [i \in 0 .. n |-> KeptBody(f, i, s, T)]
<1>1. Filtered(s, T) = f[n]
  BY <1>0 DEF Filtered, KeptBody
<1>2. \E g : g = [i \in 0 .. n |-> KeptBody(g, i, s, T)]
  BY KeptExists
<1>3. f = b
  BY <1>2, Zenon
<1> HIDE DEF f
<1>4. b[0] = << >>
  BY DEF KeptBody
<1>5. ASSUME NEW k \in Nat, k + 1 <= n
      PROVE  b[k + 1] = IF s[k + 1] \in T THEN Append(f[k], s[k + 1]) ELSE f[k]
  <2>1. k + 1 \in 0 .. n /\ k + 1 # 0 /\ (k + 1) - 1 = k
    BY <1>5
  <2> QED BY <2>1 DEF KeptBody
<1> HIDE DEF b
<1>6. IsKept(f, s, T, n)
  BY <1>3, <1>4, <1>5 DEF IsKept
<1> QED BY <1>0, <1>1, <1>6

(* A filter yields elements of both the sequence and the set.              *)
LEMMA FilteredType ==
  ASSUME NEW S, NEW s \in Seq(S), NEW T
  PROVE  Filtered(s, T) \in Seq({s[i] : i \in DOMAIN s} \cap T)
<1> DEFINE R == {s[i] : i \in DOMAIN s} \cap T
<1>1. PICK n \in Nat : n = Len(s)
  OBVIOUS
<1>2. PICK f : Filtered(s, T) = f[n] /\ IsKept(f, s, T, n)
  BY <1>1, FilteredUnfolds
<1> DEFINE Good == {k \in Nat : k <= n => f[k] \in Seq(R)}
<1>3. 0 \in Good
  <2>1. << >> \in Seq(R)
    OBVIOUS
  <2>2. f[0] \in Seq(R)
    BY <1>2, <2>1, Zenon DEF IsKept
  <2> QED BY <2>2
<1>4. ASSUME NEW k \in Nat, k \in Good PROVE k + 1 \in Good
  <2> SUFFICES ASSUME k + 1 <= n PROVE f[k + 1] \in Seq(R)
    OBVIOUS
  <2>1. f[k] \in Seq(R)
    BY <1>4
  <2>2. s[k + 1] \in T => s[k + 1] \in R
    BY <1>1
  <2>3. f[k + 1] = IF s[k + 1] \in T THEN Append(f[k], s[k + 1]) ELSE f[k]
    BY <1>2 DEF IsKept
  <2> HIDE DEF R
  <2> QED BY <2>1, <2>2, <2>3
<1>5. Nat \subseteq Good
  <2> HIDE DEF Good
  <2> QED BY <1>3, <1>4, Induct
<1> QED BY <1>2, <1>5

(* A sequence of elements of the set loses nothing and keeps its order.    *)
LEMMA FilteredAll ==
  ASSUME NEW S, NEW s \in Seq(S), NEW T, \A i \in DOMAIN s : s[i] \in T
  PROVE  Filtered(s, T) = s
<1>1. PICK n \in Nat : n = Len(s)
  OBVIOUS
<1>2. PICK f : Filtered(s, T) = f[n] /\ IsKept(f, s, T, n)
  BY <1>1, FilteredUnfolds
<1> DEFINE Good == {k \in Nat : k <= n => f[k] = SubSeq(s, 1, k)}
<1>3. 0 \in Good
  <2>1. SubSeq(s, 1, 0) = << >>
    OBVIOUS
  <2>2. f[0] = SubSeq(s, 1, 0)
    BY <1>2, <2>1, Zenon DEF IsKept
  <2> QED BY <2>2
<1>4. ASSUME NEW k \in Nat, k \in Good PROVE k + 1 \in Good
  <2> SUFFICES ASSUME k + 1 <= n PROVE f[k + 1] = SubSeq(s, 1, k + 1)
    OBVIOUS
  <2>1. f[k] = SubSeq(s, 1, k)
    BY <1>4
  <2>2. s[k + 1] \in T
    BY <1>1
  <2>3. Append(SubSeq(s, 1, k), s[k + 1]) = SubSeq(s, 1, k + 1)
    BY <1>1
  <2> QED BY <1>2, <2>1, <2>2, <2>3 DEF IsKept
<1>5. Nat \subseteq Good
  <2> HIDE DEF Good
  <2> QED BY <1>3, <1>4, Induct
<1>6. SubSeq(s, 1, n) = s
  BY <1>1
<1> QED BY <1>2, <1>5, <1>6

(* A filter keeps as many elements as there are positions with one of T.   *)
LEMMA FilteredLength ==
  ASSUME NEW S, NEW s \in Seq(S), NEW T
  PROVE  Len(Filtered(s, T)) = Cardinality({i \in DOMAIN s : s[i] \in T})
<1>1. PICK n \in Nat : n = Len(s)
  OBVIOUS
<1>2. PICK f : Filtered(s, T) = f[n] /\ IsKept(f, s, T, n)
  BY <1>1, FilteredUnfolds
<1> DEFINE At(k) == {i \in 1 .. k : s[i] \in T}
           Good  == {k \in Nat : k <= n => /\ f[k] \in Seq(S) /\ IsFiniteSet(At(k))
                                          /\ Len(f[k]) = Cardinality(At(k))}
<1>3. 0 \in Good
  <2>1. At(0) = {}
    OBVIOUS
  <2>2. << >> \in Seq(S) /\ Len(<< >>) = 0
    OBVIOUS
  <2>3. f[0] = << >>
    BY <1>2 DEF IsKept
  <2> HIDE DEF At
  <2>4. f[0] \in Seq(S) /\ Len(f[0]) = 0
    BY <2>2, <2>3, Zenon
  <2> QED BY <2>1, <2>4, FS_EmptySet
<1>4. ASSUME NEW k \in Nat, k \in Good PROVE k + 1 \in Good
  <2> SUFFICES ASSUME k + 1 <= n
               PROVE  /\ f[k + 1] \in Seq(S) /\ IsFiniteSet(At(k + 1))
                      /\ Len(f[k + 1]) = Cardinality(At(k + 1))
    OBVIOUS
  <2>1. f[k] \in Seq(S) /\ IsFiniteSet(At(k)) /\ Len(f[k]) = Cardinality(At(k))
    BY <1>4
  <2>2. f[k + 1] = IF s[k + 1] \in T THEN Append(f[k], s[k + 1]) ELSE f[k]
    BY <1>2 DEF IsKept
  <2>3. s[k + 1] \in S
    BY <1>1
  <2>4. CASE s[k + 1] \in T
    <3>1. At(k + 1) = At(k) \cup {k + 1} /\ k + 1 \notin At(k)
      BY <2>4
    <3> HIDE DEF At
    <3>2. IsFiniteSet(At(k + 1)) /\ Cardinality(At(k + 1)) = Cardinality(At(k)) + 1
      BY <2>1, <3>1, FS_AddElement
    <3>3. f[k + 1] \in Seq(S) /\ Len(f[k + 1]) = Len(f[k]) + 1
      BY <2>1, <2>2, <2>3, <2>4
    <3> QED BY <2>1, <3>2, <3>3
  <2>5. CASE s[k + 1] \notin T
    <3>1. At(k + 1) = At(k)
      BY <2>5
    <3> HIDE DEF At
    <3> QED BY <2>1, <2>2, <2>5, <3>1
  <2> QED BY <2>4, <2>5
<1>5. Nat \subseteq Good
  <2> HIDE DEF Good
  <2> QED BY <1>3, <1>4, Induct
<1>6. At(n) = {i \in DOMAIN s : s[i] \in T}
  BY <1>1
<1> QED BY <1>2, <1>5, <1>6

(* asLogEntries yields a sequence of records (src/json_parser.cpp:413-440).*)
LEMMA KeptType ==
  ASSUME NEW items \in Seq(Entries \cup {Junk})
  PROVE  Kept(items) \in Seq(Entries)
<1> DEFINE R == {items[i] : i \in DOMAIN items} \cap Entries
<1>1. Filtered(items, Entries) \in Seq(R)
  BY FilteredType
<1>2. R \subseteq Entries
  OBVIOUS
<1> HIDE DEF R
<1> QED BY <1>1, <1>2 DEF Kept

LEMMA ReadType ==
  ASSUME NEW c \in Contents, HasLogEntries(c)
  PROVE  AsLogEntries(c) \in Seq(Entries)
<1>1. c.items \in Seq(Entries \cup {Junk})
  BY DEF Contents, HasLogEntries
<1> QED BY <1>1, KeptType DEF AsLogEntries

(* A sequence of records loses nothing and keeps its order.                *)
LEMMA KeptAll ==
  ASSUME NEW items \in Seq(Entries)
  PROVE  Kept(items) = items
<1>1. \A i \in DOMAIN items : items[i] \in Entries
  OBVIOUS
<1> QED BY <1>1, FilteredAll DEF Kept

-----------------------------------------------------------------------------
(* The file a JSON export leaves is a JSON array or text no parser takes.  *)
LEMMA JsonType ==
  ASSUME NEW logs \in Seq(Entries)
  PROVE  JsonOf(logs) \in Contents
<1>1. CASE Survives(logs)
  <2>1. \A i \in DOMAIN logs : ReadBack[logs[i]] \in Entries \cup {Junk}
    BY <1>1, EntriesAssumption DEF Survives
  <2>2. [i \in DOMAIN logs |-> ReadBack[logs[i]]] \in Seq(Entries \cup {Junk})
    BY <2>1
  <2> QED BY <1>1, <2>2 DEF JsonOf, ArrayOf, Contents
<1>2. CASE ~Survives(logs)
  BY <1>2 DEF JsonOf, Garbage, Contents
<1> QED BY <1>1, <1>2

(* Whatever an export leaves, whole or cut off, is a file content.         *)
LEMMA ExportsType ==
  ASSUME NEW logs \in Seq(Entries)
  PROVE  /\ JsonOf(logs) \in Contents /\ CsvOf(logs) \in Contents
         /\ TornJson(logs) \subseteq Contents /\ TornCsv(logs) \subseteq Contents
         /\ Garbage \in Contents /\ TopList \in Contents
<1>1. Garbage \in Contents /\ TopList \in Contents
  BY DEF Garbage, TopList, Contents
<1>2. \A l \in Seq(Entries) : CsvOf(l) \in Contents
  BY DEF CsvOf, Contents
<1>3. \A k \in 0 .. Len(logs) - 1 : SubSeq(logs, 1, k) \in Seq(Entries)
  OBVIOUS
<1>4. TornJson(logs) \subseteq Contents
  BY <1>1, <1>3, JsonType DEF TornJson
<1>5. TornCsv(logs) \subseteq Contents
  BY <1>2, <1>3 DEF TornCsv
<1> QED BY <1>1, <1>2, <1>4, <1>5, JsonType

(* An export of records that survive the printing is loadable and gives    *)
(* the same records again (src/analyzer.cpp:311-332,                       *)
(* src/json_parser.cpp:413-440).                                           *)
THEOREM RoundTrip ==
  ASSUME NEW logs \in Seq(Entries), logs # << >>,
         \A i \in DOMAIN logs : ReadBack[logs[i]] = logs[i]
  PROVE  Loadable(JsonOf(logs)) /\ AsLogEntries(JsonOf(logs)) = logs
<1>1. \A i \in DOMAIN logs : logs[i] \in Entries
  OBVIOUS
<1>2. Survives(logs)
  BY <1>1, EntriesAssumption DEF Survives
<1>3. [i \in DOMAIN logs |-> ReadBack[logs[i]]] = logs
  OBVIOUS
<1>4. JsonOf(logs) = ArrayOf(logs)
  BY <1>2, <1>3 DEF JsonOf
<1>5. AsLogEntries(ArrayOf(logs)) = logs /\ HasLogEntries(ArrayOf(logs))
  BY KeptAll DEF AsLogEntries, HasLogEntries, ArrayOf
<1> QED BY <1>4, <1>5 DEF Loadable

-----------------------------------------------------------------------------
(* The values of a field and the positions that have one are finitely      *)
(* many.                                                                   *)
LEMMA ValuesFinite ==
  ASSUME NEW logs \in Seq(Entries), NEW field
  PROVE  /\ IsFiniteSet(ValuesOf(field, logs))
         /\ Cardinality(ValuesOf(field, logs)) \in Nat
         /\ logs # << >> => Cardinality(ValuesOf(field, logs)) # 0
<1> DEFINE S == ValuesOf(field, logs)
           f == [i \in DOMAIN logs |-> logs[i][field]]
<1>1. f \in Surjection(DOMAIN logs, S)
  BY DEF Surjection, ValuesOf
<1>2. IsFiniteSet(DOMAIN logs)
  BY FS_Interval
<1>3. IsFiniteSet(S)
  BY <1>1, <1>2, FS_Surjection
<1>4. ASSUME logs # << >> PROVE S # {}
  <2>1. 1 \in DOMAIN logs
    BY <1>4
  <2> QED BY <2>1 DEF ValuesOf
<1> QED BY <1>3, <1>4, FS_CardinalityType, FS_EmptySet

LEMMA PositionsFinite ==
  ASSUME NEW logs \in Seq(Entries), NEW P \in SUBSET (DOMAIN logs)
  PROVE  IsFiniteSet(P) /\ Cardinality(P) \in Nat
<1>1. IsFiniteSet(DOMAIN logs)
  BY FS_Interval
<1> QED BY <1>1, FS_Subset, FS_CardinalityType

(* The number of positions of a value is the length of the filter for it.  *)
LEMMA CountIsLength ==
  ASSUME NEW logs \in Seq(Entries), NEW field, NEW v
  PROVE  /\ Count(field, v, logs) = Len(Filtered(logs, {e \in Entries : e[field] = v}))
         /\ Count(field, v, logs) \in Nat
<1> DEFINE T == {e \in Entries : e[field] = v}
<1>1. {i \in DOMAIN logs : logs[i] \in T} = Having(field, v, logs)
  BY DEF Having
<1>2. Len(Filtered(logs, T)) = Cardinality({i \in DOMAIN logs : logs[i] \in T})
  BY FilteredLength
<1>3. Cardinality(Having(field, v, logs)) \in Nat
  BY PositionsFinite DEF Having
<1> QED BY <1>1, <1>2, <1>3 DEF Count

-----------------------------------------------------------------------------
(***************************************************************************)
(* Sums over a distribution.  The fold takes values out one by one, with   *)
(* CHOOSE; whichever it takes, what it adds up over a set of values is the *)
(* number of records that have one of them.                                *)
(***************************************************************************)
HavingAnyOf(field, s, logs) == {i \in DOMAIN logs : logs[i][field] \in s}

(* The right-hand side of the definition of iter in MapThenFoldSet.        *)
SumBody(g, s, counts) ==
  IF s = {} THEN 0
  ELSE counts[CHOOSE x \in s : TRUE] + g[s \ {CHOOSE x \in s : TRUE}]

LEMMA TakeOne ==
  ASSUME NEW logs \in Seq(Entries), NEW field, NEW s, NEW v \in s
  PROVE  Cardinality(HavingAnyOf(field, s, logs))
           = Count(field, v, logs) + Cardinality(HavingAnyOf(field, s \ {v}, logs))
<1> DEFINE A == Having(field, v, logs)
           B == HavingAnyOf(field, s \ {v}, logs)
<1>1. HavingAnyOf(field, s, logs) = A \cup B /\ A \cap B = {}
  BY DEF HavingAnyOf, Having
<1>2. A \in SUBSET (DOMAIN logs) /\ B \in SUBSET (DOMAIN logs)
  BY DEF HavingAnyOf, Having
<1>3. /\ IsFiniteSet(A) /\ IsFiniteSet(B)
      /\ Cardinality(A) \in Nat /\ Cardinality(B) \in Nat
  BY <1>2, PositionsFinite
<1> HIDE DEF A, B
<1>4. Cardinality(A \cup B) = Cardinality(A) + Cardinality(B) - Cardinality(A \cap B)
  BY <1>3, FS_Union
<1>5. Cardinality(A \cap B) = 0
  BY <1>1, FS_EmptySet
<1> QED BY <1>1, <1>3, <1>4, <1>5 DEF Count, A, B

LEMMA SumIsCardinality ==
  ASSUME NEW logs \in Seq(Entries), NEW field, NEW counts,
         NEW S \in SUBSET ValuesOf(field, logs),
         \A v \in S : counts[v] = Count(field, v, logs)
  PROVE  FoldFunctionOnSet(+, 0, counts, S) = Cardinality(HavingAnyOf(field, S, logs))
<1> DEFINE w == [s \in SUBSET S |-> Cardinality(HavingAnyOf(field, s, logs))]
           f == CHOOSE g : g = [s \in SUBSET S |-> SumBody(g, s, counts)]
<1>1. FoldFunctionOnSet(+, 0, counts, S) = f[S]
  BY DEF FoldFunctionOnSet, MapThenFoldSet, SumBody
<1>2. ASSUME NEW s \in SUBSET S PROVE w[s] = SumBody(w, s, counts)
  <2>1. CASE s = {}
    <3>1. HavingAnyOf(field, s, logs) = {}
      BY <2>1 DEF HavingAnyOf
    <3> QED BY <2>1, <3>1, FS_EmptySet DEF SumBody
  <2>2. CASE s # {}
    <3> DEFINE v == CHOOSE x \in s : TRUE
    <3>1. v \in s
      BY <2>2
    <3> HIDE DEF v
    <3>2. s \ {v} \in SUBSET S /\ v \in S
      BY <3>1
    <3>3. w[s] = counts[v] + w[s \ {v}]
      BY <3>1, <3>2, TakeOne
    <3> QED BY <2>2, <3>3 DEF SumBody, v
  <2> QED BY <2>1, <2>2
<1>3. \E g : g = [s \in SUBSET S |-> SumBody(g, s, counts)]
  <2> DEFINE ww == [s \in SUBSET S |-> SumBody(w, s, counts)]
  <2>1. w = ww
    BY <1>2
  <2> HIDE DEF w
  <2> QED BY <2>1
<1>4. f = [s \in SUBSET S |-> SumBody(f, s, counts)]
  BY <1>3, Zenon
<1> HIDE DEF f
<1> DEFINE Good == {n \in Nat : \A s \in SUBSET S :
                      IsFiniteSet(s) /\ Cardinality(s) = n => f[s] = w[s]}
<1>5. 0 \in Good
  <2> SUFFICES ASSUME NEW s \in SUBSET S, s = {} PROVE f[s] = w[s]
    BY FS_EmptySet
  <2> HIDE DEF w
  <2> QED BY <1>2, <1>4 DEF SumBody
<1>6. ASSUME NEW n \in Nat, n \in Good PROVE n + 1 \in Good
  <2> HIDE DEF w
  <2> SUFFICES ASSUME NEW s \in SUBSET S, IsFiniteSet(s), Cardinality(s) = n + 1
               PROVE  f[s] = w[s]
    OBVIOUS
  <2> DEFINE v == CHOOSE x \in s : TRUE
  <2>1. s # {}
    BY FS_EmptySet
  <2>2. v \in s
    BY <2>1
  <2>3. f[s] = counts[v] + f[s \ {v}]
    BY <1>4, <2>1 DEF SumBody
  <2>4. w[s] = counts[v] + w[s \ {v}]
    BY <1>2, <2>1 DEF SumBody
  <2> HIDE DEF v
  <2>5. IsFiniteSet(s \ {v}) /\ Cardinality(s \ {v}) = n
    <3>1. IsFiniteSet(s \ {v}) /\ Cardinality(s \ {v}) = Cardinality(s) - 1
      BY <2>2, FS_RemoveElement
    <3> QED BY <3>1
  <2>6. f[s \ {v}] = w[s \ {v}]
    BY <1>6, <2>5
  <2> QED BY <2>3, <2>4, <2>6
<1>7. Nat \subseteq Good
  <2> HIDE DEF Good
  <2> QED BY <1>5, <1>6, Induct
<1>8. IsFiniteSet(S) /\ Cardinality(S) \in Nat
  BY ValuesFinite, FS_Subset, FS_CardinalityType
<1>9. f[S] = w[S]
  <2> HIDE DEF w
  <2> QED BY <1>7, <1>8
<1> QED BY <1>1, <1>9

-----------------------------------------------------------------------------
(* The earliest and the latest timestamp bound the timestamps of all logs. *)
LEMMA TimeRangeBounds ==
  ASSUME NEW o, o.logs \in Seq(Entries), o.logs # << >>
  PROVE  /\ TimeRange(o)[1] \in Nat /\ TimeRange(o)[2] \in Nat
         /\ \A i \in DOMAIN o.logs : /\ TimeRange(o)[1] <= o.logs[i].ts
                                    /\ o.logs[i].ts <= TimeRange(o)[2]
<1> DEFINE S == ValuesOf("ts", o.logs)
<1>1. S \in SUBSET Nat
  <2>1. \A i \in DOMAIN o.logs : o.logs[i].ts \in Nat
    BY EntriesAssumption
  <2> QED BY <2>1 DEF ValuesOf
<1>2. S # {} /\ IsFiniteSet(S)
  BY ValuesFinite, FS_EmptySet
<1>3. \E x \in S : \A y \in S : x <= y
  <2> HIDE DEF S
  <2> QED BY <1>1, <1>2, Least
<1>4. \E x \in S : \A y \in S : x >= y
  <2> DEFINE U == {n \in Nat : \A y \in S : n >= y}
  <2>1. U # {}
    <3> HIDE DEF S
    <3> QED BY <1>1, <1>2, Bounded
  <2>2. PICK u \in U : \A n \in U : u <= n
    <3> HIDE DEF U
    <3> QED BY <2>1, Least DEF U
  <2>3. u \in S
    <3> HIDE DEF S
    <3> SUFFICES ASSUME u \notin S PROVE FALSE
      OBVIOUS
    <3>1. PICK x \in S : TRUE
      BY <1>2
    <3>2. u - 1 \in U
      BY <1>1, <2>2, <3>1
    <3> QED BY <2>2, <3>2
  <2> QED BY <2>2, <2>3
<1>5. Min(S) \in S /\ \A y \in S : Min(S) <= y
  BY <1>3 DEF Min
<1>6. Max(S) \in S /\ \A y \in S : y <= Max(S)
  <2> HIDE DEF S
  <2>1. Max(S) \in S /\ \A y \in S : Max(S) >= y
    BY <1>4 DEF Max
  <2> QED BY <1>1, <2>1
<1>7. TimeRange(o) = <<Min(S), Max(S)>>
  BY DEF TimeRange
<1>8. \A i \in DOMAIN o.logs : o.logs[i].ts \in S
  BY DEF ValuesOf
<1>9. TimeRange(o)[1] = Min(S) /\ TimeRange(o)[2] = Max(S)
  <2> HIDE DEF S
  <2> DEFINE a == Min(S)
             b == Max(S)
  <2>1. TimeRange(o) = <<a, b>>
    BY <1>7
  <2> HIDE DEF a, b
  <2>2. TimeRange(o)[1] = a /\ TimeRange(o)[2] = b
    BY <2>1
  <2> QED BY <2>2 DEF a, b
<1> HIDE DEF S
<1> QED BY <1>1, <1>5, <1>6, <1>8, <1>9

-----------------------------------------------------------------------------
(***************************************************************************)
(* Top lists.  A ranking lists every value once, by falling count; a top   *)
(* list is its first rows.                                                 *)
(***************************************************************************)
IsRanking(r, k, field, logs) ==
  /\ k = Cardinality(ValuesOf(field, logs)) /\ k \in Nat
  /\ r \in [1 .. k -> ValuesOf(field, logs)]
  /\ \A i, j \in 1 .. k : r[i] = r[j] => i = j
  /\ \A v \in ValuesOf(field, logs) : \E i \in 1 .. k : r[i] = v
  /\ \A i, j \in 1 .. k :
       i < j => Count(field, r[i], logs) >= Count(field, r[j], logs)

LEMMA RankingsRank ==
  ASSUME NEW logs \in Seq(Entries), NEW field, NEW r \in Rankings(field, logs)
  PROVE  IsRanking(r, Len(r), field, logs)
<1> DEFINE V == ValuesOf(field, logs)
           k == Cardinality(V)
<1>1. IsFiniteSet(V) /\ k \in Nat
  BY ValuesFinite
<1>2. r \in SetToSeqs(V)
  BY DEF Rankings
<1>3. r \in [1 .. k -> V] /\ \A i, j \in 1 .. k : i # j => r[i] # r[j]
  BY <1>2 DEF SetToSeqs
<1>4. Len(r) = k
  <2> HIDE DEF V, k
  <2> QED BY <1>1, <1>3
<1>5. r \in Injection(1 .. k, V)
  <2> HIDE DEF V, k
  <2> QED BY <1>3 DEF Injection, IsInjective
<1>6. IsFiniteSet(1 .. k) /\ Cardinality(1 .. k) = k
  <2> HIDE DEF k
  <2> QED BY <1>1, FS_Interval
<1>7. r \in Surjection(1 .. k, V)
  BY <1>1, <1>5, <1>6, FS_Injection
<1>8. \A v \in V : \E i \in 1 .. k : r[i] = v
  BY <1>7 DEF Surjection
<1>9. \A i, j \in 1 .. k :
        i < j => Count(field, r[i], logs) >= Count(field, r[j], logs)
  <2>1. DOMAIN r = 1 .. k
    BY <1>3
  <2> QED BY <2>1 DEF Rankings
<1> QED BY <1>1, <1>3, <1>4, <1>8, <1>9 DEF IsRanking

(* rows are the first m of the k rows of the ranking r.                    *)
IsCut(rows, m, r, k, field, logs, n) ==
  /\ IsRanking(r, k, field, logs)
  /\ m \in 0 .. k /\ (m # k => 0 < n /\ m = n) /\ (n <= 0 => m = k)
  /\ rows = [i \in 1 .. m |-> <<r[i], Count(field, r[i], logs)>>]

LEMMA TopListsCutRankings ==
  ASSUME NEW logs \in Seq(Entries), NEW field, NEW n \in Int,
         NEW rows \in TopLists(field, logs, n)
  PROVE  \E m, r, k : IsCut(rows, m, r, k, field, logs, n)
<1>1. PICK r \in Rankings(field, logs) :
        rows = [i \in 1 .. RowsKept(Len(r), n) |-> <<r[i], Count(field, r[i], logs)>>]
  BY DEF TopLists
<1>2. IsRanking(r, Len(r), field, logs)
  BY RankingsRank
<1>3. Len(r) \in Nat
  BY <1>2 DEF IsRanking
<1>4. /\ RowsKept(Len(r), n) \in 0 .. Len(r)
      /\ RowsKept(Len(r), n) # Len(r) => 0 < n /\ RowsKept(Len(r), n) = n
      /\ n <= 0 => RowsKept(Len(r), n) = Len(r)
  BY <1>3 DEF RowsKept
<1> QED BY <1>1, <1>2, <1>4 DEF IsCut
=============================================================================
