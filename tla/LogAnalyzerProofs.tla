------------------------- MODULE LogAnalyzerProofs -------------------------
(***************************************************************************)
(* Theorems about LogAnalyzer, one object under any order of calls, for    *)
(* every set of records, every input and every bound: members are typed,   *)
(* every answer is the one its operator defines on the logs of the object  *)
(* as it stands, and from that: top lists, suspicious addresses,           *)
(* statistics, the filter by method and the time range agree with each     *)
(* other.                                                                  *)
(***************************************************************************)
EXTENDS LogAnalyzer, AnalyzerObjectProofs

(* The object has its five members.                                        *)
HasMembers(o) == DOMAIN o = {"logs", "ipIndex", "urlIndex", "timeIndex", "indexesBuilt"}

(* The answer the caller holds was computed from the logs the object has   *)
(* now: calls that change the logs answer with nothing of this kind, and   *)
(* calls that answer leave the logs.                                       *)
AnswerKnown ==
  /\ answer.op = "top" =>
       \E field \in {"ip", "url"}, n \in Ns :
         answer.args = <<field, n>> /\ answer.result \in TopLists(field, obj.logs, n)
  /\ answer.op = "suspicious" =>
       \E n \in Ns : answer.args = <<n>> /\ answer.result = FindSuspiciousIPs(obj, n)
  /\ answer.op = "statistics" => answer.result = DetailedStatistics(obj)
  /\ answer.op = "byMethod" =>
       \E m \in Methods : answer.args = <<m>> /\ answer.result = FilterByMethod(obj, m)

IInv == HasMembers(obj) /\ TypeOK /\ AnswerKnown

-----------------------------------------------------------------------------
LEMMA IndexTyped ==
  ASSUME NEW logs \in Seq(Entries), NEW field
  PROVE  IsIndex(IndexBy(field, logs)) /\ IsIndex(EmptyIndex)
<1>1. \A v : Having(field, v, logs) \subseteq Nat \ {0}
  BY DEF Having
<1> QED BY <1>1 DEF IsIndex, IndexBy, EmptyIndex

(* What the object is after a call, whatever the call answered.            *)
Members(o) ==
  /\ HasMembers(o) /\ o.logs \in Seq(Entries) /\ o.indexesBuilt \in BOOLEAN
  /\ IsIndex(o.ipIndex) /\ IsIndex(o.urlIndex) /\ IsIndex(o.timeIndex)

LEMMA NewMembers ==
  ASSUME NEW logs \in Seq(Entries)
  PROVE  Members(Constructed(logs)) /\ IndexFresh(Constructed(logs))
  BY IndexTyped DEF Members, HasMembers, Constructed, IndexFresh

LEMMA LoadedMembers ==
  ASSUME NEW o, Members(o), NEW c \in Contents, CanLoad(c)
  PROVE  Members(Loaded(o, c)) /\ IndexFresh(Loaded(o, c))
  BY ReadType DEF Members, HasMembers, Loaded, CanLoad, IndexFresh

LEMMA BuiltMembers ==
  ASSUME NEW o, Members(o)
  PROVE  /\ Members(EnsureIndexesBuilt(o)) /\ EnsureIndexesBuilt(o).logs = o.logs
         /\ IndexFresh(o) => IndexFresh(EnsureIndexesBuilt(o))
  BY IndexTyped DEF Members, HasMembers, EnsureIndexesBuilt, IndexFresh

LEMMA ChangedMembers ==
  ASSUME NEW o, Members(o), NEW e \in Entries
  PROVE  Members(WithLog(o, e)) /\ (~o.indexesBuilt => IndexFresh(WithLog(o, e)))
<1>1. Append(o.logs, e) \in Seq(Entries)
  BY DEF Members
<1> QED BY <1>1 DEF Members, HasMembers, WithLog, IndexFresh

LEMMA ClearedMembers ==
  ASSUME NEW o, Members(o)
  PROVE  Members(Cleared(o)) /\ (~o.indexesBuilt => IndexFresh(Cleared(o)))
<1>1. << >> \in Seq(Entries)
  OBVIOUS
<1> QED BY <1>1 DEF Members, HasMembers, Cleared, IndexFresh

(***************************************************************************)
(* What a call does: it leaves the logs (and may build the caches), or it  *)
(* gives the object new logs and answers with no list.                     *)
(***************************************************************************)
Queries ==
  /\ obj' \in {obj, EnsureIndexesBuilt(obj)}
  /\ AnswerKnown'

Rewrites ==
  /\ answer'.op \in {"none", "load"}
  /\ \/ \E logs \in Seq(Entries) : obj' = Constructed(logs)
     \/ \E c \in Contents : CanLoad(c) /\ obj' = Loaded(obj, c)
     \/ \E e \in Entries : obj' = WithLog(obj, e)
     \/ obj' = Cleared(obj)

LEMMA CallsSplit == Members(obj) /\ Next => Queries \/ Rewrites
<1> SUFFICES ASSUME Members(obj), Next PROVE Queries \/ Rewrites
  OBVIOUS
<1>a. \A args, result : /\ Answer("load", args, result).op = "load"
                       /\ Done.op = "none"
  BY DEF Answer, Done
<1>1. ASSUME NEW c \in Inputs, LoadFromFile(c) PROVE Queries \/ Rewrites
  <2>1. c \in Contents /\ answer'.op = "load"
    BY <1>1, <1>a, InputsAssumption DEF LoadFromFile, LoadFromJson
  <2>2. obj' = obj \/ (CanLoad(c) /\ obj' = Loaded(obj, c))
    BY <1>1 DEF LoadFromFile, LoadFromJson
  <2> QED BY <2>1, <2>2 DEF Queries, Rewrites, AnswerKnown
<1>2. ASSUME NEW c \in Inputs, HasLogEntries(c), New(AsLogEntries(c))
      PROVE  Rewrites
  BY <1>2, <1>a, InputsAssumption, ReadType DEF New, Rewrites
<1>3. ASSUME NEW e \in Entries, AddLog(e) PROVE Rewrites
  BY <1>3, <1>a DEF AddLog, Rewrites
<1>4. CASE Clear
  BY <1>4, <1>a DEF Clear, Rewrites
<1>5. ASSUME NEW n \in Ns, NEW field \in {"ip", "url"}, GetTop(field, n)
      PROVE  Queries
  <2>1. obj'.logs = obj.logs
    BY <1>5, BuiltMembers DEF GetTop
  <2>2. PICK rows \in TopLists(field, obj.logs, n) :
          answer' = Answer("top", <<field, n>>, rows)
    BY <1>5 DEF GetTop
  <2>3. /\ answer'.op = "top" /\ answer'.args = <<field, n>>
        /\ answer'.result \in TopLists(field, obj'.logs, n)
    BY <2>1, <2>2 DEF Answer
  <2> QED BY <1>5, <2>3 DEF Queries, AnswerKnown, GetTop
<1>6. ASSUME NEW op, NEW args, NEW result, Ask(op, args, result),
             op \notin {"top", "suspicious", "statistics", "byMethod"}
      PROVE  Queries
  BY <1>6 DEF Ask, Answer, Queries, AnswerKnown
<1>7. CASE AskByMethod
  <2>1. PICK m \in Methods : Ask("byMethod", <<m>>, FilterByMethod(obj, m))
    BY <1>7 DEF AskByMethod
  <2>2. /\ answer'.op = "byMethod" /\ answer'.args = <<m>>
        /\ answer'.result = FilterByMethod(obj', m) /\ obj' = obj
    BY <2>1 DEF Ask, Answer
  <2> QED BY <2>2 DEF Queries, AnswerKnown
<1>8. CASE AskSuspicious
  <2>1. PICK n \in Ns : Ask("suspicious", <<n>>, FindSuspiciousIPs(obj, n))
    BY <1>8 DEF AskSuspicious
  <2>2. /\ answer'.op = "suspicious" /\ answer'.args = <<n>>
        /\ answer'.result = FindSuspiciousIPs(obj', n) /\ obj' = obj
    BY <2>1 DEF Ask, Answer
  <2> QED BY <2>2 DEF Queries, AnswerKnown
<1>9. CASE AskStatistics
  <2>1. /\ answer'.op = "statistics" /\ obj' = obj
        /\ answer'.result = DetailedStatistics(obj')
    BY <1>9 DEF AskStatistics, Ask, Answer
  <2> QED BY <2>1 DEF Queries, AnswerKnown
<1>10. CASE AskByStatus \/ AskByIP \/ AskByURL \/ AskByTime \/ AskFailed
  BY <1>6, <1>10 DEF AskByStatus, AskByIP, AskByURL, AskByTime, AskFailed
<1>11. CASE Query
  BY <1>7, <1>8, <1>9, <1>10, <1>11 DEF Query
<1> QED BY <1>1, <1>2, <1>3, <1>4, <1>5, <1>11 DEF Next, GetTopIPs, GetTopURLs

LEMMA InitIInv == Init => IInv
<1> SUFFICES ASSUME Init PROVE IInv
  OBVIOUS
<1>1. << >> \in Seq(Entries)
  OBVIOUS
<1>2. Members(obj)
  BY <1>1, NewMembers DEF Init
<1>3. AnswerKnown
  BY DEF Init, Done, Answer, AnswerKnown
<1> QED BY <1>2, <1>3 DEF IInv, Members, TypeOK

LEMMA StepIInv == IInv /\ [Next]_vars => IInv'
<1> SUFFICES ASSUME IInv, [Next]_vars PROVE IInv'
  OBVIOUS
<1>0. Members(obj)
  BY DEF IInv, Members, TypeOK
<1>1. CASE UNCHANGED vars
  BY <1>1 DEF vars, IInv, HasMembers, TypeOK, AnswerKnown
<1>2. CASE Queries
  <2>1. Members(obj')
    BY <1>0, <1>2, BuiltMembers DEF Queries
  <2> QED BY <1>2, <2>1 DEF Queries, IInv, Members, TypeOK
<1>3. CASE Rewrites
  <2>1. Members(obj')
    <3>1. ASSUME NEW logs \in Seq(Entries), obj' = Constructed(logs) PROVE Members(obj')
      BY <3>1, NewMembers
    <3>2. ASSUME NEW c \in Contents, CanLoad(c), obj' = Loaded(obj, c) PROVE Members(obj')
      BY <1>0, <3>2, LoadedMembers
    <3>3. ASSUME NEW e \in Entries, obj' = WithLog(obj, e) PROVE Members(obj')
      BY <1>0, <3>3, ChangedMembers
    <3>4. CASE obj' = Cleared(obj)
      BY <1>0, <3>4, ClearedMembers
    <3> QED BY <1>3, <3>1, <3>2, <3>3, <3>4 DEF Rewrites
  <2>2. AnswerKnown'
    BY <1>3 DEF Rewrites, AnswerKnown
  <2> QED BY <2>1, <2>2 DEF IInv, Members, TypeOK
<1> QED BY <1>0, <1>1, <1>2, <1>3, CallsSplit

(* The inductive invariant holds in every reachable state.                 *)
THEOREM Invariance == Spec => []IInv
  BY InitIInv, StepIInv, PTL DEF Spec

(* Every member of the object has its type, whatever was called before     *)
(* (include/analyzer.h:38-48).                                             *)
THEOREM Typing == Spec => []TypeOK
<1>1. IInv => TypeOK
  BY DEF IInv
<1> QED BY <1>1, Invariance, PTL

(* Caches that agree with the logs go stale by addLog or clear on an       *)
(* object that has built them, and by no other call                        *)
(* (src/analyzer.cpp:22 and 387-401, include/analyzer.h:94-95).            *)
THEOREM Staleness == Spec => StaleOnlyByAddOrClear
<1> DEFINE Step ==
      IndexFresh(obj) /\ ~IndexFresh(obj') =>
        /\ obj.indexesBuilt
        /\ obj' = Cleared(obj) \/ \E e \in Entries : obj' = WithLog(obj, e)
<1>1. IInv /\ [Next]_vars => [Step]_vars
  <2> SUFFICES ASSUME IInv, Next, IndexFresh(obj), ~IndexFresh(obj')
               PROVE  /\ obj.indexesBuilt
                      /\ obj' = Cleared(obj) \/ \E e \in Entries : obj' = WithLog(obj, e)
    OBVIOUS
  <2>1. Members(obj)
    BY DEF IInv, Members, TypeOK
  <2>2. obj' # obj /\ obj' # EnsureIndexesBuilt(obj)
    BY <2>1, BuiltMembers
  <2>3. /\ \A logs \in Seq(Entries) : obj' # Constructed(logs)
        /\ \A c \in Contents : CanLoad(c) => obj' # Loaded(obj, c)
    BY <2>1, NewMembers, LoadedMembers
  <2>4. obj' = Cleared(obj) \/ \E e \in Entries : obj' = WithLog(obj, e)
    BY <2>1, <2>2, <2>3, CallsSplit DEF Queries, Rewrites
  <2>5. obj.indexesBuilt
    BY <2>1, <2>4, ChangedMembers, ClearedMembers
  <2> QED BY <2>4, <2>5
<1>2. [][IInv /\ [Next]_vars]_vars => StaleOnlyByAddOrClear
  BY <1>1, PTL DEF StaleOnlyByAddOrClear
<1> QED BY <1>2, Invariance, PTL DEF Spec

-----------------------------------------------------------------------------
(* The answer of getTopIPs and getTopURLs shows the most frequent values,  *)
(* with their numbers of records, in order, and leaves out values only     *)
(* when a positive n asks for fewer (src/analyzer.cpp:40-87).              *)
THEOREM TopAnswers == Spec => []TopIsTop
<1>1. IInv => TopIsTop
  <2> SUFFICES ASSUME IInv, answer.op = "top" PROVE TopIsTop
    BY DEF TopIsTop
  <2>1. PICK field \in {"ip", "url"}, n \in Ns :
          answer.args = <<field, n>> /\ answer.result \in TopLists(field, obj.logs, n)
    BY DEF IInv, AnswerKnown
  <2>2. obj.logs \in Seq(Entries) /\ n \in Int
    BY BoundAssumption DEF IInv, TypeOK
  <2>3. PICK m, r, k : IsCut(answer.result, m, r, k, field, obj.logs, n)
    BY <2>1, <2>2, TopListsCutRankings, Zenon
  <2> DEFINE logs  == obj.logs
             rows  == answer.result
             shown == {rows[i][1] : i \in DOMAIN rows}
             all   == {e[field] : e \in {logs[i] : i \in DOMAIN logs}}
             V     == ValuesOf(field, logs)
             N(v)  == Count(field, v, logs)
  <2>a. /\ IsRanking(r, k, field, logs)
        /\ m \in 0 .. k /\ (m # k => 0 < n /\ m = n) /\ (n <= 0 => m = k)
        /\ rows = [i \in 1 .. m |-> <<r[i], Count(field, r[i], logs)>>]
    BY <2>3 DEF IsCut
  <2>4. all = V
    <3>1. \A v : v \in all <=> \E i \in DOMAIN logs : v = logs[i][field]
      OBVIOUS
    <3> HIDE DEF all
    <3> QED BY <3>1 DEF ValuesOf
  <2>5. ASSUME NEW v PROVE Occurrences(field, v) = N(v) /\ N(v) \in Nat
    <3>1. /\ Count(field, v, obj.logs)
               = Len(Filtered(obj.logs, {e \in Entries : e[field] = v}))
          /\ Count(field, v, obj.logs) \in Nat
      BY <2>2, CountIsLength, Zenon
    <3>2. Occurrences(field, v) = Len(Filtered(obj.logs, {e \in Entries : e[field] = v}))
      BY Zenon DEF Occurrences
    <3> QED BY <3>1, <3>2
  <2> HIDE DEF logs, V, N
  <2>6. k \in Nat /\ m \in 0 .. k /\ r \in [1 .. k -> V]
    BY <2>a DEF IsRanking, V
  <2>7. /\ DOMAIN rows = 1 .. m /\ Len(rows) = m
        /\ \A i \in 1 .. m : rows[i][1] = r[i] /\ rows[i][2] = N(r[i])
    <3> HIDE DEF rows
    <3> QED BY <2>a, <2>6 DEF N
  <2>8. shown = {r[i] : i \in 1 .. m}
    <3> HIDE DEF rows
    <3> QED BY <2>7
  <2> HIDE DEF shown, all
  <2>9. shown \subseteq all
    BY <2>4, <2>6, <2>8
  <2>10. Len(rows) = Cardinality(shown)
    <3> DEFINE g == [i \in 1 .. m |-> r[i]]
    <3>1. \A i, j \in 1 .. m : r[i] = r[j] => i = j
      BY <2>a, <2>6 DEF IsRanking
    <3>2. g \in [1 .. m -> shown] /\ (\A t \in shown : \E i \in 1 .. m : g[i] = t)
      BY <2>8
    <3>3. \A i, j \in DOMAIN g : g[i] = g[j] => i = j
      BY <3>1
    <3> HIDE DEF g
    <3>4. g \in Bijection(1 .. m, shown)
      BY <3>2, <3>3 DEF Bijection, Injection, Surjection, IsInjective
    <3>5. ExistsBijection(1 .. m, shown)
      BY <3>4 DEF ExistsBijection
    <3>6. m \in Nat
      BY <2>6
    <3> HIDE DEF rows
    <3> QED BY <2>7, <3>5, <3>6, FS_CountingElements
  <2> HIDE DEF rows
  <2>11. \A i \in DOMAIN rows : rows[i][2] = Occurrences(field, rows[i][1])
    BY <2>5, <2>7
  <2>12. \A i \in 1 .. Len(rows) - 1 : rows[i][2] >= rows[i + 1][2]
    <3> SUFFICES ASSUME NEW i \in 1 .. m - 1 PROVE rows[i][2] >= rows[i + 1][2]
      BY <2>7
    <3>1. i \in 1 .. k /\ i + 1 \in 1 .. k /\ i < i + 1 /\ i \in 1 .. m /\ i + 1 \in 1 .. m
      BY <2>6
    <3>2. N(r[i]) >= N(r[i + 1])
      BY <2>a, <3>1 DEF IsRanking, N
    <3> QED BY <2>7, <3>1, <3>2
  <2>13. \A v \in all \ shown : \A i \in DOMAIN rows :
           Occurrences(field, v) <= rows[i][2]
    <3> SUFFICES ASSUME NEW v \in all \ shown, NEW i \in 1 .. m
                 PROVE  N(v) <= N(r[i])
      BY <2>5, <2>7
    <3>1. PICK j \in 1 .. k : r[j] = v
      BY <2>a, <2>4 DEF IsRanking, V
    <3>2. j \notin 1 .. m
      BY <2>8, <3>1
    <3>3. i \in 1 .. k /\ i < j
      BY <2>6, <3>2
    <3>4. N(r[i]) >= N(r[j])
      BY <2>a, <3>1, <3>3 DEF IsRanking, N
    <3> QED BY <2>5, <3>1, <3>4
  <2>14. shown # all => n > 0 /\ Len(rows) = n
    <3> SUFFICES ASSUME shown # all PROVE m # k
      BY <2>2, <2>a, <2>7
    <3>1. PICK v \in all : v \notin shown
      BY <2>9
    <3>2. PICK j \in 1 .. k : r[j] = v
      BY <2>a, <2>4, <3>1 DEF IsRanking, V
    <3> QED BY <2>8, <3>1, <3>2
  <2>15. answer.args[1] = field /\ answer.args[2] = n
    BY <2>1
  <2> QED BY <2>9, <2>10, <2>11, <2>12, <2>13, <2>14, <2>15
          DEF TopIsTop, rows, shown, all, logs
<1> QED BY <1>1, Invariance, PTL

(* findSuspiciousIPs reports the addresses whose row in the uncut top list *)
(* is above the threshold (src/analyzer.cpp:40-62 and 269-285).            *)
THEOREM Suspicious == Spec => []SuspiciousAgreesWithTop
<1>1. IInv => SuspiciousAgreesWithTop
  <2> SUFFICES ASSUME IInv, answer.op = "suspicious",
                      NEW rows \in TopLists("ip", obj.logs, 0)
               PROVE  answer.result =
                        {rows[i][1] : i \in {j \in DOMAIN rows : rows[j][2] > answer.args[1]}}
    BY DEF SuspiciousAgreesWithTop
  <2>1. PICK n \in Ns : answer.args = <<n>> /\ answer.result = FindSuspiciousIPs(obj, n)
    BY DEF IInv, AnswerKnown
  <2>2. obj.logs \in Seq(Entries)
    BY DEF IInv, TypeOK
  <2>3. PICK m, r, k : IsCut(rows, m, r, k, "ip", obj.logs, 0)
    BY <2>2, TopListsCutRankings
  <2>4. /\ DOMAIN rows = 1 .. k
        /\ \A i \in 1 .. k : rows[i][1] = r[i] /\ rows[i][2] = Count("ip", r[i], obj.logs)
    BY <2>3 DEF IsCut
  <2>5. /\ \A i \in 1 .. k : r[i] \in ValuesOf("ip", obj.logs)
        /\ \A v \in ValuesOf("ip", obj.logs) : \E i \in 1 .. k : r[i] = v
    BY <2>3 DEF IsCut, IsRanking
  <2>6. answer.args[1] = n
    BY <2>1
  <2> QED BY <2>1, <2>4, <2>5, <2>6 DEF FindSuspiciousIPs
<1> QED BY <1>1, Invariance, PTL

-----------------------------------------------------------------------------
(* Every record has its value: all values together have all records.       *)
LEMMA DistributionAddsUp ==
  ASSUME NEW o, o.logs \in Seq(Entries), NEW field
  PROVE  SumOf(Distribution(o, field)) = TotalRequests(o)
<1> DEFINE V == ValuesOf(field, o.logs)
           counts == Distribution(o, field)
<1>1. DOMAIN counts = V /\ \A v \in V : counts[v] = Count(field, v, o.logs)
  BY DEF Distribution
<1>2. HavingAnyOf(field, V, o.logs) = 1 .. Len(o.logs)
  BY DEF HavingAnyOf, ValuesOf
<1>3. Cardinality(1 .. Len(o.logs)) = Len(o.logs)
  BY FS_Interval
<1> HIDE DEF counts
<1>4. FoldFunctionOnSet(+, 0, counts, V) = Cardinality(HavingAnyOf(field, V, o.logs))
  BY <1>1, SumIsCardinality
<1>5. SumOf(counts) = FoldFunctionOnSet(+, 0, counts, V)
  BY <1>1 DEF SumOf
<1> QED BY <1>2, <1>3, <1>4, <1>5 DEF counts, TotalRequests

(* The uncut list has a row for every value.                               *)
LEMMA UncutLength ==
  ASSUME NEW logs \in Seq(Entries), NEW field, NEW rows \in TopLists(field, logs, 0)
  PROVE  Len(rows) = Cardinality(ValuesOf(field, logs))
<1>1. PICK m, r, k : IsCut(rows, m, r, k, field, logs, 0)
  BY TopListsCutRankings
<1>2. m = k /\ k \in Nat /\ k = Cardinality(ValuesOf(field, logs))
  BY <1>1 DEF IsCut, IsRanking
<1>3. Len(rows) = m
  BY <1>1, <1>2 DEF IsCut
<1> QED BY <1>2, <1>3

(* The numbers of getDetailedStatistics add up to the total, and count the *)
(* rows of the uncut lists (src/analyzer.cpp:192-254).                     *)
THEOREM Statistics == Spec => []StatisticsAddUp
<1>1. IInv => StatisticsAddUp
  <2> SUFFICES ASSUME IInv, answer.op = "statistics" PROVE StatisticsAddUp
    BY DEF StatisticsAddUp
  <2>1. answer.result = DetailedStatistics(obj) /\ obj.logs \in Seq(Entries)
    BY DEF IInv, AnswerKnown, TypeOK
  <2>2. /\ answer.result.statusCounts = Distribution(obj, "status")
        /\ answer.result.methodCounts = Distribution(obj, "method")
        /\ answer.result.totalRequests = TotalRequests(obj)
        /\ answer.result.uniqueIPs = Cardinality(ValuesOf("ip", obj.logs))
        /\ answer.result.uniqueURLs = Cardinality(ValuesOf("url", obj.logs))
    BY <2>1 DEF DetailedStatistics
  <2> QED BY <2>1, <2>2, DistributionAddsUp, UncutLength DEF StatisticsAddUp
<1> QED BY <1>1, Invariance, PTL

(* filterByMethod finds as many records as the distribution counts for the *)
(* spellings of the method (src/analyzer.cpp:104-120 and 203-211).         *)
THEOREM MethodFilter == Spec => []MethodFilterMatchesDistribution
<1>1. IInv => MethodFilterMatchesDistribution
  <2> SUFFICES ASSUME IInv, answer.op = "byMethod" PROVE MethodFilterMatchesDistribution
    BY DEF MethodFilterMatchesDistribution
  <2>1. PICK m \in Methods :
          answer.args = <<m>> /\ answer.result = FilterByMethod(obj, m)
    BY DEF IInv, AnswerKnown
  <2>2. obj.logs \in Seq(Entries) /\ answer.args[1] = m
    BY <2>1 DEF IInv, TypeOK
  <2> DEFINE logs   == obj.logs
             counts == Distribution(obj, "method")
             same   == {x \in DOMAIN counts : UpperCase[x] = UpperCase[m]}
             T      == {e \in Entries : UpperCase[e.method] = UpperCase[m]}
  <2>3. Len(answer.result) = Cardinality({i \in DOMAIN logs : logs[i] \in T})
    BY <2>1, <2>2, FilteredLength DEF FilterByMethod
  <2>4. same \subseteq ValuesOf("method", logs)
        /\ \A v \in same : counts[v] = Count("method", v, logs)
    BY DEF Distribution
  <2>5. {i \in DOMAIN logs : logs[i] \in T} = HavingAnyOf("method", same, logs)
    BY <2>2 DEF HavingAnyOf, Distribution, ValuesOf
  <2>6. FoldFunctionOnSet(+, 0, counts, same) = Cardinality(HavingAnyOf("method", same, logs))
    <3> HIDE DEF counts, same
    <3> QED BY <2>2, <2>4, SumIsCardinality
  <2>7. Len(answer.result) = FoldFunctionOnSet(+, 0, counts, same)
    BY <2>3, <2>5, <2>6
  <2> QED BY <2>2, <2>7 DEF MethodFilterMatchesDistribution
<1> QED BY <1>1, Invariance, PTL

(* filterByTimeRange over the range getTimeRange reports gives every       *)
(* record, those without a timestamp included                              *)
(* (src/analyzer.cpp:123-135, 171-189 and 335-342).                        *)
THEOREM TimeRangeWhole == Spec => []TimeRangeCoversLogs
<1>1. IInv => TimeRangeCoversLogs
  <2> SUFFICES ASSUME IInv, answer.op = "statistics" PROVE TimeRangeCoversLogs
    BY DEF TimeRangeCoversLogs
  <2>1. answer.result = DetailedStatistics(obj) /\ obj.logs \in Seq(Entries)
    BY DEF IInv, AnswerKnown, TypeOK
  <2>2. answer.result.timeRange = TimeRange(obj)
    BY <2>1 DEF DetailedStatistics
  <2> DEFINE a == TimeRange(obj)[1]
             b == TimeRange(obj)[2]
             T == {e \in Entries : IsInTimeRange(e.ts, a, b)}
  <2>3. ASSUME NEW i \in DOMAIN obj.logs PROVE obj.logs[i] \in T
    <3>1. obj.logs # << >> /\ obj.logs[i] \in Entries
      BY <2>1
    <3>2. a \in Nat /\ b \in Nat /\ a <= obj.logs[i].ts /\ obj.logs[i].ts <= b
      BY <2>1, <3>1, TimeRangeBounds
    <3>3. obj.logs[i].ts \in Nat
      BY <3>1, EntriesAssumption
    <3> HIDE DEF a, b
    <3> QED BY <3>1, <3>2, <3>3 DEF IsInTimeRange
  <2> HIDE DEF T
  <2>4. Filtered(obj.logs, T) = obj.logs
    BY <2>1, <2>3, FilteredAll
  <2> QED BY <2>2, <2>4 DEF TimeRangeCoversLogs, FilterByTimeRange, T
<1> QED BY <1>1, Invariance, PTL
=============================================================================
