---------------------------- MODULE LogAnalyzer ----------------------------
(***************************************************************************)
(* One object of class LogAnalyzer driven through its public interface, in *)
(* any order of calls.  obj is the object, answer what the last call       *)
(* returned.  The class takes no lock and starts no thread: a call is a    *)
(* step.                                                                   *)
(***************************************************************************)
EXTENDS AnalyzerObject

CONSTANTS
  Inputs,       \* file contents and JSON values offered to the load methods
  Ns,           \* the n and threshold arguments tried
  Starts,       \* the bounds tried with filterByTimeRange
  UrlPatterns,  \* sets of urls: those that contain one pattern
  MaxLogs       \* bound on the length of logs, so that addLog stays finite

ASSUME InputsAssumption == Inputs \subseteq Contents /\ Absent \in Inputs
ASSUME BoundAssumption  == MaxLogs \in Nat /\ Ns \subseteq Int

VARIABLES obj, answer
vars == <<obj, answer>>

Answer(op, args, result) == [op |-> op, args |-> args, result |-> result]
Done == Answer("none", << >>, << >>)

Init == obj = Constructed(<< >>) /\ answer = Done

-----------------------------------------------------------------------------
(* The constructor, over logs that were read elsewhere.                    *)
New(logs) == obj' = Constructed(logs) /\ answer' = Done

(* loadFromJson: a value that is no array throws in asLogEntries, before   *)
(* anything is assigned.                                                   *)
LoadFromJson(c) ==
  /\ Parses(c)
  /\ obj' = IF CanLoad(c) THEN Loaded(obj, c) ELSE obj
  /\ answer' = Answer("load", <<c>>, CanLoad(c))

(* loadFromFile: reads and parses, then calls loadFromJson.                *)
LoadFromFile(c) ==
  \/ LoadFromJson(c)
  \/ ~Parses(c) /\ answer' = Answer("load", <<c>>, FALSE) /\ UNCHANGED obj

AddLog(e) == obj' = WithLog(obj, e) /\ answer' = Done
Clear     == obj' = Cleared(obj) /\ answer' = Done

(* The two calls that build the caches, which are mutable members.         *)
GetTop(field, n) ==
  /\ obj' = EnsureIndexesBuilt(obj)
  /\ \E rows \in TopLists(field, obj.logs, n) :
       answer' = Answer("top", <<field, n>>, rows)

GetTopIPs(n)  == GetTop("ip", n)
GetTopURLs(n) == GetTop("url", n)

(* The const methods that read the logs.                                   *)
Ask(op, args, result) == answer' = Answer(op, args, result) /\ UNCHANGED obj

Statuses == {e.status : e \in Entries}
Methods  == {e.method : e \in Entries}

AskByStatus  == \E s \in Statuses : Ask("byStatus", <<s>>, FilterByStatus(obj, s))
AskByMethod  == \E m \in Methods : Ask("byMethod", <<m>>, FilterByMethod(obj, m))
AskByIP      == \E e \in Entries : Ask("byIP", <<e.ip>>, FilterByIP(obj, e.ip))
AskByURL     == \E p \in UrlPatterns : Ask("byURL", <<p>>, FilterByURL(obj, p))
AskByTime    == \E a, b \in Starts :
                  Ask("byTime", <<a, b>>, FilterByTimeRange(obj, a, b))
AskFailed    == \E n \in Statuses :
                  Ask("failed", <<n>>, FindFailedRequests(obj, n))
AskSuspicious == \E n \in Ns :
                  Ask("suspicious", <<n>>, FindSuspiciousIPs(obj, n))
AskStatistics == Ask("statistics", << >>, DetailedStatistics(obj))

Query == \/ AskByStatus \/ AskByMethod \/ AskByIP \/ AskByURL \/ AskByTime
         \/ AskFailed \/ AskSuspicious \/ AskStatistics

Next ==
  \/ \E c \in Inputs : LoadFromFile(c)
  \/ \E c \in Inputs : HasLogEntries(c) /\ New(AsLogEntries(c))
  \/ \E e \in Entries : Len(obj.logs) < MaxLogs /\ AddLog(e)
  \/ Clear
  \/ \E n \in Ns : GetTopIPs(n) \/ GetTopURLs(n)
  \/ Query

Spec == Init /\ [][Next]_vars

-----------------------------------------------------------------------------
(* Every member has its declared type: logs hold records, and the caches   *)
(* are maps from values to sets of positions.                              *)
IsIndex(index) == \A v \in DOMAIN index : index[v] \subseteq Nat \ {0}

TypeOK ==
  /\ obj.logs \in Seq(Entries)
  /\ obj.indexesBuilt \in BOOLEAN
  /\ IsIndex(obj.ipIndex) /\ IsIndex(obj.urlIndex) /\ IsIndex(obj.timeIndex)

(* The answer of getTopIPs/getTopURLs is a top list: no key it leaves out  *)
(* occurs more often than one it shows, every count is the number of       *)
(* records, rows do not increase, and rows are left out only when a        *)
(* positive n asks for fewer (src/analyzer.cpp:40-87).                     *)
Occurrences(field, v) == Len(Filtered(obj.logs, {e \in Entries : e[field] = v}))

TopIsTop ==
  answer.op = "top" =>
    LET field == answer.args[1]
        n     == answer.args[2]
        rows  == answer.result
        shown == {rows[i][1] : i \in DOMAIN rows}
        all   == {e[field] : e \in {obj.logs[i] : i \in DOMAIN obj.logs}}
    IN  /\ shown \subseteq all
        /\ Len(rows) = Cardinality(shown)
        /\ \A i \in DOMAIN rows : rows[i][2] = Occurrences(field, rows[i][1])
        /\ \A i \in 1 .. Len(rows) - 1 : rows[i][2] >= rows[i + 1][2]
        /\ \A v \in all \ shown :
              \A i \in DOMAIN rows : Occurrences(field, v) <= rows[i][2]
        /\ shown # all => n > 0 /\ Len(rows) = n

(* The three ways the class counts by address agree: findSuspiciousIPs     *)
(* reports exactly the addresses whose row in an uncut getTopIPs is above  *)
(* the threshold (src/analyzer.cpp:40-62 and 269-285).                     *)
SuspiciousAgreesWithTop ==
  answer.op = "suspicious" =>
    \A rows \in TopLists("ip", obj.logs, 0) :
      answer.result =
        {rows[i][1] : i \in {j \in DOMAIN rows : rows[j][2] > answer.args[1]}}

(* The numbers of getDetailedStatistics fit together and fit the other     *)
(* answers: both distributions add up to the total, the numbers of         *)
(* addresses and urls are the lengths of the uncut top lists               *)
(* (src/analyzer.cpp:214-254).                                             *)
SumOf(counts) == FoldFunctionOnSet(+, 0, counts, DOMAIN counts)

StatisticsAddUp ==
  answer.op = "statistics" =>
    /\ SumOf(answer.result.statusCounts) = answer.result.totalRequests
    /\ SumOf(answer.result.methodCounts) = answer.result.totalRequests
    /\ \A rows \in TopLists("ip", obj.logs, 0) : Len(rows) = answer.result.uniqueIPs
    /\ \A rows \in TopLists("url", obj.logs, 0) : Len(rows) = answer.result.uniqueURLs

(* filterByMethod ignores case and getMethodDistribution does not: the     *)
(* filter's size is the sum of the distribution's entries that differ from *)
(* the method in case only (src/analyzer.cpp:104-120 and 203-211).         *)
MethodFilterMatchesDistribution ==
  answer.op = "byMethod" =>
    LET counts == Distribution(obj, "method")
        same   == {m \in DOMAIN counts : UpperCase[m] = UpperCase[answer.args[1]]}
    IN  Len(answer.result) = FoldFunctionOnSet(+, 0, counts, same)

(* The range getTimeRange reports holds every record: filterByTimeRange    *)
(* over it returns the logs as they are, records with an empty timestamp   *)
(* included, although an empty bound means "no bound"                      *)
(* (src/analyzer.cpp:123-135, 171-189 and 335-342).                        *)
TimeRangeCoversLogs ==
  answer.op = "statistics" =>
    LET range == answer.result.timeRange
    IN  FilterByTimeRange(obj, range[1], range[2]) = obj.logs

(* The caches go stale in two ways only, addLog and clear on an object     *)
(* that has built them; no load and no query does it                       *)
(* (include/analyzer.h:94-95, src/analyzer.cpp:22, 387-401).               *)
StaleOnlyByAddOrClear ==
  [][IndexFresh(obj) /\ ~IndexFresh(obj') =>
       /\ obj.indexesBuilt
       /\ obj' = Cleared(obj) \/ \E e \in Entries : obj' = WithLog(obj, e)]_vars
=============================================================================
