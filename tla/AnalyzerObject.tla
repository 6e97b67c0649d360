--------------------------- MODULE AnalyzerObject ---------------------------
(***************************************************************************)
(* class LogAnalyzer (include/analyzer.h, src/analyzer.cpp) as a value:    *)
(* the members of an object, what each method does to them and what it     *)
(* answers.  Operators only; LogAnalyzer drives one object through its     *)
(* public interface, Session holds the one the program allocates.          *)
(***************************************************************************)
EXTENDS LogFiles, FiniteSetsExt, SequencesExt

CONSTANT UpperCase      \* ::toupper over a method name, [STRING -> STRING]

(***************************************************************************)
(* The three caches map a field's value to the positions of the records    *)
(* that have it.  Each vector is filled in increasing order, so a set says *)
(* as much; positions count from 1 here and from 0 in the code.            *)
(***************************************************************************)
ValuesOf(field, logs)   == {logs[i][field] : i \in DOMAIN logs}

(* A fault: positions counted from zero.                                   *)
HavingFromZero(field, v, logs) ==
  {i \in 0 .. Len(logs) - 1 : logs[i + 1][field] = v}

Having(field, v, logs)  == {i \in DOMAIN logs : logs[i][field] = v}
IndexBy(field, logs)    == [v \in ValuesOf(field, logs) |-> Having(field, v, logs)]
EmptyIndex              == [v \in {} |-> {}]

(* The members, after LogAnalyzer(logEntries).                             *)
Constructed(entries) ==
  [logs |-> entries, ipIndex |-> EmptyIndex, urlIndex |-> EmptyIndex,
   timeIndex |-> EmptyIndex, indexesBuilt |-> FALSE]

(* A fault: one of the caches is forgotten.                                *)
EnsureTwoIndexesBuilt(o) ==
  IF o.indexesBuilt THEN o
  ELSE [o EXCEPT !.ipIndex      = IndexBy("ip", o.logs),
                 !.urlIndex     = IndexBy("url", o.logs),
                 !.indexesBuilt = TRUE]

EnsureIndexesBuilt(o) ==
  IF o.indexesBuilt THEN o
  ELSE [o EXCEPT !.ipIndex      = IndexBy("ip", o.logs),
                 !.urlIndex     = IndexBy("url", o.logs),
                 !.timeIndex    = IndexBy("ts", o.logs),
                 !.indexesBuilt = TRUE]

(* The two ways the object takes new logs; a file that cannot be parsed or *)
(* is no array makes both methods return false before they assign.         *)
CanLoad(c)       == HasLogEntries(c)

Loaded(o, c)     == [o EXCEPT !.logs = AsLogEntries(c), !.indexesBuilt = FALSE]
WithLog(o, e)    == [o EXCEPT !.logs = Append(@, e)]
Cleared(o)       == [o EXCEPT !.logs = << >>]

(* The caches agree with the logs they were built from.                    *)
IndexFresh(o) ==
  o.indexesBuilt =>
    /\ o.ipIndex   = IndexBy("ip", o.logs)
    /\ o.urlIndex  = IndexBy("url", o.logs)
    /\ o.timeIndex = IndexBy("ts", o.logs)

-----------------------------------------------------------------------------
TotalRequests(o) == Len(o.logs)

Count(field, v, logs) == Cardinality(Having(field, v, logs))

(***************************************************************************)
(* getTopIPs and getTopURLs count into a hash map and sort by the count    *)
(* alone: std::sort is not stable and the map's order is its own, so equal *)
(* counts come in any order.  n <= 0 keeps every row.                      *)
(***************************************************************************)
(* A fault: n > 0 is not asked for.                                        *)
RowsKeptUnchecked(distinct, n) == IF n < distinct THEN n ELSE distinct

RowsKept(distinct, n) == IF 0 < n /\ n < distinct THEN n ELSE distinct

Rankings(field, logs) ==
  {r \in SetToSeqs(ValuesOf(field, logs)) :
     \A i, j \in DOMAIN r :
        i < j => Count(field, r[i], logs) >= Count(field, r[j], logs)}

TopLists(field, logs, n) ==
  {[i \in 1 .. RowsKept(Len(r), n) |-> <<r[i], Count(field, r[i], logs)>>] :
     r \in Rankings(field, logs)}

-----------------------------------------------------------------------------
FilterByStatus(o, status) == Filtered(o.logs, {e \in Entries : e.status = status})

(* A fault: only the argument is turned to upper case.                     *)
FilterByMethodOneSided(o, method) ==
  Filtered(o.logs, {e \in Entries : e.method = UpperCase[method]})

FilterByMethod(o, method) ==
  Filtered(o.logs, {e \in Entries : UpperCase[e.method] = UpperCase[method]})

FilterByIP(o, ip) == Filtered(o.logs, {e \in Entries : e.ip = ip})

(* A url contains the pattern; the instance says which do.                 *)
FilterByURL(o, matches) == Filtered(o.logs, {e \in Entries : e.url \in matches})

(* A fault: the end of the range is left out.                              *)
IsBeforeEnd(ts, start, end) ==
  /\ start = 0 \/ ts >= start
  /\ end = 0 \/ ts < end

(* An empty bound (0) does not bound.                                      *)
IsInTimeRange(ts, start, end) ==
  /\ start = 0 \/ ts >= start
  /\ end = 0 \/ ts <= end

FilterByTimeRange(o, start, end) ==
  Filtered(o.logs, {e \in Entries : IsInTimeRange(e.ts, start, end)})

FindFailedRequests(o, threshold) ==
  Filtered(o.logs, {e \in Entries : e.status >= threshold})

(* A fault: the threshold itself counts.                                   *)
FindSuspiciousIPsAt(o, threshold) ==
  {ip \in ValuesOf("ip", o.logs) : Count("ip", ip, o.logs) >= threshold}

FindSuspiciousIPs(o, threshold) ==
  {ip \in ValuesOf("ip", o.logs) : Count("ip", ip, o.logs) > threshold}

TimeRange(o) ==
  IF o.logs = << >> THEN <<0, 0>>
  ELSE <<Min(ValuesOf("ts", o.logs)), Max(ValuesOf("ts", o.logs))>>

(* A fault: a repeated value is not added up.                              *)
DistributionOfOnes(o, field) == [v \in ValuesOf(field, o.logs) |-> 1]

Distribution(o, field) ==
  [v \in ValuesOf(field, o.logs) |-> Count(field, v, o.logs)]

(* requestsPerSecond is the total over a constant 3600, whatever the       *)
(* range: rateKnown says whether that quotient or zero is reported.        *)
DetailedStatistics(o) ==
  LET range == TimeRange(o)
  IN  [totalRequests |-> TotalRequests(o),
       uniqueIPs     |-> Cardinality(ValuesOf("ip", o.logs)),
       uniqueURLs    |-> Cardinality(ValuesOf("url", o.logs)),
       timeRange     |-> range,
       statusCounts  |-> Distribution(o, "status"),
       methodCounts  |-> Distribution(o, "method"),
       rateKnown     |-> o.logs # << >> /\ range[1] # range[2]]
=============================================================================
