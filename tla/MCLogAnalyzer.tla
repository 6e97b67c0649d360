--------------------------- MODULE MCLogAnalyzer ---------------------------
(***************************************************************************)
(* Instance of LogAnalyzer: three records that share an address, a url or  *)
(* a method up to case, one of them with an empty timestamp.               *)
(***************************************************************************)
EXTENDS LogAnalyzer

CONSTANTS junk, broken

E1 == [ts |-> 0, ip |-> "ip1", method |-> "GET",  url |-> "/a", status |-> 200]
E2 == [ts |-> 2, ip |-> "ip1", method |-> "get",  url |-> "/b", status |-> 404]
E3 == [ts |-> 1, ip |-> "ip2", method |-> "POST", url |-> "/a", status |-> 404]

MCEntries  == {E1, E2, E3}
MCReadBack == [e \in MCEntries |-> e]
MCNames    == {<<"log", "json">>}
MCUpper    == [m \in {"GET", "get", "POST"} |-> IF m = "get" THEN "GET" ELSE m]
MCInputs   == {Absent, Garbage, Object, TopList, ArrayOf(<< >>), ArrayOf(<<junk>>),
               ArrayOf(<<E1, junk, E2>>), ArrayOf(<<E3, E2, junk>>)}
MCNs       == {-1, 0, 1, 2}
MCStarts   == {0, 1, 2}
MCUrlPatterns == {{}, {"/a"}, {"/a", "/b"}}
=============================================================================
