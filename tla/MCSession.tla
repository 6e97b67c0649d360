----------------------------- MODULE MCSession -----------------------------
(***************************************************************************)
(* Instance of Session: three records (one plain, one with a timestamp too *)
(* short to list, one whose url does not survive printing) and two files.  *)
(***************************************************************************)
EXTENDS Session

CONSTANTS junk, broken

Plain  == [ts |-> 2, ip |-> "ip1", method |-> "GET",  url |-> "/a", status |-> 404]
Short  == [ts |-> 1, ip |-> "ip1", method |-> "get",  url |-> "/b", status |-> 200]
Quoted == [ts |-> 3, ip |-> "ip2", method |-> "POST", url |-> "/q", status |-> 404]

MCEntries  == {Plain, Short, Quoted}
MCReadBack == [e \in MCEntries |-> IF e = Quoted THEN broken ELSE e]
Log        == <<"log", "json">>
Out        == <<"out">>
MCNames    == {Log, Out}
MCUpper    == [m \in {"", "GET", "get", "POST", "TRACE"} |->
                 IF m = "get" THEN "GET" ELSE m]
MCListed   == {"GET", "POST"}
MCShortTs  == {0, 1}
MCNumbers  == {-1, 1, 5, 200, 404}

Mixed      == ArrayOf(<<Short, junk, Plain>>)
Quotes     == ArrayOf(<<Plain, Quoted>>)
NoRecords  == ArrayOf(<<junk>>)
MCForeign  == {Absent, Garbage, Mixed, Quotes}
MCForeignAll == MCForeign \cup {NoRecords, Object}
MCForeignFew == {ArrayOf(<<Plain>>), ArrayOf(<<Quoted>>)}
MCRemnants == {<< >>}
=============================================================================
