--------------------------- MODULE MCFileTransfer ---------------------------
EXTENDS FileTransfer

MCRecords == {"a", "b"}
MCLogs == {<<"a">>, <<"b">>, <<"a", "b">>}
=============================================================================
