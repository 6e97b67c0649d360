----------------------------- MODULE MCTerminal -----------------------------
EXTENDS Terminal

(* A line of one character is a choice, a name, a status or an answer at   *)
(* the same time.  Of the line "y0" a wait for a key may leave the "0".    *)
MCLines ==
  {<< >>, <<"y">>, <<"y", "0">>} \cup {<<n>> : n \in {"0", "1", "2", "3", "5", "6", "7", "8"}}
MCYes == {<<"y">>, <<"Y">>}
MCStatuses == {<<"5">>}
MCMethods == {<<"6">>}
MCLogNames == {<<"1">>}
MCDevices ==
  {[attached |-> a, vtKnown |-> v] : a \in BOOLEAN, v \in BOOLEAN}
    \ {[attached |-> FALSE, vtKnown |-> FALSE]}
MCStartModes == {{"processed"}}
=============================================================================
