----------------------------- MODULE Workbench -----------------------------
(***************************************************************************)
(* What a session promises, without menu, pointer, caches or messages: a   *)
(* user loads a file of log records, looks at them, and exports them.  The *)
(* records in memory are always those of one file, read in one step;       *)
(* exports put what is in memory into the file named and touch no other;   *)
(* whatever ends the program, the files stay.                              *)
(***************************************************************************)
EXTENDS LogFiles

CONSTANT Foreign        \* what other programs put into files

VARIABLES
  data,         \* the records in memory, << >> when there are none
  source,       \* the file they were read from
  running,      \* whether the program runs
  disk          \* the content of every file name
vars == <<data, source, running, disk>>

Init ==
  /\ data = << >> /\ source = << >> /\ running = TRUE
  /\ disk \in [Names -> Foreign]

Load(f) ==
  /\ running /\ Loadable(disk[f])
  /\ data' = AsLogEntries(disk[f]) /\ source' = f
  /\ UNCHANGED <<running, disk>>

(* The contents an export of the records in memory may leave: all of them, *)
(* the part written before a full disk or a kill, or a top list.           *)
Exports(logs) ==
  {JsonOf(logs), CsvOf(logs), TopList, Garbage}
    \cup TornJson(logs) \cup TornCsv(logs)

Export(f) ==
  /\ running /\ data # << >>
  /\ \E c \in Exports(data) : disk' = [disk EXCEPT ![f] = c]
  /\ UNCHANGED <<data, source, running>>

Forget == running' = FALSE /\ data' = << >> /\ source' = << >>

Stop         == running /\ Forget /\ UNCHANGED disk
CutOff(f)    == /\ running /\ data # << >> /\ Forget
                /\ \E c \in Exports(data) : disk' = [disk EXCEPT ![f] = c]
Start        == ~running /\ running' = TRUE /\ UNCHANGED <<data, source, disk>>

ForeignWrite(f, c) ==
  disk' = [disk EXCEPT ![f] = c] /\ UNCHANGED <<data, source, running>>

Next ==
  \/ \E f \in Names : Load(f) \/ Export(f) \/ CutOff(f)
  \/ Stop \/ Start
  \/ \E f \in Names, c \in Foreign : ForeignWrite(f, c)

Spec == Init /\ [][Next]_vars
=============================================================================
