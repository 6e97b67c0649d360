---------------------------- MODULE Directories ----------------------------
(***************************************************************************)
(* WindowsUtils::createDirectory (src/windows_utils.cpp:28-44), called by  *)
(* several processes on one disk, while other programs create files and    *)
(* remove what is empty.  For each separator in the path the function looks*)
(* whether the directory before it exists and makes it if not; the look and*)
(* the making are two calls of the system, and anything may happen between.*)
(*                                                                         *)
(* A walk is the list of directories a path names from the top, one for    *)
(* each separator that has something before it, and at its end the path    *)
(* itself: "a\b" is <<a, a\b>>, and so is "a\\b" but with a twice.         *)
(***************************************************************************)
EXTENDS Integers, Sequences

CONSTANTS
  Nodes,        \* what may be on the disk, each named by its path
  Root,         \* the directory everything is in; it is always there
  Parent,       \* Parent[n]: the directory n is in
  Walks,        \* the paths that are asked for
  Denied,       \* where nobody may create anything
  Processes,
  MaxOthers     \* how many times other programs change the disk

ASSUME TreeAssumption ==
  /\ Root \notin Nodes /\ Parent \in [Nodes -> Nodes \cup {Root}]
  /\ Denied \subseteq Nodes /\ MaxOthers \in Nat

(* Separators come in the order of the path: a directory is named after    *)
(* the one it is in.                                                       *)
ASSUME WalksAssumption ==
  /\ Walks \subseteq Seq(Nodes) \ {<< >>}
  /\ \A w \in Walks : \A i \in DOMAIN w :
       Parent[w[i]] = Root \/ \E j \in 1 .. i - 1 : w[j] = Parent[w[i]]

VARIABLES
  disk,         \* disk[n]: "none", "dir" or "file"
  call,         \* call[p]: the last or running createDirectory of p
  others,       \* changes made by other programs
  removed       \* history: one of them was a removal

vars == <<disk, call, others, removed>>

IsDir(n)  == n # Root => disk[n] = "dir"

Call(w, i, at, result) == [walk |-> w, i |-> i, at |-> at, result |-> result]

Init ==
  /\ disk = [n \in Nodes |-> "none"]
  /\ call \in [Processes -> {Call(w, 0, "idle", "none") : w \in Walks}]
  /\ others = 0 /\ removed = FALSE

-----------------------------------------------------------------------------
Names(p)  == call[p].walk[call[p].i]
IsLast(p) == call[p].i = Len(call[p].walk)
Goto(p, i, at) == call' = [call EXCEPT ![p] = Call(call[p].walk, i, at, "none")]

(* Where the loop goes next: the path itself is not looked at before it is *)
(* made.                                                                   *)
NextPlace(w, i) == IF i = Len(w) THEN "create" ELSE "check"

Start(p) ==
  /\ call[p].at = "idle"
  /\ \E w \in Walks :
       call' = [call EXCEPT ![p] = Call(w, 1, NextPlace(w, 1), "none")]
  /\ UNCHANGED <<disk, others, removed>>

GoOn(p) == Goto(p, call[p].i + 1, NextPlace(call[p].walk, call[p].i + 1))
End(p, result) ==
  call' = [call EXCEPT ![p] = Call(call[p].walk, call[p].i, "idle", result)]

(* if (!subdir.empty() && !directoryExists(subdir))                        *)
Check(p) ==
  /\ call[p].at = "check"
  /\ IF IsDir(Names(p)) THEN GoOn(p) ELSE Goto(p, call[p].i, "create")
  /\ UNCHANGED <<disk, others, removed>>

(* CreateDirectoryA: an error when something is there, when there is       *)
(* nothing to put it in, or when it is forbidden.                          *)
Exists(n)    == disk[n] # "none"
CanCreate(n) == ~Exists(n) /\ IsDir(Parent[n]) /\ n \notin Denied

(* Faults: an error is an error; errors are not looked at.                 *)
AcceptedNever(n) == FALSE
AcceptedEver(n)  == TRUE

(* GetLastError() == ERROR_ALREADY_EXISTS, whatever it is that exists.     *)
Accepted(n) == Exists(n)

Create(p) ==
  /\ call[p].at = "create"
  /\ LET n == Names(p)
     IN  /\ disk' = IF CanCreate(n) THEN [disk EXCEPT ![n] = "dir"] ELSE disk
         /\ IF ~CanCreate(n) /\ ~Accepted(n) THEN End(p, "false")
            ELSE IF IsLast(p) THEN End(p, "true") ELSE GoOn(p)
  /\ UNCHANGED <<others, removed>>

-----------------------------------------------------------------------------
(* Other programs.                                                         *)
Other == others < MaxOthers /\ others' = others + 1 /\ UNCHANGED call

PutFile ==
  /\ Other /\ UNCHANGED removed
  /\ \E n \in Nodes : CanCreate(n) /\ disk' = [disk EXCEPT ![n] = "file"]

RemoveDirectory ==
  /\ Other /\ removed' = TRUE
  /\ \E n \in Nodes :
       /\ Exists(n) /\ \A m \in Nodes : Parent[m] = n => ~Exists(m)
       /\ disk' = [disk EXCEPT ![n] = "none"]

Step(p) == Check(p) \/ Create(p)

Next ==
  \/ \E p \in Processes : Start(p) \/ Check(p) \/ Create(p)
  \/ PutFile \/ RemoveDirectory

Spec == Init /\ [][Next]_vars

-----------------------------------------------------------------------------
(* What exists is in a directory that exists.                              *)
TypeOK ==
  /\ disk \in [Nodes -> {"none", "dir", "file"}]
  /\ call \in [Processes -> [walk : Walks, i : Nat, at : {"idle", "check", "create"},
                             result : {"none", "true", "false"}]]
  /\ \A p \in Processes :
       /\ call[p].at # "idle" => call[p].i \in DOMAIN call[p].walk
       /\ call[p].at = "check" => ~IsLast(p)
  /\ others \in 0 .. MaxOthers /\ removed \in BOOLEAN
  /\ \A n \in Nodes : Exists(n) => IsDir(Parent[n])

(* Processes that make the same directories at the same time do not make   *)
(* each other fail: a call that returns false has met a file in the place  *)
(* of a directory, or a forbidden place, unless something has been removed *)
(* (src/windows_utils.cpp:33-38).                                          *)
FalseHasCause ==
  \A p \in Processes : call[p].result = "false" /\ ~removed =>
    LET w == call[p].walk
    IN  \E i \in DOMAIN w : w[i] \in Denied \/ (i < Len(w) /\ disk[w[i]] = "file")

(* When a call returns true there is something at the path, and all that   *)
(* is above it are directories, unless something has been removed.  What   *)
(* is there may be a file (src/windows_utils.cpp:42-43).                   *)
TrueMeansThere ==
  \A p \in Processes : call[p].result = "true" /\ ~removed =>
    LET w == call[p].walk
    IN  \A i \in DOMAIN w : Exists(w[i]) /\ (IsDir(w[i]) \/ ~\E j \in DOMAIN w : Parent[w[j]] = w[i])

=============================================================================
