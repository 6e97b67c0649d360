--------------------------- MODULE HelperProofs ---------------------------
(***************************************************************************)
(* Theorems about the helpers that the handlers stand on or are offered.   *)
(*                                                                         *)
(* Directories, for any tree, any paths and any number of processes:       *)
(* concurrent calls do not make each other fail, and what was made is      *)
(* there.                                                                  *)
(*                                                                         *)
(* TextHelpers, for any texts, addresses and times: what is split is joined*)
(* again, a url is its parts, an address is valid when it is four octets,  *)
(* and a time keeps its value and its order in its text.                   *)
(*                                                                         *)
(* Formatter, for any texts, limits and numbers: a bar fills no more than  *)
(* its width, all of it exactly when the work is done, and a table is even *)
(* and shows whole every value that its column has room for.               *)
(***************************************************************************)
EXTENDS Directories, TextHelpers, Formatter,
        SequenceTheorems, FiniteSetTheorems, NaturalsInduction, TLAPS

(* What a running call has passed is there.                                *)
Passed ==
  \A p \in Processes : call[p].at # "idle" /\ ~removed =>
    \A j \in 1 .. call[p].i - 1 : Exists(call[p].walk[j])

(* A running call has no answer yet.                                       *)
Unanswered == \A p \in Processes : call[p].at # "idle" => call[p].result = "none"

IInv == TypeOK /\ Unanswered /\ Passed /\ FalseHasCause /\ TrueMeansThere

(* What exists stays as it is unless something is removed.                 *)
Keeps == \A n \in Nodes : Exists(n) => disk'[n] = disk[n]

(* What the assumptions say of a walk: its nodes, and where their parents  *)
(* are.                                                                    *)
LEMMA WalkFacts ==
  ASSUME NEW w \in Walks
  PROVE  /\ Len(w) \in Nat /\ Len(w) >= 1 /\ \A i \in 1 .. Len(w) : w[i] \in Nodes
         /\ \A i \in 1 .. Len(w) :
              Parent[w[i]] = Root \/ \E j \in 1 .. i - 1 : w[j] = Parent[w[i]]
  <1>1. w \in Seq(Nodes) /\ w # << >>
    BY WalksAssumption
  <1> QED BY <1>1, WalksAssumption

(* Something new: the disk stays a tree and keeps what it had.             *)
LEMMA GrowFacts ==
  ASSUME TypeOK, NEW n \in Nodes, CanCreate(n), NEW kind \in {"dir", "file"},
         disk' = [disk EXCEPT ![n] = kind]
  PROVE  /\ disk' \in [Nodes -> {"none", "dir", "file"}] /\ Keeps
         /\ \A m \in Nodes : Exists(m)' => IsDir(Parent[m])'
         /\ Exists(n)'
  <1>1. disk \in [Nodes -> {"none", "dir", "file"}] /\ disk[n] = "none"
    BY DEF TypeOK, CanCreate, Exists
  <1>2. disk' \in [Nodes -> {"none", "dir", "file"}] /\ disk'[n] = kind
    BY <1>1
  <1>3. \A m \in Nodes : m # n => disk'[m] = disk[m]
    BY <1>1
  <1>4. Keeps
    BY <1>1, <1>3 DEF Keeps, Exists
  <1>5. ASSUME NEW m \in Nodes, Exists(m)' PROVE IsDir(Parent[m])'
    <2>1. IsDir(Parent[m]) /\ Parent[m] \in Nodes \cup {Root}
      BY <1>3, <1>5, TreeAssumption DEF TypeOK, CanCreate, Exists
    <2>2. Parent[m] # Root => Parent[m] # n
      BY <2>1, <1>1 DEF IsDir
    <2> QED BY <2>1, <2>2, <1>3 DEF IsDir
  <1> QED BY <1>2, <1>4, <1>5 DEF Exists

(* Calls that do not move keep what is known of them.                      *)
LEMMA OthersKeep ==
  ASSUME IInv, Keeps, removed' = removed, NEW p \in Processes, call'[p] = call[p]
  PROVE  /\ (call[p].at # "idle" /\ ~removed =>
               \A j \in 1 .. call[p].i - 1 : Exists(call[p].walk[j]))'
         /\ (call[p].result = "false" /\ ~removed =>
               LET w == call[p].walk
               IN  \E i \in DOMAIN w : w[i] \in Denied \/ (i < Len(w) /\ disk[w[i]] = "file"))'
         /\ (call[p].result = "true" /\ ~removed =>
               \A i \in DOMAIN call[p].walk : Exists(call[p].walk[i]))'
  <1> DEFINE w == call[p].walk
  <1>1. w \in Walks /\ DOMAIN w = 1 .. Len(w) /\ \A i \in 1 .. Len(w) : w[i] \in Nodes
    BY WalkFacts DEF IInv, TypeOK
  <1>2. call[p].at # "idle" => call[p].i \in 1 .. Len(w)
    BY <1>1 DEF IInv, TypeOK
  <1>3. \A n \in Nodes : Exists(n) => Exists(n)' /\ disk'[n] = disk[n]
    BY DEF Keeps, Exists
  <1>4. (call[p].at # "idle" /\ ~removed =>
               \A j \in 1 .. call[p].i - 1 : Exists(call[p].walk[j]))'
    BY <1>1, <1>2, <1>3 DEF IInv, Passed
  <1>5. ASSUME call[p].result = "false", ~removed
        PROVE  \E i \in DOMAIN w : w[i] \in Denied \/ (i < Len(w) /\ disk'[w[i]] = "file")
    <2>1. PICK i \in DOMAIN w : w[i] \in Denied \/ (i < Len(w) /\ disk[w[i]] = "file")
      BY <1>5 DEF IInv, FalseHasCause
    <2>2. disk[w[i]] = "file" => disk'[w[i]] = "file"
      BY <1>1, <1>3, <2>1 DEF Exists
    <2> QED BY <2>1, <2>2
  <1>6. ASSUME call[p].result = "true", ~removed
        PROVE  \A i \in DOMAIN w : Exists(w[i])'
    BY <1>1, <1>3, <1>6 DEF IInv, TrueMeansThere
  <1> QED BY <1>4, <1>5, <1>6

(* What a path names above another thing it names is a directory, when all *)
(* of it is there.                                                         *)
LEMMA AllDirs ==
  ASSUME TypeOK, NEW w \in Walks, \A i \in DOMAIN w : Exists(w[i])
  PROVE  \A i \in DOMAIN w :
           Exists(w[i]) /\ (IsDir(w[i]) \/ ~\E j \in DOMAIN w : Parent[w[j]] = w[i])
  <1>1. \A i \in DOMAIN w : w[i] \in Nodes
    BY WalkFacts, WalksAssumption
  <1> QED BY <1>1 DEF TypeOK

(* A step of one process: it is enough to look at its own call.            *)
LEMMA OneMoves ==
  ASSUME IInv, TypeOK', Keeps, removed' = removed,
         NEW p \in Processes, NEW c, call' = [call EXCEPT ![p] = c],
         c.at # "idle" => c.result = "none",
         c.at # "idle" /\ ~removed => \A j \in 1 .. c.i - 1 : disk'[c.walk[j]] # "none",
         c.result = "false" /\ ~removed =>
           \E i \in DOMAIN c.walk : \/ c.walk[i] \in Denied
                                    \/ i < Len(c.walk) /\ disk'[c.walk[i]] = "file",
         c.result = "true" /\ ~removed => \A i \in DOMAIN c.walk : disk'[c.walk[i]] # "none"
  PROVE  IInv'
  <1>1. call'[p] = c /\ \A q \in Processes : q # p => call'[q] = call[q]
    BY DEF IInv, TypeOK
  <1>2. Passed'
    <2> SUFFICES ASSUME NEW q \in Processes
                 PROVE  (call[q].at # "idle" /\ ~removed =>
                           \A j \in 1 .. call[q].i - 1 : Exists(call[q].walk[j]))'
      BY DEF Passed
    <2>1. CASE q = p
      BY <1>1, <2>1 DEF Exists
    <2>2. CASE q # p
      BY <1>1, <2>2, OthersKeep
    <2> QED BY <2>1, <2>2
  <1>3. FalseHasCause'
    <2> SUFFICES ASSUME NEW q \in Processes, (call[q].result = "false" /\ ~removed)'
                 PROVE  (\E i \in DOMAIN call[q].walk :
                           \/ call[q].walk[i] \in Denied
                           \/ i < Len(call[q].walk) /\ disk[call[q].walk[i]] = "file")'
      BY DEF FalseHasCause
    <2>1. CASE q = p
      BY <1>1, <2>1
    <2>2. CASE q # p
      BY <1>1, <2>2, OthersKeep
    <2> QED BY <2>1, <2>2
  <1>4. TrueMeansThere'
    <2> SUFFICES ASSUME NEW q \in Processes, (call[q].result = "true" /\ ~removed)'
                 PROVE  (\A i \in DOMAIN call[q].walk :
                           /\ Exists(call[q].walk[i])
                           /\ IsDir(call[q].walk[i]) \/
                                ~\E j \in DOMAIN call[q].walk :
                                   Parent[call[q].walk[j]] = call[q].walk[i])'
      BY DEF TrueMeansThere
    <2>1. (\A i \in DOMAIN call[q].walk : Exists(call[q].walk[i]))'
      <3>1. CASE q = p
        BY <1>1, <3>1 DEF Exists
      <3>2. CASE q # p
        BY <1>1, <3>2, OthersKeep
      <3> QED BY <3>1, <3>2
    <2>2. (call[q].walk \in Walks)' /\ (\A i \in DOMAIN call[q].walk : call[q].walk[i] \in Nodes)'
      BY WalkFacts, WalksAssumption DEF TypeOK
    <2> QED BY <2>1, <2>2 DEF TypeOK
  <1>5. Unanswered'
    BY <1>1 DEF IInv, Unanswered
  <1> QED BY <1>2, <1>3, <1>4, <1>5 DEF IInv

-----------------------------------------------------------------------------
(* No call is under way at the start.                                      *)
LEMMA InitInv == Init => IInv
  <1> SUFFICES ASSUME Init PROVE IInv
    OBVIOUS
  <1>1. call \in [Processes -> [walk : Walks, i : Nat, at : {"idle", "check", "create"},
                               result : {"none", "true", "false"}]]
    BY DEF Init, Call
  <1>2. ASSUME NEW p \in Processes PROVE call[p].at = "idle" /\ call[p].result = "none"
    <2>1. PICK w \in Walks : call[p] = Call(w, 0, "idle", "none")
      BY DEF Init
    <2> QED BY <2>1 DEF Call
  <1>3. TypeOK
    <2>1. disk \in [Nodes -> {"none", "dir", "file"}] /\ \A n \in Nodes : ~Exists(n)
      BY DEF Init, Exists
    <2>2. others \in 0 .. MaxOthers
      BY TreeAssumption DEF Init
    <2>3. removed \in BOOLEAN
      BY DEF Init
    <2> QED BY <1>1, <1>2, <2>1, <2>2, <2>3 DEF TypeOK
  <1>4. Unanswered /\ Passed /\ FalseHasCause /\ TrueMeansThere
    BY <1>2 DEF Unanswered, Passed, FalseHasCause, TrueMeansThere
  <1> QED BY <1>3, <1>4 DEF IInv

(* A call whose fields are well typed keeps the types.                     *)
LEMMA CallTyped ==
  ASSUME TypeOK, NEW p \in Processes, NEW w \in Walks, NEW i \in Nat,
         NEW place \in {"idle", "check", "create"}, NEW r \in {"none", "true", "false"},
         place # "idle" => i \in DOMAIN w, place = "check" => i # Len(w),
         disk' \in [Nodes -> {"none", "dir", "file"}],
         \A n \in Nodes : Exists(n)' => IsDir(Parent[n])',
         others' \in 0 .. MaxOthers, removed' \in BOOLEAN,
         call' = [call EXCEPT ![p] = [walk |-> w, i |-> i, at |-> place, result |-> r]]
  PROVE  TypeOK'
  <1>1. call'[p] = [walk |-> w, i |-> i, at |-> place, result |-> r]
        /\ \A q \in Processes : q # p => call'[q] = call[q]
    BY DEF TypeOK
  <1>2. call' \in [Processes -> [walk : Walks, i : Nat, at : {"idle", "check", "create"},
                                result : {"none", "true", "false"}]]
    BY DEF TypeOK
  <1>3. ASSUME NEW q \in Processes
        PROVE  /\ call'[q].at # "idle" => call'[q].i \in DOMAIN call'[q].walk
               /\ call'[q].at = "check" => call'[q].i # Len(call'[q].walk)
    <2>1. CASE q = p
      BY <1>1, <2>1
    <2>2. CASE q # p
      BY <1>1, <2>2 DEF TypeOK, IsLast
    <2> QED BY <2>1, <2>2
  <1> QED BY <1>2, <1>3 DEF TypeOK, IsLast

(* A call that starts has passed nothing.                                  *)
LEMMA StartInv == \A p \in Processes : IInv /\ Start(p) => IInv'
  <1> SUFFICES ASSUME NEW p \in Processes, IInv, Start(p) PROVE IInv'
    OBVIOUS
  <1>1. PICK w \in Walks :
          call' = [call EXCEPT ![p] = [walk |-> w, i |-> 1, at |-> NextPlace(w, 1),
                                       result |-> "none"]]
    BY DEF Start, Call
  <1>2. UNCHANGED <<disk, others, removed>> /\ Keeps
    BY DEF Start, Keeps
  <1>3. 1 \in DOMAIN w /\ NextPlace(w, 1) \in {"check", "create"}
        /\ (NextPlace(w, 1) = "check" => 1 # Len(w))
    BY WalkFacts, WalksAssumption DEF NextPlace
  <1> DEFINE c == [walk |-> w, i |-> 1, at |-> NextPlace(w, 1), result |-> "none"]
  <1>4. TypeOK'
    <2>1. /\ disk' \in [Nodes -> {"none", "dir", "file"}]
          /\ \A n \in Nodes : Exists(n)' => IsDir(Parent[n])'
          /\ others' \in 0 .. MaxOthers /\ removed' \in BOOLEAN
      BY <1>2 DEF IInv, TypeOK, Exists, IsDir
    <2>2. NextPlace(w, 1) \in {"idle", "check", "create"} /\ TypeOK
      BY <1>3 DEF IInv
    <2> QED BY <1>1, <1>3, <2>1, <2>2, CallTyped
  <1>5. call' = [call EXCEPT ![p] = c] /\ c.result = "none" /\ c.i = 1
    BY <1>1
  <1>6. \A j \in 1 .. c.i - 1 : disk'[c.walk[j]] # "none"
    BY <1>5
  <1> HIDE DEF c
  <1> QED BY <1>2, <1>4, <1>5, <1>6, OneMoves

(* The next turn of the loop.                                              *)
LEMMA GoOnInv ==
  ASSUME IInv, NEW p \in Processes, call[p].at # "idle", ~IsLast(p), GoOn(p),
         disk' \in [Nodes -> {"none", "dir", "file"}], Keeps,
         \A n \in Nodes : Exists(n)' => IsDir(Parent[n])', disk'[Names(p)] # "none",
         others' = others, removed' = removed
  PROVE  IInv'
  <1> DEFINE w == call[p].walk
             i == call[p].i
             place == NextPlace(w, i + 1)
             c == [walk |-> w, i |-> i + 1, at |-> place, result |-> "none"]
  <1>1. w \in Walks /\ i \in 1 .. Len(w) /\ i # Len(w) /\ Len(w) \in Nat /\ DOMAIN w = 1 .. Len(w)
    BY WalkFacts, WalksAssumption DEF IInv, TypeOK, IsLast
  <1>2. i + 1 \in DOMAIN w /\ place \in {"check", "create"} /\ (place = "check" => i + 1 # Len(w))
    BY <1>1 DEF NextPlace
  <1>3. call' = [call EXCEPT ![p] = c]
    BY DEF GoOn, Goto, Call
  <1>4. TypeOK'
    <2>1. i + 1 \in Nat /\ others' \in 0 .. MaxOthers /\ removed' \in BOOLEAN
      BY <1>1 DEF IInv, TypeOK
    <2>2. place \in {"idle", "check", "create"} /\ "none" \in {"none", "true", "false"} /\ TypeOK
      BY <1>2 DEF IInv
    <2> HIDE DEF place, i, w
    <2> QED BY <1>1, <1>2, <1>3, <2>1, <2>2, CallTyped
  <1>5. ~removed => \A j \in 1 .. (i + 1) - 1 : disk'[w[j]] # "none"
    <2> SUFFICES ASSUME ~removed, NEW j \in 1 .. i PROVE disk'[w[j]] # "none"
      BY <1>1
    <2>1. CASE j = i
      BY <2>1 DEF Names
    <2>2. CASE j # i
      <3>1. Exists(w[j]) /\ w[j] \in Nodes
        BY <1>1, <2>2, WalkFacts DEF IInv, Passed
      <3> QED BY <3>1 DEF Keeps, Exists
    <2> QED BY <2>1, <2>2
  <1> QED BY <1>3, <1>4, <1>5, OneMoves

(* A level that is found to be a directory has been passed.                *)
LEMMA CheckInv == \A p \in Processes : IInv /\ Check(p) => IInv'
  <1> SUFFICES ASSUME NEW p \in Processes, IInv, Check(p) PROVE IInv'
    OBVIOUS
  <1> DEFINE w == call[p].walk
             i == call[p].i
  <1>1. UNCHANGED <<disk, others, removed>> /\ Keeps /\ call[p].at # "idle" /\ ~IsLast(p)
    BY DEF Check, Keeps, IInv, TypeOK
  <1>2. /\ w \in Walks /\ i \in DOMAIN w /\ i # Len(w) /\ i \in Nat /\ Names(p) \in Nodes
    BY <1>1, WalkFacts, WalksAssumption DEF IInv, TypeOK, IsLast, Names
  <1>3. /\ disk' \in [Nodes -> {"none", "dir", "file"}]
        /\ \A n \in Nodes : Exists(n)' => IsDir(Parent[n])'
        /\ others' \in 0 .. MaxOthers
    BY <1>1 DEF IInv, TypeOK, Exists, IsDir
  <1>4. removed' \in BOOLEAN
    BY <1>1 DEF IInv, TypeOK
  <1>5. CASE IsDir(Names(p))
    <2>1. disk'[Names(p)] # "none" /\ GoOn(p)
      BY <1>1, <1>2, <1>5, TreeAssumption DEF IsDir, Check
    <2> QED BY <1>1, <1>3, <2>1, GoOnInv
  <1>6. CASE ~IsDir(Names(p))
    <2> DEFINE c == [walk |-> w, i |-> i, at |-> "create", result |-> "none"]
    <2>1. call' = [call EXCEPT ![p] = c]
      BY <1>6 DEF Check, Goto, Call
    <2>2. TypeOK'
      <3> HIDE DEF w, i
      <3> QED BY <2>1, <1>2, <1>3, <1>4, CallTyped DEF IInv
    <2>3. ~removed => \A j \in 1 .. c.i - 1 : disk'[c.walk[j]] # "none"
      BY <1>1, <1>2 DEF IInv, Passed, Exists
    <2> QED BY <1>1, <2>1, <2>2, <2>3, OneMoves
  <1> QED BY <1>5, <1>6

(* CreateDirectoryA in the loop and at its end: where it fails, and nothing*)
(* is in the way, there is nothing to put the directory in; then something *)
(* above it, which this call has passed, is a file.                        *)
LEMMA CreateInv == \A p \in Processes : IInv /\ Create(p) => IInv'
  <1> SUFFICES ASSUME NEW p \in Processes, IInv, Create(p) PROVE IInv'
    OBVIOUS
  <1> DEFINE w == call[p].walk
             i == call[p].i
             n == Names(p)
  <1>1. others' = others /\ removed' = removed /\ call[p].at # "idle"
    BY DEF Create
  <1>2. /\ w \in Walks /\ i \in DOMAIN w /\ DOMAIN w = 1 .. Len(w) /\ i \in Nat
        /\ n = w[i] /\ n \in Nodes /\ Len(w) \in Nat
    BY <1>1, WalkFacts, WalksAssumption DEF IInv, TypeOK, Names
  <1>3. disk' = IF CanCreate(n) THEN [disk EXCEPT ![n] = "dir"] ELSE disk
    BY DEF Create
  <1>4. /\ disk' \in [Nodes -> {"none", "dir", "file"}] /\ Keeps
        /\ \A m \in Nodes : Exists(m)' => IsDir(Parent[m])'
        /\ CanCreate(n) => disk'[n] # "none"
    <2>1. CASE CanCreate(n)
      <3>1. disk' = [disk EXCEPT ![n] = "dir"]
        BY <1>3, <2>1
      <3>2. disk'[n] = "dir"
        BY <3>1, <1>2 DEF IInv, TypeOK
      <3> HIDE DEF n
      <3> QED BY <2>1, <3>1, <3>2, <1>2, GrowFacts DEF IInv
    <2>2. CASE ~CanCreate(n)
      BY <1>3, <2>2 DEF IInv, TypeOK, Keeps, Exists, IsDir
    <2> QED BY <2>1, <2>2
  <1>5. others' \in 0 .. MaxOthers
    BY <1>1 DEF IInv, TypeOK
  <1>6. removed' \in BOOLEAN
    BY <1>1 DEF IInv, TypeOK
  <1>7. ~removed => \A j \in 1 .. i - 1 :
          Exists(w[j]) /\ disk'[w[j]] = disk[w[j]] /\ disk'[w[j]] # "none"
    BY <1>1, <1>2, <1>4, WalkFacts DEF IInv, Passed, Keeps, Exists
  <1>8. CASE ~CanCreate(n) /\ ~Accepted(n)
    <2> DEFINE c == [walk |-> w, i |-> i, at |-> "idle", result |-> "false"]
    <2>1. call' = [call EXCEPT ![p] = c]
      BY <1>8 DEF Create, End, Call
    <2>2. TypeOK'
      <3> HIDE DEF w, i, n
      <3> QED BY <2>1, <1>2, <1>4, <1>5, <1>6, CallTyped DEF IInv
    <2>3. ~removed => \E k \in DOMAIN w : w[k] \in Denied \/ (k < Len(w) /\ disk'[w[k]] = "file")
      <3> SUFFICES ASSUME ~removed, n \notin Denied
                   PROVE  \E k \in DOMAIN w : k < Len(w) /\ disk'[w[k]] = "file"
        BY <1>2
      <3>1. ~IsDir(Parent[n])
        BY <1>8 DEF CanCreate, Accepted
      <3>2. \E j \in 1 .. i - 1 : w[j] = Parent[n]
        <4>1. Parent[n] # Root
          BY <3>1 DEF IsDir
        <4>2. Parent[w[i]] = Root \/ \E j \in 1 .. i - 1 : w[j] = Parent[w[i]]
          <5> HIDE DEF w, i
          <5> QED BY <1>2, WalksAssumption
        <4>3. n = w[i]
          BY <1>2
        <4> HIDE DEF w, i, n
        <4> QED BY <4>1, <4>2, <4>3
      <3>2a. PICK j \in 1 .. i - 1 : w[j] = Parent[n]
        BY <3>2
      <3>3. j \in DOMAIN w /\ j < Len(w) /\ w[j] \in Nodes
        BY <1>2, <3>2a, WalkFacts
      <3>4. disk[w[j]] \notin {"none", "dir"} /\ disk'[w[j]] = disk[w[j]]
        BY <3>1, <3>2a, <1>7 DEF IsDir, Exists
      <3>5. disk[w[j]] = "file"
        BY <3>3, <3>4 DEF IInv, TypeOK
      <3> QED BY <3>3, <3>4, <3>5
    <2> QED BY <1>1, <1>4, <2>1, <2>2, <2>3, OneMoves
  <1>9. CASE CanCreate(n) \/ Accepted(n)
    <2>1. disk'[n] # "none"
      BY <1>4, <1>9, <1>2 DEF Accepted, Keeps, Exists
    <2>2. CASE IsLast(p)
      <3> DEFINE c == [walk |-> w, i |-> i, at |-> "idle", result |-> "true"]
      <3>1. call' = [call EXCEPT ![p] = c]
        BY <1>9, <2>2 DEF Create, End, Call
      <3>2. TypeOK'
        <4> HIDE DEF w, i, n
        <4> QED BY <3>1, <1>2, <1>4, <1>5, <1>6, CallTyped DEF IInv
      <3>3. ~removed => \A k \in DOMAIN w : disk'[w[k]] # "none"
        <4> SUFFICES ASSUME ~removed, NEW k \in DOMAIN w PROVE disk'[w[k]] # "none"
          OBVIOUS
        <4>1. CASE k = i
          BY <4>1, <2>1, <1>2
        <4>2. CASE k # i
          BY <4>2, <2>2, <1>2, <1>7 DEF IsLast
        <4> QED BY <4>1, <4>2
      <3> QED BY <1>1, <1>4, <3>1, <3>2, <3>3, OneMoves
    <2>3. CASE ~IsLast(p)
      <3>1. GoOn(p)
        BY <1>9, <2>3 DEF Create
      <3> QED BY <1>1, <1>4, <2>1, <2>3, <3>1, GoOnInv
    <2> QED BY <2>2, <2>3
  <1> QED BY <1>8, <1>9

(* A file is put where nothing was, so that nothing is lost.               *)
LEMMA PutFileInv == IInv /\ PutFile => IInv'
  <1> SUFFICES ASSUME IInv, PutFile PROVE IInv'
    OBVIOUS
  <1>1. PICK n \in Nodes : CanCreate(n) /\ disk' = [disk EXCEPT ![n] = "file"]
    BY DEF PutFile
  <1>2. UNCHANGED <<call, removed>> /\ others' \in 0 .. MaxOthers
    BY TreeAssumption DEF PutFile, Other, IInv, TypeOK
  <1>3. /\ disk' \in [Nodes -> {"none", "dir", "file"}] /\ Keeps
        /\ \A m \in Nodes : Exists(m)' => IsDir(Parent[m])'
    BY <1>1, GrowFacts DEF IInv
  <1>4. TypeOK'
    BY <1>2, <1>3 DEF IInv, TypeOK, IsLast
  <1>5. Passed' /\ FalseHasCause' /\ Unanswered'
    BY <1>2, <1>3, OthersKeep DEF Passed, FalseHasCause, Unanswered, IInv
  <1>6. TrueMeansThere'
    <2> SUFFICES ASSUME NEW q \in Processes, (call[q].result = "true" /\ ~removed)'
                 PROVE  (\A i \in DOMAIN call[q].walk :
                           /\ Exists(call[q].walk[i])
                           /\ IsDir(call[q].walk[i]) \/
                                ~\E j \in DOMAIN call[q].walk :
                                   Parent[call[q].walk[j]] = call[q].walk[i])'
      BY DEF TrueMeansThere
    <2>1. (\A i \in DOMAIN call[q].walk : Exists(call[q].walk[i]))'
      BY <1>2, <1>3, OthersKeep
    <2>2. (\A i \in DOMAIN call[q].walk : call[q].walk[i] \in Nodes)'
      BY <1>2, WalkFacts, WalksAssumption DEF IInv, TypeOK
    <2> QED BY <2>1, <2>2, <1>4 DEF TypeOK
  <1> QED BY <1>4, <1>5, <1>6 DEF IInv

(* A removal is remembered, and the rest is about calls without one.       *)
LEMMA RemoveInv == IInv /\ RemoveDirectory => IInv'
  <1> SUFFICES ASSUME IInv, RemoveDirectory PROVE IInv'
    OBVIOUS
  <1>1. PICK n \in Nodes : /\ \A m \in Nodes : Parent[m] = n => ~Exists(m)
                           /\ disk' = [disk EXCEPT ![n] = "none"]
    BY DEF RemoveDirectory
  <1>2. call' = call /\ others' \in 0 .. MaxOthers
    BY TreeAssumption DEF RemoveDirectory, Other, IInv, TypeOK
  <1>3. removed' = TRUE
    BY DEF RemoveDirectory
  <1>4. /\ disk' \in [Nodes -> {"none", "dir", "file"}] /\ disk'[n] = "none"
        /\ \A m \in Nodes : m # n => disk'[m] = disk[m]
    BY <1>1 DEF IInv, TypeOK
  <1>5. ASSUME NEW m \in Nodes, Exists(m)' PROVE IsDir(Parent[m])'
    <2>1. m # n /\ Exists(m) /\ IsDir(Parent[m]) /\ Parent[m] # n
      BY <1>1, <1>4, <1>5 DEF Exists, IInv, TypeOK
    <2> QED BY <2>1, <1>4, TreeAssumption DEF IsDir
  <1>6. TypeOK'
    BY <1>2, <1>3, <1>4, <1>5 DEF IInv, TypeOK, IsLast
  <1>7. Passed' /\ FalseHasCause' /\ TrueMeansThere' /\ Unanswered'
    BY <1>2, <1>3 DEF Passed, FalseHasCause, TrueMeansThere, Unanswered, IInv
  <1> QED BY <1>6, <1>7 DEF IInv

(* Every step keeps the invariant, a case for each action.                 *)
LEMMA StepInv == IInv /\ [Next]_vars => IInv'
  <1> SUFFICES ASSUME IInv, [Next]_vars PROVE IInv'
    OBVIOUS
  <1>1. CASE UNCHANGED vars
    BY <1>1 DEF vars, IInv, TypeOK, Passed, Unanswered, FalseHasCause, TrueMeansThere,
       Exists, IsDir, IsLast
  <1> QED BY <1>1, StartInv, CheckInv, CreateInv, PutFileInv, RemoveInv DEF Next

(* The inductive invariant holds in every reachable state.                 *)
THEOREM Invariance == Spec => []IInv
  BY InitInv, StepInv, PTL DEF Spec

(* Types, and that what exists is in a directory that exists.              *)
THEOREM Typing == Spec => []TypeOK
  <1>1. IInv => TypeOK
    BY DEF IInv
  <1> QED BY <1>1, Invariance, PTL

(* However many processes make directories on the same paths at the same   *)
(* time, a call fails only for a file in the way, a forbidden place or a   *)
(* removal (windows_utils.cpp:33-38).                                      *)
THEOREM Failures == Spec => []FalseHasCause
  <1>1. IInv => FalseHasCause
    BY DEF IInv
  <1> QED BY <1>1, Invariance, PTL

(* After a call that has returned true everything the path names is there, *)
(* until something is removed (windows_utils.cpp:42-43).                   *)
THEOREM Successes == Spec => []TrueMeansThere
  <1>1. IInv => TrueMeansThere
    BY DEF IInv
  <1> QED BY <1>1, Invariance, PTL

-----------------------------------------------------------------------------
(* The functions on texts.                                                 *)

(* A nonempty set of naturals has a least element.                         *)
LEMMA Least ==
  ASSUME NEW T \in SUBSET Nat, T # {}
  PROVE  \E x \in T : \A y \in T : x <= y
  <1> DEFINE R == OpToRel(<, Nat)
  <1>1. IsWellFoundedOn(R, Nat)
    BY NatLessThanWellFounded
  <1>2. PICK x \in T : \A y \in T : ~(<<y, x>> \in R)
    BY <1>1, WFMin
  <1>3. \A y \in T : ~(y < x)
    BY <1>2 DEF OpToRel
  <1> QED BY <1>3

(* Of positions, if there are any, one is the first and one the last.      *)
LEMMA Ends ==
  ASSUME NEW n \in Nat, NEW I \in SUBSET (1 .. n), I # {}
  PROVE  /\ Max(I) \in I /\ \A y \in I : y <= Max(I)
         /\ Min(I) \in I /\ \A y \in I : Min(I) <= y
  <1>1. \E x \in I : \A y \in I : x <= y
    <2>1. I \in SUBSET Nat
      OBVIOUS
    <2> QED BY <2>1, Least
  <1>2. \E x \in I : \A y \in I : x >= y
    <2> DEFINE T == {n - x : x \in I}
    <2>0. \A x \in I : x \in Nat /\ n - x \in Nat
      OBVIOUS
    <2>1. T \in SUBSET Nat /\ T # {}
      BY <2>0
    <2> HIDE DEF T
    <2>2. PICK t \in T : \A u \in T : t <= u
      BY <2>1, Least
    <2> USE DEF T
    <2>3. PICK x \in I : t = n - x
      OBVIOUS
    <2>4. ASSUME NEW y \in I PROVE x >= y
      <3>1. n - x <= n - y
        BY <2>2, <2>3
      <3> QED BY <3>1
    <2> QED BY <2>4
  <1>3. Min(I) \in I /\ \A y \in I : Min(I) <= y
    BY <1>1 DEF Min
  <1>4. Max(I) \in I /\ \A y \in I : Max(I) >= y
    BY <1>2 DEF Max
  <1>5. \A y \in I : y <= Max(I)
    BY <1>4
  <1> QED BY <1>3, <1>4, <1>5

(* find_last_of and find: the last or the first position, or npos.         *)
IsLastOf(i, s, C)        == /\ i \in 0 .. Len(s) /\ \A j \in i + 1 .. Len(s) : s[j] \notin C
                            /\ i > 0 => s[i] \in C
IsFirstOf(i, s, from, c) == \/ i = 0 /\ \A j \in from .. Len(s) : s[j] # c
                            \/ /\ i \in from .. Len(s) /\ s[i] = c
                               /\ \A j \in from .. i - 1 : s[j] # c

(* LastSlash is the last place of a separator, or 0.                       *)
LEMMA LastSlashFacts ==
  ASSUME NEW S, NEW s \in Seq(S)
  PROVE  IsLastOf(LastSlash(s), s, Separators)
  <1> DEFINE I == {i \in 1 .. Len(s) : s[i] \in Separators}
  <1>1. LastSlash(s) = IF I # {} THEN Max(I) ELSE 0
    BY DEF LastSlash, SelectLastInSeq
  <1>0. I \in SUBSET (1 .. Len(s)) /\ Len(s) \in Nat
    OBVIOUS
  <1> HIDE DEF I
  <1>2. I # {} => Max(I) \in I /\ \A y \in I : y <= Max(I)
    BY <1>0, Ends
  <1>3. CASE I = {}
    BY <1>0, <1>1, <1>3 DEF I, IsLastOf
  <1>4. CASE I # {}
    <2>1. PICK m \in I : m = LastSlash(s) /\ \A y \in I : y <= m
      BY <1>1, <1>2, <1>4
    <2>2. m \in Nat /\ \A j \in m + 1 .. Len(s) : j \notin I
      BY <1>0, <2>1
    <2>3. \A j \in m + 1 .. Len(s) : s[j] \notin Separators
      BY <1>0, <2>1, <2>2 DEF I
    <2>4. m \in 1 .. Len(s) /\ s[m] \in Separators
      BY DEF I
    <2> HIDE DEF I
    <2> QED BY <1>0, <2>1, <2>3, <2>4 DEF IsLastOf
  <1> QED BY <1>3, <1>4

(* LastDot is the last place of a dot, or 0.                               *)
LEMMA LastDotFacts ==
  ASSUME NEW S, NEW s \in Seq(S)
  PROVE  IsLastOf(LastDot(s), s, {"."})
  <1> DEFINE I == {i \in 1 .. Len(s) : s[i] = "."}
  <1>1. LastDot(s) = IF I # {} THEN Max(I) ELSE 0
    BY DEF LastDot, SelectLastInSeq
  <1>0. I \in SUBSET (1 .. Len(s)) /\ Len(s) \in Nat
    OBVIOUS
  <1> HIDE DEF I
  <1>2. I # {} => Max(I) \in I /\ \A y \in I : y <= Max(I)
    BY <1>0, Ends
  <1>3. CASE I = {}
    BY <1>0, <1>1, <1>3 DEF I, IsLastOf
  <1>4. CASE I # {}
    <2>1. PICK m \in I : m = LastDot(s) /\ \A y \in I : y <= m
      BY <1>1, <1>2, <1>4
    <2>2. m \in Nat /\ \A j \in m + 1 .. Len(s) : j \notin I
      BY <1>0, <2>1
    <2>3. \A j \in m + 1 .. Len(s) : s[j] # "."
      BY <1>0, <2>1, <2>2 DEF I
    <2>4. m \in 1 .. Len(s) /\ s[m] = "."
      BY DEF I
    <2> HIDE DEF I
    <2> QED BY <1>0, <2>1, <2>3, <2>4 DEF IsLastOf
  <1> QED BY <1>3, <1>4

(* Find is the first place of a character, from some place on, or 0.       *)
LEMMA FindFacts ==
  ASSUME NEW S, NEW s \in Seq(S), NEW c, NEW from \in Nat \ {0}
  PROVE  IsFirstOf(Find(c, s, from), s, from, c)
  <1> DEFINE I == {i \in from .. Len(s) : s[i] = c}
  <1>1. Find(c, s, from) = IF I # {} THEN Min(I) ELSE 0
    BY DEF Find, SelectInSubSeq
  <1>0. I \in SUBSET (1 .. Len(s)) /\ Len(s) \in Nat
    OBVIOUS
  <1> HIDE DEF I
  <1>2. I # {} => Min(I) \in I /\ \A y \in I : Min(I) <= y
    BY <1>0, Ends
  <1>3. CASE I = {}
    BY <1>0, <1>1, <1>3 DEF I, IsFirstOf
  <1>4. CASE I # {}
    <2>1. PICK m \in I : m = Find(c, s, from) /\ \A y \in I : m <= y
      BY <1>1, <1>2, <1>4
    <2>2. m \in Nat /\ \A j \in from .. m - 1 : j \notin I
      BY <1>0, <2>1
    <2>3. \A j \in from .. m - 1 : s[j] # c
      BY <1>0, <2>1, <2>2 DEF I
    <2>4. m \in 1 .. Len(s) /\ m >= from /\ s[m] = c
      BY DEF I
    <2> HIDE DEF I
    <2> QED BY <1>0, <2>1, <2>3, <2>4 DEF IsFirstOf
  <1> QED BY <1>3, <1>4

-----------------------------------------------------------------------------
(* A text is what it is up to a position and what comes from the next.     *)
LEMMA CutFacts ==
  ASSUME NEW S, NEW s \in Seq(S), NEW i \in 0 .. Len(s)
  PROVE  /\ UpTo(s, i) \in Seq(S) /\ Len(UpTo(s, i)) = i
         /\ \A j \in 1 .. i : UpTo(s, i)[j] = s[j]
         /\ From(s, i + 1) \in Seq(S) /\ Len(From(s, i + 1)) = Len(s) - i
         /\ \A j \in 1 .. Len(s) - i : From(s, i + 1)[j] = s[i + j]
         /\ UpTo(s, i) \o From(s, i + 1) = s
  <1>1. \A k \in 1 .. Len(s) : s[k] \in S
    OBVIOUS
  <1>2. /\ SubSeq(s, 1, i) \in Seq(S) /\ Len(SubSeq(s, 1, i)) = i
        /\ \A j \in 1 .. i : SubSeq(s, 1, i)[j] = s[j]
    OBVIOUS
  <1>3. /\ SubSeq(s, i + 1, Len(s)) \in Seq(S) /\ Len(SubSeq(s, i + 1, Len(s))) = Len(s) - i
        /\ \A j \in 1 .. Len(s) - i : SubSeq(s, i + 1, Len(s))[j] = s[i + j]
    OBVIOUS
  <1>4. SubSeq(s, 1, i) \o SubSeq(s, i + 1, Len(s)) = s
    <2>1. SubSeq(s, 1, i) \o SubSeq(s, i + 1, Len(s)) = SubSeq(s, 1, Len(s))
      <3>1. 1 \in 1 .. Len(s) + 1 /\ i \in 1 - 1 .. Len(s) /\ Len(s) \in i .. Len(s)
        OBVIOUS
      <3> QED BY <3>1, ConcatAdjacentSubSeq
    <2> QED BY <2>1, SubSeqFull
  <1> QED BY <1>2, <1>3, <1>4 DEF UpTo, From

(* There is one last place.                                                *)
LEMMA LastIsOne ==
  ASSUME NEW S, NEW s \in Seq(S), NEW C, NEW i, NEW j, IsLastOf(i, s, C), IsLastOf(j, s, C)
  PROVE  i = j
  BY DEF IsLastOf

(* What splitPath makes of a path: the part up to the last separator, and  *)
(* the rest cut at its last dot, if there is a separator.                  *)
LEMMA SplitFacts ==
  ASSUME NEW S, NEW s \in Seq(S), NEW slash, slash = LastSlash(s)
  PROVE  /\ slash \in 0 .. Len(s)
         /\ SplitPath(s).directory = UpTo(s, slash)
         /\ SplitPath(s).filename \o SplitPath(s).extension
              = From(s, slash + 1)
         /\ SplitPath(s).extension # << >> =>
              slash > 0 /\ LastDot(SplitPath(s).extension) = 1
         /\ IsPrefix(SplitPath(s).drive, s)
  <1> DEFINE rest == From(s, slash + 1)
             name == IF slash = 0 THEN <<s, << >>>> ELSE SplitName(rest)
             dot  == LastDot(rest)
  <1>1. slash \in 0 .. Len(s)
    BY LastSlashFacts DEF IsLastOf
  <1>2. SplitPath(s) =
          [drive |-> Drive(s), directory |-> UpTo(s, slash),
           filename |-> name[1], extension |-> name[2]]
    BY DEF SplitPath
  <1>3. rest \in Seq(S)
    BY <1>1, CutFacts
  <1>4. name[1] \o name[2] = rest /\ (name[2] # << >> => slash > 0 /\ LastDot(name[2]) = 1)
    <2>1. CASE slash = 0
      <3>1. s = rest
        BY <2>1, SubSeqFull DEF From
      <3>2. name[1] = s /\ name[2] = << >>
        BY <2>1
      <3> QED BY <3>1, <3>2, ConcatEmptySeq
    <2>2. CASE slash # 0 /\ dot = 0
      <3>1. name[1] = rest /\ name[2] = << >>
        BY <2>2 DEF SplitName
      <3> HIDE DEF rest, name
      <3> QED BY <1>3, <3>1, ConcatEmptySeq
    <2>3. CASE slash # 0 /\ dot # 0
      <3> HIDE DEF rest
      <3>1. name[1] = UpTo(rest, dot - 1) /\ name[2] = From(rest, dot)
        BY <2>3 DEF SplitName
      <3>2. /\ dot \in 1 .. Len(rest) /\ rest[dot] = "."
            /\ \A j \in dot + 1 .. Len(rest) : rest[j] # "."
        BY <1>3, <2>3, LastDotFacts DEF IsLastOf
      <3> HIDE DEF name, dot
      <3>3. PICK k \in 0 .. Len(rest) : dot = k + 1 /\ dot - 1 = k
        BY <1>3, <3>2
      <3>0. name[1] = UpTo(rest, k) /\ name[2] = From(rest, k + 1)
        BY <3>1, <3>3
      <3>4. name[1] \o name[2] = rest
        BY <1>3, <3>0, CutFacts
      <3>5. /\ name[2] \in Seq(S) /\ Len(name[2]) = Len(rest) - k
            /\ \A j \in 1 .. Len(rest) - k : name[2][j] = rest[k + j]
        BY <1>3, <3>0, CutFacts
      <3>6. IsLastOf(1, name[2], {"."})
        <4>1. Len(rest) \in Nat
          BY <1>3
        <4>2. \A j \in 2 .. Len(name[2]) :
                k + j \in dot + 1 .. Len(rest) /\ j \in 1 .. Len(rest) - k
          BY <3>3, <3>5, <4>1
        <4>3. \A j \in 2 .. Len(name[2]) : name[2][j] # "."
          BY <3>2, <3>5, <4>2
        <4>4. 1 \in 0 .. Len(name[2]) /\ name[2][1] = "."
          BY <3>2, <3>3, <3>5, <4>1
        <4> QED BY <4>3, <4>4 DEF IsLastOf
      <3>7. LastDot(name[2]) = 1
        BY <3>5, <3>6, LastDotFacts, LastIsOne
      <3> QED BY <1>1, <2>3, <3>4, <3>7
    <2> QED BY <2>1, <2>2, <2>3
  <1>5. IsPrefix(Drive(s), s)
    <2>1. CASE Find(":", s, 1) \in {1, 2}
      <3>1. PICK k \in 1 .. 2 : k = Find(":", s, 1)
        BY <2>1
      <3>2. k \in 1 .. Len(s)
        BY <3>1, FindFacts DEF IsFirstOf
      <3>3. Drive(s) = SubSeq(s, 1, k)
        BY <2>1, <3>1 DEF Drive, UpTo
      <3>4. Len(SubSeq(s, 1, k)) = k /\ SubSeq(SubSeq(s, 1, k), 1, k) = SubSeq(s, 1, k)
        BY <3>2
      <3> QED BY <3>2, <3>3, <3>4 DEF IsPrefix
    <2>2. CASE Find(":", s, 1) \notin {1, 2}
      <3>1. Drive(s) = << >>
        BY <2>2 DEF Drive
      <3>2. Len(<< >>) = 0 /\ SubSeq(<< >>, 1, 0) = << >> /\ SubSeq(s, 1, 0) = << >>
        OBVIOUS
      <3> QED BY <3>1, <3>2 DEF IsPrefix
    <2> QED BY <2>1, <2>2
  <1> HIDE DEF name
  <1>6. /\ SplitPath(s).directory = UpTo(s, slash)
        /\ SplitPath(s).filename = name[1] /\ SplitPath(s).extension = name[2]
        /\ SplitPath(s).drive = Drive(s)
    BY <1>2
  <1> QED BY <1>1, <1>4, <1>5, <1>6

(* joinPath finds again what splitPath has cut in two.                     *)
LEMMA Rejoined ==
  ASSUME NEW S, NEW s \in Seq(S)
  PROVE  JoinPath(SplitPath(s).directory,
                       SplitPath(s).filename \o SplitPath(s).extension) = s
  <1> DEFINE slash == LastSlash(s)
             dir   == UpTo(s, slash)
             rest  == From(s, slash + 1)
  <1>1. slash \in 0 .. Len(s) /\ (slash > 0 => s[slash] \in Separators)
    BY LastSlashFacts DEF IsLastOf
  <1>2. /\ SplitPath(s).directory = dir
        /\ SplitPath(s).filename \o SplitPath(s).extension = rest
    BY SplitFacts
  <1> HIDE DEF slash
  <1>3. /\ dir \in Seq(S) /\ Len(dir) = slash /\ (slash > 0 => dir[slash] = s[slash])
        /\ rest \in Seq(S) /\ dir \o rest = s
    <2>1. /\ dir \in Seq(S) /\ Len(dir) = slash /\ \A j \in 1 .. slash : dir[j] = s[j]
          /\ rest \in Seq(S) /\ dir \o rest = s
      BY <1>1, CutFacts
    <2>2. slash > 0 => slash \in 1 .. slash
      BY <1>1
    <2> QED BY <2>1, <2>2
  <1> HIDE DEF dir, rest
  <1>4. JoinPath(dir, rest) = s
    <2>1. CASE dir = << >>
      BY <1>3, <2>1, ConcatEmptySeq DEF JoinPath
    <2>2. CASE dir # << >> /\ rest = << >>
      BY <1>3, <2>2, ConcatEmptySeq DEF JoinPath
    <2>3. CASE dir # << >> /\ rest # << >>
      <3>1. slash > 0
        BY <1>1, <1>3, <2>3
      <3>2. Last(dir) \in Separators
        BY <1>1, <1>3, <3>1 DEF Last
      <3> QED BY <1>3, <2>3, <3>2 DEF JoinPath
    <2> QED BY <2>1, <2>2, <2>3
  <1> QED BY <1>2, <1>4

(* The last separator of a directory to which a name without any is added. *)
LEMMA JoinedSlash ==
  ASSUME NEW S, NEW dir \in Seq(S), NEW name \in Seq(S),
         \A i \in DOMAIN name : name[i] \notin Separators,
         dir # << >> => dir[Len(dir)] \in Separators
  PROVE  /\ LastSlash(dir \o name) = Len(dir)
         /\ UpTo(dir \o name, Len(dir)) = dir
         /\ From(dir \o name, Len(dir) + 1) = name
  <1>1. /\ dir \o name \in Seq(S) /\ Len(dir \o name) = Len(dir) + Len(name)
        /\ Len(dir) \in Nat /\ Len(name) \in Nat
        /\ \A i \in 1 .. Len(dir) + Len(name) : (dir \o name)[i] =
             IF i <= Len(dir) THEN dir[i] ELSE name[i - Len(dir)]
    BY ConcatProperties
  <1>2. IsLastOf(Len(dir), dir \o name, Separators)
    <2>1. \A j \in Len(dir) + 1 .. Len(dir \o name) : (dir \o name)[j] \notin Separators
      <3> SUFFICES ASSUME NEW j \in Len(dir) + 1 .. Len(dir \o name)
                   PROVE  (dir \o name)[j] \notin Separators
        OBVIOUS
      <3>1. j - Len(dir) \in DOMAIN name /\ (dir \o name)[j] = name[j - Len(dir)]
        BY <1>1
      <3> QED BY <3>1
    <2>2. Len(dir) > 0 => (dir \o name)[Len(dir)] \in Separators
      BY <1>1
    <2> QED BY <1>1, <2>1, <2>2 DEF IsLastOf
  <1>3. LastSlash(dir \o name) = Len(dir)
    BY <1>1, <1>2, LastSlashFacts, LastIsOne
  <1>4. SubSeq(dir \o name, 1, Len(dir)) = dir
    <2>1. /\ SubSeq(dir \o name, 1, Len(dir)) \in Seq(S)
          /\ Len(SubSeq(dir \o name, 1, Len(dir))) = Len(dir)
          /\ \A i \in 1 .. Len(dir) : SubSeq(dir \o name, 1, Len(dir))[i] = dir[i]
      BY <1>1
    <2> QED BY <2>1, SeqEqual
  <1>5. SubSeq(dir \o name, Len(dir) + 1, Len(dir \o name)) = name
    <2>1. /\ SubSeq(dir \o name, Len(dir) + 1, Len(dir \o name)) \in Seq(S)
          /\ Len(SubSeq(dir \o name, Len(dir) + 1, Len(dir \o name))) = Len(name)
          /\ \A i \in 1 .. Len(name) :
               SubSeq(dir \o name, Len(dir) + 1, Len(dir \o name))[i] = name[i]
      BY <1>1
    <2> QED BY <2>1, SeqEqual
  <1> QED BY <1>3, <1>4, <1>5 DEF UpTo, From

(* splitPath finds again what joinPath has put together.                   *)
FoundAgain(t, dir, name) ==
  /\ t.directory \in IF name = << >> THEN {UpTo(dir, LastSlash(dir))}
                     ELSE {dir, dir \o <<"\\">>}
  /\ name # << >> => t.filename \o t.extension = name
  /\ t.extension # << >> => dir # << >> /\ LastDot(t.extension) = 1

(* What is joined of a directory and a name is split into the two again.   *)
LEMMA SplitAgain ==
  ASSUME NEW S, "\\" \in S, NEW dir \in Seq(S), NEW name \in Seq(S),
         \A i \in DOMAIN name : name[i] \notin Separators
  PROVE  FoundAgain(SplitPath(JoinPath(dir, name)), dir, name)
  <1> DEFINE j == JoinPath(dir, name)
             t == SplitPath(j)
  <1>1. CASE name = << >>
    <2>1. j = dir
      BY <1>1 DEF JoinPath
    <2>2. t.directory = UpTo(dir, LastSlash(dir))
      BY <2>1, SplitFacts
    <2>3. t.extension # << >> => LastSlash(dir) > 0 /\ LastDot(t.extension) = 1
      BY <2>1, SplitFacts
    <2>4. LastSlash(dir) \in 0 .. Len(dir)
      BY LastSlashFacts DEF IsLastOf
    <2>5. LastSlash(dir) > 0 => dir # << >>
      BY <2>4
    <2> QED BY <1>1, <2>2, <2>3, <2>5 DEF FoundAgain
  <1>2. CASE name # << >>
    <2>1. \E d \in {dir, dir \o <<"\\">>} :
            /\ j = d \o name /\ d \in Seq(S) /\ (d # << >> => d[Len(d)] \in Separators)
            /\ (dir = << >> => d = << >>)
      <3>1. CASE dir = << >>
        BY <1>2, <3>1, ConcatEmptySeq DEF JoinPath
      <3>2. CASE dir # << >> /\ Last(dir) \in Separators
        BY <1>2, <3>2 DEF JoinPath, Last
      <3>3. CASE dir # << >> /\ Last(dir) \notin Separators
        <4>1. <<"\\">> \in Seq(S) /\ Len(<<"\\">>) = 1 /\ <<"\\">>[1] = "\\"
          OBVIOUS
        <4>2. /\ dir \o <<"\\">> \in Seq(S) /\ Len(dir \o <<"\\">>) = Len(dir) + 1
              /\ (dir \o <<"\\">>)[Len(dir) + 1] = "\\"
          BY <4>1
        <4>3. j = dir \o <<"\\">> \o name
          BY <1>2, <3>3 DEF JoinPath
        <4> HIDE DEF j
        <4> QED BY <3>3, <4>2, <4>3 DEF Separators
      <3> QED BY <3>1, <3>2, <3>3
    <2>2. PICK d \in {dir, dir \o <<"\\">>} :
            /\ j = d \o name /\ d \in Seq(S) /\ (d # << >> => d[Len(d)] \in Separators)
            /\ (dir = << >> => d = << >>)
      BY <2>1
    <2> HIDE DEF j
    <2>3. /\ LastSlash(j) = Len(d) /\ UpTo(j, Len(d)) = d
          /\ From(j, Len(d) + 1) = name /\ j \in Seq(S)
      BY <2>2, JoinedSlash, ConcatProperties
    <2>4. /\ t.directory = d /\ t.filename \o t.extension = name
          /\ t.extension # << >> => Len(d) > 0 /\ LastDot(t.extension) = 1
      BY <2>3, SplitFacts
    <2>5. Len(d) > 0 => dir # << >>
      BY <2>2
    <2> QED BY <1>2, <2>4, <2>5 DEF j, FoundAgain
  <1> QED BY <1>1, <1>2

-----------------------------------------------------------------------------
(* What was asked last and what was answered.                              *)
Asked ==
  /\ at \in Calls
  /\ at = "split" => arg \in Paths /\ answer = SplitPath(arg)
  /\ at = "rejoined" =>
       /\ arg \in Paths
       /\ answer = JoinPath(SplitPath(arg).directory,
                     SplitPath(arg).filename \o SplitPath(arg).extension)
  /\ at = "join" => \E d \in Paths, n \in FileNames :
                      arg = <<d, n>> /\ answer = JoinPath(d, n)
  /\ at = "resplit" => \E d \in Paths, n \in FileNames :
                         arg = <<d, n>> /\ answer = SplitPath(JoinPath(d, n))
  /\ at = "domain" => arg \in Urls /\ answer = Domain(arg)
  /\ at = "path" => arg \in Urls /\ answer = Path(arg)
  /\ at = "format" => arg \in Times /\ answer = Format(arg)
  /\ at = "parsed" => arg \in Times /\ answer = Parse(Format(arg))
  /\ at = "compared" => \E t, u \in Times :
       arg = <<t, u>> /\ answer = Less(Format(t), Format(u))
  /\ at = "filtered" => \E t, u \in Times :
       /\ arg = <<t, u>>
       /\ answer = [v \in Times |->
            IsInTimeRange(Printed(v), Format(t), Format(u))]
  /\ at = "checked" =>
       arg \in Times /\ answer = ValidateTimestamp(Format(arg))
  /\ at = "address" =>
       arg \in Addresses /\ answer = ValidateIP(WithDots(arg))

(* At the start nothing has been asked.                                    *)
LEMMA AskedInit == TextsInit => Asked
  BY DEF TextsInit, Asked, Calls

(* Every call keeps Asked: it is given the answer of the call before.      *)
LEMMA AskedStep == Asked /\ [TextsNext]_textsVars => Asked'
  <1> SUFFICES ASSUME Asked, [TextsNext]_textsVars PROVE Asked'
    OBVIOUS
  <1> USE DEF Asked, Calls, Calling
  <1>1. CASE UNCHANGED textsVars
    BY <1>1 DEF textsVars
  <1>2. CASE First
    BY <1>2 DEF First, Split, Join, ExtractDomain, ExtractPath,
       FormatTime, CheckAddress
  <1>3. CASE Second
    BY <1>3 DEF Second, Rejoin, Resplit, ParseBack, CheckFormatted,
       CompareWith, FilterBetween
  <1>4. CASE Forget
    BY <1>4 DEF Forget
  <1> QED BY <1>1, <1>2, <1>3, <1>4 DEF TextsNext

(* The answer is always that of the calls made on the argument.            *)
LEMMA Answers == TextsSpec => []Asked
  BY AskedInit, AskedStep, PTL DEF TextsSpec

(* splitPath and joinPath undo each other, for any paths and names         *)
(* (windows_utils.cpp:111-156).                                            *)
THEOREM PathsReturn == TextsSpec => []PathsComeBack
  <1> TextsTyped
    BY TextsAssumption
  <1>1. Asked => PathsComeBack
    <2> SUFFICES ASSUME Asked PROVE SplitComesBack /\ NamesAreFound
      BY DEF PathsComeBack
    <2> DEFINE S == Chars \cup {"\\"}
    <2>1. Paths \subseteq Seq(S)
      <3>1. Paths \subseteq Seq(Chars) /\ Chars \subseteq S
        BY DEF TextsTyped
      <3> QED BY <3>1, SeqMonotonic
    <2>2. \A n \in FileNames : n \in Seq(S) /\ \A i \in DOMAIN n : n[i] \notin Separators
      <3>1. \A n \in FileNames :
              n \in Seq(Chars) /\ \A i \in DOMAIN n : n[i] \notin Separators
        BY DEF TextsTyped, Separators
      <3>2. Chars \subseteq S
        OBVIOUS
      <3> HIDE DEF S
      <3> QED BY <3>1, <3>2, SeqMonotonic
    <2>3. "\\" \in S
      OBVIOUS
    <2> HIDE DEF S
    <2>4. SplitComesBack
      BY <2>1, SplitFacts, Rejoined DEF Asked, SplitComesBack
    <2>5. NamesAreFound
      <3> SUFFICES ASSUME at = "resplit" PROVE FoundAgain(answer, arg[1], arg[2])
        BY DEF NamesAreFound, FoundAgain
      <3>1. PICK d \in Paths, n \in FileNames :
              arg = <<d, n>> /\ answer = SplitPath(JoinPath(d, n))
        BY DEF Asked
      <3>2. d \in Seq(S) /\ n \in Seq(S) /\ \A i \in DOMAIN n : n[i] \notin Separators
        BY <2>1, <2>2
      <3>3. arg[1] = d /\ arg[2] = n
        BY <3>1
      <3>4. FoundAgain(answer, d, n)
        BY <2>3, <3>1, <3>2, SplitAgain
      <3> QED BY <3>3, <3>4
    <2> QED BY <2>4, <2>5
  <1> QED BY <1>1, Answers, PTL

-----------------------------------------------------------------------------
(* The part behind the scheme starts inside the url, or right behind it.   *)
LEMMA SchemeFacts ==
  ASSUME NEW S, NEW u \in Seq(S)
  PROVE  RestFrom(u) \in 1 .. Len(u) + 1
  <1> DEFINE f == [i \in 1 .. Len(u) |-> SubSeq(u, i, i + 2) = <<":", "/", "/">>]
             I == {i \in 1 .. Len(u) - 2 : f[i]}
  <1>1. SchemeAt(u) = IF I # {} THEN Min(I) ELSE 0
    BY DEF SchemeAt, SelectInSubSeq
  <1>2. I \in SUBSET (1 .. Len(u) - 2) /\ I \in SUBSET (1 .. Len(u)) /\ Len(u) \in Nat
    OBVIOUS
  <1> HIDE DEF I, f
  <1>3. SchemeAt(u) \in 0 .. Len(u) /\ (SchemeAt(u) # 0 => SchemeAt(u) <= Len(u) - 2)
    <2>1. CASE I = {}
      BY <1>1, <1>2, <2>1
    <2>2. CASE I # {}
      <3>1. Min(I) \in I
        BY <1>2, <2>2, Ends
      <3>2. Min(I) \in 1 .. Len(u) - 2
        BY <1>2, <3>1
      <3> QED BY <1>1, <1>2, <2>2, <3>2
    <2> QED BY <2>1, <2>2
  <1> QED BY <1>2, <1>3 DEF RestFrom

(* A text is the two parts it begins with and what comes behind them.      *)
LEMMA ThreeParts ==
  ASSUME NEW S, NEW s \in Seq(S), NEW x \in Seq(S), NEW y \in Seq(S),
         Len(x) + Len(y) <= Len(s),
         \A i \in 1 .. Len(x) : x[i] = s[i],
         \A i \in 1 .. Len(y) : y[i] = s[Len(x) + i]
  PROVE  s = x \o y \o From(s, Len(x) + Len(y) + 1)
  <1>1. PICK n \in 0 .. Len(s) : n = Len(x) + Len(y)
    OBVIOUS
  <1>2. /\ UpTo(s, n) \in Seq(S) /\ Len(UpTo(s, n)) = n
        /\ \A j \in 1 .. n : UpTo(s, n)[j] = s[j]
        /\ UpTo(s, n) \o From(s, n + 1) = s
    BY CutFacts
  <1>3. /\ x \o y \in Seq(S) /\ Len(x \o y) = n
        /\ \A j \in 1 .. n : (x \o y)[j] = IF j <= Len(x) THEN x[j] ELSE y[j - Len(x)]
    BY <1>1, ConcatProperties
  <1>4. ASSUME NEW j \in 1 .. n PROVE (x \o y)[j] = s[j]
    <2>1. CASE j <= Len(x)
      BY <1>3, <2>1
    <2>2. CASE ~(j <= Len(x))
      <3>1. j - Len(x) \in 1 .. Len(y) /\ Len(x) + (j - Len(x)) = j
        BY <1>1, <2>2
      <3> QED BY <1>3, <2>2, <3>1
    <2> QED BY <2>1, <2>2
  <1>5. UpTo(s, n) = x \o y
    BY <1>2, <1>3, <1>4, SeqEqual
  <1> QED BY <1>1, <1>2, <1>5

(* A url without a path, and one with the path at a position.              *)
UrlParts(u, domain, path) ==
  LET rest  == From(u, RestFrom(u))
      query == From(rest, Len(domain) + Len(path) + 1)
  IN  /\ "/" \notin {domain[i] : i \in 1 .. Len(domain)}
      /\ "?" \notin {path[i] : i \in 1 .. Len(path)}
      /\ \/ rest = domain /\ path = <<"/">>
         \/ /\ rest = domain \o path \o query
            /\ query # << >> => Head(query) = "?"

(* Where the path of a url ends, counted from either side.                 *)
LEMMA Spans ==
  ASSUME NEW n \in Nat, NEW r \in Nat, NEW a \in Nat, NEW b \in Nat, NEW e \in Int,
         NEW l \in Nat, e + 1 = r + a + b, e <= n, l = n - r + 1
  PROVE  /\ a + b <= l
         /\ \A i \in 1 .. b : a + i \in 1 .. n - r + 1 /\ i \in 1 .. e - (r + a) + 1
         /\ \A i \in 1 .. a : i \in 1 .. n - r + 1 /\ i \in 1 .. (r + a) - r
         /\ \A i \in Nat : r + (a + i) - 1 = (r + a) + i - 1
         /\ r + (a + b + 1) - 1 = e + 1
         /\ a + b + 1 \in 1 .. n - r + 1 => e < n
  OBVIOUS

(* The domain and the path cut a url into its parts, for every url.        *)
LEMMA UrlFacts ==
  ASSUME NEW S, NEW u \in Seq(S)
  PROVE  UrlParts(u, Domain(u), Path(u))
  <1>0. PICK r \in 1 .. Len(u) + 1 : r = RestFrom(u)
    BY SchemeFacts
  <1>1. PICK n \in Nat : n = Len(u)
    OBVIOUS
  <1> DEFINE slash  == Find("/", u, r)
             q      == Find("?", u, slash)
             rest   == From(u, r)
             domain == Domain(u)
             path   == Path(u)
             query  == From(rest, Len(domain) + Len(path) + 1)
  <1>2. IsFirstOf(slash, u, r, "/")
    BY FindFacts
  <1>3. /\ rest \in Seq(S) /\ Len(rest) = n - r + 1
        /\ \A j \in 1 .. n - r + 1 : rest[j] = u[r + j - 1]
    BY <1>1 DEF From
  <1>4. CASE slash = 0
    <2>1. path = <<"/">> /\ domain = rest
      BY <1>0, <1>4 DEF Path, Domain, From
    <2>2. \A j \in r .. Len(u) : u[j] # "/"
      BY <1>0, <1>2, <1>4 DEF IsFirstOf
    <2> HIDE DEF slash, rest, domain, path
    <2>3. ASSUME NEW i \in 1 .. Len(domain) PROVE domain[i] # "/"
      <3>1. i \in 1 .. n - r + 1 /\ r + i - 1 \in r .. Len(u)
        BY <1>0, <1>1, <1>3, <2>1
      <3> QED BY <1>3, <2>1, <2>2, <3>1
    <2>4. Len(path) = 1 /\ path[1] = "/"
      BY <2>1
    <2>5. "/" \notin {domain[i] : i \in 1 .. Len(domain)}
      BY <2>3
    <2>6. "?" \notin {path[i] : i \in 1 .. Len(path)}
      BY <2>4
    <2>7. From(u, RestFrom(u)) = domain /\ path = <<"/">>
      BY <1>0, <2>1 DEF rest
    <2> QED BY <2>5, <2>6, <2>7 DEF UrlParts, domain, path
  <1>5. CASE slash # 0
    <2>1. slash \in r .. n /\ \A j \in r .. slash - 1 : u[j] # "/"
      BY <1>0, <1>1, <1>2, <1>5 DEF IsFirstOf
    <2>2. IsFirstOf(q, u, slash, "?")
      BY <1>0, <2>1, FindFacts
    <2> DEFINE to == IF q = 0 THEN n ELSE q - 1
    <2>3. domain = SubSeq(u, r, slash - 1) /\ path = SubSeq(u, slash, to)
      BY <1>0, <1>1, <1>5 DEF Path, Domain
    <2> HIDE DEF slash, rest, domain, path
    <2>4. /\ to \in slash - 1 .. n /\ \A j \in slash .. to : u[j] # "?"
          /\ q # 0 => q = to + 1 /\ q \in 1 .. n /\ u[q] = "?"
          /\ q = 0 => to = n
      BY <1>0, <1>1, <2>1, <2>2 DEF IsFirstOf
    <2> HIDE DEF to, q
    <2>5. /\ domain \in Seq(S) /\ Len(domain) = slash - r
          /\ \A i \in 1 .. slash - r : domain[i] = u[r + i - 1]
      BY <1>0, <1>1, <2>1, <2>3
    <2>6. /\ path \in Seq(S) /\ Len(path) = to - slash + 1
          /\ \A i \in 1 .. to - slash + 1 : path[i] = u[slash + i - 1]
      BY <1>0, <1>1, <2>1, <2>3, <2>4
    <2>7. "/" \notin {domain[i] : i \in 1 .. Len(domain)}
      <3>1. \A i \in 1 .. slash - r : r + i - 1 \in r .. slash - 1
        BY <1>0, <2>1
      <3> QED BY <2>1, <2>5, <3>1
    <2>8. "?" \notin {path[i] : i \in 1 .. Len(path)}
      <3>1. \A i \in 1 .. to - slash + 1 : slash + i - 1 \in slash .. to
        BY <2>1, <2>4
      <3> QED BY <2>4, <2>6, <3>1
    <2>12. PICK a \in Nat : a = Len(domain) /\ slash = r + a
      BY <1>0, <2>1, <2>5
    <2>15. PICK e \in Int : e = to /\ slash - 1 <= e /\ e <= n
      BY <1>1, <2>1, <2>4
    <2>16. PICK l \in Nat : l = Len(rest) /\ l = n - r + 1
      BY <1>0, <1>1, <1>3
    <2>17. Len(path) = e - slash + 1
      BY <2>6, <2>15
    <2>13. PICK b \in Nat : b = Len(path) /\ e + 1 = r + a + b
      BY <1>0, <2>12, <2>15, <2>17
    <2>14. r \in Nat /\ e <= n /\ l = n - r + 1 /\ e + 1 = r + a + b
      BY <1>0, <1>1, <2>13, <2>15, <2>16
    <2>18. /\ a + b <= l
           /\ \A i \in 1 .. b : a + i \in 1 .. n - r + 1 /\ i \in 1 .. e - (r + a) + 1
           /\ \A i \in 1 .. a : i \in 1 .. n - r + 1 /\ i \in 1 .. (r + a) - r
           /\ \A i \in Nat : r + (a + i) - 1 = (r + a) + i - 1
           /\ r + (a + b + 1) - 1 = e + 1
           /\ a + b + 1 \in 1 .. n - r + 1 => e < n
      BY <2>14, Spans
    <2>9. rest = domain \o path \o query
      <3>1. Len(domain) + Len(path) <= Len(rest)
        BY <2>12, <2>13, <2>16, <2>18
      <3>2. ASSUME NEW i \in 1 .. Len(domain) PROVE domain[i] = rest[i]
        <4>1. i \in 1 .. slash - r /\ i \in 1 .. n - r + 1
          BY <2>12, <2>18
        <4> QED BY <1>3, <2>5, <4>1
      <3>3. ASSUME NEW i \in 1 .. Len(path) PROVE path[i] = rest[Len(domain) + i]
        <4>1. i \in Nat /\ a + i \in 1 .. n - r + 1 /\ i \in 1 .. to - slash + 1
          BY <2>12, <2>13, <2>15, <2>18
        <4>2. r + (a + i) - 1 = slash + i - 1
          BY <2>12, <2>18, <4>1
        <4>3. rest[a + i] = u[slash + i - 1]
          BY <1>3, <4>1, <4>2
        <4> QED BY <2>6, <2>12, <4>1, <4>3
      <3> QED BY <1>3, <2>5, <2>6, <3>1, <3>2, <3>3, ThreeParts
    <2>10. query # << >> => Head(query) = "?"
      <3>1. PICK m \in 0 .. Len(rest) : m = a + b
        BY <2>16, <2>18
      <3>2. query = From(rest, m + 1)
        BY <2>12, <2>13, <3>1
      <3> HIDE DEF query
      <3>3. /\ query \in Seq(S) /\ Len(query) = Len(rest) - m
            /\ \A j \in 1 .. Len(rest) - m : query[j] = rest[m + j]
        BY <1>3, <3>2, CutFacts
      <3> SUFFICES ASSUME query # << >> PROVE Head(query) = "?"
        OBVIOUS
      <3>4. Len(query) > 0 /\ Head(query) = query[1]
        BY <3>3
      <3>5. 1 \in 1 .. Len(rest) - m /\ m + 1 \in 1 .. l
        BY <2>16, <3>3, <3>4
      <3>6. query[1] = u[r + (a + b + 1) - 1]
        BY <1>3, <2>14, <3>1, <3>3, <3>5
      <3>7. to + 1 = r + (a + b + 1) - 1 /\ e < n
        BY <2>14, <2>15, <2>18, <3>1, <3>5
      <3>8. q # 0
        BY <2>4, <2>15, <3>7
      <3> QED BY <2>4, <3>4, <3>6, <3>7, <3>8
    <2>11. From(u, RestFrom(u)) = rest
      BY <1>0 DEF rest
    <2> QED BY <2>7, <2>8, <2>9, <2>10, <2>11 DEF UrlParts, domain, path
  <1> QED BY <1>4, <1>5

(* A relative url has no domain.                                           *)
LEMMA RelativeFacts ==
  ASSUME NEW S, NEW u \in Seq(S), IsRelative(u)
  PROVE  Domain(u) = << >>
  <1>1. RestFrom(u) = 1
    BY DEF IsRelative, RestFrom
  <1> DEFINE slash == Find("/", u, 1)
  <1>2. Len(u) >= 1 /\ u[1] = "/"
    <2>1. Len(<<"/">>) <= Len(u) /\ SubSeq(<<"/">>, 1, Len(<<"/">>)) = SubSeq(u, 1, Len(<<"/">>))
      BY DEF IsRelative, IsPrefix
    <2>2. Len(<<"/">>) = 1 /\ <<"/">>[1] = "/"
      OBVIOUS
    <2>3. SubSeq(<<"/">>, 1, 1)[1] = "/" /\ SubSeq(u, 1, 1)[1] = u[1]
      BY <2>1, <2>2
    <2> QED BY <2>1, <2>2, <2>3
  <1>3. 1 \in 1 .. Len(u) + 1 /\ 1 \in 1 .. Len(u)
    BY <1>2
  <1>4. IsFirstOf(slash, u, 1, "/")
    BY <1>3, FindFacts
  <1>5. slash = 1
    <2> HIDE DEF slash
    <2> QED BY <1>2, <1>3, <1>4 DEF IsFirstOf
  <1>6. Domain(u) = SubSeq(u, 1, 0)
    BY <1>1, <1>5 DEF Domain
  <1> QED BY <1>6

(* A url is the scheme, the domain, the path and the query, for any url    *)
(* (analyzer.cpp:345-384).                                                 *)
THEOREM UrlsAreCut == TextsSpec => []UrlIsItsParts
  <1> TextsTyped
    BY TextsAssumption
  <1>1. Asked => UrlIsItsParts
    <2> DEFINE domain == IF IsRelative(arg) THEN << >> ELSE Domain(arg)
    <2> SUFFICES ASSUME Asked, at = "path" PROVE UrlParts(arg, domain, answer)
      BY DEF UrlIsItsParts, UrlParts
    <2>1. arg \in Seq(Chars) /\ answer = Path(arg)
      BY DEF Asked, TextsTyped
    <2>2. domain = Domain(arg)
      BY <2>1, RelativeFacts
    <2> HIDE DEF domain
    <2> QED BY <2>1, <2>2, UrlFacts
  <1> QED BY <1>1, Answers, PTL

-----------------------------------------------------------------------------
(* A set that holds 0 and, with a number, its successor, holds all of Nat. *)
LEMMA Induct ==
  ASSUME NEW G, 0 \in G, \A n \in Nat : n \in G => n + 1 \in G
  PROVE  Nat \subseteq G
  <1> SUFFICES ASSUME Nat \ G # {} PROVE FALSE
    OBVIOUS
  <1>1. PICK x \in Nat \ G : \A y \in Nat \ G : x <= y
    BY Least
  <1>2. x # 0 /\ x - 1 \in Nat
    BY <1>1
  <1>3. x - 1 \in G
    BY <1>1, <1>2
  <1> QED BY <1>1, <1>2, <1>3

(* What begins with b and goes on with the functions of step exists, up to *)
(* any length.                                                             *)
GoesOn(n, S, b, step) ==
  \E f \in [0 .. n -> S] : f[0] = b /\ \A k \in 1 .. n : f[k] = step[k][f[k - 1]]

(* A function that is given by its first value and a step exists.          *)
LEMMA RecursionExists ==
  ASSUME NEW n \in Nat, NEW S, NEW b \in S, NEW step \in [1 .. n -> [S -> S]]
  PROVE  GoesOn(n, S, b, step)
  <1> DEFINE Goes(f, m) == f[0] = b /\ \A k \in 1 .. m : f[k] = step[k][f[k - 1]]
             G == {m \in Nat : m <= n => \E f \in [0 .. m -> S] : Goes(f, m)}
  <1>1. 0 \in G
    <2> DEFINE f == [i \in 0 .. 0 |-> b]
    <2>1. f \in [0 .. 0 -> S] /\ Goes(f, 0)
      OBVIOUS
    <2> HIDE DEF f
    <2> QED BY <2>1
  <1>2. ASSUME NEW m \in Nat, m \in G PROVE m + 1 \in G
    <2> SUFFICES ASSUME m + 1 <= n PROVE \E f \in [0 .. m + 1 -> S] : Goes(f, m + 1)
      OBVIOUS
    <2>1. PICK g \in [0 .. m -> S] : Goes(g, m)
      BY <1>2
    <2> DEFINE f == [i \in 0 .. m + 1 |-> IF i <= m THEN g[i] ELSE step[m + 1][g[m]]]
    <2>2. m \in 0 .. m /\ m + 1 \in 1 .. n
      OBVIOUS
    <2>3. step[m + 1] \in [S -> S] /\ g[m] \in S
      BY <2>2
    <2>4. step[m + 1][g[m]] \in S
      BY <2>3
    <2>5. f \in [0 .. m + 1 -> S]
      BY <2>4
    <2>6. f[0] = b
      BY <2>1
    <2>7. ASSUME NEW k \in 1 .. m + 1 PROVE f[k] = step[k][f[k - 1]]
      <3>1. k - 1 \in 0 .. m /\ f[k - 1] = g[k - 1]
        OBVIOUS
      <3>2. CASE k <= m
        <4>1. k \in 1 .. m /\ f[k] = g[k]
          BY <3>2
        <4> QED BY <2>1, <3>1, <4>1
      <3>3. CASE ~(k <= m)
        <4>1. k = m + 1 /\ k - 1 = m
          BY <3>3
        <4> QED BY <3>1, <4>1
      <3> QED BY <3>2, <3>3
    <2> HIDE DEF f
    <2> QED BY <2>5, <2>6, <2>7
  <1>3. Nat \subseteq G
    <2> HIDE DEF G
    <2> QED BY <1>1, <1>2, Induct
  <1>4. n \in G
    BY <1>3
  <1> QED BY <1>4 DEF GoesOn

-----------------------------------------------------------------------------
(* The text of an address: its fields with dots between them.              *)
Dotted(text, fields, n) ==
  /\ text = [i \in 1 .. n |->
       IF i = 1 THEN fields[1] ELSE text[i - 1] \o <<".">> \o fields[i]]

(* The function by which WithDots joins the fields exists.                 *)
LEMMA DottedExists ==
  ASSUME NEW C, NEW fields \in Seq(Seq(C)), fields # << >>
  PROVE  \E text : Dotted(text, fields, Len(fields))
  <1> DEFINE n == Len(fields)
             D == C \cup {"."}
             step == [k \in 1 .. n - 1 |-> [s \in Seq(D) |-> s \o <<".">> \o fields[k + 1]]]
  <1>1. n \in Nat \ {0}
    OBVIOUS
  <1>0. \A k \in 1 .. n : fields[k] \in Seq(D)
    <2>1. Seq(C) \subseteq Seq(D)
      <3> SUFFICES ASSUME NEW s \in Seq(C) PROVE s \in Seq(D)
        OBVIOUS
      <3> QED OBVIOUS
    <2> QED BY <2>1
  <1>2. step \in [1 .. n - 1 -> [Seq(D) -> Seq(D)]]
    <2>1. ASSUME NEW k \in 1 .. n - 1, NEW s \in Seq(D)
          PROVE  s \o <<".">> \o fields[k + 1] \in Seq(D)
      <3>1. k + 1 \in 1 .. n
        BY <1>1
      <3>2. fields[k + 1] \in Seq(D)
        BY <1>0, <3>1
      <3>3. <<".">> \in Seq(D)
        OBVIOUS
      <3> HIDE DEF D, n
      <3> QED BY <3>2, <3>3
    <2> HIDE DEF n, D
    <2> QED BY <2>1
  <1>3. n - 1 \in Nat /\ fields[1] \in Seq(D)
    BY <1>0, <1>1
  <1>4. PICK f \in [0 .. n - 1 -> Seq(D)] :
          f[0] = fields[1] /\ \A k \in 1 .. n - 1 : f[k] = step[k][f[k - 1]]
    <2> HIDE DEF n, step, D
    <2>1. GoesOn(n - 1, Seq(D), fields[1], step)
      BY <1>2, <1>3, RecursionExists
    <2> QED BY <2>1 DEF GoesOn
  <1> DEFINE text == [i \in 1 .. n |-> f[i - 1]]
  <1>5. ASSUME NEW i \in 1 .. n
        PROVE  text[i] = IF i = 1 THEN fields[1] ELSE text[i - 1] \o <<".">> \o fields[i]
    <2>1. CASE i = 1
      BY <1>4, <2>1
    <2>2. CASE i # 1
      <3>1. i - 1 \in 1 .. n - 1 /\ i - 1 \in 1 .. n /\ i - 1 - 1 \in 0 .. n - 1 /\ (i - 1) + 1 = i
        BY <1>1, <2>2
      <3>2. text[i] = f[i - 1] /\ text[i - 1] = f[i - 1 - 1]
        BY <3>1
      <3>3. f[i - 1] = step[i - 1][f[i - 1 - 1]] /\ f[i - 1 - 1] \in Seq(D)
        BY <1>4, <3>1
      <3>4. step[i - 1][f[i - 1 - 1]] = f[i - 1 - 1] \o <<".">> \o fields[(i - 1) + 1]
        BY <3>1, <3>3
      <3> HIDE DEF text, step, n, D
      <3> QED BY <2>2, <3>1, <3>2, <3>3, <3>4
    <2> QED BY <2>1, <2>2
  <1>6. Dotted(text, fields, n)
    <2> DEFINE other == [i \in 1 .. n |->
                 IF i = 1 THEN fields[1] ELSE text[i - 1] \o <<".">> \o fields[i]]
    <2>1. \A i \in 1 .. n : text[i] = other[i]
      BY <1>5
    <2> HIDE DEF other
    <2>2. text = other
      BY <2>1 DEF other
    <2> HIDE DEF text
    <2> QED BY <2>2 DEF Dotted, other
  <1> HIDE DEF text
  <1> QED BY <1>6

(* What stands before the last field does too, whatever n is.              *)
LEMMA DottedFacts ==
  ASSUME NEW C, NEW fields \in Seq(Seq(C)), fields # << >>
  PROVE  \E text : /\ WithDots(fields) = text[Len(fields)]
                   /\ text[1] = fields[1]
                   /\ \A i \in 2 .. Len(fields) : text[i] = text[i - 1] \o <<".">> \o fields[i]
                   /\ \A i \in 1 .. Len(fields) : text[i] \in Seq(C \cup {"."})
  <1> DEFINE n == Len(fields)
             text == CHOOSE t : Dotted(t, fields, n)
  <1>1. Dotted(text, fields, n)
    BY DottedExists
  <1>2. WithDots(fields) = text[n]
    BY DEF WithDots, Dotted
  <1> HIDE DEF text
  <1>3. n \in Nat \ {0}
    OBVIOUS
  <1>4. \A i \in 1 .. n : text[i] =
          IF i = 1 THEN fields[1] ELSE text[i - 1] \o <<".">> \o fields[i]
    BY <1>1 DEF Dotted
  <1> DEFINE D == C \cup {"."}
             G == {m \in Nat : m + 1 <= n => text[m + 1] \in Seq(D)}
  <1>0. \A k \in 1 .. n : fields[k] \in Seq(D)
    <2>1. Seq(C) \subseteq Seq(D)
      <3> SUFFICES ASSUME NEW s \in Seq(C) PROVE s \in Seq(D)
        OBVIOUS
      <3> QED OBVIOUS
    <2> QED BY <2>1
  <1>5. 0 \in G
    BY <1>0, <1>3, <1>4
  <1>6. ASSUME NEW m \in Nat, m \in G PROVE m + 1 \in G
    <2> SUFFICES ASSUME (m + 1) + 1 <= n PROVE text[(m + 1) + 1] \in Seq(D)
      OBVIOUS
    <2>1. /\ (m + 1) + 1 \in 1 .. n /\ (m + 1) + 1 # 1 /\ m + 1 <= n
          /\ ((m + 1) + 1) - 1 = m + 1
      BY <1>3
    <2>2. text[(m + 1) + 1] = text[m + 1] \o <<".">> \o fields[(m + 1) + 1]
      BY <1>4, <2>1
    <2>3. fields[(m + 1) + 1] \in Seq(D) /\ text[m + 1] \in Seq(D) /\ <<".">> \in Seq(D)
      BY <1>0, <1>6, <2>1
    <2> HIDE DEF D, n
    <2> QED BY <2>2, <2>3
  <1>7. Nat \subseteq G
    <2> HIDE DEF G
    <2> QED BY <1>5, <1>6, Induct
  <1>8. ASSUME NEW i \in 1 .. n PROVE text[i] \in Seq(D)
    <2>1. i - 1 \in Nat /\ (i - 1) + 1 = i
      OBVIOUS
    <2>2. i - 1 \in G
      BY <1>7, <2>1
    <2> QED BY <2>1, <2>2
  <1>9. text[1] = fields[1]
    BY <1>3, <1>4
  <1>10. ASSUME NEW i \in 2 .. n PROVE text[i] = text[i - 1] \o <<".">> \o fields[i]
    <2>1. i \in 1 .. n /\ i # 1
      OBVIOUS
    <2> QED BY <1>4, <2>1
  <1> QED BY <1>2, <1>8, <1>9, <1>10

-----------------------------------------------------------------------------
(* A text with a mark in it, and its parts.                                *)
Joined(z, x, c, y) ==
  /\ Len(z) = Len(x) + 1 + Len(y)
  /\ z[Len(x) + 1] = c /\ Len(x) + 1 \in 1 .. Len(z)
  /\ UpTo(z, Len(x)) = x
  /\ From(z, Len(x) + 2) = y
  /\ \A i \in 1 .. Len(x) : z[i] = x[i]
  /\ \A i \in 1 .. Len(y) : z[Len(x) + 1 + i] = y[i]

(* What stands where in two texts with a character between them.           *)
LEMMA JoinedFacts ==
  ASSUME NEW S, NEW x \in Seq(S), NEW y \in Seq(S), NEW c \in S
  PROVE  /\ x \o <<c>> \o y \in Seq(S)
         /\ Joined(x \o <<c>> \o y, x, c, y)
  <1> DEFINE z == x \o <<c>> \o y
  <1>1. <<c>> \in Seq(S) /\ Len(<<c>>) = 1 /\ <<c>>[1] = c
    OBVIOUS
  <1> DEFINE d == <<c>>
  <1> HIDE DEF d
  <1>2. /\ x \o d \in Seq(S) /\ Len(x \o d) = Len(x) + 1
        /\ \A i \in 1 .. Len(x) : (x \o d)[i] = x[i]
        /\ (x \o d)[Len(x) + 1] = c
    BY <1>1 DEF d
  <1> DEFINE xd == x \o d
  <1> HIDE DEF xd
  <1>3. /\ xd \in Seq(S) /\ Len(xd) = Len(x) + 1
        /\ \A i \in 1 .. Len(x) : xd[i] = x[i]
        /\ xd[Len(x) + 1] = c
    BY <1>2 DEF xd
  <1>4. /\ xd \o y \in Seq(S) /\ Len(xd \o y) = Len(xd) + Len(y)
        /\ \A i \in 1 .. Len(xd) : (xd \o y)[i] = xd[i]
        /\ \A i \in 1 .. Len(y) : (xd \o y)[Len(xd) + i] = y[i]
    BY <1>3
  <1>5. z = xd \o y
    BY DEF d, xd
  <1> HIDE DEF z
  <1>6. /\ z \in Seq(S) /\ Len(z) = Len(x) + 1 + Len(y)
        /\ \A i \in 1 .. Len(x) : z[i] = x[i]
        /\ z[Len(x) + 1] = c /\ Len(x) + 1 \in 1 .. Len(z)
        /\ \A i \in 1 .. Len(y) : z[Len(x) + 1 + i] = y[i]
    BY <1>3, <1>4, <1>5
  <1>7. PICK a \in Nat : a = Len(x)
    OBVIOUS
  <1>8. PICK b \in 0 .. Len(z) : b = a
    BY <1>6, <1>7
  <1>9. PICK e \in 0 .. Len(z) : e = a + 1
    BY <1>6, <1>7
  <1>10. UpTo(z, a) = x
    <2>1. /\ UpTo(z, b) \in Seq(S) /\ Len(UpTo(z, b)) = b
          /\ \A j \in 1 .. b : UpTo(z, b)[j] = z[j]
      BY <1>6, CutFacts
    <2> DEFINE u == UpTo(z, b)
    <2> HIDE DEF u
    <2>2. u \in Seq(S) /\ Len(u) = Len(x) /\ \A j \in 1 .. Len(x) : u[j] = x[j]
      BY <1>6, <1>7, <1>8, <2>1 DEF u
    <2>3. u = x
      BY <2>2, SeqEqual
    <2> QED BY <1>8, <2>3 DEF u
  <1>11. From(z, a + 2) = y
    <2>1. /\ From(z, e + 1) \in Seq(S) /\ Len(From(z, e + 1)) = Len(z) - e
          /\ \A j \in 1 .. Len(z) - e : From(z, e + 1)[j] = z[e + j]
      BY <1>6, CutFacts
    <2> DEFINE u == From(z, e + 1)
    <2> HIDE DEF u
    <2>2. u \in Seq(S) /\ Len(u) = Len(y) /\ \A j \in 1 .. Len(y) : u[j] = y[j]
      BY <1>6, <1>7, <1>9, <2>1 DEF u
    <2>3. u = y
      BY <2>2, SeqEqual
    <2>4. e + 1 = a + 2
      BY <1>9
    <2> QED BY <2>3, <2>4 DEF u
  <1>12. Joined(z, x, c, y)
    BY <1>6, <1>7, <1>10, <1>11 DEF Joined
  <1> QED BY <1>6, <1>12 DEF z

(* The mark of an address is a dot.                                        *)
Pieces(z, x, y) == Joined(z, x, ".", y)

(* The same with a dot between them.                                       *)
LEMMA PiecesFacts ==
  ASSUME NEW S, NEW x \in Seq(S), NEW y \in Seq(S), "." \in S
  PROVE  /\ x \o <<".">> \o y \in Seq(S)
         /\ Pieces(x \o <<".">> \o y, x, y)
  BY JoinedFacts DEF Pieces

(* A part that ends where x does, or earlier, is the same part of x.       *)
SamePart(z, x, m, n) == SubSeq(z, m, n) = SubSeq(x, m, n)

(* A part of the first text is the same part of the whole.                 *)
LEMMA PartOfFirst ==
  ASSUME NEW S, NEW z \in Seq(S), NEW x \in Seq(S), NEW y \in Seq(S), Pieces(z, x, y),
         NEW m \in Nat, NEW n \in Nat, 1 <= m, n <= Len(x)
  PROVE  SamePart(z, x, m, n)
  <1>1. Len(x) <= Len(z)
    BY DEF Pieces, Joined
  <1>2. \A i \in m .. n : z[i] = x[i]
    BY DEF Pieces, Joined
  <1> DEFINE u == SubSeq(z, m, n)
             v == SubSeq(x, m, n)
  <1>3. /\ u \in Seq(S) /\ Len(u) = (IF m <= n THEN n - m + 1 ELSE 0)
        /\ \A i \in 1 .. n - m + 1 : u[i] = z[m + i - 1]
    BY <1>1
  <1>4. /\ v \in Seq(S) /\ Len(v) = (IF m <= n THEN n - m + 1 ELSE 0)
        /\ \A i \in 1 .. n - m + 1 : v[i] = x[m + i - 1]
    OBVIOUS
  <1> HIDE DEF u, v
  <1>5. \A i \in 1 .. n - m + 1 : m + i - 1 \in m .. n
    OBVIOUS
  <1>6. \A i \in 1 .. Len(u) : u[i] = v[i]
    BY <1>2, <1>3, <1>4, <1>5
  <1>7. u = v
    BY <1>3, <1>4, <1>6, SeqEqual
  <1> QED BY <1>7 DEF u, v, SamePart

NoDot(s) == \A i \in 1 .. Len(s) : s[i] # "."

(* The last dot is in one place.                                           *)
LEMMA LastField ==
  ASSUME NEW S, NEW x \in Seq(S), NEW y \in Seq(S), NEW p \in Seq(S), NEW q \in Seq(S),
         NoDot(y), NoDot(q), NEW z, Pieces(z, x, y), Pieces(z, p, q)
  PROVE  x = p /\ y = q
  <1>1. PICK a \in Nat : a = Len(x)
    OBVIOUS
  <1>2. PICK b \in Nat : b = Len(p)
    OBVIOUS
  <1>9. PICK l \in Nat : l = Len(y)
    OBVIOUS
  <1>10. PICK m \in Nat : m = Len(q)
    OBVIOUS
  <1>3. l = Len(y) /\ Len(z) = a + 1 + l
    BY <1>1, <1>9 DEF Pieces, Joined
  <1>4. m = Len(q) /\ Len(z) = b + 1 + m
    BY <1>2, <1>10 DEF Pieces, Joined
  <1>5. z[a + 1] = "." /\ z[b + 1] = "."
    BY <1>1, <1>2 DEF Pieces, Joined
  <1>6. ASSUME a < b PROVE FALSE
    <2>1. PICK i \in 1 .. l : a + 1 + i = b + 1
      <3>1. b - a \in 1 .. l /\ a + 1 + (b - a) = b + 1
        BY <1>3, <1>4, <1>6
      <3> QED BY <3>1
    <2>2. z[a + 1 + i] = y[i] /\ y[i] # "."
      BY <1>1, <1>3, <2>1 DEF Pieces, Joined, NoDot
    <2> QED BY <1>5, <2>1, <2>2
  <1>7. ASSUME b < a PROVE FALSE
    <2>1. PICK i \in 1 .. m : b + 1 + i = a + 1
      <3>1. a - b \in 1 .. m /\ b + 1 + (a - b) = a + 1
        BY <1>3, <1>4, <1>7
      <3> QED BY <3>1
    <2>2. z[b + 1 + i] = q[i] /\ q[i] # "."
      BY <1>2, <1>4, <2>1 DEF Pieces, Joined, NoDot
    <2> QED BY <1>5, <2>1, <2>2
  <1>8. Len(x) = Len(p)
    BY <1>1, <1>2, <1>6, <1>7
  <1> QED BY <1>8 DEF Pieces, Joined

-----------------------------------------------------------------------------
(* An octet has figures only.                                              *)
LEMMA OctetHasNoDot ==
  ASSUME NEW S, NEW g \in Seq(S), IsOctet(g)
  PROVE  NoDot(g)
  <1>1. "." \notin Digits
    <2>1. ASSUME NEW d \in 0 .. 9 PROVE Digit[d] # "."
      <3>1. d = 0 \/ d = 1 \/ d = 2 \/ d = 3 \/ d = 4 \/ d = 5 \/ d = 6 \/ d = 7 \/ d = 8 \/ d = 9
        OBVIOUS
      <3> QED BY <3>1 DEF Digit
    <2> QED BY <2>1 DEF Digits
  <1>2. ASSUME NEW i \in 1 .. Len(g) PROVE g[i] \in Digits
    <2>1. g[i] \in Range(g)
      BY DEF Range
    <2> QED BY <2>1 DEF IsOctet
  <1> QED BY <1>1, <1>2 DEF NoDot

(* Up to a position there is what is before a dot, and what is after it.   *)
LEMMA CutAtDot ==
  ASSUME NEW S, NEW s \in Seq(S), "." \in S, NEW a \in 1 .. Len(s), s[a] = ".",
         NEW b \in a + 1 .. Len(s) + 1
  PROVE  /\ UpTo(s, a - 1) \in Seq(S) /\ SubSeq(s, a + 1, b - 1) \in Seq(S)
         /\ UpTo(s, b - 1) \in Seq(S)
         /\ Pieces(UpTo(s, b - 1), UpTo(s, a - 1), SubSeq(s, a + 1, b - 1))
  <1> DEFINE u == UpTo(s, a - 1)
             v == SubSeq(s, a + 1, b - 1)
             w == UpTo(s, b - 1)
  <1>1. PICK l \in Nat : l = Len(s)
    OBVIOUS
  <1>2. /\ u \in Seq(S) /\ Len(u) = a - 1 /\ \A i \in 1 .. a - 1 : u[i] = s[i]
    <2>1. /\ SubSeq(s, 1, a - 1) \in Seq(S) /\ Len(SubSeq(s, 1, a - 1)) = a - 1
          /\ \A i \in 1 .. a - 1 : SubSeq(s, 1, a - 1)[i] = s[1 + i - 1]
      BY <1>1
    <2>2. \A i \in 1 .. a - 1 : 1 + i - 1 = i
      OBVIOUS
    <2> QED BY <2>1, <2>2 DEF UpTo
  <1>3. /\ w \in Seq(S) /\ Len(w) = b - 1 /\ \A i \in 1 .. b - 1 : w[i] = s[i]
    <2>1. /\ SubSeq(s, 1, b - 1) \in Seq(S) /\ Len(SubSeq(s, 1, b - 1)) = b - 1
          /\ \A i \in 1 .. b - 1 : SubSeq(s, 1, b - 1)[i] = s[1 + i - 1]
      BY <1>1
    <2>2. \A i \in 1 .. b - 1 : 1 + i - 1 = i
      OBVIOUS
    <2> QED BY <2>1, <2>2 DEF UpTo
  <1>4. /\ v \in Seq(S) /\ Len(v) = b - a - 1 /\ \A i \in 1 .. b - a - 1 : v[i] = s[a + i]
    <2>1. /\ v \in Seq(S) /\ Len(v) = (IF a + 1 <= b - 1 THEN (b - 1) - (a + 1) + 1 ELSE 0)
          /\ \A i \in 1 .. (b - 1) - (a + 1) + 1 : v[i] = s[(a + 1) + i - 1]
      BY <1>1
    <2>2. \A i \in 1 .. b - a - 1 : (a + 1) + i - 1 = a + i /\ i \in 1 .. (b - 1) - (a + 1) + 1
      OBVIOUS
    <2>3. (IF a + 1 <= b - 1 THEN (b - 1) - (a + 1) + 1 ELSE 0) = b - a - 1
      OBVIOUS
    <2> HIDE DEF v
    <2> QED BY <2>1, <2>2, <2>3
  <1> HIDE DEF u, v, w
  <1> DEFINE z == u \o <<".">> \o v
  <1>5. z \in Seq(S) /\ Pieces(z, u, v)
    BY <1>2, <1>4, PiecesFacts
  <1> HIDE DEF z
  <1>6. Len(z) = Len(w)
    BY <1>2, <1>3, <1>4, <1>5 DEF Pieces, Joined
  <1>7. ASSUME NEW i \in 1 .. Len(w) PROVE z[i] = w[i]
    <2>1. CASE i < a
      BY <1>2, <1>3, <1>5, <2>1 DEF Pieces, Joined
    <2>2. CASE i = a
      <3>1. Len(u) + 1 = a /\ z[Len(u) + 1] = "." /\ w[i] = s[i]
        BY <1>2, <1>3, <1>5 DEF Pieces, Joined
      <3> QED BY <2>2, <3>1
    <2>3. CASE i > a
      <3>1. PICK j \in 1 .. b - a - 1 : i = a + j
        <4>1. i - a \in 1 .. b - a - 1 /\ i = a + (i - a)
          BY <1>3, <2>3
        <4> QED BY <4>1
      <3>2. Len(u) + 1 = a /\ j \in 1 .. Len(v)
        BY <1>2, <1>4
      <3>3. z[a + j] = v[j]
        BY <1>5, <3>2 DEF Pieces, Joined
      <3>4. v[j] = s[a + j] /\ w[i] = s[i]
        BY <1>3, <1>4
      <3> QED BY <3>1, <3>3, <3>4
    <2> QED BY <1>3, <2>1, <2>2, <2>3
  <1>8. z = w
    BY <1>3, <1>5, <1>6, <1>7, SeqEqual
  <1> QED BY <1>2, <1>3, <1>4, <1>5, <1>8 DEF u, v, w

(* A text joined with a dot has one.                                       *)
LEMMA PieceHasDot ==
  ASSUME NEW z, NEW x, NEW y, Pieces(z, x, y)
  PROVE  ~NoDot(z)
  BY DEF Pieces, Joined, NoDot

(* Four octets with dots between them are found, each where it is.         *)
LEMMA FourAreFound ==
  ASSUME NEW S, "." \in S, NEW f1 \in Seq(S), NEW f2 \in Seq(S), NEW f3 \in Seq(S),
         NEW f4 \in Seq(S), NEW t2 \in Seq(S), NEW t3 \in Seq(S), NEW w \in Seq(S),
         Pieces(t2, f1, f2), Pieces(t3, t2, f3), Pieces(w, t3, f4),
         IsOctet(f1), IsOctet(f2), IsOctet(f3), IsOctet(f4)
  PROVE  ValidateIP(w)
  <1>1. PICK a \in Nat : a = Len(f1)
    OBVIOUS
  <1>2. PICK b \in Nat : b = Len(t2)
    OBVIOUS
  <1>3. PICK c \in Nat : c = Len(t3)
    OBVIOUS
  <1>4. PICK l \in Nat : l = Len(w)
    OBVIOUS
  <1>5. a + 1 <= b /\ b + 1 <= c /\ c + 1 <= l
    <2>1. Len(f2) \in Nat /\ Len(f3) \in Nat /\ Len(f4) \in Nat
      OBVIOUS
    <2> QED BY <1>1, <1>2, <1>3, <1>4, <2>1 DEF Pieces, Joined
  <1>6. t2[a + 1] = "." /\ t3[b + 1] = "." /\ w[c + 1] = "."
    BY <1>1, <1>2, <1>3 DEF Pieces, Joined
  <1>7. t3[a + 1] = "." /\ w[a + 1] = "." /\ w[b + 1] = "."
    <2>1. a + 1 \in 1 .. Len(t2) /\ a + 1 \in 1 .. Len(t3) /\ b + 1 \in 1 .. Len(t3)
      BY <1>2, <1>3, <1>5
    <2> QED BY <1>6, <2>1 DEF Pieces, Joined
  <1> DEFINE i == a + 1
             j == b + 1
             k == c + 1
             dots == {d \in 1 .. Len(w) : w[d] = "."}
  <1>8. i \in dots /\ j \in dots /\ k \in dots
    BY <1>4, <1>5, <1>6, <1>7
  <1>9. /\ i - 1 = a /\ j - 1 = b /\ k - 1 = c
        /\ i + 1 = a + 2 /\ j + 1 = b + 2 /\ k + 1 = c + 2
    OBVIOUS
  <1>10. UpTo(w, i - 1) = f1
    <2>0. 1 \in Nat /\ 1 <= 1 /\ a <= Len(t3) /\ a <= Len(t2)
      BY <1>2, <1>3, <1>5
    <2>1. SamePart(w, t3, 1, a)
      BY <2>0, PartOfFirst
    <2>2. SamePart(t3, t2, 1, a)
      BY <2>0, PartOfFirst
    <2>3. SubSeq(t2, 1, a) = f1
      BY <1>1 DEF Pieces, Joined, UpTo
    <2> QED BY <1>9, <2>1, <2>2, <2>3 DEF UpTo, SamePart
  <1>11. SubSeq(w, i + 1, j - 1) = f2
    <2>0. a + 2 \in Nat /\ 1 <= a + 2 /\ b <= Len(t3) /\ b <= Len(t2)
      BY <1>2, <1>3, <1>5
    <2>1. SamePart(w, t3, a + 2, b)
      BY <2>0, PartOfFirst
    <2>2. SamePart(t3, t2, a + 2, b)
      BY <2>0, PartOfFirst
    <2>3. SubSeq(t2, a + 2, b) = f2
      BY <1>1, <1>2 DEF Pieces, Joined, From
    <2> QED BY <1>9, <2>1, <2>2, <2>3 DEF SamePart
  <1>12. SubSeq(w, j + 1, k - 1) = f3
    <2>0. b + 2 \in Nat /\ 1 <= b + 2 /\ c <= Len(t3)
      BY <1>3
    <2>1. SamePart(w, t3, b + 2, c)
      BY <2>0, PartOfFirst
    <2>2. SubSeq(t3, b + 2, c) = f3
      BY <1>2, <1>3 DEF Pieces, Joined, From
    <2> QED BY <1>9, <2>1, <2>2 DEF SamePart
  <1>13. From(w, k + 1) = f4
    BY <1>3, <1>9 DEF Pieces, Joined
  <1> HIDE DEF i, j, k, dots
  <1>14. \E x, y, z \in dots :
           /\ IsOctet(UpTo(w, x - 1)) /\ IsOctet(SubSeq(w, x + 1, y - 1))
           /\ IsOctet(SubSeq(w, y + 1, z - 1)) /\ IsOctet(From(w, z + 1))
    <2>1. /\ IsOctet(UpTo(w, i - 1)) /\ IsOctet(SubSeq(w, i + 1, j - 1))
          /\ IsOctet(SubSeq(w, j + 1, k - 1)) /\ IsOctet(From(w, k + 1))
      BY <1>10, <1>11, <1>12, <1>13
    <2> QED BY <1>8, <2>1
  <1> QED BY <1>14 DEF ValidateIP, dots

(* What the pattern accepts is cut at three dots.                          *)
LEMMA FourAreCut ==
  ASSUME NEW S, "." \in S, NEW w \in Seq(S), ValidateIP(w)
  PROVE  \E g1, g2, g3, g4, t2, t3 \in Seq(S) :
           /\ IsOctet(g1) /\ IsOctet(g2) /\ IsOctet(g3) /\ IsOctet(g4)
           /\ Pieces(t2, g1, g2) /\ Pieces(t3, t2, g3) /\ Pieces(w, t3, g4)
  <1> DEFINE dots == {d \in 1 .. Len(w) : w[d] = "."}
  <1>1. PICK i \in dots, j \in dots, k \in dots :
           /\ IsOctet(UpTo(w, i - 1)) /\ IsOctet(SubSeq(w, i + 1, j - 1))
           /\ IsOctet(SubSeq(w, j + 1, k - 1)) /\ IsOctet(From(w, k + 1))
    BY DEF ValidateIP
  <1>2. PICK l \in Nat : l = Len(w)
    OBVIOUS
  <1>3. /\ i \in 1 .. l /\ j \in 1 .. l /\ k \in 1 .. l
        /\ w[i] = "." /\ w[j] = "." /\ w[k] = "."
    BY <1>2
  <1> HIDE DEF dots
  <1>4. ASSUME NEW a \in 1 .. l, NEW b \in 1 .. l, IsOctet(SubSeq(w, a + 1, b - 1))
        PROVE  a < b
    <2> SUFFICES ASSUME ~(a + 1 <= b - 1) PROVE FALSE
      OBVIOUS
    <2>1. SubSeq(w, a + 1, b - 1) = << >>
      BY <1>2
    <2>2. Len(SubSeq(w, a + 1, b - 1)) = 0
      BY <2>1
    <2> QED BY <1>4, <2>2 DEF IsOctet
  <1>5. i < j /\ j < k
    BY <1>1, <1>3, <1>4
  <1>6. j \in i + 1 .. Len(w) + 1 /\ k \in j + 1 .. Len(w) + 1 /\ l + 1 \in k + 1 .. Len(w) + 1
    BY <1>2, <1>3, <1>5
  <1>7. /\ UpTo(w, i - 1) \in Seq(S) /\ SubSeq(w, i + 1, j - 1) \in Seq(S)
        /\ UpTo(w, j - 1) \in Seq(S)
        /\ Pieces(UpTo(w, j - 1), UpTo(w, i - 1), SubSeq(w, i + 1, j - 1))
    BY <1>2, <1>3, <1>6, CutAtDot
  <1>8. /\ SubSeq(w, j + 1, k - 1) \in Seq(S) /\ UpTo(w, k - 1) \in Seq(S)
        /\ Pieces(UpTo(w, k - 1), UpTo(w, j - 1), SubSeq(w, j + 1, k - 1))
    BY <1>2, <1>3, <1>6, CutAtDot
  <1>9. /\ From(w, k + 1) \in Seq(S)
        /\ Pieces(w, UpTo(w, k - 1), From(w, k + 1))
    <2>0. k \in 1 .. Len(w) /\ l + 1 \in k + 1 .. Len(w) + 1
      BY <1>2, <1>3, <1>6
    <2>1. /\ SubSeq(w, k + 1, (l + 1) - 1) \in Seq(S)
          /\ Pieces(UpTo(w, (l + 1) - 1), UpTo(w, k - 1), SubSeq(w, k + 1, (l + 1) - 1))
      BY <1>3, <2>0, CutAtDot
    <2>2. (l + 1) - 1 = Len(w)
      BY <1>2
    <2>3. SubSeq(w, 1, Len(w)) = w
      OBVIOUS
    <2> QED BY <2>1, <2>2, <2>3 DEF UpTo, From
  <1> QED BY <1>1, <1>7, <1>8, <1>9

(* An address is valid when it has four fields, each of them an octet.     *)
LEMMA FourOctets ==
  ASSUME NEW C, "." \notin C, NEW fields \in Seq(Seq(C)), fields # << >>
  PROVE  ValidateIP(WithDots(fields)) <=>
           Len(fields) = 4 /\ \A k \in 1 .. 4 : IsOctet(fields[k])
  <1>1. PICK text : /\ WithDots(fields) = text[Len(fields)]
                    /\ text[1] = fields[1]
                    /\ \A i \in 2 .. Len(fields) :
                         text[i] = text[i - 1] \o <<".">> \o fields[i]
                    /\ \A i \in 1 .. Len(fields) : text[i] \in Seq(C \cup {"."})
    BY DottedFacts
  <1>2. PICK n \in Nat : n = Len(fields) /\ n >= 1
    OBVIOUS
  <1>3. PICK S : S = C \cup {"."}
    OBVIOUS
  <1>4. "." \in S
    BY <1>3
  <1>5. \A i \in 1 .. n : text[i] \in Seq(S)
    BY <1>1, <1>2, <1>3
  <1>6. ASSUME NEW i \in 1 .. n PROVE fields[i] \in Seq(S) /\ NoDot(fields[i])
    <2>1. fields[i] \in Seq(C)
      BY <1>2
    <2>2. NoDot(fields[i])
      BY <2>1 DEF NoDot
    <2>3. fields[i] \in Seq(S)
      BY <1>3, <2>1
    <2> QED BY <2>2, <2>3
  <1>7. ASSUME NEW i \in 2 .. n PROVE i - 1 \in 1 .. n /\ Pieces(text[i], text[i - 1], fields[i])
    <2>1. i \in 1 .. n /\ i - 1 \in 1 .. n /\ i \in 2 .. Len(fields)
      BY <1>2
    <2>2. text[i - 1] \in Seq(S) /\ fields[i] \in Seq(S)
      BY <1>5, <1>6, <2>1
    <2>3. Pieces(text[i - 1] \o <<".">> \o fields[i], text[i - 1], fields[i])
      BY <1>4, <2>2, PiecesFacts
    <2> QED BY <1>1, <2>1, <2>3
  <1>8. NoDot(text[1])
    BY <1>1, <1>2, <1>6
  <1>9. ASSUME NEW i \in 1 .. n, ~NoDot(text[i])
        PROVE  i \in 2 .. n
    BY <1>8, <1>9
  <1>10. ASSUME NEW i \in 1 .. n, NEW x \in Seq(S), NEW y \in Seq(S), NoDot(y),
                Pieces(text[i], x, y)
         PROVE  i \in 2 .. n /\ i - 1 \in 1 .. n /\ text[i - 1] = x /\ fields[i] = y
    <2>1. i \in 2 .. n
      BY <1>9, <1>10, PieceHasDot
    <2>2. i - 1 \in 1 .. n /\ Pieces(text[i], text[i - 1], fields[i])
      BY <1>7, <2>1
    <2>3. text[i - 1] \in Seq(S) /\ fields[i] \in Seq(S) /\ NoDot(fields[i])
      BY <1>5, <1>6, <2>2
    <2> QED BY <1>10, <2>1, <2>2, <2>3, LastField
  <1>11. ASSUME ValidateIP(text[n])
         PROVE  n = 4 /\ \A k \in 1 .. 4 : IsOctet(fields[k])
    <2>0. n \in 1 .. n /\ text[n] \in Seq(S)
      BY <1>2, <1>5
    <2>1. PICK g1 \in Seq(S), g2 \in Seq(S), g3 \in Seq(S), g4 \in Seq(S),
               t2 \in Seq(S), t3 \in Seq(S) :
            /\ IsOctet(g1) /\ IsOctet(g2) /\ IsOctet(g3) /\ IsOctet(g4)
            /\ Pieces(t2, g1, g2) /\ Pieces(t3, t2, g3) /\ Pieces(text[n], t3, g4)
      BY <1>4, <1>11, <2>0, FourAreCut
    <2>2. NoDot(g1) /\ NoDot(g2) /\ NoDot(g3) /\ NoDot(g4)
      BY <2>1, OctetHasNoDot
    <2>3. n - 1 \in 1 .. n /\ text[n - 1] = t3 /\ fields[n] = g4
      BY <1>10, <2>0, <2>1, <2>2
    <2>4. n - 2 \in 1 .. n /\ text[n - 2] = t2 /\ fields[n - 1] = g3
      <3>1. (n - 1) - 1 \in 1 .. n /\ text[(n - 1) - 1] = t2 /\ fields[n - 1] = g3
        BY <1>10, <2>1, <2>2, <2>3
      <3>2. (n - 1) - 1 = n - 2
        OBVIOUS
      <3> QED BY <3>1, <3>2
    <2>5. n - 3 \in 1 .. n /\ text[n - 3] = g1 /\ fields[n - 2] = g2
      <3>1. (n - 2) - 1 \in 1 .. n /\ text[(n - 2) - 1] = g1 /\ fields[n - 2] = g2
        BY <1>10, <2>1, <2>2, <2>4
      <3>2. (n - 2) - 1 = n - 3
        OBVIOUS
      <3> QED BY <3>1, <3>2
    <2>6. n = 4
      <3> SUFFICES ASSUME n - 3 \in 2 .. n PROVE FALSE
        BY <2>5
      <3>1. Pieces(text[n - 3], text[(n - 3) - 1], fields[n - 3])
        BY <1>7
      <3> QED BY <2>2, <2>5, <3>1, PieceHasDot
    <2>7. text[1] = g1 /\ fields[2] = g2 /\ fields[3] = g3 /\ fields[4] = g4
      BY <2>3, <2>4, <2>5, <2>6
    <2>8. ASSUME NEW k \in 1 .. 4 PROVE IsOctet(fields[k])
      <3>1. k = 1 \/ k = 2 \/ k = 3 \/ k = 4
        OBVIOUS
      <3> QED BY <1>1, <2>1, <2>7, <3>1
    <2> QED BY <2>6, <2>8
  <1>12. ASSUME n = 4, \A k \in 1 .. 4 : IsOctet(fields[k])
         PROVE  ValidateIP(text[n])
    <2>1. /\ IsOctet(fields[1]) /\ IsOctet(fields[2])
          /\ IsOctet(fields[3]) /\ IsOctet(fields[4])
      BY <1>12
    <2>2. Pieces(text[2], text[1], fields[2])
      <3>1. Pieces(text[2], text[2 - 1], fields[2])
        BY <1>7, <1>12
      <3> QED BY <3>1
    <2>3. Pieces(text[3], text[2], fields[3])
      <3>1. Pieces(text[3], text[3 - 1], fields[3])
        BY <1>7, <1>12
      <3> QED BY <3>1
    <2>4. Pieces(text[4], text[3], fields[4])
      <3>1. Pieces(text[4], text[4 - 1], fields[4])
        BY <1>7, <1>12
      <3> QED BY <3>1
    <2>5. /\ fields[1] \in Seq(S) /\ fields[2] \in Seq(S) /\ fields[3] \in Seq(S)
          /\ fields[4] \in Seq(S) /\ text[2] \in Seq(S) /\ text[3] \in Seq(S)
          /\ text[4] \in Seq(S)
      BY <1>5, <1>6, <1>12
    <2>6. Pieces(text[2], fields[1], fields[2])
      BY <1>1, <2>2
    <2> QED BY <1>4, <1>12, <2>1, <2>3, <2>4, <2>5, <2>6, FourAreFound
  <1> QED BY <1>1, <1>2, <1>11, <1>12

-----------------------------------------------------------------------------
(* Figures and their numbers.                                              *)
LEMMA Tenth ==
  ASSUME NEW d \in 0 .. 9
  PROVE  d = 0 \/ d = 1 \/ d = 2 \/ d = 3 \/ d = 4 \/ d = 5 \/ d = 6 \/ d = 7 \/ d = 8 \/ d = 9
  OBVIOUS

(* The character of a figure has that figure.                              *)
LEMMA DigitFacts ==
  ASSUME NEW d \in 0 .. 9
  PROVE  /\ Digit[d] \in Digits
         /\ Figure(Digit[d]) = d
  <1>1. Digit[d] \in Digits
    BY DEF Digits
  <1>2. ASSUME NEW e \in 0 .. 9, Digit[e] = Digit[d] PROVE e = d
    <2> DEFINE names == <<"0", "1", "2", "3", "4", "5", "6", "7", "8", "9">>
    <2>1. \A x \in 0 .. 9 : Digit[x] = names[x + 1]
      BY DEF Digit
    <2>2. names[d + 1] = names[e + 1]
      BY <1>2, <2>1
    <2> QED BY <2>2, Tenth
  <1>3. Figure(Digit[d]) = d
    BY <1>2 DEF Figure
  <1> QED BY <1>1, <1>3

(* The figure of a digit has that character.                               *)
LEMMA FigureFacts ==
  ASSUME NEW c \in Digits
  PROVE  Figure(c) \in 0 .. 9 /\ Digit[Figure(c)] = c
  <1>1. PICK d \in 0 .. 9 : c = Digit[d]
    BY DEF Digits
  <1> QED BY <1>1, DigitFacts

(* The value of a row of figures, from its first to its last.              *)
Valued(v, s) ==
  v = [i \in 0 .. Len(s) |-> IF i = 0 THEN 0 ELSE 10 * v[i - 1] + Figure(s[i])]

(* The function behind ValueOf, from figure to figure.                     *)
LEMMA ValueFacts ==
  ASSUME NEW s \in Seq(Digits)
  PROVE  \E v : /\ ValueOf(s) = v[Len(s)] /\ v[0] = 0
                /\ \A k \in 1 .. Len(s) : v[k] = 10 * v[k - 1] + Figure(s[k])
  <1>1. PICK n \in Nat : n = Len(s)
    OBVIOUS
  <1>2. \A k \in 1 .. n : Figure(s[k]) \in Int
    <2> SUFFICES ASSUME NEW k \in 1 .. n PROVE Figure(s[k]) \in Int
      OBVIOUS
    <2>1. s[k] \in Digits
      BY <1>1
    <2> QED BY <2>1, FigureFacts
  <1> DEFINE step == [k \in 1 .. n |-> [x \in Int |-> 10 * x + Figure(s[k])]]
  <1>3. step \in [1 .. n -> [Int -> Int]]
    BY <1>2
  <1>4. PICK f \in [0 .. n -> Int] : f[0] = 0 /\ \A k \in 1 .. n : f[k] = step[k][f[k - 1]]
    <2>1. GoesOn(n, Int, 0, step)
      <3>1. 0 \in Int
        OBVIOUS
      <3> HIDE DEF step
      <3> QED BY <1>3, <3>1, RecursionExists
    <2> QED BY <2>1 DEF GoesOn
  <1>5. Valued(f, s)
    <2>1. ASSUME NEW i \in 0 .. n
          PROVE  f[i] = IF i = 0 THEN 0 ELSE 10 * f[i - 1] + Figure(s[i])
      <3>1. CASE i = 0
        BY <1>4, <3>1
      <3>2. CASE i # 0
        <4>1. i \in 1 .. n /\ f[i - 1] \in Int
          BY <3>2
        <4> QED BY <1>4, <3>2, <4>1
      <3> QED BY <3>1, <3>2
    <2> QED BY <1>1, <2>1 DEF Valued
  <1> DEFINE v == CHOOSE u : Valued(u, s)
  <1>6. Valued(v, s)
    BY <1>5
  <1>7. ValueOf(s) = v[Len(s)]
    BY DEF ValueOf, Valued
  <1> HIDE DEF v
  <1>8. \A i \in 0 .. n : v[i] = IF i = 0 THEN 0 ELSE 10 * v[i - 1] + Figure(s[i])
    BY <1>1, <1>6 DEF Valued
  <1>9. v[0] = 0 /\ \A k \in 1 .. n : v[k] = 10 * v[k - 1] + Figure(s[k])
    BY <1>8
  <1> QED BY <1>1, <1>7, <1>9

(* Up to five figures.                                                     *)
Places(s) ==
  LET f(i) == Figure(s[i])
  IN  /\ Len(s) = 1 => ValueOf(s) = f(1)
      /\ Len(s) = 2 => ValueOf(s) = 10 * f(1) + f(2)
      /\ Len(s) = 3 => ValueOf(s) = 10 * (10 * f(1) + f(2)) + f(3)
      /\ Len(s) = 4 => ValueOf(s) = 10 * (10 * (10 * f(1) + f(2)) + f(3)) + f(4)
      /\ Len(s) = 5 =>
           ValueOf(s) = 10 * (10 * (10 * (10 * f(1) + f(2)) + f(3)) + f(4)) + f(5)

(* The value of up to five figures is the sum of their places.             *)
LEMMA ShortValues ==
  ASSUME NEW s \in Seq(Digits), Len(s) \in 1 .. 5
  PROVE  Places(s)
  <1>1. PICK v : /\ ValueOf(s) = v[Len(s)] /\ v[0] = 0
                 /\ \A k \in 1 .. Len(s) : v[k] = 10 * v[k - 1] + Figure(s[k])
    BY ValueFacts
  <1>2. \A i \in 1 .. Len(s) : Figure(s[i]) \in Int
    <2> SUFFICES ASSUME NEW i \in 1 .. Len(s) PROVE Figure(s[i]) \in Int
      OBVIOUS
    <2>1. s[i] \in Digits
      OBVIOUS
    <2> QED BY <2>1, FigureFacts
  <1> DEFINE f(i) == Figure(s[i])
  <1>3. v[1] = f(1)
    <2>0. PICK l \in 1 .. 5 : l = Len(s)
      OBVIOUS
    <2>1. 1 \in 1 .. Len(s) /\ 1 - 1 = 0
      BY <2>0
    <2>2. v[1] = 10 * v[0] + f(1) /\ f(1) \in Int
      BY <1>1, <1>2, <2>1
    <2> HIDE DEF f
    <2> QED BY <1>1, <2>2
  <1>4. ASSUME NEW k \in 1 .. 4, k + 1 <= Len(s) PROVE v[k + 1] = 10 * v[k] + f(k + 1)
    <2>1. k + 1 \in 1 .. Len(s) /\ (k + 1) - 1 = k
      BY <1>4
    <2> QED BY <1>1, <2>1
  <1>5. /\ Len(s) >= 2 => v[2] = 10 * v[1] + f(2)
        /\ Len(s) >= 3 => v[3] = 10 * v[2] + f(3)
        /\ Len(s) >= 4 => v[4] = 10 * v[3] + f(4)
        /\ Len(s) >= 5 => v[5] = 10 * v[4] + f(5)
    <2>1. Len(s) >= 2 => v[1 + 1] = 10 * v[1] + f(1 + 1)
      BY <1>4
    <2>2. Len(s) >= 3 => v[2 + 1] = 10 * v[2] + f(2 + 1)
      BY <1>4
    <2>3. Len(s) >= 4 => v[3 + 1] = 10 * v[3] + f(3 + 1)
      BY <1>4
    <2>4. Len(s) >= 5 => v[4 + 1] = 10 * v[4] + f(4 + 1)
      BY <1>4
    <2>5. 1 + 1 = 2 /\ 2 + 1 = 3 /\ 3 + 1 = 4 /\ 4 + 1 = 5
      OBVIOUS
    <2> HIDE DEF f
    <2> QED BY <2>1, <2>2, <2>3, <2>4, <2>5
  <1> HIDE DEF f
  <1>6. PICK l \in 1 .. 5 : l = Len(s)
    OBVIOUS
  <1>7. /\ l = 1 => v[l] = f(1)
        /\ l = 2 => v[l] = 10 * f(1) + f(2)
        /\ l = 3 => v[l] = 10 * (10 * f(1) + f(2)) + f(3)
        /\ l = 4 => v[l] = 10 * (10 * (10 * f(1) + f(2)) + f(3)) + f(4)
        /\ l = 5 => v[l] = 10 * (10 * (10 * (10 * f(1) + f(2)) + f(3)) + f(4)) + f(5)
    <2>1. CASE l = 1
      BY <1>3, <2>1
    <2>2. CASE l = 2
      BY <1>3, <1>5, <1>6, <2>2
    <2>3. CASE l = 3
      BY <1>3, <1>5, <1>6, <2>3
    <2>4. CASE l = 4
      BY <1>3, <1>5, <1>6, <2>4
    <2>5. CASE l = 5
      BY <1>3, <1>5, <1>6, <2>5
    <2> QED BY <2>1, <2>2, <2>3, <2>4, <2>5
  <1> QED BY <1>1, <1>6, <1>7 DEF f, Places

(* The powers of ten, one by one, as the provers do not look into the      *)
(* tuple.                                                                  *)
LEMMA Powers ==
  /\ Power[1] = 10 /\ Power[2] = 100 /\ Power[3] = 1000
  /\ Power[4] = 10000 /\ Power[5] = 100000
  BY DEF Power

(* A number has as many figures as the powers of ten say.                  *)
LEMMA FiguresFacts ==
  ASSUME NEW n \in Nat, n < 100000
  PROVE  /\ Figures(n) \in 1 .. 5
         /\ n < Power[Figures(n)]
         /\ Figures(n) > 1 => n >= Power[Figures(n) - 1]
  <1> DEFINE P(k) == n < Power[k] /\ (k > 1 => n >= Power[k - 1])
  <1>1. \E k \in 1 .. 5 : P(k)
    <2>1. CASE n < 10
      <3>1. P(1)
        BY <2>1, Powers
      <3> HIDE DEF P
      <3> QED BY <3>1
    <2>2. CASE 10 <= n /\ n < 100
      <3>1. P(2)
        BY <2>2, Powers
      <3> HIDE DEF P
      <3> QED BY <3>1
    <2>3. CASE 100 <= n /\ n < 1000
      <3>1. P(3)
        BY <2>3, Powers
      <3> HIDE DEF P
      <3> QED BY <3>1
    <2>4. CASE 1000 <= n /\ n < 10000
      <3>1. P(4)
        BY <2>4, Powers
      <3> HIDE DEF P
      <3> QED BY <3>1
    <2>5. CASE 10000 <= n
      <3>1. P(5)
        BY <2>5, Powers
      <3> HIDE DEF P
      <3> QED BY <3>1
    <2> QED BY <2>1, <2>2, <2>3, <2>4, <2>5
  <1>2. Figures(n) = CHOOSE k \in 1 .. 5 : P(k)
    BY DEF Figures
  <1> HIDE DEF P
  <1>3. Figures(n) \in 1 .. 5 /\ P(Figures(n))
    BY <1>1, <1>2
  <1> QED BY <1>3 DEF P

(* A number in decimal, with zeros before it up to the width asked for.    *)
IsDecimal(s, n, k) ==
  /\ n < Power[k] /\ s \in Seq(Digits) /\ Len(s) = k
  /\ \A i \in 1 .. k : s[i] =
       Digit[IF i = k THEN n % 10 ELSE (n \div Power[k - i]) % 10]

(* Decimal prints all figures of a number, with zeros before them up to    *)
(* the width.                                                              *)
LEMMA DecimalFacts ==
  ASSUME NEW n \in Nat, n < 100000, NEW width \in 1 .. 5
  PROVE  \E k \in 1 .. 5 : /\ k >= width /\ (k > width => n >= Power[k - 1])
                          /\ IsDecimal(Decimal(n, width), n, k)
  <1> DEFINE m == Figures(n)
             I == {width, m}
             k == Max(I)
             s == [i \in 1 .. k |->
                     Digit[IF i = k THEN n % 10 ELSE (n \div Power[k - i]) % 10]]
  <1>1. m \in 1 .. 5 /\ n < Power[m] /\ (m > 1 => n >= Power[m - 1])
    BY FiguresFacts
  <1>2. Decimal(n, width) = s
    BY DEF Decimal
  <1> HIDE DEF m, k
  <1>3. k \in I /\ \A y \in I : y <= k
    <2>1. I \in SUBSET (1 .. 5) /\ I # {} /\ 5 \in Nat
      BY <1>1
    <2> HIDE DEF I
    <2>2. Max(I) \in I /\ \A y \in I : y <= Max(I)
      BY <2>1, Ends
    <2> QED BY <2>2 DEF k
  <1>4. k \in 1 .. 5 /\ k >= width /\ k >= m /\ (k = width \/ k = m)
    BY <1>1, <1>3
  <1>5. n < Power[k]
    BY <1>1, <1>4, Powers
  <1>6. k > width => n >= Power[k - 1]
    BY <1>1, <1>4
  <1>7. ASSUME NEW i \in 1 .. k
        PROVE  Digit[IF i = k THEN n % 10 ELSE (n \div Power[k - i]) % 10] \in Digits
    <2>1. n % 10 \in 0 .. 9
      OBVIOUS
    <2>2. CASE i = k
      BY <2>1, <2>2, DigitFacts
    <2>3. CASE i # k
      <3>1. k - i \in 1 .. 4
        BY <1>4, <2>3
      <3>2. PICK p \in Nat : p = Power[k - i] /\ p > 0
        BY <3>1, Powers
      <3>3. (n \div p) % 10 \in 0 .. 9
        BY <3>2
      <3> QED BY <2>3, <3>2, <3>3, DigitFacts
    <2> QED BY <2>2, <2>3
  <1>8. s \in Seq(Digits) /\ Len(s) = k
    BY <1>4, <1>7
  <1>9. \A i \in 1 .. k : s[i] =
          Digit[IF i = k THEN n % 10 ELSE (n \div Power[k - i]) % 10]
    OBVIOUS
  <1> HIDE DEF s
  <1>10. IsDecimal(s, n, k)
    BY <1>5, <1>8, <1>9 DEF IsDecimal
  <1> QED BY <1>2, <1>4, <1>6, <1>10

(* The figures of a printed number are its places.                         *)
LEMMA IsDecimalFigures ==
  ASSUME NEW n \in Nat, NEW s, NEW k \in 1 .. 5, IsDecimal(s, n, k), NEW i \in 1 .. k
  PROVE  Figure(s[i]) = IF i = k THEN n % 10 ELSE (n \div Power[k - i]) % 10
  <1>1. CASE i = k
    <2>1. n % 10 \in 0 .. 9
      OBVIOUS
    <2> QED BY <1>1, <2>1, DigitFacts DEF IsDecimal
  <1>2. CASE i # k
    <2>1. k - i \in 1 .. 4
      BY <1>2
    <2>2. PICK p \in Nat : p = Power[k - i] /\ p > 0
      BY <2>1, Powers
    <2>3. (n \div p) % 10 \in 0 .. 9
      BY <2>2
    <2> QED BY <1>2, <2>2, <2>3, DigitFacts DEF IsDecimal
  <1> QED BY <1>1, <1>2

(* A number is its figures, each in its place.                             *)
LEMMA PlacesAdd ==
  ASSUME NEW n \in Nat
  PROVE  /\ n < 10 => n % 10 = n
         /\ n < 100 => 10 * ((n \div 10) % 10) + (n % 10) = n
         /\ n < 1000 => 10 * (10 * ((n \div 100) % 10) + ((n \div 10) % 10)) + (n % 10) = n
         /\ n < 10000 => 10 * (10 * (10 * ((n \div 1000) % 10) + ((n \div 100) % 10))
                                + ((n \div 10) % 10)) + (n % 10) = n
         /\ n < 100000 => 10 * (10 * (10 * (10 * ((n \div 10000) % 10) + ((n \div 1000) % 10))
                                      + ((n \div 100) % 10)) + ((n \div 10) % 10)) + (n % 10) = n
  BY SMTT(60)

(* A number that has been printed is read.                                 *)
LEMMA ValueOfPrinted ==
  ASSUME NEW n \in Nat, NEW s, NEW k \in 1 .. 5, IsDecimal(s, n, k)
  PROVE  ValueOf(s) = n
  <1>1. s \in Seq(Digits) /\ Len(s) = k /\ n < Power[k]
    BY DEF IsDecimal
  <1> DEFINE f(i) == Figure(s[i])
  <1>2. \A i \in 1 .. k : f(i) = IF i = k THEN n % 10 ELSE (n \div Power[k - i]) % 10
    BY IsDecimalFigures
  <1>3. Places(s)
    BY <1>1, ShortValues
  <1>9. ASSUME NEW i \in 1 .. 4, NEW j \in 1 .. 4, i + j = k, NEW p, p = Power[j]
        PROVE  f(i) = (n \div p) % 10
    <2>1. i \in 1 .. k /\ i # k /\ k - i = j
      BY <1>9
    <2>2. f(i) = (n \div Power[k - i]) % 10
      BY <1>2, <2>1
    <2> QED BY <1>9, <2>1, <2>2
  <1>10. f(k) = n % 10
    <2>1. k \in 1 .. k
      OBVIOUS
    <2> QED BY <1>2, <2>1
  <1> HIDE DEF f
  <1>4. CASE k = 1
    <2>1. f(1) = n % 10 /\ n < 10
      BY <1>1, <1>10, <1>4, Powers, SMT
    <2>2. ValueOf(s) = f(1)
      BY <1>1, <1>3, <1>4 DEF Places, f
    <2> QED BY <2>1, <2>2, PlacesAdd, SMT
  <1>5. CASE k = 2
    <2>3. f(1) = (n \div 10) % 10
      <3>1. 1 \in 1 .. 4 /\ 1 \in 1 .. 4 /\ 1 + 1 = k /\ 10 = Power[1]
        BY <1>5, Powers, SMT
      <3> QED BY <1>9, <3>1, SMT
    <2>1. f(2) = n % 10 /\ n < 100
      BY <1>1, <1>10, <1>5, Powers, SMT
    <2>2. ValueOf(s) = 10 * f(1) + f(2)
      BY <1>1, <1>3, <1>5 DEF Places, f
    <2> QED BY <2>1, <2>2, <2>3, PlacesAdd, SMT
  <1>6. CASE k = 3
    <2>3. f(1) = (n \div 100) % 10
      <3>1. 1 \in 1 .. 4 /\ 2 \in 1 .. 4 /\ 1 + 2 = k /\ 100 = Power[2]
        BY <1>6, Powers, SMT
      <3> QED BY <1>9, <3>1, SMT
    <2>4. f(2) = (n \div 10) % 10
      <3>1. 2 \in 1 .. 4 /\ 1 \in 1 .. 4 /\ 2 + 1 = k /\ 10 = Power[1]
        BY <1>6, Powers, SMT
      <3> QED BY <1>9, <3>1, SMT
    <2>1. f(3) = n % 10 /\ n < 1000
      BY <1>1, <1>10, <1>6, Powers, SMT
    <2>2. ValueOf(s) = 10 * (10 * f(1) + f(2)) + f(3)
      BY <1>1, <1>3, <1>6 DEF Places, f
    <2> QED BY <2>1, <2>2, <2>3, <2>4, PlacesAdd, SMT
  <1>7. CASE k = 4
    <2>3. f(1) = (n \div 1000) % 10
      <3>1. 1 \in 1 .. 4 /\ 3 \in 1 .. 4 /\ 1 + 3 = k /\ 1000 = Power[3]
        BY <1>7, Powers, SMT
      <3> QED BY <1>9, <3>1, SMT
    <2>4. f(2) = (n \div 100) % 10
      <3>1. 2 \in 1 .. 4 /\ 2 \in 1 .. 4 /\ 2 + 2 = k /\ 100 = Power[2]
        BY <1>7, Powers, SMT
      <3> QED BY <1>9, <3>1, SMT
    <2>5. f(3) = (n \div 10) % 10
      <3>1. 3 \in 1 .. 4 /\ 1 \in 1 .. 4 /\ 3 + 1 = k /\ 10 = Power[1]
        BY <1>7, Powers, SMT
      <3> QED BY <1>9, <3>1, SMT
    <2>1. f(4) = n % 10 /\ n < 10000
      BY <1>1, <1>10, <1>7, Powers, SMT
    <2>2. ValueOf(s) = 10 * (10 * (10 * f(1) + f(2)) + f(3)) + f(4)
      BY <1>1, <1>3, <1>7 DEF Places, f
    <2> QED BY <2>1, <2>2, <2>3, <2>4, <2>5, PlacesAdd, SMT
  <1>8. CASE k = 5
    <2>3. f(1) = (n \div 10000) % 10
      <3>1. 1 \in 1 .. 4 /\ 4 \in 1 .. 4 /\ 1 + 4 = k /\ 10000 = Power[4]
        BY <1>8, Powers, SMT
      <3> QED BY <1>9, <3>1, SMT
    <2>4. f(2) = (n \div 1000) % 10
      <3>1. 2 \in 1 .. 4 /\ 3 \in 1 .. 4 /\ 2 + 3 = k /\ 1000 = Power[3]
        BY <1>8, Powers, SMT
      <3> QED BY <1>9, <3>1, SMT
    <2>5. f(3) = (n \div 100) % 10
      <3>1. 3 \in 1 .. 4 /\ 2 \in 1 .. 4 /\ 3 + 2 = k /\ 100 = Power[2]
        BY <1>8, Powers, SMT
      <3> QED BY <1>9, <3>1, SMT
    <2>6. f(4) = (n \div 10) % 10
      <3>1. 4 \in 1 .. 4 /\ 1 \in 1 .. 4 /\ 4 + 1 = k /\ 10 = Power[1]
        BY <1>8, Powers, SMT
      <3> QED BY <1>9, <3>1, SMT
    <2>1. f(5) = n % 10 /\ n < 100000
      BY <1>1, <1>10, <1>8, Powers, SMT
    <2>2. ValueOf(s) = 10 * (10 * (10 * (10 * f(1) + f(2)) + f(3)) + f(4)) + f(5)
      BY <1>1, <1>3, <1>8 DEF Places, f
    <2> QED BY <2>1, <2>2, <2>3, <2>4, <2>5, <2>6, PlacesAdd, SMT
  <1> QED BY <1>4, <1>5, <1>6, <1>7, <1>8

(* Up to three figures are the print of the value they are read as.        *)
LEMMA ReadIsPrinted ==
  ASSUME NEW g \in Seq(Digits), NEW k \in 1 .. 3, Len(g) = k
  PROVE  ValueOf(g) \in Nat /\ IsDecimal(g, ValueOf(g), k)
  <1> DEFINE n == ValueOf(g)
             f(i) == Figure(g[i])
  <1>1. \A i \in 1 .. k : g[i] \in Digits
    OBVIOUS
  <1>2. \A i \in 1 .. k : f(i) \in 0 .. 9 /\ Digit[f(i)] = g[i]
    BY <1>1, FigureFacts
  <1>3. Places(g)
    <2>1. Len(g) \in 1 .. 5
      OBVIOUS
    <2> QED BY <2>1, ShortValues
  <1>4. /\ k = 1 => n = f(1)
        /\ k = 2 => n = 10 * f(1) + f(2)
        /\ k = 3 => n = 10 * (10 * f(1) + f(2)) + f(3)
    BY <1>3 DEF Places
  <1> HIDE DEF n, f
  <1>5. /\ n \in Nat /\ n < Power[k]
        /\ \A i \in 1 .. k : f(i) = IF i = k THEN n % 10 ELSE (n \div Power[k - i]) % 10
    <2>1. CASE k = 1
      <3>1. f(1) \in 0 .. 9 /\ n = f(1)
        BY <1>2, <1>4, <2>1
      <3>2. n \in Nat /\ n < 10 /\ n % 10 = f(1)
        BY <3>1, SMT
      <3> QED BY <2>1, <3>2, Powers, SMT
    <2>2. CASE k = 2
      <3>1. f(1) \in 0 .. 9 /\ f(2) \in 0 .. 9 /\ n = 10 * f(1) + f(2)
        BY <1>2, <1>4, <2>2
      <3>2. /\ n \in Nat /\ n < 100 /\ n % 10 = f(2) /\ (n \div 10) % 10 = f(1)
        <4>1. PICK a \in 0 .. 9, b \in 0 .. 9 : a = f(1) /\ b = f(2)
          BY <3>1
        <4>2. n = 10 * a + b
          BY <3>1, <4>1
        <4>3. /\ n \in Nat /\ n < 100 /\ n % 10 = b /\ (n \div 10) % 10 = a
          BY <4>2, SMTT(60)
        <4> QED BY <4>1, <4>3
      <3>3. ASSUME NEW i \in 1 .. k
            PROVE  f(i) = IF i = k THEN n % 10 ELSE (n \div Power[k - i]) % 10
        <4>1. CASE i = 1
          <5>1. Power[k - i] = 10 /\ i # k
            BY <2>2, <4>1, Powers, SMT
          <5> QED BY <3>2, <4>1, <5>1
        <4>2. CASE i = 2
          BY <2>2, <3>2, <4>2
        <4> QED BY <2>2, <4>1, <4>2
      <3> QED BY <2>2, <3>2, <3>3, Powers, SMT
    <2>3. CASE k = 3
      <3>1. /\ f(1) \in 0 .. 9 /\ f(2) \in 0 .. 9 /\ f(3) \in 0 .. 9
            /\ n = 10 * (10 * f(1) + f(2)) + f(3)
        BY <1>2, <1>4, <2>3
      <3>2. /\ n \in Nat /\ n < 1000 /\ n % 10 = f(3) /\ (n \div 10) % 10 = f(2)
            /\ (n \div 100) % 10 = f(1)
        <4>1. PICK a \in 0 .. 9, b \in 0 .. 9, c \in 0 .. 9 : a = f(1) /\ b = f(2) /\ c = f(3)
          BY <3>1
        <4>2. n = 10 * (10 * a + b) + c
          BY <3>1, <4>1
        <4>3. /\ n \in Nat /\ n < 1000 /\ n % 10 = c /\ (n \div 10) % 10 = b
              /\ (n \div 100) % 10 = a
          BY <4>2, SMTT(60)
        <4> QED BY <4>1, <4>3
      <3>3. ASSUME NEW i \in 1 .. k
            PROVE  f(i) = IF i = k THEN n % 10 ELSE (n \div Power[k - i]) % 10
        <4>1. CASE i = 1
          <5>1. Power[k - i] = 100 /\ i # k
            BY <2>3, <4>1, Powers, SMT
          <5> QED BY <3>2, <4>1, <5>1
        <4>2. CASE i = 2
          <5>1. Power[k - i] = 10 /\ i # k
            BY <2>3, <4>2, Powers, SMT
          <5> QED BY <3>2, <4>2, <5>1
        <4>3. CASE i = 3
          BY <2>3, <3>2, <4>3
        <4> QED BY <2>3, <4>1, <4>2, <4>3
      <3> QED BY <2>3, <3>2, <3>3, Powers, SMT
    <2> QED BY <2>1, <2>2, <2>3
  <1>6. \A i \in 1 .. k : g[i] =
          Digit[IF i = k THEN n % 10 ELSE (n \div Power[k - i]) % 10]
    BY <1>2, <1>5
  <1> QED BY <1>5, <1>6 DEF IsDecimal, n

(* There is one print of a number in a given width.                        *)
LEMMA DecimalsAreOne ==
  ASSUME NEW n, NEW k \in 1 .. 5, NEW s, NEW t, IsDecimal(s, n, k), IsDecimal(t, n, k)
  PROVE  s = t
  BY SeqEqual DEF IsDecimal

(* An octet is a number up to 255 in decimal.                              *)
LEMMA OctetsAreDecimal ==
  ASSUME NEW S, NEW g \in Seq(S)
  PROVE  IsOctet(g) <=>
           \E w \in 1 .. 3 : g \in {Decimal(n, w) : n \in 0 .. 255}
  <1>1. PICK top \in Nat : top = 255
    OBVIOUS
  <1>2. ASSUME IsOctet(g)
        PROVE  \E w \in 1 .. 3 : g \in {Decimal(n, w) : n \in 0 .. 255}
    <2>1. PICK k \in 1 .. 3 : k = Len(g)
      BY <1>2 DEF IsOctet
    <2>2. g \in Seq(Digits)
      <3>1. \A i \in 1 .. Len(g) : g[i] \in Digits
        BY <1>2 DEF IsOctet, Range
      <3> QED BY <3>1
    <2> DEFINE n == ValueOf(g)
    <2>3. n \in Nat /\ IsDecimal(g, n, k)
      BY <2>1, <2>2, ReadIsPrinted
    <2>4. n <= 255
      BY <1>2 DEF IsOctet
    <2> HIDE DEF n
    <2>5. k \in 1 .. 5 /\ n < 100000
      BY <2>3, <2>4, SMT
    <2>6. PICK m \in 1 .. 5 : /\ m >= k /\ (m > k => n >= Power[m - 1])
                             /\ IsDecimal(Decimal(n, k), n, m)
      BY <2>3, <2>5, DecimalFacts
    <2>7. m = k
      <3>1. n < Power[k]
        BY <2>3 DEF IsDecimal
      <3> QED BY <2>3, <2>6, <3>1, Powers, SMT
    <2>8. g = Decimal(n, k)
      BY <2>3, <2>5, <2>6, <2>7, DecimalsAreOne
    <2>9. n \in 0 .. 255
      BY <2>3, <2>4, SMT
    <2> QED BY <2>8, <2>9
  <1>3. ASSUME NEW w \in 1 .. 3, NEW n \in 0 .. 255, g = Decimal(n, w)
        PROVE  IsOctet(g)
    <2>1. n \in Nat /\ n < 100000 /\ n <= 255 /\ w \in 1 .. 5
      BY SMT
    <2>2. PICK k \in 1 .. 5 : /\ k >= w /\ (k > w => n >= Power[k - 1])
                             /\ IsDecimal(g, n, k)
      BY <1>3, <2>1, DecimalFacts
    <2>3. k \in 1 .. 3
      BY <2>1, <2>2, Powers, SMT
    <2>4. g \in Seq(Digits) /\ Len(g) = k
      BY <2>2 DEF IsDecimal
    <2>5. Range(g) \subseteq Digits
      BY <2>4 DEF Range
    <2>6. ValueOf(g) = n
      BY <2>1, <2>2, ValueOfPrinted
    <2> QED BY <2>1, <2>3, <2>4, <2>5, <2>6 DEF IsOctet
  <1> QED BY <1>2, <1>3

-----------------------------------------------------------------------------
(* An address is valid when it is four numbers up to 255, for any texts    *)
(* between its dots (log_entry.cpp:26-43).                                 *)
THEOREM AddressesAreChecked == TextsSpec => []AddressesAreQuads
  <1> TextsTyped
    BY TextsAssumption
  <1>1. Asked => AddressesAreQuads
    <2> SUFFICES ASSUME Asked, at = "address"
                 PROVE  answer <=> /\ Len(arg) = 4
                                   /\ \A k \in 1 .. 4 : \E w \in 1 .. 3 :
                                        arg[k] \in {Decimal(n, w) : n \in 0 .. 255}
      BY DEF AddressesAreQuads
    <2> DEFINE C == Chars \ {"."}
    <2>1. /\ arg \in Seq(Seq(C)) /\ arg # << >>
          /\ answer = ValidateIP(WithDots(arg))
      BY DEF Asked, TextsTyped
    <2>2. "." \notin C
      OBVIOUS
    <2> HIDE DEF C
    <2>3. answer <=> Len(arg) = 4 /\ \A k \in 1 .. 4 : IsOctet(arg[k])
      BY <2>1, <2>2, FourOctets
    <2>4. ASSUME Len(arg) = 4, NEW k \in 1 .. 4
          PROVE  IsOctet(arg[k]) <=>
                   \E w \in 1 .. 3 : arg[k] \in {Decimal(n, w) : n \in 0 .. 255}
      <3>1. arg[k] \in Seq(C)
        <4>1. k \in 1 .. Len(arg)
          BY <2>4
        <4> QED BY <2>1, <4>1
      <3> QED BY <3>1, OctetsAreDecimal
    <2> QED BY <2>3, <2>4
  <1> QED BY <1>1, Answers, PTL

-----------------------------------------------------------------------------
(* A text, and what has been added to it.                                  *)
Added(z, x, p) ==
  /\ Len(z) = Len(x) + Len(p)
  /\ \A i \in 1 .. Len(x) : z[i] = x[i]
  /\ \A i \in 1 .. Len(p) : z[Len(x) + i] = p[i]

(* What stands where in a text with another one behind it.                 *)
LEMMA AddedFacts ==
  ASSUME NEW S, NEW x \in Seq(S), NEW p \in Seq(S)
  PROVE  x \o p \in Seq(S) /\ Added(x \o p, x, p)
  BY DEF Added

(* The order of texts is that of their beginnings, and where these are the *)
(* same, of what follows.                                                  *)
InOrder(s, t, x, y, p, q) ==
  /\ Less(s, t) <=> Less(x, y) \/ (x = y /\ Less(p, q))
  /\ s = t <=> x = y /\ p = q

(* Behind beginnings of one length the order is theirs, or where they are  *)
(* equal that of the rest.                                                 *)
LEMMA LessConcat ==
  ASSUME NEW S, NEW x \in Seq(S), NEW y \in Seq(S), NEW p \in Seq(S), NEW q \in Seq(S),
         Len(x) = Len(y)
  PROVE  InOrder(x \o p, y \o q, x, y, p, q)
  <1> DEFINE s == x \o p
             t == y \o q
  <1>1. PICK n \in Nat : n = Len(x) /\ n = Len(y)
    OBVIOUS
  <1>2. PICK a \in Nat : a = Len(p)
    OBVIOUS
  <1>3. PICK b \in Nat : b = Len(q)
    OBVIOUS
  <1>4. /\ s \in Seq(S) /\ Len(s) = n + a /\ \A i \in 1 .. n : s[i] = x[i]
        /\ \A i \in 1 .. a : s[n + i] = p[i]
    <2>1. s \in Seq(S) /\ Added(s, x, p)
      BY AddedFacts
    <2> HIDE DEF s
    <2> QED BY <1>1, <1>2, <2>1 DEF Added
  <1>5. /\ t \in Seq(S) /\ Len(t) = n + b /\ \A i \in 1 .. n : t[i] = y[i]
        /\ \A i \in 1 .. b : t[n + i] = q[i]
    <2>1. t \in Seq(S) /\ Added(t, y, q)
      BY AddedFacts
    <2> HIDE DEF t
    <2> QED BY <1>1, <1>3, <2>1 DEF Added
  <1> HIDE DEF s, t
  <1>6. ASSUME Less(x, y) PROVE Less(s, t)
    <2>1. PICK k \in 1 .. n : /\ \A i \in 1 .. k - 1 : i <= n /\ x[i] = y[i]
                              /\ k > n \/ Code(x[k]) < Code(y[k])
      BY <1>1, <1>6 DEF Less
    <2>2. k \in 1 .. Len(t)
      BY <1>5
    <2>3. \A i \in 1 .. k - 1 : i <= Len(s) /\ s[i] = t[i]
      BY <1>4, <1>5, <2>1
    <2>4. Code(s[k]) < Code(t[k])
      BY <1>4, <1>5, <2>1
    <2> QED BY <2>2, <2>3, <2>4 DEF Less
  <1>7. ASSUME x = y, Less(p, q) PROVE Less(s, t)
    <2>1. PICK k \in 1 .. b : /\ \A i \in 1 .. k - 1 : i <= a /\ p[i] = q[i]
                              /\ k > a \/ Code(p[k]) < Code(q[k])
      BY <1>2, <1>3, <1>7 DEF Less
    <2>2. n + k \in 1 .. Len(t)
      BY <1>5
    <2>3. ASSUME NEW i \in 1 .. (n + k) - 1 PROVE i <= Len(s) /\ s[i] = t[i]
      <3>1. CASE i <= n
        BY <1>4, <1>5, <1>7, <3>1
      <3>2. CASE ~(i <= n)
        <4>1. PICK j \in 1 .. k - 1 : i = n + j
          <5>1. i - n \in 1 .. k - 1 /\ i = n + (i - n)
            BY <3>2
          <5> QED BY <5>1
        <4>2. j <= a /\ p[j] = q[j] /\ j \in 1 .. b
          BY <2>1
        <4> QED BY <1>4, <1>5, <4>1, <4>2
      <3> QED BY <3>1, <3>2
    <2>4. n + k > Len(s) \/ Code(s[n + k]) < Code(t[n + k])
      <3>1. CASE k > a
        BY <1>4, <3>1
      <3>2. CASE ~(k > a)
        <4>1. k \in 1 .. a
          BY <3>2
        <4>2. s[n + k] = p[k] /\ t[n + k] = q[k]
          BY <1>4, <1>5, <4>1
        <4> QED BY <2>1, <3>2, <4>2
      <3> QED BY <3>1, <3>2
    <2> QED BY <2>2, <2>3, <2>4 DEF Less
  <1>8. ASSUME Less(s, t), ~Less(x, y) PROVE x = y /\ Less(p, q)
    <2>1. PICK k \in 1 .. n + b : /\ \A i \in 1 .. k - 1 : i <= n + a /\ s[i] = t[i]
                                  /\ k > n + a \/ Code(s[k]) < Code(t[k])
      BY <1>4, <1>5, <1>8 DEF Less
    <2>2. k > n
      <3> SUFFICES ASSUME k <= n PROVE FALSE
        OBVIOUS
      <3>1. k \in 1 .. Len(y)
        BY <1>1
      <3>2. ASSUME NEW i \in 1 .. k - 1 PROVE i <= Len(x) /\ x[i] = y[i]
        <4>1. i \in 1 .. n /\ i <= Len(x)
          BY <1>1
        <4>2. s[i] = x[i] /\ t[i] = y[i]
          BY <1>4, <1>5, <4>1
        <4>3. s[i] = t[i]
          BY <2>1
        <4> QED BY <4>1, <4>2, <4>3
      <3>3. Code(x[k]) < Code(y[k])
        <4>1. k \in 1 .. n /\ ~(k > n + a)
          OBVIOUS
        <4>2. s[k] = x[k] /\ t[k] = y[k]
          BY <1>4, <1>5, <4>1
        <4>3. Code(s[k]) < Code(t[k])
          BY <2>1, <4>1
        <4> QED BY <4>2, <4>3
      <3> QED BY <1>8, <3>1, <3>2, <3>3 DEF Less
    <2>3. x = y
      <3>1. \A i \in 1 .. n : x[i] = y[i]
        BY <1>4, <1>5, <2>1, <2>2
      <3> QED BY <1>1, <3>1, SeqEqual
    <2>4. PICK j \in 1 .. b : k = n + j
      <3>1. k - n \in 1 .. b /\ k = n + (k - n)
        BY <2>2
      <3> QED BY <3>1
    <2>5. ASSUME NEW i \in 1 .. j - 1 PROVE i <= a /\ p[i] = q[i]
      <3>1. n + i \in 1 .. k - 1
        BY <2>4
      <3>2. n + i <= n + a /\ s[n + i] = t[n + i]
        BY <2>1, <3>1
      <3>3. i \in 1 .. a /\ i \in 1 .. b
        BY <3>2
      <3> QED BY <1>4, <1>5, <3>2, <3>3
    <2>6. j > a \/ Code(p[j]) < Code(q[j])
      <3>1. CASE ~(j > a)
        <4>0. j \in Nat /\ j >= 1 /\ j <= a
          BY <3>1
        <4>1. j \in 1 .. a /\ ~(k > n + a)
          BY <2>4, <4>0
        <4>2. s[k] = p[j] /\ t[k] = q[j]
          BY <1>4, <1>5, <2>4, <4>1
        <4> QED BY <2>1, <4>1, <4>2
      <3> QED BY <3>1
    <2>7. j \in 1 .. Len(q)
      BY <1>3
    <2>8. Less(p, q)
      BY <1>2, <2>5, <2>6, <2>7 DEF Less
    <2> QED BY <2>3, <2>8
  <1>9. ASSUME s = t PROVE x = y /\ p = q
    <2>1. \A i \in 1 .. n : x[i] = y[i]
      BY <1>4, <1>5, <1>9
    <2>2. a = b
      BY <1>4, <1>5, <1>9
    <2>3. \A i \in 1 .. a : p[i] = q[i]
      BY <1>4, <1>5, <1>9, <2>2
    <2>4. x = y
      BY <1>1, <2>1, SeqEqual
    <2>5. p = q
      BY <1>2, <1>3, <2>2, <2>3, SeqEqual
    <2> QED BY <2>4, <2>5
  <1>10. s = t <=> x = y /\ p = q
    BY <1>9 DEF s, t
  <1>11. Less(s, t) <=> Less(x, y) \/ (x = y /\ Less(p, q))
    BY <1>6, <1>7, <1>8
  <1> QED BY <1>10, <1>11 DEF s, t, InOrder

-----------------------------------------------------------------------------
(* The order of figures is that of their numbers.                          *)
LEMMA CodeFacts ==
  ASSUME NEW d \in 0 .. 9
  PROVE  Code(Digit[d]) = d + 2
  <1> DEFINE codes == <<"-", "0", "1", "2", "3", "4", "5", "6", "7", "8", "9", ":", "T", "Z">>
             names == <<"0", "1", "2", "3", "4", "5", "6", "7", "8", "9">>
  <1>1. Digit[d] = names[d + 1]
    BY DEF Digit
  <1>2. d + 2 \in 1 .. 14 /\ codes[d + 2] = names[d + 1]
    BY Tenth
  <1>3. ASSUME NEW i \in 1 .. 14, codes[i] = names[d + 1] PROVE i = d + 2
    <2>1. \/ i = 1 \/ i = 2 \/ i = 3 \/ i = 4 \/ i = 5 \/ i = 6 \/ i = 7 \/ i = 8 \/ i = 9
          \/ i = 10 \/ i = 11 \/ i = 12 \/ i = 13 \/ i = 14
      OBVIOUS
    <2> QED BY <1>3, <2>1, Tenth
  <1>4. Code(Digit[d]) = CHOOSE i \in 1 .. 14 : codes[i] = names[d + 1]
    BY <1>1 DEF Code
  <1> HIDE DEF codes, names
  <1> QED BY <1>2, <1>3, <1>4

(* The characters of figures are in the order of the figures.              *)
LEMMA CharOrder ==
  ASSUME NEW c \in Digits, NEW d \in Digits
  PROVE  /\ Figure(c) \in 0 .. 9 /\ Figure(d) \in 0 .. 9
         /\ Code(c) < Code(d) <=> Figure(c) < Figure(d)
         /\ c = d <=> Figure(c) = Figure(d)
  <1>1. /\ Figure(c) \in 0 .. 9 /\ Digit[Figure(c)] = c
        /\ Figure(d) \in 0 .. 9 /\ Digit[Figure(d)] = d
    BY FigureFacts
  <1>2. Code(c) = Figure(c) + 2 /\ Code(d) = Figure(d) + 2
    BY <1>1, CodeFacts
  <1> QED BY <1>1, <1>2

(* Numbers written with equally many figures are in the order of the texts.*)
LEMMA DecimalOrder ==
  ASSUME NEW n \in Nat, NEW m \in Nat, NEW k \in {2, 4}, NEW s, NEW t,
         IsDecimal(s, n, k), IsDecimal(t, m, k)
  PROVE  Less(s, t) <=> n < m
  <1> DEFINE x(i) == Figure(s[i])
             y(i) == Figure(t[i])
  <1>1. /\ s \in Seq(Digits) /\ t \in Seq(Digits) /\ Len(s) = k /\ Len(t) = k
        /\ k \in 1 .. 5
    BY DEF IsDecimal
  <1>2. ASSUME NEW i \in 1 .. k
        PROVE  /\ x(i) \in 0 .. 9 /\ y(i) \in 0 .. 9 /\ (s[i] = t[i] <=> x(i) = y(i))
               /\ Code(s[i]) < Code(t[i]) <=> x(i) < y(i)
    <2>1. s[i] \in Digits /\ t[i] \in Digits
      BY <1>1
    <2> QED BY <2>1, CharOrder
  <1>3. ValueOf(s) = n /\ ValueOf(t) = m
    BY <1>1, ValueOfPrinted
  <1>4. Places(s) /\ Places(t)
    BY <1>1, ShortValues
  <1>5. /\ k = 2 => n = 10 * x(1) + x(2) /\ m = 10 * y(1) + y(2)
        /\ k = 4 => /\ n = 10 * (10 * (10 * x(1) + x(2)) + x(3)) + x(4)
                    /\ m = 10 * (10 * (10 * y(1) + y(2)) + y(3)) + y(4)
    BY <1>1, <1>3, <1>4 DEF Places
  <1> HIDE DEF x, y
  <1>6. Less(s, t) <=> \E j \in 1 .. k : /\ \A i \in 1 .. j - 1 : x(i) = y(i)
                                         /\ x(j) < y(j)
    <2>1. ASSUME NEW j \in 1 .. k
          PROVE  /\ (\A i \in 1 .. j - 1 : i <= Len(s) /\ s[i] = t[i]) <=>
                      \A i \in 1 .. j - 1 : x(i) = y(i)
                 /\ (j > Len(s) \/ Code(s[j]) < Code(t[j])) <=> x(j) < y(j)
      <3>1. \A i \in 1 .. j - 1 : i \in 1 .. k /\ i <= k
        BY <1>1
      <3>2. ~(j > k)
        BY <1>1
      <3> QED BY <1>1, <1>2, <3>1, <3>2
    <2>2. 1 .. Len(t) = 1 .. k
      BY <1>1
    <2> QED BY <2>1, <2>2 DEF Less
  <1>7. CASE k = 2
    <2>1. x(1) \in 0 .. 9 /\ y(1) \in 0 .. 9 /\ x(2) \in 0 .. 9 /\ y(2) \in 0 .. 9
      BY <1>2, <1>7
    <2>2. ASSUME NEW j \in 1 .. k, \A i \in 1 .. j - 1 : x(i) = y(i), x(j) < y(j)
          PROVE  x(1) < y(1) \/ (x(1) = y(1) /\ x(2) < y(2))
      <3>1. j = 1 \/ (j = 2 /\ 1 \in 1 .. j - 1)
        BY <1>7
      <3> QED BY <2>2, <3>1
    <2>3. ASSUME x(1) < y(1) \/ (x(1) = y(1) /\ x(2) < y(2))
          PROVE  \E j \in 1 .. k : (\A i \in 1 .. j - 1 : x(i) = y(i)) /\ x(j) < y(j)
      <3>1. CASE x(1) < y(1)
        <4>1. 1 \in 1 .. k /\ 1 .. 1 - 1 = {}
          BY <1>7
        <4> QED BY <3>1, <4>1
      <3>2. CASE x(1) = y(1) /\ x(2) < y(2)
        <4>1. 2 \in 1 .. k /\ \A i \in 1 .. 2 - 1 : i = 1
          BY <1>7
        <4> QED BY <3>2, <4>1
      <3> QED BY <2>3, <3>1, <3>2
    <2>4. n < m <=> x(1) < y(1) \/ (x(1) = y(1) /\ x(2) < y(2))
      BY <1>5, <1>7, <2>1, SMT
    <2> QED BY <1>6, <2>2, <2>3, <2>4
  <1>8. CASE k = 4
    <2> DEFINE Lower == \/ x(1) < y(1) \/ (x(1) = y(1) /\ x(2) < y(2))
                        \/ (x(1) = y(1) /\ x(2) = y(2) /\ x(3) < y(3))
                        \/ (x(1) = y(1) /\ x(2) = y(2) /\ x(3) = y(3) /\ x(4) < y(4))
    <2>1. /\ x(1) \in 0 .. 9 /\ y(1) \in 0 .. 9 /\ x(2) \in 0 .. 9 /\ y(2) \in 0 .. 9
          /\ x(3) \in 0 .. 9 /\ y(3) \in 0 .. 9 /\ x(4) \in 0 .. 9 /\ y(4) \in 0 .. 9
      BY <1>2, <1>8
    <2>2. ASSUME NEW j \in 1 .. k, \A i \in 1 .. j - 1 : x(i) = y(i), x(j) < y(j)
          PROVE  Lower
      <3>1. CASE j = 1
        BY <2>2, <3>1
      <3>2. CASE j = 2
        <4>1. 1 \in 1 .. j - 1
          BY <3>2
        <4> QED BY <2>2, <3>2, <4>1
      <3>3. CASE j = 3
        <4>1. 1 \in 1 .. j - 1 /\ 2 \in 1 .. j - 1
          BY <3>3
        <4> QED BY <2>2, <3>3, <4>1
      <3>4. CASE j = 4
        <4>1. 1 \in 1 .. j - 1 /\ 2 \in 1 .. j - 1 /\ 3 \in 1 .. j - 1
          BY <3>4
        <4> QED BY <2>2, <3>4, <4>1
      <3> QED BY <1>8, <3>1, <3>2, <3>3, <3>4
    <2>3. ASSUME Lower
          PROVE  \E j \in 1 .. k : (\A i \in 1 .. j - 1 : x(i) = y(i)) /\ x(j) < y(j)
      <3>1. CASE x(1) < y(1)
        <4>1. 1 \in 1 .. k /\ 1 .. 1 - 1 = {}
          BY <1>8
        <4> QED BY <3>1, <4>1
      <3>2. CASE x(1) = y(1) /\ x(2) < y(2)
        <4>1. 2 \in 1 .. k /\ \A i \in 1 .. 2 - 1 : i = 1
          BY <1>8
        <4> QED BY <3>2, <4>1
      <3>3. CASE x(1) = y(1) /\ x(2) = y(2) /\ x(3) < y(3)
        <4>1. 3 \in 1 .. k /\ \A i \in 1 .. 3 - 1 : i = 1 \/ i = 2
          BY <1>8
        <4> QED BY <3>3, <4>1
      <3>4. CASE x(1) = y(1) /\ x(2) = y(2) /\ x(3) = y(3) /\ x(4) < y(4)
        <4>1. 4 \in 1 .. k /\ \A i \in 1 .. 4 - 1 : i = 1 \/ i = 2 \/ i = 3
          BY <1>8
        <4> QED BY <3>4, <4>1
      <3> QED BY <2>3, <3>1, <3>2, <3>3, <3>4
    <2>4. n < m <=> Lower
      <3>1. PICK a \in 0 .. 9, b \in 0 .. 9, c \in 0 .. 9, d \in 0 .. 9 :
              a = x(1) /\ b = x(2) /\ c = x(3) /\ d = x(4)
        BY <2>1
      <3>2. PICK e \in 0 .. 9, f \in 0 .. 9, g \in 0 .. 9, h \in 0 .. 9 :
              e = y(1) /\ f = y(2) /\ g = y(3) /\ h = y(4)
        BY <2>1
      <3>3. n = 1000 * a + 100 * b + 10 * c + d /\ m = 1000 * e + 100 * f + 10 * g + h
        <4>1. /\ n = 10 * (10 * (10 * a + b) + c) + d
              /\ m = 10 * (10 * (10 * e + f) + g) + h
          BY <1>5, <1>8, <3>1, <3>2
        <4> QED BY <4>1, SMT
      <3>4. n < m <=> \/ a < e \/ (a = e /\ b < f) \/ (a = e /\ b = f /\ c < g)
                      \/ (a = e /\ b = f /\ c = g /\ d < h)
        BY <3>3, SMTT(60)
      <3> QED BY <3>1, <3>2, <3>4
    <2> HIDE DEF Lower
    <2> QED BY <1>6, <2>2, <2>3, <2>4
  <1> QED BY <1>7, <1>8

(* A number is written in one way, and is read back.                       *)
LEMMA DecimalSame ==
  ASSUME NEW n \in Nat, NEW m \in Nat, NEW k \in 1 .. 5, NEW s, NEW t,
         IsDecimal(s, n, k), IsDecimal(t, m, k)
  PROVE  s = t <=> n = m
  <1>1. n = m => s = t
    BY DecimalsAreOne
  <1>2. s = t => n = m
    BY ValueOfPrinted
  <1> QED BY <1>1, <1>2

(* The widths that %02d and %04d give.                                     *)
LEMMA FieldWidths ==
  ASSUME NEW n \in Nat
  PROVE  /\ n < 100 => IsDecimal(Decimal(n, 2), n, 2)
         /\ n <= 9999 => IsDecimal(Decimal(n, 4), n, 4)
         /\ n > 9999 /\ n < 100000 => IsDecimal(Decimal(n, 4), n, 5)
  <1>1. ASSUME NEW width \in {2, 4}, n < 100000
        PROVE  \E k \in 1 .. 5 : /\ k >= width /\ (k > width => n >= Power[k - 1])
                                /\ IsDecimal(Decimal(n, width), n, k)
    <2>1. width \in 1 .. 5
      OBVIOUS
    <2> QED BY <1>1, <2>1, DecimalFacts
  <1>2. ASSUME n < 100 PROVE IsDecimal(Decimal(n, 2), n, 2)
    <2>1. n < 100000 /\ 2 \in {2, 4}
      BY <1>2, SMT
    <2>2. PICK k \in 1 .. 5 : /\ k >= 2 /\ (k > 2 => n >= Power[k - 1])
                             /\ IsDecimal(Decimal(n, 2), n, k)
      BY <1>1, <2>1
    <2>3. k = 2
      BY <1>2, <2>2, Powers, SMT
    <2> QED BY <2>2, <2>3
  <1>3. ASSUME n < 100000
        PROVE  \E k \in {4, 5} : /\ (k = 5 => n > 9999) /\ n < Power[k]
                                /\ IsDecimal(Decimal(n, 4), n, k)
    <2>1. 4 \in {2, 4}
      OBVIOUS
    <2>2. PICK k \in 1 .. 5 : /\ k >= 4 /\ (k > 4 => n >= Power[k - 1])
                             /\ IsDecimal(Decimal(n, 4), n, k)
      BY <1>1, <1>3, <2>1
    <2>3. k \in {4, 5}
      BY <2>2
    <2>4. n < Power[k]
      BY <2>2 DEF IsDecimal
    <2>5. k = 5 => n > 9999
      BY <2>2, Powers, SMT
    <2> QED BY <2>2, <2>3, <2>4, <2>5
  <1>4. ASSUME n <= 9999 PROVE IsDecimal(Decimal(n, 4), n, 4)
    <2>1. n < 100000
      BY <1>4, SMT
    <2>2. PICK k \in {4, 5} : /\ (k = 5 => n > 9999) /\ IsDecimal(Decimal(n, 4), n, k)
      BY <1>3, <2>1
    <2>3. k = 4
      BY <1>4, <2>2, SMT
    <2> QED BY <2>2, <2>3
  <1>5. ASSUME n > 9999, n < 100000 PROVE IsDecimal(Decimal(n, 4), n, 5)
    <2>1. PICK k \in {4, 5} : n < Power[k] /\ IsDecimal(Decimal(n, 4), n, k)
      BY <1>3, <1>5
    <2>2. k = 5
      BY <1>5, <2>1, Powers, SMT
    <2> QED BY <2>1, <2>2
  <1> QED BY <1>2, <1>4, <1>5

-----------------------------------------------------------------------------
(* The text of a date, up to each of its fields.  What follows, to the last*)
(* theorem about times, is about dates: years from 0 and months from 1.    *)
With(x, c, field) == x \o <<c>> \o field

Begin1(t) == Decimal(t.year, 4)
Begin2(t) == With(Begin1(t), "-", Decimal(t.mon, 2))
Begin3(t) == With(Begin2(t), "-", Decimal(t.mday, 2))
Begin4(t) == With(Begin3(t), "T", Decimal(t.hour, 2))
Begin5(t) == With(Begin4(t), ":", Decimal(t.min, 2))
Begin6(t) == With(Begin5(t), ":", Decimal(t.sec, 2))

IsTime(t) ==
  /\ t \in [year : Nat, mon : Nat, mday : Nat, hour : Nat, min : Nat, sec : Nat]
  /\ t.year < 100000 /\ t.mon < 100 /\ t.mday < 100
  /\ t.hour < 100 /\ t.min < 100 /\ t.sec < 100

FourFigures(t) == t.year <= 9999

YearWidth(t) == IF FourFigures(t) THEN 4 ELSE 5

Marked == Digits \cup {"-", "T", ":", "Z"}

(* What formatISOTimestamp makes of a date.                                *)
FormatDate(d) == Buffer(DateText(d))

(* Every field of a time is printed in its width, the year in four figures *)
(* or five.                                                                *)
LEMMA FieldFacts ==
  ASSUME NEW t, IsTime(t)
  PROVE  /\ IsDecimal(Decimal(t.year, 4), t.year, YearWidth(t))
         /\ IsDecimal(Decimal(t.mon, 2), t.mon, 2)
         /\ IsDecimal(Decimal(t.mday, 2), t.mday, 2)
         /\ IsDecimal(Decimal(t.hour, 2), t.hour, 2)
         /\ IsDecimal(Decimal(t.min, 2), t.min, 2)
         /\ IsDecimal(Decimal(t.sec, 2), t.sec, 2)
  <1>1. /\ t.year \in Nat /\ t.mon \in Nat /\ t.mday \in Nat /\ t.hour \in Nat
        /\ t.min \in Nat /\ t.sec \in Nat
    BY DEF IsTime
  <1>2. /\ t.mon < 100 /\ t.mday < 100 /\ t.hour < 100 /\ t.min < 100 /\ t.sec < 100
    BY DEF IsTime
  <1>3. IsDecimal(Decimal(t.year, 4), t.year, YearWidth(t))
    <2>1. CASE FourFigures(t)
      BY <1>1, <2>1, FieldWidths DEF YearWidth, FourFigures
    <2>2. CASE ~FourFigures(t)
      <3>1. t.year > 9999 /\ t.year < 100000
        BY <1>1, <2>2, SMT DEF IsTime, FourFigures
      <3> QED BY <1>1, <2>2, <3>1, FieldWidths DEF YearWidth
    <2> QED BY <2>1, <2>2
  <1> QED BY <1>1, <1>2, <1>3, FieldWidths

(* Figures are characters of a timestamp.                                  *)
LEMMA MarkedSeq ==
  ASSUME NEW n, NEW k, NEW s, IsDecimal(s, n, k)
  PROVE  s \in Seq(Marked) /\ Len(s) = k
  <1>1. s \in Seq(Digits) /\ Len(s) = k
    BY DEF IsDecimal
  <1> DEFINE D == Digits
             M == Marked
  <1>2. D \subseteq M
    BY DEF Marked
  <1> HIDE DEF D, M
  <1>3. Seq(D) \subseteq Seq(M)
    BY <1>2
  <1> QED BY <1>1, <1>3 DEF D, M

(* Each beginning of a printed time is the one before, a mark and a field. *)
LEMMA BeginFacts ==
  ASSUME NEW t, IsTime(t)
  PROVE  /\ Begin1(t) \in Seq(Marked) /\ Len(Begin1(t)) = YearWidth(t)
         /\ Begin2(t) \in Seq(Marked) /\ Joined(Begin2(t), Begin1(t), "-", Decimal(t.mon, 2))
         /\ Begin3(t) \in Seq(Marked) /\ Joined(Begin3(t), Begin2(t), "-", Decimal(t.mday, 2))
         /\ Begin4(t) \in Seq(Marked) /\ Joined(Begin4(t), Begin3(t), "T", Decimal(t.hour, 2))
         /\ Begin5(t) \in Seq(Marked) /\ Joined(Begin5(t), Begin4(t), ":", Decimal(t.min, 2))
         /\ Begin6(t) \in Seq(Marked) /\ Joined(Begin6(t), Begin5(t), ":", Decimal(t.sec, 2))
         /\ DateText(t) = Begin6(t) \o <<"Z">>
  <1>1. /\ "-" \in Marked /\ "T" \in Marked /\ ":" \in Marked
    BY DEF Marked
  <1>2. /\ Decimal(t.mon, 2) \in Seq(Marked) /\ Decimal(t.mday, 2) \in Seq(Marked)
        /\ Decimal(t.hour, 2) \in Seq(Marked) /\ Decimal(t.min, 2) \in Seq(Marked)
        /\ Decimal(t.sec, 2) \in Seq(Marked)
    BY FieldFacts, MarkedSeq
  <1>3. Begin1(t) \in Seq(Marked) /\ Len(Begin1(t)) = YearWidth(t)
    BY FieldFacts, MarkedSeq DEF Begin1
  <1>4. Begin2(t) \in Seq(Marked) /\ Joined(Begin2(t), Begin1(t), "-", Decimal(t.mon, 2))
    BY <1>1, <1>2, <1>3, JoinedFacts DEF Begin2, With
  <1>5. Begin3(t) \in Seq(Marked) /\ Joined(Begin3(t), Begin2(t), "-", Decimal(t.mday, 2))
    BY <1>1, <1>2, <1>4, JoinedFacts DEF Begin3, With
  <1>6. Begin4(t) \in Seq(Marked) /\ Joined(Begin4(t), Begin3(t), "T", Decimal(t.hour, 2))
    BY <1>1, <1>2, <1>5, JoinedFacts DEF Begin4, With
  <1>7. Begin5(t) \in Seq(Marked) /\ Joined(Begin5(t), Begin4(t), ":", Decimal(t.min, 2))
    BY <1>1, <1>2, <1>6, JoinedFacts DEF Begin5, With
  <1>8. Begin6(t) \in Seq(Marked) /\ Joined(Begin6(t), Begin5(t), ":", Decimal(t.sec, 2))
    BY <1>1, <1>2, <1>7, JoinedFacts DEF Begin6, With
  <1>9. DateText(t) = Begin6(t) \o <<"Z">>
    BY DEF DateText, Begin1, Begin2, Begin3, Begin4, Begin5, Begin6, With
  <1> QED BY <1>3, <1>4, <1>5, <1>6, <1>7, <1>8, <1>9

-----------------------------------------------------------------------------
(* No mark is before itself.                                               *)
LEMMA MarkOrder ==
  ASSUME NEW c \in {"-", "T", ":", "Z"}
  PROVE  ~Less(<<c>>, <<c>>)
  <1> DEFINE codes == <<"-", "0", "1", "2", "3", "4", "5", "6", "7", "8", "9", ":", "T", "Z">>
  <1>1. \E i \in 1 .. 14 : codes[i] = c
    <2>1. codes[1] = "-" /\ codes[12] = ":" /\ codes[13] = "T" /\ codes[14] = "Z"
      OBVIOUS
    <2>2. 1 \in 1 .. 14 /\ 12 \in 1 .. 14 /\ 13 \in 1 .. 14 /\ 14 \in 1 .. 14
      OBVIOUS
    <2> HIDE DEF codes
    <2> QED BY <2>1, <2>2
  <1>2. Code(c) = CHOOSE i \in 1 .. 14 : codes[i] = c
    BY DEF Code
  <1> HIDE DEF codes
  <1>3. Code(c) \in 1 .. 14
    BY <1>1, <1>2
  <1>4. Len(<<c>>) = 1 /\ <<c>>[1] = c
    OBVIOUS
  <1>5. ASSUME NEW k \in 1 .. Len(<<c>>),
               k > Len(<<c>>) \/ Code(<<c>>[k]) < Code(<<c>>[k])
        PROVE  FALSE
    <2>1. k = 1
      BY <1>4
    <2> QED BY <1>3, <1>4, <1>5, <2>1
  <1> QED BY <1>5 DEF Less

(* Texts with the same mark are in the order of their parts.               *)
LEMMA StepOrder ==
  ASSUME NEW x \in Seq(Marked), NEW y \in Seq(Marked), NEW p \in Seq(Marked),
         NEW q \in Seq(Marked), Len(x) = Len(y), NEW c \in {"-", "T", ":", "Z"}
  PROVE  InOrder(x \o <<c>> \o p, y \o <<c>> \o q, x, y, p, q)
  <1> DEFINE d == <<c>>
  <1>1. d \in Seq(Marked) /\ Len(d) = 1 /\ ~Less(d, d)
    <2>1. c \in Marked
      BY DEF Marked
    <2>2. ~Less(<<c>>, <<c>>)
      BY MarkOrder
    <2>3. <<c>> \in Seq(Marked) /\ Len(<<c>>) = 1
      BY <2>1
    <2> QED BY <2>2, <2>3
  <1> HIDE DEF d
  <1> DEFINE u == x \o d
             v == y \o d
  <1>2. u \in Seq(Marked) /\ v \in Seq(Marked) /\ Len(u) = Len(v)
    <2>1. u \in Seq(Marked) /\ v \in Seq(Marked) /\ Added(u, x, d) /\ Added(v, y, d)
      BY <1>1, AddedFacts
    <2> HIDE DEF u, v
    <2> QED BY <2>1 DEF Added
  <1>3. InOrder(u, v, x, y, d, d)
    BY <1>1, LessConcat
  <1> HIDE DEF u, v
  <1>4. InOrder(u \o p, v \o q, u, v, p, q)
    BY <1>2, LessConcat
  <1>5. u \o p = x \o <<c>> \o p /\ v \o q = y \o <<c>> \o q
    BY DEF u, v, d
  <1> DEFINE s == u \o p
             t == v \o q
  <1>6. InOrder(s, t, x, y, p, q)
    <2> HIDE DEF s, t
    <2>1. InOrder(s, t, u, v, p, q)
      BY <1>4 DEF s, t
    <2> QED BY <1>1, <1>3, <2>1 DEF InOrder
  <1> QED BY <1>5, <1>6

(* How two times compare, as far as a field.                               *)
Earlier1(t, u) == t.year < u.year
Earlier2(t, u) == Earlier1(t, u) \/ (t.year = u.year /\ t.mon < u.mon)
Same2(t, u)    == t.year = u.year /\ t.mon = u.mon
Earlier3(t, u) == Earlier2(t, u) \/ (Same2(t, u) /\ t.mday < u.mday)
Same3(t, u)    == Same2(t, u) /\ t.mday = u.mday
Earlier4(t, u) == Earlier3(t, u) \/ (Same3(t, u) /\ t.hour < u.hour)
Same4(t, u)    == Same3(t, u) /\ t.hour = u.hour
Earlier5(t, u) == Earlier4(t, u) \/ (Same4(t, u) /\ t.min < u.min)
Same5(t, u)    == Same4(t, u) /\ t.min = u.min
Earlier6(t, u) == Earlier5(t, u) \/ (Same5(t, u) /\ t.sec < u.sec)
Same6(t, u)    == Same5(t, u) /\ t.sec = u.sec

(* Before, with its quantifiers, is the comparison field by field.         *)
LEMMA EarlierIsBefore ==
  ASSUME NEW t, NEW u
  PROVE  Before(t, u) <=> Earlier6(t, u)
  <1> DEFINE a == <<t.year, t.mon, t.mday, t.hour, t.min, t.sec>>
             b == <<u.year, u.mon, u.mday, u.hour, u.min, u.sec>>
  <1>1. Before(t, u) <=>
          \E k \in 1 .. 6 : a[k] < b[k] /\ \A i \in 1 .. k - 1 : a[i] = b[i]
    BY DEF Before
  <1>2. /\ a[1] = t.year /\ a[2] = t.mon /\ a[3] = t.mday /\ a[4] = t.hour /\ a[5] = t.min
        /\ a[6] = t.sec /\ b[1] = u.year /\ b[2] = u.mon /\ b[3] = u.mday
        /\ b[4] = u.hour /\ b[5] = u.min /\ b[6] = u.sec
    OBVIOUS
  <1> HIDE DEF a, b
  <1>3. ASSUME NEW k \in 1 .. 6, a[k] < b[k], \A i \in 1 .. k - 1 : a[i] = b[i]
        PROVE  Earlier6(t, u)
    <2>1. /\ k > 1 => 1 \in 1 .. k - 1
          /\ k > 2 => 2 \in 1 .. k - 1
          /\ k > 3 => 3 \in 1 .. k - 1
          /\ k > 4 => 4 \in 1 .. k - 1
          /\ k > 5 => 5 \in 1 .. k - 1
      OBVIOUS
    <2>2. k = 1 \/ k = 2 \/ k = 3 \/ k = 4 \/ k = 5 \/ k = 6
      OBVIOUS
    <2> QED BY <1>2, <1>3, <2>1, <2>2 DEF Earlier6, Earlier5, Earlier4, Earlier3, Earlier2,
               Earlier1, Same2, Same3, Same4, Same5
  <1>4. ASSUME Earlier6(t, u)
        PROVE  \E k \in 1 .. 6 : a[k] < b[k] /\ \A i \in 1 .. k - 1 : a[i] = b[i]
    <2>1. /\ \A i \in 1 .. 2 - 1 : i = 1
          /\ \A i \in 1 .. 3 - 1 : i = 1 \/ i = 2
          /\ \A i \in 1 .. 4 - 1 : i = 1 \/ i = 2 \/ i = 3
          /\ \A i \in 1 .. 5 - 1 : i = 1 \/ i = 2 \/ i = 3 \/ i = 4
          /\ \A i \in 1 .. 6 - 1 : i = 1 \/ i = 2 \/ i = 3 \/ i = 4 \/ i = 5
      OBVIOUS
    <2>2. CASE Earlier1(t, u)
      <3>1. a[1] < b[1] /\ 1 \in 1 .. 6 /\ 1 .. 1 - 1 = {}
        BY <1>2, <2>2 DEF Earlier1
      <3> QED BY <3>1
    <2>3. CASE t.year = u.year /\ t.mon < u.mon
      <3>1. a[2] < b[2] /\ 2 \in 1 .. 6 /\ \A i \in 1 .. 2 - 1 : a[i] = b[i]
        BY <1>2, <2>1, <2>3
      <3> QED BY <3>1
    <2>4. CASE Same2(t, u) /\ t.mday < u.mday
      <3>1. a[3] < b[3] /\ 3 \in 1 .. 6 /\ \A i \in 1 .. 3 - 1 : a[i] = b[i]
        BY <1>2, <2>1, <2>4 DEF Same2
      <3> QED BY <3>1
    <2>5. CASE Same3(t, u) /\ t.hour < u.hour
      <3>1. a[4] < b[4] /\ 4 \in 1 .. 6 /\ \A i \in 1 .. 4 - 1 : a[i] = b[i]
        BY <1>2, <2>1, <2>5 DEF Same2, Same3
      <3> QED BY <3>1
    <2>6. CASE Same4(t, u) /\ t.min < u.min
      <3>1. a[5] < b[5] /\ 5 \in 1 .. 6 /\ \A i \in 1 .. 5 - 1 : a[i] = b[i]
        BY <1>2, <2>1, <2>6 DEF Same2, Same3, Same4
      <3> QED BY <3>1
    <2>7. CASE Same5(t, u) /\ t.sec < u.sec
      <3>1. a[6] < b[6] /\ 6 \in 1 .. 6 /\ \A i \in 1 .. 6 - 1 : a[i] = b[i]
        BY <1>2, <2>1, <2>7 DEF Same2, Same3, Same4, Same5
      <3> QED BY <3>1
    <2> QED BY <1>4, <2>2, <2>3, <2>4, <2>5, <2>6, <2>7
               DEF Earlier6, Earlier5, Earlier4, Earlier3, Earlier2
  <1> QED BY <1>1, <1>3, <1>4

(* Two texts of length n, the beginnings of two times.                     *)
Long(s, r, n) == s \in Seq(Marked) /\ r \in Seq(Marked) /\ Len(s) = n /\ Len(r) = n

(* Two texts that are in the order of x and y, and then of numbers.        *)
InFieldOrder(s, r, x, y, f, g) ==
  /\ Less(s, r) <=> Less(x, y) \/ (x = y /\ f < g)
  /\ s = r <=> x = y /\ f = g

(* With a mark and a field more, texts are in the order of their           *)
(* beginnings, or of the fields.                                           *)
LEMMA FieldOrder ==
  ASSUME NEW x, NEW y, NEW n \in Nat, Long(x, y, n), NEW c \in {"-", "T", ":", "Z"},
         NEW f \in Nat, NEW g \in Nat, NEW v, NEW w, IsDecimal(v, f, 2), IsDecimal(w, g, 2)
  PROVE  /\ Long(With(x, c, v), With(y, c, w), n + 3)
         /\ InFieldOrder(With(x, c, v), With(y, c, w), x, y, f, g)
  <1>1. v \in Seq(Marked) /\ w \in Seq(Marked) /\ Len(v) = 2 /\ Len(w) = 2
    BY MarkedSeq
  <1>2. Less(v, w) <=> f < g
    <2>1. 2 \in {2, 4}
      OBVIOUS
    <2> QED BY <2>1, DecimalOrder
  <1>3. v = w <=> f = g
    <2>1. 2 \in 1 .. 5
      OBVIOUS
    <2> QED BY <2>1, DecimalSame
  <1>4. c \in Marked
    BY DEF Marked
  <1> DEFINE s == x \o <<c>> \o v
             r == y \o <<c>> \o w
  <1>5. x \in Seq(Marked) /\ y \in Seq(Marked) /\ Len(x) = n /\ Len(y) = n
    BY DEF Long
  <1>6. s \in Seq(Marked) /\ r \in Seq(Marked) /\ Joined(s, x, c, v) /\ Joined(r, y, c, w)
    BY <1>1, <1>4, <1>5, JoinedFacts
  <1>7. InOrder(s, r, x, y, v, w)
    BY <1>1, <1>5, StepOrder
  <1> HIDE DEF s, r
  <1>8. Long(s, r, n + 3)
    BY <1>1, <1>5, <1>6 DEF Joined, Long
  <1>9. InFieldOrder(s, r, x, y, f, g)
    BY <1>2, <1>3, <1>7 DEF InOrder, InFieldOrder
  <1> QED BY <1>8, <1>9 DEF s, r, With

(* Until the year 9999 texts, up to the Z, are in the order of the times.  *)
LEMMA BeginOrder ==
  ASSUME NEW t, NEW u, IsTime(t), IsTime(u), FourFigures(t), FourFigures(u)
  PROVE  /\ Long(Begin6(t), Begin6(u), 19)
         /\ Less(Begin6(t), Begin6(u)) <=> Before(t, u)
         /\ Begin6(t) = Begin6(u) <=> Same6(t, u)
  <1>1. /\ t.year \in Nat /\ t.mon \in Nat /\ t.mday \in Nat /\ t.hour \in Nat
        /\ t.min \in Nat /\ t.sec \in Nat
        /\ u.year \in Nat /\ u.mon \in Nat /\ u.mday \in Nat /\ u.hour \in Nat
        /\ u.min \in Nat /\ u.sec \in Nat
    BY DEF IsTime
  <1>2. /\ IsDecimal(Decimal(t.mon, 2), t.mon, 2)
        /\ IsDecimal(Decimal(t.mday, 2), t.mday, 2)
        /\ IsDecimal(Decimal(t.hour, 2), t.hour, 2)
        /\ IsDecimal(Decimal(t.min, 2), t.min, 2)
        /\ IsDecimal(Decimal(t.sec, 2), t.sec, 2)
        /\ IsDecimal(Decimal(u.mon, 2), u.mon, 2)
        /\ IsDecimal(Decimal(u.mday, 2), u.mday, 2)
        /\ IsDecimal(Decimal(u.hour, 2), u.hour, 2)
        /\ IsDecimal(Decimal(u.min, 2), u.min, 2)
        /\ IsDecimal(Decimal(u.sec, 2), u.sec, 2)
    BY FieldFacts
  <1>3. IsDecimal(Begin1(t), t.year, 4) /\ IsDecimal(Begin1(u), u.year, 4)
    BY FieldFacts DEF YearWidth, Begin1
  <1>4. Long(Begin1(t), Begin1(u), 4)
    <2>1. Begin1(t) \in Seq(Marked) /\ Len(Begin1(t)) = 4
      BY <1>3, MarkedSeq
    <2>2. Begin1(u) \in Seq(Marked) /\ Len(Begin1(u)) = 4
      BY <1>3, MarkedSeq
    <2> QED BY <2>1, <2>2 DEF Long
  <1>5. Less(Begin1(t), Begin1(u)) <=> Earlier1(t, u)
    <2>1. 4 \in {2, 4}
      OBVIOUS
    <2> QED BY <1>1, <1>3, <2>1, DecimalOrder DEF Earlier1
  <1>6. Begin1(t) = Begin1(u) <=> t.year = u.year
    <2>1. 4 \in 1 .. 5
      OBVIOUS
    <2> QED BY <1>1, <1>3, <2>1, DecimalSame
  <1>7. 4 \in Nat /\ 7 \in Nat /\ 10 \in Nat /\ 13 \in Nat /\ 16 \in Nat
    OBVIOUS
  <1>8. /\ Long(Begin2(t), Begin2(u), 7)
        /\ InFieldOrder(Begin2(t), Begin2(u), Begin1(t), Begin1(u), t.mon, u.mon)
    <2>1. /\ Long(Begin2(t), Begin2(u), 4 + 3)
          /\ InFieldOrder(Begin2(t), Begin2(u), Begin1(t), Begin1(u), t.mon, u.mon)
      BY <1>1, <1>2, <1>7, <1>4, FieldOrder DEF Begin2
    <2>2. 4 + 3 = 7
      OBVIOUS
    <2> QED BY <2>1, <2>2
  <1>9. /\ Less(Begin2(t), Begin2(u)) <=> Earlier2(t, u)
        /\ Begin2(t) = Begin2(u) <=> Same2(t, u)
    <2>1. Less(Begin2(t), Begin2(u)) <=> Earlier2(t, u)
      BY <1>5, <1>6, <1>8 DEF InFieldOrder, Earlier2
    <2>2. Begin2(t) = Begin2(u) <=> Same2(t, u)
      BY <1>5, <1>6, <1>8 DEF InFieldOrder, Same2
    <2> QED BY <2>1, <2>2
  <1>10. /\ Long(Begin3(t), Begin3(u), 10)
         /\ InFieldOrder(Begin3(t), Begin3(u), Begin2(t), Begin2(u), t.mday, u.mday)
    <2>1. /\ Long(Begin3(t), Begin3(u), 7 + 3)
          /\ InFieldOrder(Begin3(t), Begin3(u), Begin2(t), Begin2(u), t.mday, u.mday)
      BY <1>1, <1>2, <1>7, <1>8, FieldOrder DEF Begin3
    <2>2. 7 + 3 = 10
      OBVIOUS
    <2> QED BY <2>1, <2>2
  <1>11. /\ Less(Begin3(t), Begin3(u)) <=> Earlier3(t, u)
         /\ Begin3(t) = Begin3(u) <=> Same3(t, u)
    <2>1. Less(Begin3(t), Begin3(u)) <=> Earlier3(t, u)
      BY <1>9, <1>10 DEF InFieldOrder, Earlier3
    <2>2. Begin3(t) = Begin3(u) <=> Same3(t, u)
      BY <1>9, <1>10 DEF InFieldOrder, Same3
    <2> QED BY <2>1, <2>2
  <1>12. /\ Long(Begin4(t), Begin4(u), 13)
         /\ InFieldOrder(Begin4(t), Begin4(u), Begin3(t), Begin3(u), t.hour, u.hour)
    <2>1. /\ Long(Begin4(t), Begin4(u), 10 + 3)
          /\ InFieldOrder(Begin4(t), Begin4(u), Begin3(t), Begin3(u), t.hour, u.hour)
      BY <1>1, <1>2, <1>7, <1>10, FieldOrder DEF Begin4
    <2>2. 10 + 3 = 13
      OBVIOUS
    <2> QED BY <2>1, <2>2
  <1>13. /\ Less(Begin4(t), Begin4(u)) <=> Earlier4(t, u)
         /\ Begin4(t) = Begin4(u) <=> Same4(t, u)
    <2>1. Less(Begin4(t), Begin4(u)) <=> Earlier4(t, u)
      BY <1>11, <1>12 DEF InFieldOrder, Earlier4
    <2>2. Begin4(t) = Begin4(u) <=> Same4(t, u)
      BY <1>11, <1>12 DEF InFieldOrder, Same4
    <2> QED BY <2>1, <2>2
  <1>14. /\ Long(Begin5(t), Begin5(u), 16)
         /\ InFieldOrder(Begin5(t), Begin5(u), Begin4(t), Begin4(u), t.min, u.min)
    <2>1. /\ Long(Begin5(t), Begin5(u), 13 + 3)
          /\ InFieldOrder(Begin5(t), Begin5(u), Begin4(t), Begin4(u), t.min, u.min)
      BY <1>1, <1>2, <1>7, <1>12, FieldOrder DEF Begin5
    <2>2. 13 + 3 = 16
      OBVIOUS
    <2> QED BY <2>1, <2>2
  <1>15. /\ Less(Begin5(t), Begin5(u)) <=> Earlier5(t, u)
         /\ Begin5(t) = Begin5(u) <=> Same5(t, u)
    <2>1. Less(Begin5(t), Begin5(u)) <=> Earlier5(t, u)
      BY <1>13, <1>14 DEF InFieldOrder, Earlier5
    <2>2. Begin5(t) = Begin5(u) <=> Same5(t, u)
      BY <1>13, <1>14 DEF InFieldOrder, Same5
    <2> QED BY <2>1, <2>2
  <1>16. /\ Long(Begin6(t), Begin6(u), 19)
         /\ InFieldOrder(Begin6(t), Begin6(u), Begin5(t), Begin5(u), t.sec, u.sec)
    <2>1. /\ Long(Begin6(t), Begin6(u), 16 + 3)
          /\ InFieldOrder(Begin6(t), Begin6(u), Begin5(t), Begin5(u), t.sec, u.sec)
      BY <1>1, <1>2, <1>7, <1>14, FieldOrder DEF Begin6
    <2>2. 16 + 3 = 19
      OBVIOUS
    <2> QED BY <2>1, <2>2
  <1>17. /\ Less(Begin6(t), Begin6(u)) <=> Earlier6(t, u)
         /\ Begin6(t) = Begin6(u) <=> Same6(t, u)
    <2>1. Less(Begin6(t), Begin6(u)) <=> Earlier6(t, u)
      BY <1>15, <1>16 DEF InFieldOrder, Earlier6
    <2>2. Begin6(t) = Begin6(u) <=> Same6(t, u)
      BY <1>15, <1>16 DEF InFieldOrder, Same6
    <2> QED BY <2>1, <2>2
  <1> QED BY <1>16, <1>17, EarlierIsBefore

-----------------------------------------------------------------------------
(* After n characters there is a mark, and then a field of two figures.    *)
Stands(s, n, c, f) == s[n + 1] = c /\ s[n + 2] = f[1] /\ s[n + 3] = f[2]

Starts(z, x, n) == \A i \in 1 .. n : z[i] = x[i]

Follows(z, x, c, f, n) ==
  z \in Seq(Marked) /\ Len(z) = n + 3 /\ Starts(z, x, n) /\ Stands(z, n, c, f)

(* A mark and a field of two figures stand behind the beginning they       *)
(* follow.                                                                 *)
LEMMA FollowsFacts ==
  ASSUME NEW x, NEW z \in Seq(Marked), NEW c, NEW f, NEW n \in Nat, Joined(z, x, c, f),
         Len(x) = n, Len(f) = 2
  PROVE  Follows(z, x, c, f, n)
  <1>1. Len(z) = n + 3 /\ z[n + 1] = c /\ Starts(z, x, n)
    BY DEF Joined, Starts
  <1>2. 1 \in 1 .. 2 /\ 2 \in 1 .. 2
    OBVIOUS
  <1>3. z[n + 1 + 1] = f[1] /\ z[n + 1 + 2] = f[2]
    BY <1>2 DEF Joined
  <1>4. n + 1 + 1 = n + 2 /\ n + 1 + 2 = n + 3
    OBVIOUS
  <1> QED BY <1>1, <1>3, <1>4 DEF Follows, Stands

(* What stands within a beginning stands in the whole text.                *)
LEMMA StandsStill ==
  ASSUME NEW z, NEW x, NEW n \in Nat, Starts(z, x, n), NEW m \in Nat, m + 3 <= n,
         NEW c, NEW f, Stands(x, m, c, f)
  PROVE  Stands(z, m, c, f)
  <1>1. m + 1 \in 1 .. n /\ m + 2 \in 1 .. n /\ m + 3 \in 1 .. n
    OBVIOUS
  <1> QED BY <1>1 DEF Starts, Stands

(* A beginning of a beginning is a beginning.                              *)
LEMMA StartsAgain ==
  ASSUME NEW z, NEW x, NEW n \in Nat, Starts(z, x, n), NEW y, NEW m \in Nat, m <= n,
         Starts(x, y, m)
  PROVE  Starts(z, y, m)
  <1>1. \A i \in 1 .. m : i \in 1 .. n
    OBVIOUS
  <1> QED BY <1>1 DEF Starts

(* The whole text of a time whose year has o figures.                      *)
IsLaid(s, t, o) ==
  /\ s \in Seq(Marked) /\ Len(s) = o + 16
  /\ Starts(s, Decimal(t.year, 4), o)
  /\ Stands(s, o, "-", Decimal(t.mon, 2))
  /\ Stands(s, o + 3, "-", Decimal(t.mday, 2))
  /\ Stands(s, o + 6, "T", Decimal(t.hour, 2))
  /\ Stands(s, o + 9, ":", Decimal(t.min, 2))
  /\ Stands(s, o + 12, ":", Decimal(t.sec, 2))
  /\ s[o + 16] = "Z"

(* Where the marks and the fields stand in a printed time.                 *)
LEMMA PrintedIsLaid ==
  ASSUME NEW t, IsTime(t), NEW o \in {4, 5}, o = YearWidth(t)
  PROVE  IsLaid(DateText(t), t, o) /\ Starts(DateText(t), Begin6(t), o + 15)
  <1> DEFINE mon  == Decimal(t.mon, 2)
             mday == Decimal(t.mday, 2)
             hour == Decimal(t.hour, 2)
             min  == Decimal(t.min, 2)
             sec  == Decimal(t.sec, 2)
             s    == DateText(t)
  <1>1. Len(mon) = 2 /\ Len(mday) = 2 /\ Len(hour) = 2 /\ Len(min) = 2 /\ Len(sec) = 2
    BY FieldFacts, MarkedSeq
  <1>2. o \in Nat /\ o + 3 \in Nat /\ o + 6 \in Nat /\ o + 9 \in Nat /\ o + 12 \in Nat
        /\ o + 15 \in Nat
    OBVIOUS
  <1>3. Follows(Begin2(t), Begin1(t), "-", mon, o)
    BY <1>1, <1>2, BeginFacts, FollowsFacts
  <1>4. Len(Begin2(t)) = o + 3
    BY <1>3 DEF Follows
  <1>5. Follows(Begin3(t), Begin2(t), "-", mday, o + 3)
    BY <1>1, <1>2, <1>4, BeginFacts, FollowsFacts
  <1>6. Len(Begin3(t)) = o + 6
    BY <1>2, <1>5 DEF Follows
  <1>7. Follows(Begin4(t), Begin3(t), "T", hour, o + 6)
    BY <1>1, <1>2, <1>6, BeginFacts, FollowsFacts
  <1>8. Len(Begin4(t)) = o + 9
    BY <1>2, <1>7 DEF Follows
  <1>9. Follows(Begin5(t), Begin4(t), ":", min, o + 9)
    BY <1>1, <1>2, <1>8, BeginFacts, FollowsFacts
  <1>10. Len(Begin5(t)) = o + 12
    BY <1>2, <1>9 DEF Follows
  <1>11. Follows(Begin6(t), Begin5(t), ":", sec, o + 12)
    BY <1>1, <1>2, <1>10, BeginFacts, FollowsFacts
  <1>12. Begin6(t) \in Seq(Marked) /\ Len(Begin6(t)) = o + 15
    BY <1>2, <1>11 DEF Follows
  <1>13. s \in Seq(Marked) /\ Len(s) = o + 16 /\ s[o + 16] = "Z" /\ Starts(s, Begin6(t), o + 15)
    <2> DEFINE z == <<"Z">>
    <2>1. z \in Seq(Marked) /\ Len(z) = 1 /\ z[1] = "Z"
      <3>1. "Z" \in Marked
        BY DEF Marked
      <3> QED BY <3>1
    <2> HIDE DEF z
    <2>2. s \in Seq(Marked) /\ Added(s, Begin6(t), z)
      <3>1. Begin6(t) \o z \in Seq(Marked) /\ Added(Begin6(t) \o z, Begin6(t), z)
        BY <1>12, <2>1, AddedFacts
      <3>2. s = Begin6(t) \o z
        BY BeginFacts DEF z
      <3> QED BY <3>1, <3>2
    <2>3. 1 \in 1 .. Len(z) /\ (o + 15) + 1 = o + 16
      BY <2>1
    <2> HIDE DEF s
    <2> QED BY <1>12, <2>1, <2>2, <2>3 DEF Added, Starts
  <1> HIDE DEF s, mon, mday, hour, min, sec
  <1>14. Starts(s, Begin5(t), o + 12) /\ Stands(s, o + 12, ":", sec)
    <2>1. o + 12 <= o + 15 /\ (o + 12) + 3 <= o + 15
      OBVIOUS
    <2>2. Starts(Begin6(t), Begin5(t), o + 12) /\ Stands(Begin6(t), o + 12, ":", sec)
      BY <1>11 DEF Follows
    <2> QED BY <1>2, <1>13, <2>1, <2>2, StartsAgain, StandsStill
  <1>15. Starts(s, Begin4(t), o + 9) /\ Stands(s, o + 9, ":", min)
    <2>1. o + 9 <= o + 12 /\ (o + 9) + 3 <= o + 12
      OBVIOUS
    <2>2. Starts(Begin5(t), Begin4(t), o + 9) /\ Stands(Begin5(t), o + 9, ":", min)
      BY <1>9 DEF Follows
    <2> QED BY <1>2, <1>14, <2>1, <2>2, StartsAgain, StandsStill
  <1>16. Starts(s, Begin3(t), o + 6) /\ Stands(s, o + 6, "T", hour)
    <2>1. o + 6 <= o + 9 /\ (o + 6) + 3 <= o + 9
      OBVIOUS
    <2>2. Starts(Begin4(t), Begin3(t), o + 6) /\ Stands(Begin4(t), o + 6, "T", hour)
      BY <1>7 DEF Follows
    <2> QED BY <1>2, <1>15, <2>1, <2>2, StartsAgain, StandsStill
  <1>17. Starts(s, Begin2(t), o + 3) /\ Stands(s, o + 3, "-", mday)
    <2>1. o + 3 <= o + 6 /\ (o + 3) + 3 <= o + 6
      OBVIOUS
    <2>2. Starts(Begin3(t), Begin2(t), o + 3) /\ Stands(Begin3(t), o + 3, "-", mday)
      BY <1>5 DEF Follows
    <2> QED BY <1>2, <1>16, <2>1, <2>2, StartsAgain, StandsStill
  <1>18. Starts(s, Begin1(t), o) /\ Stands(s, o, "-", mon)
    <2>1. o <= o + 3 /\ o + 3 <= o + 3
      OBVIOUS
    <2>2. Starts(Begin2(t), Begin1(t), o) /\ Stands(Begin2(t), o, "-", mon)
      BY <1>3 DEF Follows
    <2> QED BY <1>2, <1>17, <2>1, <2>2, StartsAgain, StandsStill
  <1>19. IsLaid(s, t, o)
    BY <1>13, <1>14, <1>15, <1>16, <1>17, <1>18 DEF IsLaid, Begin1, mon, mday, hour, min, sec
  <1> QED BY <1>13, <1>19 DEF s

-----------------------------------------------------------------------------
(* The buffer holds nineteen characters of it.                             *)
LEMMA FormatFacts ==
  ASSUME NEW t, IsTime(t), NEW o \in {4, 5}, o = YearWidth(t)
  PROVE  /\ FormatDate(t) \in Seq(Marked) /\ Len(FormatDate(t)) = 19
         /\ Starts(FormatDate(t), DateText(t), 19)
  <1> DEFINE s == DateText(t)
  <1>1. s \in Seq(Marked) /\ Len(s) = o + 16
    BY PrintedIsLaid DEF IsLaid
  <1> HIDE DEF s
  <1> DEFINE I == {19, Len(s)}
  <1>2. PICK n \in 20 .. 21 : n = Len(s)
    BY <1>1
  <1>3. Min(I) = 19
    <2>1. I = {19, n}
      BY <1>2
    <2>2. 21 \in Nat /\ {19, n} \in SUBSET (1 .. 21) /\ {19, n} # {}
      OBVIOUS
    <2>3. Min({19, n}) \in {19, n} /\ \A y \in {19, n} : Min({19, n}) <= y
      BY <2>2, Ends
    <2>4. PICK m \in {19, n} : m = Min({19, n}) /\ m <= 19
      BY <2>3
    <2>5. m = 19
      BY <2>4
    <2> QED BY <2>1, <2>4, <2>5
  <1>4. FormatDate(t) = SubSeq(s, 1, 19)
    BY <1>3 DEF FormatDate, Buffer, UpTo, s
  <1>5. SubSeq(s, 1, 19) \in Seq(Marked) /\ Len(SubSeq(s, 1, 19)) = 19
        /\ \A i \in 1 .. 19 : SubSeq(s, 1, 19)[i] = s[i]
    BY <1>1, <1>2
  <1> QED BY <1>4, <1>5 DEF Starts, s

(* Until the year 9999, it is the text without its Z.                      *)
LEMMA FormatIsBegin ==
  ASSUME NEW t, IsTime(t), FourFigures(t)
  PROVE  FormatDate(t) = Begin6(t)
  <1>1. PICK o \in {4, 5} : o = 4 /\ o = YearWidth(t)
    BY DEF YearWidth
  <1>2. Starts(DateText(t), Begin6(t), o + 15)
    BY <1>1, PrintedIsLaid
  <1>3. /\ FormatDate(t) \in Seq(Marked) /\ Len(FormatDate(t)) = 19
        /\ Starts(FormatDate(t), DateText(t), 19)
    BY <1>1, FormatFacts
  <1>4. Begin6(t) \in Seq(Marked) /\ Len(Begin6(t)) = 19
    BY BeginOrder DEF Long
  <1>5. o + 15 = 19
    BY <1>1
  <1> DEFINE f == FormatDate(t)
             b == Begin6(t)
  <1>6. \A i \in 1 .. 19 : f[i] = b[i]
    BY <1>2, <1>3, <1>5 DEF Starts
  <1> HIDE DEF f, b
  <1>7. f = b
    BY <1>3, <1>4, <1>6, SeqEqual DEF f, b
  <1> QED BY <1>7 DEF f, b

-----------------------------------------------------------------------------
(* Up to the year 9999 formatted times are in the order of the times.      *)
LEMMA FormattedOrder ==
  ASSUME NEW t, NEW u, IsTime(t), IsTime(u), FourFigures(t), FourFigures(u)
  PROVE  Less(FormatDate(t), FormatDate(u)) <=> Before(t, u)
  <1>1. FormatDate(t) = Begin6(t) /\ FormatDate(u) = Begin6(u)
    BY FormatIsBegin
  <1>2. Less(Begin6(t), Begin6(u)) <=> Before(t, u)
    BY BeginOrder
  <1> QED BY <1>1, <1>2

(* Of two times one is before the other, or they are the same.             *)
LEMMA TimesAreOrdered ==
  ASSUME NEW t, NEW u, IsTime(t), IsTime(u)
  PROVE  Earlier6(t, u) \/ Same6(t, u) <=> ~Earlier6(u, t)
  <1>1. /\ t.year \in Nat /\ t.mon \in Nat /\ t.mday \in Nat /\ t.hour \in Nat
        /\ t.min \in Nat /\ t.sec \in Nat
        /\ u.year \in Nat /\ u.mon \in Nat /\ u.mday \in Nat /\ u.hour \in Nat
        /\ u.min \in Nat /\ u.sec \in Nat
    BY DEF IsTime
  <1>2. Earlier2(t, u) \/ Same2(t, u) <=> ~Earlier2(u, t)
    BY <1>1 DEF Earlier2, Earlier1, Same2
  <1>3. Same2(t, u) => ~Earlier2(u, t) /\ ~Earlier2(t, u)
    BY <1>1 DEF Earlier2, Earlier1, Same2
  <1>4. Same2(t, u) <=> Same2(u, t)
    BY DEF Same2
  <1>5. /\ Earlier3(t, u) \/ Same3(t, u) <=> ~Earlier3(u, t)
        /\ Same3(t, u) => ~Earlier3(u, t) /\ ~Earlier3(t, u)
        /\ Same3(t, u) <=> Same3(u, t)
    BY <1>1, <1>2, <1>3, <1>4 DEF Earlier3, Same3
  <1>6. /\ Earlier4(t, u) \/ Same4(t, u) <=> ~Earlier4(u, t)
        /\ Same4(t, u) => ~Earlier4(u, t) /\ ~Earlier4(t, u)
        /\ Same4(t, u) <=> Same4(u, t)
    BY <1>1, <1>5 DEF Earlier4, Same4
  <1>7. /\ Earlier5(t, u) \/ Same5(t, u) <=> ~Earlier5(u, t)
        /\ Same5(t, u) => ~Earlier5(u, t) /\ ~Earlier5(t, u)
        /\ Same5(t, u) <=> Same5(u, t)
    BY <1>1, <1>6 DEF Earlier5, Same5
  <1> QED BY <1>1, <1>7 DEF Earlier6, Same6

(* A range between formatted times holds its first second and not its      *)
(* last.                                                                   *)
LEMMA FormattedRange ==
  ASSUME NEW v, NEW t, NEW u, IsTime(v), IsTime(t), IsTime(u),
         FourFigures(v), FourFigures(t), FourFigures(u)
  PROVE  IsInTimeRange(DateText(v), FormatDate(t), FormatDate(u)) <=>
           ~Before(v, t) /\ Before(v, u)
  <1> DEFINE z == <<"Z">>
             e == << >>
  <1>1. z \in Seq(Marked) /\ e \in Seq(Marked) /\ Len(z) = 1 /\ Len(e) = 0
    <2>1. "Z" \in Marked
      BY DEF Marked
    <2> QED BY <2>1
  <1>2. ~Less(z, e)
    <2>1. 1 .. Len(e) = {}
      BY <1>1
    <2> QED BY <2>1 DEF Less
  <1>3. Less(e, z)
    <2>1. 1 \in 1 .. Len(z) /\ 1 .. 1 - 1 = {} /\ 1 > Len(e)
      BY <1>1
    <2> HIDE DEF z, e
    <2> QED BY <2>1 DEF Less
  <1>4. DateText(v) = Begin6(v) \o z
    BY BeginFacts
  <1> HIDE DEF z
  <1>5. ASSUME NEW w, IsTime(w), FourFigures(w)
        PROVE  /\ Less(DateText(v), FormatDate(w)) <=> Before(v, w)
               /\ Less(FormatDate(w), DateText(v)) <=>
                    Before(w, v) \/ Same6(w, v)
    <2>1. /\ Begin6(w) \in Seq(Marked) /\ Begin6(v) \in Seq(Marked)
          /\ Len(Begin6(w)) = 19 /\ Len(Begin6(v)) = 19
      BY <1>5, BeginOrder DEF Long
    <2>2. FormatDate(w) = Begin6(w) \o e
      BY <1>5, <2>1, FormatIsBegin
    <2> HIDE DEF e
    <2>3. /\ InOrder(Begin6(v) \o z, Begin6(w) \o e, Begin6(v), Begin6(w), z, e)
          /\ InOrder(Begin6(w) \o e, Begin6(v) \o z, Begin6(w), Begin6(v), e, z)
      BY <1>1, <2>1, LessConcat
    <2>4. /\ Less(Begin6(v), Begin6(w)) <=> Before(v, w)
          /\ Less(Begin6(w), Begin6(v)) <=> Before(w, v)
          /\ Begin6(w) = Begin6(v) <=> Same6(w, v)
      BY <1>5, BeginOrder
    <2>5. /\ InOrder(DateText(v), FormatDate(w), Begin6(v), Begin6(w), z, e)
          /\ InOrder(FormatDate(w), DateText(v), Begin6(w), Begin6(v), e, z)
      BY <1>4, <2>2, <2>3
    <2> QED BY <1>2, <1>3, <2>4, <2>5 DEF InOrder
  <1>6. Less(DateText(v), FormatDate(t)) <=> Before(v, t)
    BY <1>5
  <1>7. Less(FormatDate(u), DateText(v)) <=> Before(u, v) \/ Same6(u, v)
    BY <1>5
  <1>8. Before(u, v) \/ Same6(u, v) <=> ~Before(v, u)
    BY EarlierIsBefore, TimesAreOrdered
  <1> QED BY <1>6, <1>7, <1>8 DEF IsInTimeRange

-----------------------------------------------------------------------------
(* A number of k figures stands after a characters, and ends there.        *)
Reads(s, a, f, n, k) ==
  /\ IsDecimal(f, n, k) /\ a + k <= Len(s) /\ \A i \in 1 .. k : s[a + i] = f[i]
  /\ a + k = Len(s) \/ s[a + k + 1] \notin Digits

(* The scan of a number ends behind its last figure.                       *)
LEMMA NumberEnds ==
  ASSUME NEW s \in Seq(Marked), NEW a \in Nat, NEW f, NEW n, NEW k \in 1 .. 5,
         Reads(s, a, f, n, k)
  PROVE  EndOfNumber(s, a + 1) = a + k + 1
  <1>1. PICK l \in Nat : l = Len(s)
    OBVIOUS
  <1> DEFINE I == {i \in a + 1 .. l + 1 : i = l + 1 \/ s[i] \notin Digits}
  <1>2. a + k <= l /\ a + k + 1 \in 1 .. l + 1 /\ a + k + 1 \in a + 1 .. l + 1
    BY <1>1 DEF Reads
  <1>3. a + k = l => a + k + 1 = l + 1
    OBVIOUS
  <1>4. a + k + 1 \in I
    BY <1>1, <1>2, <1>3 DEF Reads
  <1>5. ASSUME NEW y \in I PROVE a + k + 1 <= y
    <2> SUFFICES ASSUME y <= a + k PROVE FALSE
      BY <1>2
    <2>1. y \in a + 1 .. l + 1 /\ y # l + 1
      BY <1>2
    <2>2. PICK j \in 1 .. k : y = a + j
      <3>1. y - a \in 1 .. k /\ y = a + (y - a)
        BY <2>1
      <3> QED BY <3>1
    <2>3. s[y] = f[j]
      BY <2>2 DEF Reads
    <2>4. f[j] \in Digits
      BY DEF Reads, IsDecimal
    <2> QED BY <2>1, <2>3, <2>4
  <1>6. I \in SUBSET (1 .. l + 1) /\ I # {} /\ l + 1 \in Nat
    <2>1. \A i \in a + 1 .. l + 1 : i \in 1 .. l + 1
      OBVIOUS
    <2>2. \A i \in I : i \in a + 1 .. l + 1
      OBVIOUS
    <2> HIDE DEF I
    <2>3. I # {}
      BY <1>4
    <2>4. I \in SUBSET (1 .. l + 1)
      BY <2>1, <2>2, Zenon
    <2>5. l + 1 \in Nat
      OBVIOUS
    <2> QED BY <2>3, <2>4, <2>5
  <1>7. EndOfNumber(s, a + 1) = Min(I)
    BY <1>1 DEF EndOfNumber
  <1> HIDE DEF I
  <1>8. Min(I) \in I /\ \A y \in I : Min(I) <= y
    BY <1>6, Ends
  <1>9. PICK m \in 1 .. l + 1 : m = Min(I)
    BY <1>6, <1>8
  <1>10. m <= a + k + 1 /\ a + k + 1 <= m
    BY <1>4, <1>5, <1>8, <1>9
  <1>11. m = a + k + 1
    BY <1>10
  <1> QED BY <1>7, <1>9, <1>11

(* What one number of sscanf leaves.                                       *)
Going(n, p) == [found |-> n, pos |-> p, stopped |-> FALSE]
Ended(n, p) == [found |-> n, pos |-> p, stopped |-> TRUE]

(* One conversion of sscanf reads the number that stands there, and goes   *)
(* on behind the mark if it fits.                                          *)
LEMMA NumberIsRead ==
  ASSUME NEW s \in Seq(Marked), NEW a \in Nat, NEW f, NEW n \in Nat, NEW k \in 1 .. 5,
         Reads(s, a, f, n, k), NEW x, NEW mark
  PROVE  /\ a + k < Len(s) /\ s[a + k + 1] = mark =>
              Scan(s, Going(x, a + 1), mark) = Going(n, a + k + 2)
         /\ a + k = Len(s) =>
              Scan(s, Going(x, a + 1), mark) = Ended(n, a + k + 2)
  <1>1. EndOfNumber(s, a + 1) = a + k + 1
    BY NumberEnds
  <1>2. f \in Seq(Digits) /\ Len(f) = k /\ ValueOf(f) = n
    BY ValueOfPrinted DEF Reads, IsDecimal
  <1>3. SubSeq(s, a + 1, (a + k + 1) - 1) = f
    <2>0. PICK l \in Nat : l = Len(s)
      OBVIOUS
    <2>1. a + k <= l /\ \A i \in 1 .. k : s[a + i] = f[i]
      BY <2>0 DEF Reads
    <2> DEFINE g == SubSeq(s, a + 1, (a + k + 1) - 1)
    <2>2. /\ g \in Seq(Marked) /\ Len(g) = k
          /\ \A i \in 1 .. k : g[i] = s[a + 1 + i - 1]
      <3>1. PICK b \in 1 .. l, e \in 1 .. l : b = a + 1 /\ e = (a + k + 1) - 1 /\ e - b + 1 = k
        BY <2>1
      <3>2. /\ SubSeq(s, b, e) \in Seq(Marked) /\ Len(SubSeq(s, b, e)) = e - b + 1
            /\ \A i \in 1 .. e - b + 1 : SubSeq(s, b, e)[i] = s[b + i - 1]
        <4>1. b \in Int /\ e \in Int /\ b <= e
          BY <3>1
        <4>2. \A i \in b .. e : s[i] \in Marked
          BY <2>0
        <4>3. e - b + 1 = IF b <= e THEN e - b + 1 ELSE 0
          BY <4>1
        <4> QED BY <4>1, <4>2, <4>3, SubSeqProperties
      <3>3. g = SubSeq(s, b, e)
        BY <3>1
      <3> HIDE DEF g
      <3>4. g \in Seq(Marked) /\ Len(g) = k /\ \A i \in 1 .. k : g[i] = s[b + i - 1]
        BY <3>1, <3>2, <3>3
      <3> QED BY <3>1, <3>4
    <2> HIDE DEF g
    <2>3. ASSUME NEW i \in 1 .. k PROVE g[i] = f[i]
      <3>1. a + 1 + i - 1 = a + i
        OBVIOUS
      <3> QED BY <2>1, <2>2, <3>1
    <2>4. g = f
      BY <1>2, <2>2, <2>3, SeqEqual
    <2> QED BY <2>4 DEF g
  <1> DEFINE st == Going(x, a + 1)
  <1>4. st.pos = a + 1 /\ st.stopped = FALSE
    BY DEF Going
  <1> HIDE DEF st
  <1>5. a + k + 1 # a + 1
    OBVIOUS
  <1>6. Scan(s, st, mark) = [found |-> ValueOf(SubSeq(s, a + 1, (a + k + 1) - 1)),
          pos |-> (a + k + 1) + 1, stopped |-> a + k + 1 > Len(s) \/ s[a + k + 1] # mark]
    BY <1>1, <1>4, <1>5 DEF Scan
  <1>7. (a + k + 1) + 1 = a + k + 2
    OBVIOUS
  <1>8. Scan(s, st, mark) = [found |-> n, pos |-> a + k + 2,
          stopped |-> a + k + 1 > Len(s) \/ s[a + k + 1] # mark]
    BY <1>2, <1>3, <1>6, <1>7
  <1>9. ASSUME a + k < Len(s), s[a + k + 1] = mark
        PROVE  Scan(s, st, mark) = Going(n, a + k + 2)
    <2>1. ~(a + k + 1 > Len(s) \/ s[a + k + 1] # mark)
      BY <1>9
    <2> QED BY <1>8, <2>1 DEF Going
  <1>10. ASSUME a + k = Len(s)
         PROVE  Scan(s, st, mark) = Ended(n, a + k + 2)
    <2>1. a + k + 1 > Len(s)
      BY <1>10
    <2> QED BY <1>8, <2>1 DEF Ended
  <1> QED BY <1>9, <1>10 DEF st

-----------------------------------------------------------------------------
(* The six numbers, one after the other.                                   *)
Scanned(r, s) ==
  r = [k \in 0 .. 6 |->
        IF k = 0 THEN [found |-> 0, pos |-> 1, stopped |-> FALSE]
        ELSE Scan(s, r[k - 1], Marks[k])]

(* The function by which Parse scans the fields exists.                    *)
LEMMA ScannedExists ==
  ASSUME NEW s
  PROVE  \E r : Scanned(r, s)
  <1> DEFINE r0 == [found |-> 0, pos |-> 1, stopped |-> FALSE]
             r1 == Scan(s, r0, Marks[1])
             r2 == Scan(s, r1, Marks[2])
             r3 == Scan(s, r2, Marks[3])
             r4 == Scan(s, r3, Marks[4])
             r5 == Scan(s, r4, Marks[5])
             r6 == Scan(s, r5, Marks[6])
             r  == [k \in 0 .. 6 |-> IF k = 0 THEN r0 ELSE IF k = 1 THEN r1
                      ELSE IF k = 2 THEN r2 ELSE IF k = 3 THEN r3 ELSE IF k = 4 THEN r4
                      ELSE IF k = 5 THEN r5 ELSE r6]
             q  == [k \in 0 .. 6 |->
                      IF k = 0 THEN r0 ELSE Scan(s, r[k - 1], Marks[k])]
  <1> HIDE DEF r0, r1, r2, r3, r4, r5, r6
  <1>1. /\ r[0] = r0 /\ r[1] = r1 /\ r[2] = r2 /\ r[3] = r3 /\ r[4] = r4 /\ r[5] = r5
        /\ r[6] = r6
    OBVIOUS
  <1> HIDE DEF r
  <1>2. ASSUME NEW k \in 0 .. 6 PROVE r[k] = q[k]
    <2>1. q[k] = IF k = 0 THEN r0 ELSE Scan(s, r[k - 1], Marks[k])
      OBVIOUS
    <2> HIDE DEF q
    <2>2. k = 0 \/ k = 1 \/ k = 2 \/ k = 3 \/ k = 4 \/ k = 5 \/ k = 6
      OBVIOUS
    <2>3. 1 - 1 = 0 /\ 2 - 1 = 1 /\ 3 - 1 = 2 /\ 4 - 1 = 3 /\ 5 - 1 = 4 /\ 6 - 1 = 5
      OBVIOUS
    <2> QED BY <1>1, <2>1, <2>2, <2>3 DEF r1, r2, r3, r4, r5, r6
  <1> HIDE DEF q
  <1>3. r = q
    BY <1>2 DEF r, q
  <1>4. Scanned(r, s)
    BY <1>3 DEF Scanned, q, r0
  <1> QED BY <1>4

(* Parse makes six conversions, one after another.                         *)
LEMMA ParseFacts ==
  ASSUME NEW s
  PROVE  \E r : /\ r[0] = Going(0, 1)
                /\ \A k \in 1 .. 6 : r[k] = Scan(s, r[k - 1], Marks[k])
                /\ ReadDate(s) = [year |-> r[1].found, mon |-> r[2].found,
                     mday |-> r[3].found, hour |-> r[4].found, min |-> r[5].found,
                     sec |-> r[6].found]
  <1> DEFINE r == CHOOSE q : Scanned(q, s)
             f == [k \in 1 .. 6 |-> r[k].found]
  <1>1. Scanned(r, s)
    BY ScannedExists
  <1>2. ReadDate(s) = [year |-> f[1], mon |-> f[2], mday |-> f[3], hour |-> f[4],
                         min |-> f[5], sec |-> f[6]]
    BY DEF ReadDate, Scanned
  <1> HIDE DEF r
  <1>3. /\ f[1] = r[1].found /\ f[2] = r[2].found /\ f[3] = r[3].found
        /\ f[4] = r[4].found /\ f[5] = r[5].found /\ f[6] = r[6].found
    OBVIOUS
  <1> HIDE DEF f
  <1>4. r[0] = Going(0, 1)
    BY <1>1 DEF Scanned, Going
  <1>5. \A k \in 1 .. 6 : r[k] = Scan(s, r[k - 1], Marks[k])
    <2>1. \A k \in 0 .. 6 : r[k] = IF k = 0 THEN [found |-> 0, pos |-> 1, stopped |-> FALSE]
                                  ELSE Scan(s, r[k - 1], Marks[k])
      <3> DEFINE q == [k \in 0 .. 6 |->
                        IF k = 0 THEN [found |-> 0, pos |-> 1, stopped |-> FALSE]
                        ELSE Scan(s, r[k - 1], Marks[k])]
      <3>1. r = q
        BY <1>1 DEF Scanned
      <3>2. \A k \in 0 .. 6 : q[k] = IF k = 0 THEN [found |-> 0, pos |-> 1, stopped |-> FALSE]
                                    ELSE Scan(s, r[k - 1], Marks[k])
        OBVIOUS
      <3> HIDE DEF q
      <3> QED BY <3>1, <3>2
    <2>2. \A k \in 1 .. 6 : k \in 0 .. 6 /\ k # 0
      OBVIOUS
    <2> QED BY <2>1, <2>2
  <1> QED BY <1>2, <1>3, <1>4, <1>5

-----------------------------------------------------------------------------
(* No mark between numbers is a figure.                                    *)
LEMMA MarksAreNoFigures ==
  "-" \notin Digits /\ "T" \notin Digits /\ ":" \notin Digits
  <1>1. ASSUME NEW d \in 0 .. 9
        PROVE  Digit[d] # "-" /\ Digit[d] # "T" /\ Digit[d] # ":"
    <2>1. d = 0 \/ d = 1 \/ d = 2 \/ d = 3 \/ d = 4 \/ d = 5 \/ d = 6 \/ d = 7 \/ d = 8 \/ d = 9
      OBVIOUS
    <2> QED BY <2>1 DEF Digit
  <1> QED BY <1>1 DEF Digits

(* A field of two figures, from the position after p + 1 to a mark.        *)
Between(s, p, f, mark) ==
  /\ mark \in {"-", "T", ":"} /\ p + 4 <= Len(s)
  /\ s[p + 2] = f[1] /\ s[p + 3] = f[2] /\ s[p + 4] = mark

(* A field of two figures between two marks is read as it was printed.     *)
LEMMA FieldIsRead ==
  ASSUME NEW s \in Seq(Marked), NEW p \in Nat, NEW f, NEW mark, Between(s, p, f, mark),
         NEW n \in Nat, IsDecimal(f, n, 2), NEW x
  PROVE  Scan(s, Going(x, p + 2), mark) = Going(n, p + 5)
  <1>1. PICK a \in Nat : a = p + 1
    OBVIOUS
  <1>2. /\ a + 1 = p + 2 /\ a + 2 = p + 3 /\ a + 2 + 1 = p + 4 /\ a + 2 + 2 = p + 5
        /\ a + 2 < Len(s) /\ a + 2 <= Len(s)
    BY <1>1 DEF Between
  <1>3. mark \notin Digits /\ s[a + 2 + 1] = mark
    BY <1>2, MarksAreNoFigures DEF Between
  <1>4. ASSUME NEW i \in 1 .. 2 PROVE s[a + i] = f[i]
    <2>1. i = 1 \/ i = 2
      OBVIOUS
    <2>2. s[a + 1] = f[1] /\ s[a + 2] = f[2]
      BY <1>2 DEF Between
    <2> QED BY <2>1, <2>2
  <1>5. Reads(s, a, f, n, 2)
    BY <1>2, <1>3, <1>4 DEF Reads
  <1>6. 2 \in 1 .. 5
    OBVIOUS
  <1>7. Scan(s, Going(x, a + 1), mark) = Going(n, a + 2 + 2)
    BY <1>2, <1>3, <1>5, <1>6, NumberIsRead
  <1> QED BY <1>2, <1>7

(* The last field is at the end of the buffer.                             *)
Closes(s, p, f, k) == Len(s) = p + 1 + k /\ \A i \in 1 .. k : s[p + 1 + i] = f[i]

(* A field of one or two figures at the end of the text is read as it was  *)
(* printed.                                                                *)
LEMMA LastIsRead ==
  ASSUME NEW s \in Seq(Marked), NEW p \in Nat, NEW f, NEW n \in Nat, NEW k \in {1, 2}, NEW x,
         NEW mark, IsDecimal(f, n, k), Closes(s, p, f, k)
  PROVE  Scan(s, Going(x, p + 2), mark).found = n
  <1>1. PICK a \in Nat : a = p + 1
    OBVIOUS
  <1>2. a + 1 = p + 2 /\ a + k = Len(s) /\ k \in 1 .. 5 /\ a + k <= Len(s)
    BY <1>1 DEF Closes
  <1>3. Reads(s, a, f, n, k)
    BY <1>1, <1>2 DEF Reads, Closes
  <1>4. Scan(s, Going(x, a + 1), mark) = Ended(n, a + k + 2)
    BY <1>2, <1>3, NumberIsRead
  <1>5. Ended(n, a + k + 2).found = n
    BY DEF Ended
  <1> QED BY <1>2, <1>4, <1>5

(* The first of two figures is a number of its own.                        *)
LEMMA FirstFigure ==
  ASSUME NEW n \in Nat, NEW f, IsDecimal(f, n, 2)
  PROVE  n \div 10 \in Nat /\ IsDecimal(<<f[1]>>, n \div 10, 1)
  <1>1. f \in Seq(Digits) /\ Len(f) = 2 /\ n < 100
    BY Powers DEF IsDecimal
  <1>2. f[1] \in Digits
    BY <1>1
  <1>3. f[1] = Digit[(n \div 10) % 10]
    <2>1. 1 \in 1 .. 2 /\ 1 # 2 /\ 2 - 1 = 1
      OBVIOUS
    <2> QED BY <2>1, Powers DEF IsDecimal
  <1>4. n \div 10 \in Nat /\ n \div 10 < 10
    BY <1>1, SMT
  <1> DEFINE g == <<f[1]>>
  <1>5. g \in Seq(Digits) /\ Len(g) = 1 /\ g[1] = f[1]
    BY <1>2
  <1> HIDE DEF g
  <1>6. PICK m \in Nat : m = n \div 10
    BY <1>4
  <1>7. \A i \in 1 .. 1 :
          g[i] = Digit[IF i = 1 THEN m % 10 ELSE (m \div Power[1 - i]) % 10]
    <2>1. \A i \in 1 .. 1 : i = 1
      OBVIOUS
    <2>2. g[1] = Digit[m % 10]
      BY <1>3, <1>5, <1>6
    <2> QED BY <2>1, <2>2
  <1>8. m < Power[1]
    BY <1>4, <1>6, Powers
  <1>9. IsDecimal(g, m, 1)
    BY <1>5, <1>7, <1>8 DEF IsDecimal
  <1> QED BY <1>4, <1>6, <1>9 DEF g

-----------------------------------------------------------------------------
(* A time is parsed back, as far as the buffer holds it.                   *)
LEMMA ParsedBack ==
  ASSUME NEW t, IsTime(t)
  PROVE  ReadDate(FormatDate(t)) =
           [year |-> t.year, mon |-> t.mon, mday |-> t.mday, hour |-> t.hour, min |-> t.min,
            sec |-> IF FourFigures(t) THEN t.sec ELSE t.sec \div 10]
  <1> DEFINE F    == FormatDate(t)
             s    == DateText(t)
             year == Decimal(t.year, 4)
             mon  == Decimal(t.mon, 2)
             mday == Decimal(t.mday, 2)
             hour == Decimal(t.hour, 2)
             min  == Decimal(t.min, 2)
             sec  == Decimal(t.sec, 2)
             last == IF FourFigures(t) THEN t.sec ELSE t.sec \div 10
  <1>1. PICK o \in {4, 5} : o = YearWidth(t)
    BY DEF YearWidth
  <1>2. F \in Seq(Marked) /\ Len(F) = 19 /\ Starts(F, s, 19)
    BY <1>1, FormatFacts
  <1>3. /\ Starts(s, year, o) /\ Stands(s, o, "-", mon) /\ Stands(s, o + 3, "-", mday)
        /\ Stands(s, o + 6, "T", hour) /\ Stands(s, o + 9, ":", min)
        /\ Stands(s, o + 12, ":", sec)
    BY <1>1, PrintedIsLaid DEF IsLaid
  <1>4. /\ IsDecimal(year, t.year, o) /\ IsDecimal(mon, t.mon, 2) /\ IsDecimal(mday, t.mday, 2)
        /\ IsDecimal(hour, t.hour, 2) /\ IsDecimal(min, t.min, 2) /\ IsDecimal(sec, t.sec, 2)
    BY <1>1, FieldFacts
  <1>5. /\ t.year \in Nat /\ t.mon \in Nat /\ t.mday \in Nat /\ t.hour \in Nat
        /\ t.min \in Nat /\ t.sec \in Nat
    BY DEF IsTime
  <1> HIDE DEF F, s, year, mon, mday, hour, min, sec, last
  <1>6. PICK p2 \in Nat, p3 \in Nat, p4 \in Nat, p5 \in Nat :
          p2 = o + 3 /\ p3 = o + 6 /\ p4 = o + 9 /\ p5 = o + 12
    <2>1. o + 3 \in Nat /\ o + 6 \in Nat /\ o + 9 \in Nat /\ o + 12 \in Nat
      OBVIOUS
    <2> QED BY <2>1
  <1>7. /\ o \in Nat /\ 19 \in Nat /\ o <= 19 /\ o + 3 <= 19 /\ p2 + 3 <= 19 /\ p3 + 3 <= 19
        /\ p4 + 3 <= 19 /\ p5 + 2 <= 19
    BY <1>6
  <1>8. /\ Starts(F, year, o) /\ Stands(F, o, "-", mon) /\ Stands(F, p2, "-", mday)
        /\ Stands(F, p3, "T", hour) /\ Stands(F, p4, ":", min)
    <2>1. /\ Starts(s, year, o) /\ Stands(s, o, "-", mon) /\ Stands(s, p2, "-", mday)
          /\ Stands(s, p3, "T", hour) /\ Stands(s, p4, ":", min)
      BY <1>3, <1>6
    <2> QED BY <1>2, <1>7, <2>1, StartsAgain, StandsStill
  <1>9. /\ F[p5 + 1] = ":" /\ F[p5 + 2] = sec[1]
        /\ o = 4 => F[p5 + 3] = sec[2]
    <2>1. s[p5 + 1] = ":" /\ s[p5 + 2] = sec[1] /\ s[p5 + 3] = sec[2]
      BY <1>3, <1>6 DEF Stands
    <2>2. p5 + 1 \in 1 .. 19 /\ p5 + 2 \in 1 .. 19 /\ (o = 4 => p5 + 3 \in 1 .. 19)
      BY <1>6
    <2> QED BY <1>2, <2>1, <2>2 DEF Starts
  <1>10. PICK r : /\ r[0] = Going(0, 1)
                  /\ \A k \in 1 .. 6 : r[k] = Scan(F, r[k - 1], Marks[k])
                  /\ ReadDate(F) = [year |-> r[1].found, mon |-> r[2].found,
                       mday |-> r[3].found, hour |-> r[4].found, min |-> r[5].found,
                       sec |-> r[6].found]
    BY ParseFacts
  <1>11. /\ r[1] = Scan(F, r[0], "-") /\ r[2] = Scan(F, r[1], "-")
         /\ r[3] = Scan(F, r[2], "T") /\ r[4] = Scan(F, r[3], ":")
         /\ r[5] = Scan(F, r[4], ":") /\ r[6] = Scan(F, r[5], "Z")
    <2>1. /\ Marks[1] = "-" /\ Marks[2] = "-" /\ Marks[3] = "T"
          /\ Marks[4] = ":" /\ Marks[5] = ":" /\ Marks[6] = "Z"
      BY DEF Marks
    <2>2. /\ 1 \in 1 .. 6 /\ 2 \in 1 .. 6 /\ 3 \in 1 .. 6 /\ 4 \in 1 .. 6 /\ 5 \in 1 .. 6
          /\ 6 \in 1 .. 6
          /\ 1 - 1 = 0 /\ 2 - 1 = 1 /\ 3 - 1 = 2 /\ 4 - 1 = 3 /\ 5 - 1 = 4 /\ 6 - 1 = 5
      OBVIOUS
    <2> QED BY <1>10, <2>1, <2>2
  <1>12. r[1] = Going(t.year, o + 2)
    <2>1. F[o + 1] = "-"
      BY <1>8 DEF Stands
    <2>2. /\ 0 \in Nat /\ 0 + o = o /\ 0 + 1 = 1 /\ o \in 1 .. 5 /\ o < 19
          /\ (\A i \in 1 .. o : 0 + i = i) /\ 0 + o < 19
      OBVIOUS
    <2>6. \A i \in 1 .. o : F[0 + i] = year[i]
      <3>1. \A i \in 1 .. o : F[i] = year[i]
        BY <1>8 DEF Starts
      <3> QED BY <2>2, <3>1
    <2>7. F[0 + o + 1] \notin Digits
      BY <2>1, <2>2, MarksAreNoFigures
    <2>3. Reads(F, 0, year, t.year, o)
      BY <1>2, <1>4, <2>2, <2>6, <2>7 DEF Reads
    <2>5. F[0 + o + 1] = "-" /\ 0 + o < Len(F)
      BY <1>2, <2>1, <2>2
    <2>4. Scan(F, Going(0, 0 + 1), "-") = Going(t.year, 0 + o + 2)
      BY <1>2, <1>5, <2>2, <2>3, <2>5, NumberIsRead
    <2> QED BY <1>10, <1>11, <2>2, <2>4
  <1>13. r[2] = Going(t.mon, p2 + 2)
    <2>1. o + 5 = p2 + 2 /\ o + 4 = p2 + 1 /\ o + 4 <= Len(F)
      BY <1>2, <1>6
    <2>2. Between(F, o, mon, "-")
      BY <1>8, <2>1 DEF Stands, Between
    <2>3. Scan(F, Going(t.year, o + 2), "-") = Going(t.mon, o + 5)
      BY <1>2, <1>4, <1>5, <1>7, <2>2, FieldIsRead
    <2> QED BY <1>11, <1>12, <2>1, <2>3
  <1>14. r[3] = Going(t.mday, p3 + 2)
    <2>1. p2 + 5 = p3 + 2 /\ p2 + 4 = p3 + 1 /\ p2 + 4 <= Len(F)
      BY <1>2, <1>6
    <2>2. Between(F, p2, mday, "T")
      BY <1>8, <2>1 DEF Stands, Between
    <2>3. Scan(F, Going(t.mon, p2 + 2), "T") = Going(t.mday, p2 + 5)
      BY <1>2, <1>4, <1>5, <2>2, FieldIsRead
    <2> QED BY <1>11, <1>13, <2>1, <2>3
  <1>15. r[4] = Going(t.hour, p4 + 2)
    <2>1. p3 + 5 = p4 + 2 /\ p3 + 4 = p4 + 1 /\ p3 + 4 <= Len(F)
      BY <1>2, <1>6
    <2>2. Between(F, p3, hour, ":")
      BY <1>8, <2>1 DEF Stands, Between
    <2>3. Scan(F, Going(t.mday, p3 + 2), ":") = Going(t.hour, p3 + 5)
      BY <1>2, <1>4, <1>5, <2>2, FieldIsRead
    <2> QED BY <1>11, <1>14, <2>1, <2>3
  <1>16. r[5] = Going(t.min, p5 + 2)
    <2>1. p4 + 5 = p5 + 2 /\ p4 + 4 = p5 + 1 /\ p4 + 4 <= Len(F)
      BY <1>2, <1>6
    <2>2. Between(F, p4, min, ":")
      BY <1>8, <1>9, <2>1 DEF Stands, Between
    <2>3. Scan(F, Going(t.hour, p4 + 2), ":") = Going(t.min, p4 + 5)
      BY <1>2, <1>4, <1>5, <2>2, FieldIsRead
    <2> QED BY <1>11, <1>15, <2>1, <2>3
  <1>17. r[6].found = last
    <2>1. CASE FourFigures(t)
      <3>1. o = 4
        BY <1>1, <2>1 DEF YearWidth
      <3>2. /\ Len(F) = p5 + 1 + 2 /\ 2 \in {1, 2}
            /\ p5 + 1 + 1 = p5 + 2 /\ p5 + 1 + 2 = p5 + 3 /\ \A i \in 1 .. 2 : i = 1 \/ i = 2
        BY <1>2, <1>6, <3>1
      <3>3. Closes(F, p5, sec, 2)
        BY <1>9, <3>1, <3>2 DEF Closes
      <3>4. Scan(F, Going(t.min, p5 + 2), "Z").found = t.sec
        BY <1>2, <1>4, <1>5, <3>2, <3>3, LastIsRead
      <3> QED BY <1>11, <1>16, <2>1, <3>4 DEF last
    <2>2. CASE ~FourFigures(t)
      <3>1. o = 5
        BY <1>1, <2>2 DEF YearWidth
      <3> DEFINE g == <<sec[1]>>
      <3>2. /\ Len(F) = p5 + 1 + 1 /\ 1 \in {1, 2}
            /\ p5 + 1 + 1 = p5 + 2 /\ (\A i \in 1 .. 1 : i = 1) /\ g[1] = sec[1]
        BY <1>2, <1>6, <3>1
      <3>3. t.sec \div 10 \in Nat /\ IsDecimal(g, t.sec \div 10, 1)
        BY <1>4, <1>5, FirstFigure
      <3> HIDE DEF g
      <3>4. Closes(F, p5, g, 1)
        BY <1>9, <3>2 DEF Closes
      <3>5. Scan(F, Going(t.min, p5 + 2), "Z").found = t.sec \div 10
        BY <1>2, <3>2, <3>3, <3>4, LastIsRead
      <3> QED BY <1>11, <1>16, <2>2, <3>5 DEF last
    <2> QED BY <2>1, <2>2
  <1>18. /\ r[1].found = t.year /\ r[2].found = t.mon /\ r[3].found = t.mday
         /\ r[4].found = t.hour /\ r[5].found = t.min
    BY <1>12, <1>13, <1>14, <1>15, <1>16 DEF Going
  <1>19. ReadDate(F) = [year |-> t.year, mon |-> t.mon, mday |-> t.mday, hour |-> t.hour,
                          min |-> t.min, sec |-> last]
    BY <1>10, <1>17, <1>18
  <1> QED BY <1>19 DEF F, last

-----------------------------------------------------------------------------
(* A struct tm is a date with other offsets: the date of a time is a date  *)
(* that can be printed, and the times are in the order of the dates.       *)
LEMMA DateFacts ==
  ASSUME TimesTyped, NEW t \in Times
  PROVE  /\ IsTime(Date(t)) /\ Format(t) = FormatDate(Date(t))
         /\ FourFigures(Date(t)) <=> FourDigits({t})
  <1>1. t \in [year : Int, mon : Int, mday : Nat, hour : Nat, min : Nat, sec : Nat]
    BY DEF TimesTyped
  <1>2. /\ 0 <= t.year + 1900 /\ t.year + 1900 < 100000
        /\ 0 <= t.mon + 1 /\ t.mon + 1 < 100
        /\ t.mday < 100 /\ t.hour < 100 /\ t.min < 100 /\ t.sec < 100
    BY DEF TimesTyped
  <1> DEFINE d == Date(t)
  <1>3. /\ t.mday \in Nat /\ t.hour \in Nat /\ t.min \in Nat /\ t.sec \in Nat
        /\ t.year + 1900 \in Nat /\ t.mon + 1 \in Nat
        /\ t.year + 1900 < 100000 /\ t.mon + 1 < 100
    BY <1>1, <1>2
  <1>4. d = [year |-> t.year + 1900, mon |-> t.mon + 1, mday |-> t.mday, hour |-> t.hour,
             min |-> t.min, sec |-> t.sec]
    BY DEF Date, Shifted
  <1> HIDE DEF d
  <1>5. IsTime(d)
    BY <1>2, <1>3, <1>4 DEF IsTime
  <1>6. Format(t) = FormatDate(d)
    BY DEF Format, Printed, FormatDate, d
  <1>7. FourFigures(d) <=> FourDigits({t})
    BY DEF FourFigures, FourDigits, d
  <1> QED BY <1>5, <1>6, <1>7 DEF d

(* The times are in the order of their dates.                              *)
LEMMA DatesAreOrdered ==
  ASSUME TimesTyped, NEW t \in Times, NEW u \in Times
  PROVE  Before(Date(t), Date(u)) <=> Before(t, u)
  <1> DEFINE R == [year : Int, mon : Int, mday : Nat, hour : Nat, min : Nat, sec : Nat]
  <1>1. t.year \in Int /\ t.mon \in Int /\ u.year \in Int /\ u.mon \in Int
    <2>1. t \in R /\ u \in R
      BY DEF TimesTyped
    <2> QED BY <2>1
  <1> HIDE DEF R
  <1> DEFINE d == Date(t)
             e == Date(u)
  <1>2. /\ d.year = t.year + 1900 /\ d.mon = t.mon + 1 /\ d.mday = t.mday
        /\ d.hour = t.hour /\ d.min = t.min /\ d.sec = t.sec
        /\ e.year = u.year + 1900 /\ e.mon = u.mon + 1 /\ e.mday = u.mday
        /\ e.hour = u.hour /\ e.min = u.min /\ e.sec = u.sec
    BY DEF Date, Shifted
  <1> HIDE DEF d, e
  <1>3. /\ Earlier2(d, e) <=> Earlier2(t, u)
        /\ Same2(d, e) <=> Same2(t, u)
    BY <1>1, <1>2 DEF Earlier2, Earlier1, Same2
  <1>4. /\ Earlier3(d, e) <=> Earlier3(t, u)
        /\ Same3(d, e) <=> Same3(t, u)
    BY <1>2, <1>3 DEF Earlier3, Same3
  <1>5. Earlier6(d, e) <=> Earlier6(t, u)
    BY <1>2, <1>4 DEF Earlier6, Earlier5, Earlier4, Same4, Same5
  <1>6. (Before(d, e) <=> Earlier6(d, e)) /\ (Before(t, u) <=> Earlier6(t, u))
    BY EarlierIsBefore
  <1> QED BY <1>5, <1>6 DEF d, e

(* The offsets that one function adds the other takes away, whatever has   *)
(* become of the seconds.                                                  *)
LEMMA OffsetsCancel ==
  ASSUME TimesTyped, NEW t \in Times, NEW d, NEW n,
         d = [year |-> Date(t).year, mon |-> Date(t).mon, mday |-> Date(t).mday,
              hour |-> Date(t).hour, min |-> Date(t).min, sec |-> n]
  PROVE  OfDate(d) = [t EXCEPT !.sec = n]
  <1>1. t \in [year : Int, mon : Int, mday : Nat, hour : Nat, min : Nat, sec : Nat]
    BY DEF TimesTyped
  <1>2. (t.year + 1900) + (-1900) = t.year /\ (t.mon + 1) + (-1) = t.mon
    BY <1>1
  <1>3. /\ d.year = t.year + 1900 /\ d.mon = t.mon + 1 /\ d.mday = t.mday
        /\ d.hour = t.hour /\ d.min = t.min /\ d.sec = n
    BY DEF Date, Shifted
  <1>4. OfDate(d) = [year |-> t.year, mon |-> t.mon, mday |-> t.mday, hour |-> t.hour,
                     min |-> t.min, sec |-> n]
    BY <1>2, <1>3 DEF OfDate, Shifted
  <1>5. [t EXCEPT !.sec = n] = [year |-> t.year, mon |-> t.mon, mday |-> t.mday,
                                hour |-> t.hour, min |-> t.min, sec |-> n]
    BY <1>1
  <1> QED BY <1>4, <1>5

-----------------------------------------------------------------------------
(* A time keeps its value, its order and its ranges on its way through a   *)
(* text, for any times (analyzer.cpp:335-342, 406-435).                    *)
THEOREM TimesReturn == TextsSpec => []FormattedTimes
  <1> TimesTyped
    BY TextsAssumption DEF TextsTyped
  <1>1. Asked => FormattedTimes
    <2> SUFFICES ASSUME Asked PROVE FormattedTimes
      OBVIOUS
    <2>1. TimesComeBack
      <3> SUFFICES ASSUME at = "parsed" PROVE
            answer = [arg EXCEPT !.sec = IF FourDigits({arg}) THEN @ ELSE @ \div 10]
        BY DEF TimesComeBack
      <3>1. arg \in Times /\ answer = Parse(Format(arg))
        BY DEF Asked
      <3> DEFINE d == Date(arg)
                 last == IF FourDigits({arg}) THEN arg.sec ELSE arg.sec \div 10
      <3>2. IsTime(d) /\ Format(arg) = FormatDate(d) /\ (FourFigures(d) <=> FourDigits({arg}))
        BY <3>1, DateFacts
      <3>3. d.sec = arg.sec
        BY DEF Date, Shifted
      <3> HIDE DEF d
      <3>4. ReadDate(FormatDate(d)) =
              [year |-> d.year, mon |-> d.mon, mday |-> d.mday, hour |-> d.hour,
               min |-> d.min, sec |-> last]
        BY <3>2, <3>3, ParsedBack
      <3>6. answer = OfDate(ReadDate(FormatDate(d)))
        BY <3>1, <3>2 DEF Parse
      <3> HIDE DEF last
      <3>7. answer = [arg EXCEPT !.sec = last]
        BY <3>1, <3>4, <3>6, OffsetsCancel DEF d
      <3> QED BY <3>7 DEF last
    <2>2. OrderIsTime
      <3> SUFFICES ASSUME at = "compared", FourDigits({arg[1], arg[2]})
                   PROVE  answer = Before(arg[1], arg[2])
        BY DEF OrderIsTime
      <3>1. PICK t \in Times, u \in Times :
              arg = <<t, u>> /\ answer = Less(Format(t), Format(u))
        BY DEF Asked
      <3>2. arg[1] = t /\ arg[2] = u
        BY <3>1
      <3>3. FourDigits({t}) /\ FourDigits({u})
        BY <3>2 DEF FourDigits
      <3>4. /\ IsTime(Date(t)) /\ IsTime(Date(u))
            /\ FourFigures(Date(t)) /\ FourFigures(Date(u))
            /\ Format(t) = FormatDate(Date(t)) /\ Format(u) = FormatDate(Date(u))
        BY <3>3, DateFacts
      <3>5. Less(Format(t), Format(u)) <=> Before(t, u)
        BY <3>4, FormattedOrder, DatesAreOrdered
      <3>6. /\ Less(Format(t), Format(u)) \in BOOLEAN
            /\ Before(t, u) \in BOOLEAN
        BY DEF Less, Before
      <3> QED BY <3>1, <3>2, <3>5, <3>6
    <2>3. RangeIsBetween
      <3> SUFFICES ASSUME at = "filtered", NEW v \in Times \ {arg[2]},
                          FourDigits({v, arg[1], arg[2]})
                   PROVE  answer[v] <=> ~Before(v, arg[1]) /\ Before(v, arg[2])
        BY DEF RangeIsBetween
      <3>1. PICK t \in Times, u \in Times :
              /\ arg = <<t, u>>
              /\ answer = [w \in Times |->
                   IsInTimeRange(Printed(w), Format(t), Format(u))]
        BY DEF Asked
      <3>2. v \in Times /\ arg[1] = t /\ arg[2] = u
        BY <3>1
      <3>3. FourDigits({v}) /\ FourDigits({t}) /\ FourDigits({u})
        BY <3>2 DEF FourDigits
      <3>4. /\ IsTime(Date(v)) /\ IsTime(Date(t)) /\ IsTime(Date(u))
            /\ FourFigures(Date(v)) /\ FourFigures(Date(t)) /\ FourFigures(Date(u))
            /\ Format(t) = FormatDate(Date(t)) /\ Format(u) = FormatDate(Date(u))
        BY <3>2, <3>3, DateFacts
      <3>5. answer[v] = IsInTimeRange(DateText(Date(v)), FormatDate(Date(t)),
                                      FormatDate(Date(u)))
        BY <3>1, <3>2, <3>4 DEF Printed
      <3>6. answer[v] <=> ~Before(Date(v), Date(t)) /\ Before(Date(v), Date(u))
        BY <3>4, <3>5, FormattedRange
      <3>7. /\ Before(Date(v), Date(t)) <=> Before(v, t)
            /\ Before(Date(v), Date(u)) <=> Before(v, u)
        BY <3>2, DatesAreOrdered
      <3> QED BY <3>2, <3>6, <3>7
    <2> QED BY <2>1, <2>2, <2>3 DEF FormattedTimes
  <1> QED BY <1>1, Answers, PTL

-----------------------------------------------------------------------------
(* The formatter.                                                          *)

(* A bar of the arguments it may be given, inside its bounds.              *)
IsBar(b) ==
  /\ b \in [total : -MaxInt - 1 .. MaxInt, current : -MaxInt - 1 .. MaxInt,
            width : 0 .. MaxInt]
  /\ b.total \in Totals /\ b.width \in Widths
  /\ b.total >= 0 => b.current \in 0 .. b.total
  /\ b.total < 0 => b.current \in {0, b.total}

Moved(b, value) == AtMost(AtLeast(value, 0), b.total)

(* What the last call has shown belongs to the bar as it is now.           *)
BarInv ==
  /\ bar = NoBar \/ IsBar(bar)
  /\ shown.call = "toString" => IsBar(bar) /\ shown = Drawn(bar)
  /\ shown.call = "increment" =>
       /\ IsBar(bar) /\ shown.step \in Steps /\ shown.from \in -MaxInt - 1 .. MaxInt
       /\ bar.total >= 0 => shown.from \in 0 .. bar.total
       /\ bar.current = Moved(bar, Wrap(shown.from + shown.step))

(* Wrapped numbers are ints, and ints are not changed.                     *)
LEMMA WrapFacts ==
  ASSUME MaxInt \in Nat, NEW n \in Int
  PROVE  /\ Wrap(n) \in -MaxInt - 1 .. MaxInt
         /\ n \in -MaxInt - 1 .. MaxInt => Wrap(n) = n
  <1>1. PICK m \in Nat : m = 2 * MaxInt + 2 /\ m > 0
    OBVIOUS
  <1>2. /\ (n + MaxInt + 1) % m \in 0 .. m - 1
        /\ n + MaxInt + 1 \in 0 .. m - 1 => (n + MaxInt + 1) % m = n + MaxInt + 1
    BY <1>1, SMT
  <1>3. Wrap(n) = ((n + MaxInt + 1) % m) - (MaxInt + 1)
    BY <1>1 DEF Wrap
  <1>4. PICK r \in 0 .. m - 1 : r = (n + MaxInt + 1) % m
    BY <1>2
  <1>5. Wrap(n) = r - (MaxInt + 1)
    BY <1>3, <1>4
  <1>6. r - (MaxInt + 1) \in -MaxInt - 1 .. MaxInt
    BY <1>1
  <1>7. n \in -MaxInt - 1 .. MaxInt => r = n + MaxInt + 1
    BY <1>1, <1>2, <1>4
  <1> QED BY <1>5, <1>6, <1>7

(* update stays inside the bar, whatever it is told.                       *)
LEMMA MovedFacts ==
  ASSUME MaxInt \in Nat, NEW b, IsBar(b), NEW value \in Int
  PROVE  /\ Moved(b, value) \in -MaxInt - 1 .. MaxInt
         /\ b.total >= 0 => Moved(b, value) \in 0 .. b.total
         /\ b.total < 0 => Moved(b, value) = b.total
         /\ value >= 0 /\ value <= b.total => Moved(b, value) = value
         /\ value < 0 /\ b.total >= 0 => Moved(b, value) = 0
         /\ value > b.total /\ b.total >= 0 => Moved(b, value) = b.total
  <1>1. b.total \in Int /\ b.total \in -MaxInt - 1 .. MaxInt
    BY DEF IsBar
  <1> QED BY <1>1 DEF Moved, AtMost, AtLeast

(* A bar that is moved is a bar, with the value it was moved to.           *)
LEMMA MovedBar ==
  ASSUME MaxInt \in Nat, NEW b, IsBar(b), NEW value \in Int
  PROVE  /\ IsBar([b EXCEPT !.current = Moved(b, value)])
         /\ [b EXCEPT !.current = Moved(b, value)].total = b.total
         /\ [b EXCEPT !.current = Moved(b, value)].current = Moved(b, value)
  <1> DEFINE m == Moved(b, value)
             c == [b EXCEPT !.current = m]
  <1>1. /\ m \in -MaxInt - 1 .. MaxInt
        /\ b.total >= 0 => m \in 0 .. b.total
        /\ b.total < 0 => m = b.total
    BY MovedFacts
  <1> HIDE DEF m
  <1>2. c.total = b.total /\ c.width = b.width /\ c.current = m
    BY DEF IsBar
  <1>3. c \in [total : -MaxInt - 1 .. MaxInt, current : -MaxInt - 1 .. MaxInt,
               width : 0 .. MaxInt]
    BY <1>1 DEF IsBar
  <1> HIDE DEF c
  <1>4. IsBar(c)
    BY <1>1, <1>2, <1>3 DEF IsBar
  <1> QED BY <1>2, <1>4 DEF c, m

(* What stands for no bar is none.                                         *)
LEMMA NoBarIsNone == ~IsBar(NoBar)
  BY DEF IsBar, NoBar

(* There is no bar at the start.                                           *)
LEMMA BarInit == FormatterInit => BarInv
  BY DEF FormatterInit, Silence, BarInv

(* Every call keeps BarInv.                                                *)
LEMMA BarStep == FormatterTyped /\ BarInv /\ [FormatterNext]_formatterVars => BarInv'
  <1> SUFFICES ASSUME FormatterTyped, BarInv, [FormatterNext]_formatterVars PROVE BarInv'
    OBVIOUS
  <1>0. /\ MaxInt \in Nat /\ Steps \subseteq Int /\ Totals \subseteq -MaxInt - 1 .. MaxInt
        /\ Widths \subseteq 0 .. MaxInt /\ Steps \subseteq -MaxInt - 1 .. MaxInt
    BY DEF FormatterTyped
  <1>1. CASE UNCHANGED formatterVars
    BY <1>1 DEF BarInv, formatterVars
  <1>2. CASE Construct
    <2>1. PICK t \in Totals, w \in Widths : bar' = NewBar(t, w)
      BY <1>2 DEF Construct
    <2>2. t \in -MaxInt - 1 .. MaxInt /\ w \in 0 .. MaxInt
      BY <1>0
    <2>3. /\ bar'.total = t /\ bar'.current = 0 /\ bar'.width = w
          /\ bar' \in [total : -MaxInt - 1 .. MaxInt, current : -MaxInt - 1 .. MaxInt,
                       width : 0 .. MaxInt]
      BY <1>0, <2>1, <2>2 DEF NewBar
    <2>4. IsBar(bar')
      BY <2>2, <2>3 DEF IsBar
    <2> QED BY <1>2, <2>4 DEF Construct, Silence, BarInv
  <1>3. CASE Drop
    BY <1>3 DEF Drop, Silence, BarInv
  <1>4. CASE Update
    <2>1. PICK value \in Steps : SetTo(value) /\ shown' = Silence
      BY <1>4 DEF Update
    <2>2. value \in Int /\ IsBar(bar)
      BY <1>0, <1>4 DEF BarInv, Update, Alive
    <2>3. bar' = [bar EXCEPT !.current = Moved(bar, value)]
      BY <2>1 DEF SetTo, Clamped, Moved
    <2>4. IsBar(bar')
      BY <1>0, <2>2, <2>3, MovedBar
    <2> QED BY <2>1, <2>4 DEF Silence, BarInv
  <1>5. CASE Increment
    <2>1. PICK step \in Steps :
            /\ SetTo(Wrap(bar.current + step))
            /\ shown' = [call |-> "increment", step |-> step, from |-> bar.current]
      BY <1>5 DEF Increment
    <2>2. IsBar(bar)
      BY <1>5 DEF BarInv, Increment, Alive
    <2>3. /\ step \in Int /\ bar.current \in Int /\ bar.current \in -MaxInt - 1 .. MaxInt
          /\ bar.total \in Int
      BY <1>0, <2>2 DEF IsBar
    <2> DEFINE value == Wrap(bar.current + step)
    <2>4. value \in Int
      <3>1. bar.current + step \in Int
        BY <2>3
      <3>2. value \in -MaxInt - 1 .. MaxInt
        BY <1>0, <3>1, WrapFacts
      <3> HIDE DEF value
      <3> QED BY <1>0, <3>2
    <2>5. bar' = [bar EXCEPT !.current = Moved(bar, value)]
      BY <2>1 DEF SetTo, Clamped, Moved
    <2> HIDE DEF value
    <2>6. IsBar(bar') /\ bar'.total = bar.total /\ bar'.current = Moved(bar, value)
      BY <1>0, <2>2, <2>4, <2>5, MovedBar
    <2>7. Moved(bar', value) = Moved(bar, value)
      BY <2>6 DEF Moved
    <2>8. shown'.call = "increment" /\ shown'.step = step /\ shown'.from = bar.current
      BY <2>1
    <2>9. bar'.total >= 0 => shown'.from \in 0 .. bar'.total
      BY <2>2, <2>6, <2>8 DEF IsBar
    <2>10. bar'.current = Moved(bar', Wrap(shown'.from + shown'.step))
      BY <2>6, <2>7, <2>8 DEF value
    <2> QED BY <2>3, <2>6, <2>8, <2>9, <2>10 DEF BarInv
  <1>6. CASE Display
    <2>1. IsBar(bar) /\ bar' = bar /\ shown' = Drawn(bar')
      BY <1>6 DEF BarInv, Display, Alive
    <2>2. shown'.call = "toString"
      BY <2>1 DEF Drawn
    <2> QED BY <2>1, <2>2 DEF BarInv
  <1>7. CASE Finish
    <2>1. IsBar(bar) /\ bar' = [bar EXCEPT !.current = bar.total] /\ shown' = Drawn(bar')
      BY <1>7 DEF BarInv, Finish, Alive
    <2>2. IsBar(bar')
      <3>1. bar.total \in -MaxInt - 1 .. MaxInt
        BY <2>1 DEF IsBar
      <3>2. /\ bar'.total = bar.total /\ bar'.current = bar.total /\ bar'.width = bar.width
            /\ bar' \in [total : -MaxInt - 1 .. MaxInt, current : -MaxInt - 1 .. MaxInt,
                         width : 0 .. MaxInt]
        BY <2>1, <3>1 DEF IsBar
      <3>3. bar.total >= 0 => bar.total \in 0 .. bar.total
        BY <1>0, <3>1
      <3> QED BY <2>1, <3>2, <3>3 DEF IsBar
    <2>3. shown'.call = "toString"
      BY <2>1 DEF Drawn
    <2> QED BY <2>1, <2>2, <2>3 DEF BarInv
  <1>8. CASE FormatTable \/ FormatTopTable
    <2>1. bar' = NoBar /\ shown'.call = "formatTable"
      BY <1>8 DEF FormatTable, FormatTopTable, Clear, TableAnswer
    <2> QED BY <2>1 DEF BarInv
  <1>9. CASE FormatLogsTable
    <2>1. bar' = NoBar /\ shown'.call \in {"no_data", "formatLogsTable", "out_of_range"}
      BY <1>9 DEF FormatLogsTable, Clear, LogsAnswer
    <2> QED BY <2>1 DEF BarInv
  <1> QED BY <1>1, <1>2, <1>3, <1>4, <1>5, <1>6, <1>7, <1>8, <1>9 DEF FormatterNext

-----------------------------------------------------------------------------
(* BarInv is an invariant.                                                 *)
LEMMA Bars == ASSUME FormatterTyped PROVE FormatterSpec => []BarInv
  <1>1. BarInv /\ [FormatterNext]_formatterVars => BarInv'
    BY BarStep
  <1> QED BY <1>1, BarInit, PTL DEF FormatterSpec

-----------------------------------------------------------------------------
(* Division of two ints, for what a bar divides.                           *)
LEMMA QuotientFacts ==
  ASSUME NEW a \in Int, NEW b \in Int, b # 0
  PROVE  /\ a >= 0 /\ b > 0 => Quotient(a, b) = a \div b
         /\ a = 0 => Quotient(a, b) = 0
         /\ a < 0 /\ b < 0 => Quotient(a, b) = (-a) \div (-b)
  <1>1. CASE a >= 0 /\ b > 0
    BY <1>1 DEF Quotient
  <1>2. CASE a < 0
    BY <1>2 DEF Quotient
  <1>3. CASE a = 0 /\ b < 0
    <2>1. PICK m \in Nat : m = -b /\ m > 0
      BY <1>3
    <2>2. 0 \div m = 0
      BY <2>1, SMT
    <2> QED BY <1>3, <2>1, <2>2 DEF Quotient
  <1>4. CASE a = 0 /\ b > 0
    <2>2. 0 \div b = 0
      BY <1>4, SMT
    <2> QED BY <1>4, <2>2 DEF Quotient
  <1> QED BY <1>1, <1>2, <1>3, <1>4

(* What part of n is c of t.                                               *)
PartOf(q, c, t, n) ==
  /\ q \in 0 .. n
  /\ c * n - q * t \in 0 .. t - 1
  /\ q = n <=> (c = t \/ n = 0)

(* The part of n that c is of t, rounded down, is n only at the end.       *)
LEMMA PartFacts ==
  ASSUME NEW t \in Nat, t > 0, NEW c \in 0 .. t, NEW n \in Nat
  PROVE  PartOf((c * n) \div t, c, t, n)
  <1>1. PICK a \in Nat : a = c * n
    OBVIOUS
  <1>2. PICK q \in Int, r \in 0 .. t - 1 : q = a \div t /\ a = q * t + r
    BY <1>1, SMT
  <1>3. q >= 0
    <2> SUFFICES ASSUME q < 0 PROVE FALSE
      OBVIOUS
    <2>1. q * t <= -t
      BY SMT
    <2> QED BY <1>2, <2>1
  <1>4. a <= n * t
    BY <1>1, SMT
  <1>5. q <= n
    <2> SUFFICES ASSUME q >= n + 1 PROVE FALSE
      BY <1>2
    <2>1. q * t >= (n + 1) * t /\ (n + 1) * t = n * t + t
      BY SMT
    <2> QED BY <1>2, <1>4, <2>1
  <1>6. c = t => q = n
    <2> SUFFICES ASSUME c = t, q <= n - 1 PROVE FALSE
      BY <1>2, <1>5
    <2>1. q * t <= (n - 1) * t /\ (n - 1) * t = n * t - t
      BY SMT
    <2>2. a = n * t
      BY <1>1
    <2> QED BY <1>2, <2>1, <2>2
  <1>7. n = 0 => q = n
    BY <1>3, <1>5
  <1>8. q = n => c = t \/ n = 0
    <2> SUFFICES ASSUME q = n, c <= t - 1, n > 0 PROVE FALSE
      BY <1>2
    <2>1. c * n <= (t - 1) * n /\ (t - 1) * n = n * t - n
      BY SMT
    <2> QED BY <1>1, <1>2, <2>1
  <1>9. a - q * t = r
    BY <1>2
  <1> QED BY <1>1, <1>2, <1>3, <1>5, <1>6, <1>7, <1>8, <1>9 DEF PartOf

(* A share that no product takes out of the range of int.                  *)
Share(b, n) == Quotient(Wrap(b.current * n), b.total)

(* The quotients of a drawn bar, with a negative total too, while the      *)
(* product is an int.                                                      *)
LEMMA ShareFacts ==
  ASSUME MaxInt \in Nat, NEW b, IsBar(b), b.total # 0, NEW n \in Nat,
         NEW m \in Nat, m = (IF b.total < 0 THEN -b.total ELSE b.total), m * n <= MaxInt
  PROVE  /\ Share(b, n) \in 0 .. n
         /\ Share(b, n) = n <=> (b.current = b.total \/ n = 0)
         /\ b.total > 0 => b.current * n - Share(b, n) * b.total \in 0 .. b.total - 1
  <1>0. PICK t \in Int, c \in Int : t = b.total /\ c = b.current /\ t # 0
    BY DEF IsBar
  <1>1. c * n \in -MaxInt - 1 .. MaxInt
    <2>1. CASE t > 0
      <3>1. c \in 0 .. t /\ m = t
        BY <1>0, <2>1 DEF IsBar
      <3>2. c * n >= 0 /\ c * n <= t * n
        BY <3>1, SMT
      <3> QED BY <3>1, <3>2
    <2>2. CASE t < 0 /\ c = 0
      BY <2>2
    <2>3. CASE t < 0 /\ c = t
      <3>1. m = -t /\ t * n = -(m * n) /\ m * n >= 0
        BY <1>0, <2>3, SMT
      <3> QED BY <2>3, <3>1
    <2> QED BY <1>0, <2>1, <2>2, <2>3 DEF IsBar
  <1>2. c * n \in Int /\ Share(b, n) = Quotient(c * n, t)
    <2>1. c * n \in Int
      OBVIOUS
    <2>2. Wrap(c * n) = c * n
      BY <1>1, <2>1, WrapFacts
    <2> QED BY <1>0, <2>1, <2>2 DEF Share
  <1>3. CASE t > 0
    <2>1. t \in Nat /\ c \in 0 .. t /\ c * n >= 0
      BY <1>0, <1>3, SMT DEF IsBar
    <2>2. Share(b, n) = (c * n) \div t
      BY <1>2, <1>3, <2>1, QuotientFacts
    <2>3. PartOf(Share(b, n), c, t, n)
      BY <1>3, <2>1, <2>2, PartFacts
    <2> QED BY <1>0, <1>3, <2>3 DEF PartOf
  <1>4. CASE t < 0 /\ c = 0
    <2>1. c * n = 0
      BY <1>4
    <2>2. Share(b, n) = 0
      BY <1>0, <1>2, <2>1, QuotientFacts
    <2> QED BY <1>0, <1>4, <2>2
  <1>5. CASE t < 0 /\ c = t
    <2>1. m = -t /\ m > 0
      BY <1>0, <1>5
    <2>2. CASE n = 0
      <3>1. c * n = 0
        BY <2>2
      <3>2. Share(b, n) = 0
        BY <1>0, <1>2, <3>1, QuotientFacts
      <3> QED BY <1>0, <1>5, <2>2, <3>2
    <2>3. CASE n > 0
      <3>1. c * n < 0 /\ -(c * n) = m * n /\ -t = m
        <4>1. c = -m /\ -t = m
          BY <1>5, <2>1
        <4>2. (-m) * n = -(m * n) /\ m * n > 0
          BY <2>1, <2>3, SMT
        <4> QED BY <4>1, <4>2
      <3>2. Share(b, n) = (m * n) \div m
        BY <1>0, <1>2, <1>5, <3>1, QuotientFacts
      <3>3. m \in 0 .. m
        BY <2>1
      <3>4. PartOf((m * n) \div m, m, m, n)
        BY <2>1, <3>3, PartFacts
      <3>5. (m * n) \div m = n
        BY <3>4 DEF PartOf
      <3> QED BY <1>0, <1>5, <3>2, <3>5
    <2> QED BY <2>2, <2>3
  <1>6. t > 0 \/ (t < 0 /\ c = 0) \/ (t < 0 /\ c = t)
    BY <1>0 DEF IsBar
  <1> QED BY <1>3, <1>4, <1>5, <1>6

(* What toString draws is what the bar has.                                *)
LEMMA DrawnFacts ==
  ASSUME MaxInt \in Nat, BarInv PROVE DrawsWhatItHas
  <1> SUFFICES ASSUME shown.call = "toString", bar.total # 0, Magnitude(bar) <= MaxInt
      PROVE /\ bar.total > 0 => bar.current * 100 - shown.percent * bar.total
                                  \in 0 .. bar.total - 1
            /\ shown.percent \in 0 .. 100
            /\ shown.percent = 100 <=> bar.current = bar.total
            /\ \E f \in 0 .. bar.width :
                 /\ f = bar.width <=> (bar.current = bar.total \/ bar.width = 0)
                 /\ shown.cells = [i \in 1 .. bar.width |->
                      IF i <= f THEN "full" ELSE IF i = f + 1 THEN "half" ELSE "empty"]
    BY DEF DrawsWhatItHas
  <1>1. IsBar(bar) /\ shown = Drawn(bar)
    BY DEF BarInv
  <1>2. /\ bar.total \in Int /\ bar.width \in Nat /\ bar.current \in Int
    BY <1>1 DEF IsBar
  <1>3. PICK m \in Nat : m = (IF bar.total < 0 THEN -bar.total ELSE bar.total)
    BY <1>2
  <1>4. m * 100 <= MaxInt /\ m * bar.width <= MaxInt
    <2>1. PICK k \in Nat : k = AtLeast(100, bar.width) /\ k >= 100 /\ k >= bar.width
      BY <1>2 DEF AtLeast
    <2>2. m * k <= MaxInt
      BY <1>3, <2>1 DEF Magnitude
    <2>3. m * 100 <= m * k /\ m * bar.width <= m * k
      BY <1>2, <2>1, SMT
    <2> QED BY <1>2, <2>1, <2>2, <2>3
  <1>5. /\ Share(bar, 100) \in 0 .. 100
        /\ Share(bar, 100) = 100 <=> bar.current = bar.total
        /\ bar.total > 0 => bar.current * 100 - Share(bar, 100) * bar.total
                              \in 0 .. bar.total - 1
    <2>1. 100 \in Nat
      OBVIOUS
    <2>2. /\ Share(bar, 100) \in 0 .. 100
          /\ Share(bar, 100) = 100 <=> (bar.current = bar.total \/ 100 = 0)
          /\ bar.total > 0 => bar.current * 100 - Share(bar, 100) * bar.total
                                \in 0 .. bar.total - 1
      BY <1>1, <1>3, <1>4, <2>1, ShareFacts
    <2> QED BY <2>2
  <1>6. PICK f \in 0 .. bar.width :
          /\ f = Share(bar, bar.width)
          /\ f = bar.width <=> (bar.current = bar.total \/ bar.width = 0)
    BY <1>1, <1>2, <1>3, <1>4, ShareFacts
  <1>7. shown.percent = Share(bar, 100) /\ shown.cells = Cells(bar)
    BY <1>1 DEF Drawn, Percent, Share
  <1>8. Cells(bar) = [i \in 1 .. bar.width |->
                      IF i <= f THEN "full" ELSE IF i = f + 1 THEN "half" ELSE "empty"]
    <2>1. Filled(bar) = f
      BY <1>6 DEF Filled, Share
    <2>2. \A i \in 1 .. bar.width : (i - 1 < f <=> i <= f) /\ (i - 1 = f <=> i = f + 1)
      BY <1>2
    <2> QED BY <2>1, <2>2 DEF Cells
  <1> QED BY <1>5, <1>6, <1>7, <1>8

(* A step forward, in ints.                                                *)
LEMMA ForwardFacts ==
  ASSUME MaxInt \in Nat, Steps \subseteq -MaxInt - 1 .. MaxInt, BarInv
  PROVE  ForwardIsForward
  <1> SUFFICES ASSUME shown.call = "increment", shown.step > 0, bar.total > 0
      PROVE \/ bar.current > shown.from \/ bar.current = bar.total
            \/ shown.from + shown.step > MaxInt /\ bar.current = 0
    BY DEF ForwardIsForward
  <1>1. IsBar(bar)
    BY DEF BarInv
  <1>2. PICK t \in Int, s \in Int, g \in Int, c \in Int :
          t = bar.total /\ s = shown.step /\ g = shown.from /\ c = bar.current
    <2>1. shown.step \in Steps /\ shown.from \in -MaxInt - 1 .. MaxInt
      BY DEF BarInv
    <2>2. bar.total \in Int /\ bar.current \in Int
      BY <1>1 DEF IsBar
    <2>3. /\ \A x : x \in -MaxInt - 1 .. MaxInt => x \in Int
          /\ \A x \in Steps : x \in -MaxInt - 1 .. MaxInt
      OBVIOUS
    <2>4. shown.step \in Int /\ shown.from \in Int
      BY <2>1, <2>3, Zenon
    <2> QED BY <2>2, <2>4
  <1>3. /\ t > 0 /\ t <= MaxInt /\ g \in 0 .. t /\ s > 0 /\ s <= MaxInt
    BY <1>1, <1>2 DEF BarInv, IsBar
  <1>4. c = Moved(bar, Wrap(g + s))
    BY <1>2 DEF BarInv
  <1>5. PICK v \in Int : v = Wrap(g + s) /\ (g + s <= MaxInt => v = g + s)
    <2>1. g + s \in Int /\ (g + s <= MaxInt => g + s \in -MaxInt - 1 .. MaxInt)
      BY <1>3
    <2>2. /\ Wrap(g + s) \in -MaxInt - 1 .. MaxInt
          /\ g + s \in -MaxInt - 1 .. MaxInt => Wrap(g + s) = g + s
      BY <2>1, WrapFacts
    <2> QED BY <2>1, <2>2
  <1>6. c = Moved(bar, v)
    BY <1>4, <1>5
  <1>7. CASE g + s <= MaxInt
    <2>1. v = g + s /\ v > g /\ v >= 0
      BY <1>3, <1>5, <1>7
    <2>2. CASE v <= t
      <3>1. c = v
        BY <1>1, <1>2, <1>6, <2>1, <2>2, MovedFacts
      <3> QED BY <1>2, <2>1, <3>1
    <2>3. CASE v > t
      <3>1. c = t
        BY <1>1, <1>2, <1>3, <1>6, <2>3, MovedFacts
      <3> QED BY <1>2, <3>1
    <2> QED BY <2>2, <2>3
  <1>8. CASE g + s > MaxInt
    <2>1. v < 0
      <3>1. PICK k \in Nat : k = 2 * MaxInt + 2 /\ k > 0
        OBVIOUS
      <3>2. PICK x \in Int : x = g + s + MaxInt + 1 /\ x >= k /\ x < k + MaxInt + 1
        BY <1>3, <1>8, <3>1
      <3>3. x % k = x - k
        BY <3>1, <3>2, SMT
      <3>4. v = (x % k) - (MaxInt + 1)
        BY <1>5, <3>1, <3>2 DEF Wrap
      <3> QED BY <3>1, <3>2, <3>3, <3>4
    <2>2. c = 0
      BY <1>1, <1>2, <1>3, <1>6, <2>1, MovedFacts
    <2> QED BY <1>2, <1>8, <2>2
  <1> QED BY <1>3, <1>7, <1>8

(* A progress bar stays between its start and its total, shows how far it  *)
(* is, and does not go back, for any width of int (formatter.cpp:350-394). *)
THEOREM BarsAreHonest == FormatterSpec => []BarIsHonest
  <1> FormatterTyped
    BY FormatterAssumption
  <1>1. BarInv => BarIsHonest
    <2> SUFFICES ASSUME BarInv PROVE BarIsHonest
      OBVIOUS
    <2>1. MaxInt \in Nat /\ Steps \subseteq -MaxInt - 1 .. MaxInt
      BY DEF FormatterTyped
    <2>2. BarIsInside
      <3>1. CASE bar = NoBar
        BY <3>1 DEF BarIsInside, Alive, NoBar
      <3>2. CASE IsBar(bar)
        BY <3>2 DEF BarIsInside, IsBar
      <3> QED BY <3>1, <3>2 DEF BarInv
    <2>3. DrawsWhatItHas /\ ForwardIsForward
      BY <2>1, DrawnFacts, ForwardFacts
    <2> QED BY <2>2, <2>3 DEF BarIsHonest
  <1> QED BY <1>1, Bars, PTL

-----------------------------------------------------------------------------
(* The greatest of some naturals that have a bound.                        *)
LEMMA Greatest ==
  ASSUME NEW n \in Nat, NEW I \in SUBSET (0 .. n), I # {}
  PROVE  Max(I) \in I /\ \A y \in I : y <= Max(I)
  <1> DEFINE T == {n - x : x \in I}
  <1>1. \A x \in I : x \in Nat /\ n - x \in Nat
    OBVIOUS
  <1>2. T \in SUBSET Nat /\ T # {}
    BY <1>1
  <1> HIDE DEF T
  <1>3. PICK t \in T : \A u \in T : t <= u
    BY <1>2, Least
  <1> USE DEF T
  <1>4. PICK x \in I : t = n - x
    OBVIOUS
  <1>5. ASSUME NEW y \in I PROVE x >= y
    <2>1. n - x <= n - y
      BY <1>3, <1>4
    <2> QED BY <2>1
  <1>6. Max(I) \in I /\ \A y \in I : Max(I) >= y
    BY <1>5 DEF Max
  <1>7. \A y \in I : y \in Int
    OBVIOUS
  <1> QED BY <1>6, <1>7

(* The pieces of a text, one after the other.                              *)
Laid(f, segs) ==
  /\ f[0] = << >>
  /\ \A i \in 1 .. Len(segs) : f[i] = f[i - 1] \o segs[i]

IsFlat(segs, C) ==
  \E f \in [0 .. Len(segs) -> Seq(C)] : Laid(f, segs) /\ FlattenSeq(segs) = f[Len(segs)]

Flattened(t, segs, n) == t = [i \in 1 .. n |-> IF i = 1 THEN segs[i] ELSE t[i - 1] \o segs[i]]

(* A flattened sequence is the concatenation of its parts, one by one.     *)
LEMMA FlatFacts ==
  ASSUME NEW C, NEW segs \in Seq(Seq(C))
  PROVE  IsFlat(segs, C)
  <1>0. PICK n \in Nat : n = Len(segs)
    OBVIOUS
  <1> DEFINE step == [k \in 1 .. n |-> [s \in Seq(C) |-> s \o segs[k]]]
  <1>1. step \in [1 .. n -> [Seq(C) -> Seq(C)]]
    <2>1. ASSUME NEW k \in 1 .. n, NEW s \in Seq(C) PROVE s \o segs[k] \in Seq(C)
      <3>1. segs[k] \in Seq(C)
        BY <1>0
      <3> QED BY <3>1
    <2> QED BY <2>1
  <1>2. PICK f \in [0 .. n -> Seq(C)] :
          f[0] = << >> /\ \A k \in 1 .. n : f[k] = step[k][f[k - 1]]
    <2>1. GoesOn(n, Seq(C), << >>, step)
      <3>1. << >> \in Seq(C)
        OBVIOUS
      <3> HIDE DEF step
      <3> QED BY <1>1, <3>1, RecursionExists
    <2> QED BY <2>1 DEF GoesOn
  <1>3. ASSUME NEW i \in 1 .. n PROVE f[i] = f[i - 1] \o segs[i]
    <2>1. f[i - 1] \in Seq(C)
      OBVIOUS
    <2> QED BY <1>2, <2>1
  <1>4. Laid(f, segs)
    BY <1>0, <1>2, <1>3 DEF Laid
  <1> HIDE DEF step
  <1>5. CASE n = 0
    <2>1. segs = << >> /\ Len(segs) = 0
      BY <1>0, <1>5, EmptySeq
    <2>2. FlattenSeq(segs) = segs
      BY <2>1, Zenon DEF FlattenSeq
    <2> QED BY <1>0, <1>2, <1>4, <1>5, <2>1, <2>2 DEF IsFlat
  <1>6. CASE n # 0
    <2> DEFINE g == [i \in 1 .. n |-> f[i]]
    <2>1. ASSUME NEW i \in 1 .. n
          PROVE  g[i] = IF i = 1 THEN segs[i] ELSE g[i - 1] \o segs[i]
      <3>1. CASE i = 1
        <4>0. i - 1 = 0
          BY <3>1
        <4>1. f[i] = << >> \o segs[i]
          BY <1>2, <1>3, <4>0
        <4>2. segs[i] \in Seq(C)
          BY <1>0
        <4>3. << >> \o segs[i] = segs[i]
          BY <4>2
        <4> QED BY <3>1, <4>1, <4>3
      <3>2. CASE i # 1
        <4>1. i - 1 \in 1 .. n
          BY <3>2
        <4>2. g[i - 1] = f[i - 1] /\ g[i] = f[i]
          BY <4>1
        <4> HIDE DEF g
        <4> QED BY <1>3, <3>2, <4>2
      <3> QED BY <3>1, <3>2
    <2>2. Flattened(g, segs, n)
      <3> DEFINE other == [i \in 1 .. n |-> IF i = 1 THEN segs[i] ELSE g[i - 1] \o segs[i]]
      <3>1. \A i \in 1 .. n : g[i] = other[i]
        BY <2>1
      <3> HIDE DEF other
      <3>2. g = other
        BY <3>1 DEF other
      <3> HIDE DEF g
      <3> QED BY <3>2 DEF Flattened, other
    <2> HIDE DEF g
    <2> DEFINE t == CHOOSE u : Flattened(u, segs, n)
    <2>3. Flattened(t, segs, n)
      BY <2>2
    <2>4. FlattenSeq(segs) = t[n]
      BY <1>0, <1>6 DEF FlattenSeq, Flattened
    <2> HIDE DEF t
    <2>5. \A i \in 1 .. n : t[i] = IF i = 1 THEN segs[i] ELSE t[i - 1] \o segs[i]
      BY <2>3 DEF Flattened
    <2> DEFINE G == {m \in Nat : m + 1 <= n => t[m + 1] = f[m + 1]}
    <2>6. 0 \in G
      <3>1. 1 \in 1 .. n /\ segs[1] \in Seq(C) /\ 1 - 1 = 0
        BY <1>0, <1>6
      <3>2. t[1] = segs[1] /\ f[1] = << >> \o segs[1]
        BY <1>2, <1>3, <2>5, <3>1
      <3>3. << >> \o segs[1] = segs[1]
        BY <3>1
      <3> QED BY <3>2, <3>3
    <2>7. ASSUME NEW m \in Nat, m \in G PROVE m + 1 \in G
      <3> SUFFICES ASSUME (m + 1) + 1 <= n PROVE t[(m + 1) + 1] = f[(m + 1) + 1]
        OBVIOUS
      <3>1. (m + 1) + 1 \in 1 .. n /\ (m + 1) + 1 # 1 /\ ((m + 1) + 1) - 1 = m + 1 /\ m + 1 <= n
        OBVIOUS
      <3>2. t[(m + 1) + 1] = t[m + 1] \o segs[(m + 1) + 1]
        BY <2>5, <3>1
      <3>3. f[(m + 1) + 1] = f[m + 1] \o segs[(m + 1) + 1]
        BY <1>3, <3>1
      <3> QED BY <2>7, <3>1, <3>2, <3>3
    <2>8. Nat \subseteq G
      <3> HIDE DEF G
      <3> QED BY <2>6, <2>7, Induct
    <2>9. t[n] = f[n]
      <3>1. n - 1 \in Nat /\ (n - 1) + 1 = n
        BY <1>6
      <3>2. n - 1 \in G
        BY <2>8, <3>1
      <3> QED BY <3>1, <3>2
    <2> QED BY <1>0, <1>4, <2>4, <2>9 DEF IsFlat
  <1> QED BY <1>5, <1>6

(* Lengths add up.                                                         *)
LEMMA LongerBy ==
  ASSUME NEW C, NEW a \in Seq(C), NEW b \in Seq(C)
  PROVE  /\ a \o b \in Seq(C) /\ Len(a \o b) = Len(a) + Len(b)
         /\ Len(a) \in Nat /\ Len(b) \in Nat
  OBVIOUS

(* Pieces of equal lengths, but for the last, make texts that differ by as *)
(* much as the last.                                                       *)
LastLonger(s, t, d) ==
  /\ s # << >> /\ Len(s) = Len(t)
  /\ \A i \in 1 .. Len(s) : i < Len(s) => Len(s[i]) = Len(t[i])
  /\ Len(s[Len(s)]) = Len(t[Len(t)]) + d

(* Parts that differ in length at the last place only make texts that      *)
(* differ by as much.                                                      *)
LEMMA FlatLengths ==
  ASSUME NEW C, NEW s \in Seq(Seq(C)), NEW t \in Seq(Seq(C)), NEW d \in Nat,
         LastLonger(s, t, d)
  PROVE  Len(FlattenSeq(s)) = Len(FlattenSeq(t)) + d
  <1>0. PICK n \in Nat : n = Len(s) /\ n = Len(t) /\ n > 0
    BY EmptySeq DEF LastLonger
  <1>a. IsFlat(s, C) /\ IsFlat(t, C)
    BY FlatFacts
  <1>1. PICK f \in [0 .. n -> Seq(C)] : Laid(f, s) /\ FlattenSeq(s) = f[n]
    BY <1>0, <1>a DEF IsFlat
  <1>2. PICK g \in [0 .. n -> Seq(C)] : Laid(g, t) /\ FlattenSeq(t) = g[n]
    BY <1>0, <1>a DEF IsFlat
  <1>3. ASSUME NEW i \in 1 .. n
        PROVE  /\ f[i] \in Seq(C) /\ g[i] \in Seq(C)
               /\ Len(f[i]) = Len(f[i - 1]) + Len(s[i]) /\ Len(g[i]) = Len(g[i - 1]) + Len(t[i])
               /\ Len(s[i]) \in Nat /\ Len(t[i]) \in Nat
               /\ Len(f[i - 1]) \in Nat /\ Len(g[i - 1]) \in Nat
    <2>a. s[i] \in Seq(C) /\ t[i] \in Seq(C)
      BY <1>0, ElementOfSeq
    <2>b. i - 1 \in 0 .. n
      OBVIOUS
    <2>1. f[i - 1] \in Seq(C) /\ g[i - 1] \in Seq(C) /\ s[i] \in Seq(C) /\ t[i] \in Seq(C)
      BY <2>a, <2>b
    <2>2. f[i] = f[i - 1] \o s[i] /\ g[i] = g[i - 1] \o t[i]
      BY <1>0, <1>1, <1>2 DEF Laid
    <2>3. /\ f[i - 1] \o s[i] \in Seq(C) /\ Len(f[i - 1] \o s[i]) = Len(f[i - 1]) + Len(s[i])
          /\ g[i - 1] \o t[i] \in Seq(C) /\ Len(g[i - 1] \o t[i]) = Len(g[i - 1]) + Len(t[i])
      BY <2>1, LongerBy, Zenon
    <2>4. /\ Len(s[i]) \in Nat /\ Len(t[i]) \in Nat
          /\ Len(f[i - 1]) \in Nat /\ Len(g[i - 1]) \in Nat
      BY <2>1, LongerBy, Zenon
    <2> QED BY <2>2, <2>3, <2>4, Zenon
  <1> DEFINE G == {m \in Nat : m < n => Len(f[m]) = Len(g[m])}
  <1>4. 0 \in G
    BY <1>1, <1>2 DEF Laid
  <1>5. ASSUME NEW m \in Nat, m \in G PROVE m + 1 \in G
    <2> SUFFICES ASSUME m + 1 < n PROVE Len(f[m + 1]) = Len(g[m + 1])
      OBVIOUS
    <2>1. m + 1 \in 1 .. n /\ m < n /\ (m + 1) - 1 = m
      OBVIOUS
    <2>2. Len(s[m + 1]) = Len(t[m + 1])
      BY <1>0, <2>1 DEF LastLonger
    <2>3. Len(f[m + 1]) = Len(f[m]) + Len(s[m + 1]) /\ Len(g[m + 1]) = Len(g[m]) + Len(t[m + 1])
      BY <1>3, <2>1
    <2> QED BY <1>5, <2>1, <2>2, <2>3
  <1>6. Nat \subseteq G
    <2> HIDE DEF G
    <2> QED BY <1>4, <1>5, Induct
  <1>7. n - 1 \in Nat /\ n \in 1 .. n /\ n - 1 < n
    BY <1>0
  <1>8. n - 1 \in G
    BY <1>6, <1>7
  <1>9. Len(f[n - 1]) = Len(g[n - 1]) /\ Len(s[n]) = Len(t[n]) + d
    BY <1>0, <1>7, <1>8 DEF LastLonger
  <1>10. /\ Len(f[n]) = Len(f[n - 1]) + Len(s[n]) /\ Len(g[n]) = Len(g[n - 1]) + Len(t[n])
         /\ Len(s[n]) \in Nat /\ Len(t[n]) \in Nat
         /\ Len(f[n - 1]) \in Nat /\ Len(g[n - 1]) \in Nat
    BY <1>3, <1>7
  <1>11. PICK a \in Nat, b \in Nat, u \in Nat, v \in Nat :
           a = Len(f[n - 1]) /\ b = Len(g[n - 1]) /\ u = Len(s[n]) /\ v = Len(t[n])
    BY <1>10
  <1>12. Len(f[n]) = a + u /\ Len(g[n]) = b + v /\ a = b /\ u = v + d
    BY <1>9, <1>10, <1>11
  <1>13. Len(f[n]) = Len(g[n]) + d
    BY <1>12
  <1> QED BY <1>1, <1>2, <1>13

-----------------------------------------------------------------------------
(* The bytes of some kinds in a line, up to any of its bytes.              *)
Heard(K, f, s) ==
  /\ f[0] = << >>
  /\ \A i \in 1 .. Len(s) :
       f[i] = IF s[i] \in K THEN Append(f[i - 1], s[i]) ELSE f[i - 1]

Listened(K, f, s) ==
  f = [i \in 0 .. Len(s) |->
         IF i = 0 THEN << >>
         ELSE IF s[i] \in K THEN Append(f[i - 1], s[i]) ELSE f[i - 1]]

Collects(K, s) ==
  \E f \in [0 .. Len(s) -> Seq(K)] : Heard(K, f, s) /\ Only(K, s) = f[Len(s)]

(* The function that collects bytes is determined by the line.             *)
LEMMA HeardIsUnique ==
  ASSUME NEW K, NEW C, NEW s \in Seq(C), NEW f, NEW g, Heard(K, f, s), Heard(K, g, s)
  PROVE  f[Len(s)] = g[Len(s)]
  <1>0. PICK n \in Nat : n = Len(s)
    OBVIOUS
  <1> DEFINE G == {m \in Nat : m <= n => f[m] = g[m]}
  <1>1. 0 \in G
    BY DEF Heard
  <1>2. ASSUME NEW m \in Nat, m \in G PROVE m + 1 \in G
    <2> SUFFICES ASSUME m + 1 <= n PROVE f[m + 1] = g[m + 1]
      OBVIOUS
    <2>1. m + 1 \in 1 .. n /\ (m + 1) - 1 = m /\ m <= n
      OBVIOUS
    <2>2. f[m + 1] = IF s[m + 1] \in K THEN Append(f[m], s[m + 1]) ELSE f[m]
      BY <1>0, <2>1 DEF Heard
    <2>3. g[m + 1] = IF s[m + 1] \in K THEN Append(g[m], s[m + 1]) ELSE g[m]
      BY <1>0, <2>1 DEF Heard
    <2> QED BY <1>2, <2>1, <2>2, <2>3
  <1>3. Nat \subseteq G
    <2> HIDE DEF G
    <2> QED BY <1>1, <1>2, Induct
  <1>4. n \in G
    BY <1>3
  <1> QED BY <1>0, <1>4

(* The function behind Only exists and collects the bytes of those kinds.  *)
LEMMA OnlyFacts ==
  ASSUME NEW K, NEW C, NEW s \in Seq(C)
  PROVE  Collects(K, s)
  <1>0. PICK n \in Nat : n = Len(s)
    OBVIOUS
  <1> DEFINE T == Seq(K)
             step == [k \in 1 .. n |->
               [x \in T |-> IF s[k] \in K THEN Append(x, s[k]) ELSE x]]
  <1>1. step \in [1 .. n -> [T -> T]]
    <2>1. ASSUME NEW k \in 1 .. n, NEW x \in T
          PROVE  (IF s[k] \in K THEN Append(x, s[k]) ELSE x) \in T
      <3>1. ASSUME NEW c \in K PROVE Append(x, c) \in T
        OBVIOUS
      <3> HIDE DEF T
      <3> QED BY <3>1
    <2> HIDE DEF T
    <2> QED BY <2>1
  <1>2. PICK f \in [0 .. n -> T] :
          f[0] = << >> /\ \A k \in 1 .. n : f[k] = step[k][f[k - 1]]
    <2>1. GoesOn(n, T, << >>, step)
      <3>1. << >> \in T
        OBVIOUS
      <3> HIDE DEF step, T
      <3> QED BY <1>1, <3>1, RecursionExists
    <2> QED BY <2>1 DEF GoesOn
  <1>3. ASSUME NEW i \in 1 .. n
        PROVE  f[i] = IF s[i] \in K THEN Append(f[i - 1], s[i]) ELSE f[i - 1]
    <2>1. f[i - 1] \in T
      <3> HIDE DEF T, step
      <3> QED OBVIOUS
    <2> HIDE DEF T
    <2> QED BY <1>2, <2>1
  <1>4. Heard(K, f, s)
    <2> HIDE DEF T, step
    <2> QED BY <1>0, <1>2, <1>3 DEF Heard
  <1> HIDE DEF step
  <1>5. Listened(K, f, s)
    <2> DEFINE other == [i \in 0 .. n |->
         IF i = 0 THEN << >>
         ELSE IF s[i] \in K THEN Append(f[i - 1], s[i]) ELSE f[i - 1]]
    <2>1. ASSUME NEW i \in 0 .. n PROVE f[i] = other[i]
      <3>1. CASE i = 0
        BY <1>2, <3>1
      <3>2. CASE i # 0
        <4>1. i \in 1 .. n
          BY <3>2
        <4> HIDE DEF T
        <4> QED BY <1>3, <3>2, <4>1
      <3> QED BY <3>1, <3>2
    <2>2. \A i \in 0 .. n : f[i] = other[i]
      BY <2>1
    <2> HIDE DEF other, T
    <2>3. f = other
      BY <2>2 DEF other
    <2> QED BY <1>0, <2>3 DEF Listened, other
  <1> DEFINE u == CHOOSE v : Listened(K, v, s)
  <1>6. Listened(K, u, s)
    <2> HIDE DEF T
    <2> QED BY <1>5
  <1>7. Only(K, s) = u[Len(s)]
    BY DEF Only, Listened
  <1> HIDE DEF u
  <1>8. Heard(K, u, s)
    <2>1. \A i \in 0 .. n : u[i] =
            IF i = 0 THEN << >>
            ELSE IF s[i] \in K THEN Append(u[i - 1], s[i]) ELSE u[i - 1]
      BY <1>0, <1>6 DEF Listened
    <2> QED BY <1>0, <2>1 DEF Heard
  <1>9. Only(K, s) = f[Len(s)]
    BY <1>4, <1>7, <1>8, HeardIsUnique
  <1> QED BY <1>0, <1>4, <1>9 DEF Collects

Appends(a, b, c) == Append(a \o b, c) = a \o Append(b, c)

(* Appending to the second of two sequences is appending to both.          *)
LEMMA AppendAfter ==
  ASSUME NEW C, NEW a \in Seq(C), NEW b \in Seq(C), NEW c \in C
  PROVE  Appends(a, b, c)
  <1>1. \A s \in Seq(C) : Append(s, c) = s \o <<c>>
    OBVIOUS
  <1>2. a \o b \in Seq(C) /\ <<c>> \in Seq(C)
    OBVIOUS
  <1>3. (a \o b) \o <<c>> = a \o (b \o <<c>>)
    BY <1>2, ConcatAssociative
  <1> QED BY <1>1, <1>2, <1>3, Zenon DEF Appends

(* The bytes of two lines joined are those of the first, then the second.  *)
LEMMA OnlyConcat ==
  ASSUME NEW K, NEW C, NEW s \in Seq(C), NEW t \in Seq(C)
  PROVE  Only(K, s \o t) = Only(K, s) \o Only(K, t)
  <1> DEFINE T == Seq(K)
             r == s \o t
  <1>0. PICK n \in Nat, m \in Nat : n = Len(s) /\ m = Len(t)
    OBVIOUS
  <1>1. /\ r \in Seq(C) /\ Len(r) = n + m
        /\ \A i \in 1 .. n : r[i] = s[i]
        /\ \A i \in 1 .. m : r[n + i] = t[i]
    BY <1>0
  <1>2. Collects(K, s) /\ Collects(K, t) /\ Collects(K, r)
    BY <1>1, OnlyFacts
  <1> HIDE DEF r, T
  <1>3. PICK f \in [0 .. n -> T] : Heard(K, f, s) /\ Only(K, s) = f[n]
    BY <1>0, <1>2 DEF Collects, T
  <1>4. PICK g \in [0 .. m -> T] : Heard(K, g, t) /\ Only(K, t) = g[m]
    BY <1>0, <1>2 DEF Collects, T
  <1>5. PICK h \in [0 .. n + m -> T] : Heard(K, h, r) /\ Only(K, r) = h[n + m]
    BY <1>1, <1>2 DEF Collects, T
  <1>6. \A i \in 1 .. n + m :
          h[i] = IF r[i] \in K THEN Append(h[i - 1], r[i]) ELSE h[i - 1]
    BY <1>1, <1>5 DEF Heard
  <1>7. Heard(K, h, s)
    <2>1. \A i \in 1 .. n : i \in 1 .. n + m
      OBVIOUS
    <2>2. \A i \in 1 .. n :
            h[i] = IF s[i] \in K THEN Append(h[i - 1], s[i]) ELSE h[i - 1]
      BY <1>1, <1>6, <2>1
    <2> QED BY <1>0, <1>5, <2>2 DEF Heard
  <1>8. h[n] = f[n]
    BY <1>0, <1>3, <1>7, HeardIsUnique
  <1> DEFINE G == {k \in Nat : k <= m => h[n + k] = h[n] \o g[k]}
  <1>9. 0 \in G
    <2>1. g[0] = << >> /\ n + 0 = n /\ n \in 0 .. n + m
      BY <1>4 DEF Heard
    <2>2. h[n] \in T
      BY <2>1
    <2>3. h[n] \o << >> = h[n]
      BY <2>2 DEF T
    <2> QED BY <2>1, <2>3
  <1>10. ASSUME NEW k \in Nat, k \in G PROVE k + 1 \in G
    <2> HIDE DEF T
    <2> SUFFICES ASSUME k + 1 <= m PROVE h[n + (k + 1)] = h[n] \o g[k + 1]
      <3>1. k + 1 \in Nat
        OBVIOUS
      <3> QED BY <3>1, Zenon
    <2>1. /\ k + 1 \in 1 .. m /\ k <= m /\ k \in 0 .. m /\ (k + 1) - 1 = k
          /\ n + (k + 1) \in 1 .. n + m /\ (n + (k + 1)) - 1 = n + k
          /\ n \in 0 .. n + m
      OBVIOUS
    <2>2. h[n + k] = h[n] \o g[k] /\ r[n + (k + 1)] = t[k + 1]
      BY <1>1, <1>10, <2>1
    <2>3. h[n + (k + 1)] = IF t[k + 1] \in K THEN Append(h[n + k], t[k + 1]) ELSE h[n + k]
      BY <1>6, <2>1, <2>2
    <2>4. g[k + 1] = IF t[k + 1] \in K THEN Append(g[k], t[k + 1]) ELSE g[k]
      BY <1>0, <1>4, <2>1 DEF Heard
    <2>5. h[n] \in T /\ g[k] \in T
      BY <2>1
    <2>6. CASE t[k + 1] \in K
      <3>1. Append(h[n] \o g[k], t[k + 1]) = h[n] \o Append(g[k], t[k + 1])
        <4>1. Appends(h[n], g[k], t[k + 1])
          BY <2>5, <2>6, AppendAfter DEF T
        <4> QED BY <4>1 DEF Appends
      <3> QED BY <2>2, <2>3, <2>4, <2>6, <3>1, Zenon
    <2>7. CASE t[k + 1] \notin K
      BY <2>2, <2>3, <2>4, <2>7, Zenon
    <2> QED BY <2>6, <2>7
  <1>11. Nat \subseteq G
    <2> HIDE DEF G
    <2> QED BY <1>9, <1>10, Induct
  <1>12. m \in G
    BY <1>11
  <1>13. h[n + m] = h[n] \o g[m]
    BY <1>12
  <1> QED BY <1>3, <1>4, <1>5, <1>8, <1>13 DEF r

(* A line of nothing else is what it has of these kinds.                   *)
LEMMA OnlyOfText ==
  ASSUME NEW K, NEW s \in Seq(K)
  PROVE  Only(K, s) = s
  <1> DEFINE T == Seq(K)
             f == [i \in 0 .. Len(s) |-> SubSeq(s, 1, i)]
  <1>1. Collects(K, s)
    BY OnlyFacts
  <1>2. PICK g \in [0 .. Len(s) -> T] : Heard(K, g, s) /\ Only(K, s) = g[Len(s)]
    BY <1>1 DEF Collects
  <1>3. Heard(K, f, s)
    <2>1. f[0] = << >>
      OBVIOUS
    <2>2. ASSUME NEW i \in 1 .. Len(s)
          PROVE  /\ f[i] = Append(f[i - 1], s[i]) /\ s[i] \in K
      <3>1. i - 1 \in 0 .. Len(s) /\ i \in 0 .. Len(s)
        OBVIOUS
      <3>2. SubSeq(s, 1, i) = Append(SubSeq(s, 1, i - 1), s[i])
        OBVIOUS
      <3> QED BY <3>1, <3>2
    <2> HIDE DEF f
    <2> QED BY <2>1, <2>2 DEF Heard
  <1>4. f[Len(s)] = s
    OBVIOUS
  <1> HIDE DEF f
  <1>5. f[Len(s)] = g[Len(s)]
    BY <1>2, <1>3, HeardIsUnique
  <1> QED BY <1>2, <1>4, <1>5

(* A line without bytes of these kinds has none.                           *)
LEMMA OnlyOfNone ==
  ASSUME NEW K, NEW C, NEW s \in Seq(C), \A i \in 1 .. Len(s) : s[i] \notin K
  PROVE  Only(K, s) = << >>
  <1> DEFINE f == [i \in 0 .. Len(s) |-> << >>]
  <1>1. Collects(K, s)
    BY OnlyFacts
  <1>2. PICK g \in [0 .. Len(s) -> Seq(K)] : Heard(K, g, s) /\ Only(K, s) = g[Len(s)]
    BY <1>1 DEF Collects
  <1>3. Heard(K, f, s) /\ f[Len(s)] = << >>
    <2>1. f[0] = << >> /\ f[Len(s)] = << >>
      OBVIOUS
    <2>2. ASSUME NEW i \in 1 .. Len(s) PROVE f[i] = f[i - 1] /\ s[i] \notin K
      OBVIOUS
    <2> HIDE DEF f
    <2> QED BY <2>1, <2>2 DEF Heard
  <1> HIDE DEF f
  <1>4. f[Len(s)] = g[Len(s)]
    BY <1>2, <1>3, HeardIsUnique
  <1> QED BY <1>2, <1>3, <1>4

(* The letters of a line are what it has of the glyphs.                    *)
LEMMA LettersConcat ==
  ASSUME NEW C, NEW s \in Seq(C), NEW t \in Seq(C)
  PROVE  /\ Letters(s \o t) = Letters(s) \o Letters(t)
         /\ Visible(s \o t) = Visible(s) \o Visible(t)
  BY OnlyConcat DEF Letters, Visible

(* Letters are letters.                                                    *)
LEMMA LettersTyped ==
  ASSUME NEW C, NEW s \in Seq(C)
  PROVE  Letters(s) \in Seq(Glyphs)
  <1>1. Collects(Glyphs, s) /\ Len(s) \in 0 .. Len(s)
    BY OnlyFacts
  <1> QED BY <1>1 DEF Collects, Letters

(* A text is its letters, and a line without colours all visible.          *)
LEMMA LettersOfText ==
  /\ \A s \in Seq(Glyphs) : Letters(s) = s
  /\ \A s \in Seq(Bytes) : Visible(s) = s
  BY OnlyOfText DEF Letters, Visible

(* A line without letters has none.                                        *)
LEMMA LettersOfNone ==
  ASSUME NEW C, NEW s \in Seq(C), \A i \in 1 .. Len(s) : s[i] \notin Glyphs
  PROVE  Letters(s) = << >>
  BY OnlyOfNone DEF Letters

(* A line of pieces has the letters of its pieces.                         *)
LEMMA FlatLetters ==
  ASSUME NEW C, NEW segs \in Seq(Seq(C)), NEW cells \in Seq(Texts), Len(segs) = Len(cells),
         \A i \in 1 .. Len(segs) : Letters(segs[i]) = cells[i]
  PROVE  Letters(FlattenSeq(segs)) = FlattenSeq(cells)
  <1>0. PICK n \in Nat : n = Len(segs) /\ n = Len(cells)
    OBVIOUS
  <1>1. IsFlat(segs, C) /\ IsFlat(cells, Glyphs)
    BY FlatFacts DEF Texts
  <1>2. PICK f \in [0 .. n -> Seq(C)] : Laid(f, segs) /\ FlattenSeq(segs) = f[n]
    BY <1>0, <1>1 DEF IsFlat
  <1>3. PICK g \in [0 .. n -> Seq(Glyphs)] : Laid(g, cells) /\ FlattenSeq(cells) = g[n]
    BY <1>0, <1>1 DEF IsFlat
  <1> DEFINE G == {m \in Nat : m <= n => Letters(f[m]) = g[m]}
  <1>4. 0 \in G
    <2>1. f[0] = << >> /\ g[0] = << >>
      BY <1>2, <1>3 DEF Laid
    <2>2. << >> \in Seq(Glyphs)
      OBVIOUS
    <2>3. Letters(<< >>) = << >>
      BY <2>2, LettersOfText
    <2> QED BY <2>1, <2>3
  <1>5. ASSUME NEW m \in Nat, m \in G PROVE m + 1 \in G
    <2> SUFFICES ASSUME m + 1 <= n PROVE Letters(f[m + 1]) = g[m + 1]
      OBVIOUS
    <2>1. m + 1 \in 1 .. n /\ (m + 1) - 1 = m /\ m <= n /\ m \in 0 .. n
      OBVIOUS
    <2>2. f[m + 1] = f[m] \o segs[m + 1] /\ g[m + 1] = g[m] \o cells[m + 1]
      BY <1>0, <1>2, <1>3, <2>1 DEF Laid
    <2>3. f[m] \in Seq(C) /\ segs[m + 1] \in Seq(C)
      <3>1. m + 1 \in 1 .. Len(segs)
        BY <1>0, <2>1
      <3>2. segs[m + 1] \in Seq(C)
        BY <3>1, ElementOfSeq
      <3> QED BY <2>1, <3>2
    <2>4. Letters(f[m] \o segs[m + 1]) = Letters(f[m]) \o Letters(segs[m + 1])
      BY <2>3, LettersConcat
    <2>5. Letters(f[m]) = g[m] /\ Letters(segs[m + 1]) = cells[m + 1]
      BY <1>0, <1>5, <2>1
    <2> QED BY <2>2, <2>4, <2>5, Zenon
  <1>6. Nat \subseteq G
    <2> HIDE DEF G
    <2> QED BY <1>4, <1>5, Induct
  <1>7. n \in G
    BY <1>6
  <1> QED BY <1>2, <1>3, <1>7

-----------------------------------------------------------------------------
(* The bytes that are not text.                                            *)
LEMMA ByteFacts ==
  /\ Glyphs \subseteq Bytes
  /\ \A c \in {"space", "bar", "corner", "rule"} : c \in Bytes /\ c \notin Glyphs
  BY DEF Bytes, Glyphs

(* Texts are made of bytes.                                                *)
LEMMA TextIsBytes == ASSUME NEW s \in Texts PROVE s \in Seq(Bytes)
  BY ByteFacts, SeqMonotonic DEF Texts

(* Blanks and borders are one byte long and no letters.                    *)
LEMMA OneByte ==
  ASSUME NEW c \in {"space", "bar", "corner", "rule"}
  PROVE  <<c>> \in Seq(Bytes) /\ Len(<<c>>) = 1 /\ Letters(<<c>>) = << >>
  <1>1. c \in Bytes /\ c \notin Glyphs
    BY ByteFacts
  <1>2. <<c>> \in Seq(Bytes) /\ Len(<<c>>) = 1
    BY <1>1
  <1>3. \A i \in 1 .. Len(<<c>>) : <<c>>[i] \notin Glyphs
    BY <1>1
  <1> QED BY <1>2, <1>3, LettersOfNone

(* The empty text has neither length nor letters.                          *)
LEMMA NoByte ==
  << >> \in Seq(Bytes) /\ Len(<< >>) = 0 /\ Letters(<< >>) = << >>
  <1>1. << >> \in Seq(Glyphs) /\ << >> \in Seq(Bytes) /\ Len(<< >>) = 0
    OBVIOUS
  <1> QED BY <1>1, LettersOfText

(* A border is one byte, or none, and no letter.                           *)
LEMMA BorderFacts ==
  ASSUME NEW config
  PROVE  /\ Border(config) \in Seq(Bytes)
         /\ Len(Border(config)) = IF config.showBorder THEN 1 ELSE 0
         /\ Letters(Border(config)) = << >>
  <1>1. /\ <<"bar">> \in Seq(Bytes) /\ Len(<<"bar">>) = 1
        /\ Letters(<<"bar">>) = << >>
    BY OneByte
  <1>2. CASE config.showBorder
    BY <1>1, <1>2 DEF Border
  <1>3. CASE ~config.showBorder
    BY <1>3, NoByte DEF Border
  <1> QED BY <1>2, <1>3

(* The same character, as often as it is asked for.                        *)
LEMMA RepeatFacts ==
  ASSUME NEW c \in {"space", "bar", "corner", "rule"}, NEW n \in Int
  PROVE  /\ RepeatChar(c, n) \in Seq(Bytes)
         /\ Len(RepeatChar(c, n)) = IF n > 0 THEN n ELSE 0
         /\ Letters(RepeatChar(c, n)) = << >>
  <1>1. PICK k \in Nat : k = AtLeast(0, n) /\ k = IF n > 0 THEN n ELSE 0
    BY DEF AtLeast
  <1>2. c \in Bytes /\ c \notin Glyphs
    BY ByteFacts
  <1> DEFINE r == [i \in 1 .. k |-> c]
  <1>3. r \in Seq(Bytes) /\ Len(r) = k /\ \A i \in 1 .. Len(r) : r[i] \notin Glyphs
    BY <1>2
  <1>4. RepeatChar(c, n) = r
    BY <1>1 DEF RepeatChar
  <1> HIDE DEF r
  <1>5. Letters(r) = << >>
    BY <1>3, LettersOfNone
  <1> QED BY <1>1, <1>3, <1>4, <1>5

(* Pieces side by side, and their letters.                                 *)
Beside(a, b, c) ==
  /\ c \in Seq(Bytes)
  /\ Len(c) = Len(a) + Len(b) /\ Len(a) \in Nat /\ Len(b) \in Nat
  /\ Letters(c) = Letters(a) \o Letters(b)
  /\ Letters(a) \in Seq(Glyphs)

(* The length and the letters of two texts beside each other.              *)
LEMMA BytesBeside ==
  ASSUME NEW a \in Seq(Bytes), NEW b \in Seq(Bytes)
  PROVE  Beside(a, b, a \o b)
  <1>1. a \o b \in Seq(Bytes) /\ Len(a \o b) = Len(a) + Len(b)
    OBVIOUS
  <1>2. Letters(a) \in Seq(Glyphs)
    BY LettersTyped
  <1> QED BY <1>1, <1>2, LettersConcat DEF Beside

(* A text filled or cut is as wide as its column; one that fits is whole.  *)
LEMMA AlignFacts ==
  ASSUME NEW text \in Texts, NEW width \in Nat, NEW align
  PROVE  /\ AlignText(text, width, align) \in Seq(Bytes)
         /\ Len(AlignText(text, width, align)) = width
         /\ Len(text) <= width => Letters(AlignText(text, width, align)) = text
  <1>0. PICK n \in Nat : n = Len(text)
    BY DEF Texts
  <1>1. text \in Seq(Bytes) /\ Letters(text) = text /\ text \in Seq(Glyphs)
    BY TextIsBytes, LettersOfText DEF Texts
  <1> DEFINE p == width - Len(text)
  <1>2. p \in Int /\ p = width - n
    BY <1>0
  <1> HIDE DEF p
  <1>3. CASE p <= 0
    <2>1. AlignText(text, width, align) = SubSeq(text, 1, width)
      BY <1>3 DEF AlignText, p
    <2>2. width <= n
      BY <1>2, <1>3
    <2>3. SubSeq(text, 1, width) \in Seq(Bytes) /\ Len(SubSeq(text, 1, width)) = width
      BY <1>0, <1>1, <2>2
    <2>4. n <= width => SubSeq(text, 1, width) = text
      <3> SUFFICES ASSUME n <= width PROVE SubSeq(text, 1, width) = text
        OBVIOUS
      <3>1. n = width
        BY <2>2
      <3> QED BY <1>0, <1>1, <3>1, SubSeqFull
    <2> QED BY <1>0, <1>1, <2>1, <2>3, <2>4
  <1>4. CASE p > 0
    <2>1. PICK l \in Nat, r \in Nat :
            /\ l + r = p
            /\ AlignText(text, width, align)
                 = RepeatChar("space", l) \o text \o RepeatChar("space", r)
      <3> DEFINE l == IF align = "c" THEN p \div 2 ELSE 0
      <3>1. l \in Nat /\ p - l \in Nat
        <4>1. p \div 2 \in Nat /\ p - (p \div 2) \in Nat
          BY <1>2, <1>4
        <4>2. CASE align = "c"
          BY <4>1, <4>2
        <4>3. CASE align # "c"
          BY <1>2, <1>4, <4>3
        <4> QED BY <4>2, <4>3
      <3>2. AlignText(text, width, align)
              = RepeatChar("space", l) \o text \o RepeatChar("space", p - l)
        <4>1. ~(p <= 0)
          BY <1>2, <1>4
        <4> QED BY <4>1, Zenon DEF AlignText, p
      <3> HIDE DEF l
      <3>3. l + (p - l) = p
        BY <1>2, <3>1
      <3> QED BY <3>1, <3>2, <3>3
    <2> DEFINE a == RepeatChar("space", l)
               b == RepeatChar("space", r)
    <2>2. /\ a \in Seq(Bytes) /\ Len(a) = l /\ Letters(a) = << >>
          /\ b \in Seq(Bytes) /\ Len(b) = r /\ Letters(b) = << >>
      <3>1. l > 0 \/ l = 0
        OBVIOUS
      <3>2. r > 0 \/ r = 0
        OBVIOUS
      <3>3. l \in Int /\ r \in Int /\ "space" \in {"space", "bar", "corner", "rule"}
        OBVIOUS
      <3> QED BY <3>1, <3>2, <3>3, RepeatFacts
    <2> HIDE DEF a, b
    <2>3. /\ a \o text \in Seq(Bytes) /\ Len(a \o text) = l + n
          /\ Letters(a \o text) = text
      <3>1. << >> \o text = text
        BY <1>1, ConcatEmptySeq
      <3>2. Beside(a, text, a \o text)
        BY <1>1, <2>2, BytesBeside
      <3> QED BY <1>0, <1>1, <2>2, <3>1, <3>2 DEF Beside
    <2>4. /\ a \o text \o b \in Seq(Bytes) /\ Len(a \o text \o b) = (l + n) + r
          /\ Letters(a \o text \o b) = text
      <3>1. text \o << >> = text
        BY <1>1, ConcatEmptySeq
      <3>2. Beside(a \o text, b, a \o text \o b)
        BY <2>2, <2>3, BytesBeside
      <3> QED BY <2>2, <2>3, <3>1, <3>2 DEF Beside
    <2>5. (l + n) + r = width
      BY <1>2, <2>1
    <2> QED BY <2>1, <2>4, <2>5 DEF a, b
  <1> QED BY <1>2, <1>3, <1>4

-----------------------------------------------------------------------------
(* A column is as wide as its widest cell, up to the limit.                *)
Held(data, headers, config, i, w) ==
  /\ w \in Nat
  /\ \A r \in 1 .. Len(data) :
       i <= Len(data[r]) => AtMost(config.maxColumnWidth, Len(data[r][i])) <= w

(* A column holds its cells, as far as the widest allowed.                 *)
LEMMA WidthFacts ==
  ASSUME NEW data \in Seq(Seq(Texts)), NEW headers \in Seq(Texts),
         NEW config, IsConfig(config), NEW i \in 1 .. Len(headers)
  PROVE  Held(data, headers, config, i, Width(data, headers, config, i))
  <1>0. PICK most \in Nat, least \in Nat :
          most = config.maxColumnWidth /\ least = config.minColumnWidth
    BY DEF IsConfig
  <1>1. ASSUME NEW t \in Texts PROVE Len(t) \in Nat
    BY <1>1 DEF Texts
  <1>2. ASSUME NEW t \in Texts PROVE AtMost(most, Len(t)) \in 0 .. most
    <2>1. PICK k \in Nat : k = Len(t)
      BY <1>1
    <2> QED BY <2>1 DEF AtMost
  <1> DEFINE rows == {r \in DOMAIN data : i <= Len(data[r])}
             I == {least, AtMost(most, Len(headers[i]))}
                    \cup {AtMost(most, Len(data[r][i])) : r \in rows}
  <1>3. Width(data, headers, config, i) = Max(I)
    BY <1>0 DEF Width
  <1>4. ASSUME NEW r \in 1 .. Len(data), i <= Len(data[r]) PROVE data[r][i] \in Texts
    <2>1. data[r] \in Seq(Texts) /\ i \in 1 .. Len(data[r])
      BY <1>4
    <2> QED BY <2>1, ElementOfSeq
  <1>5. headers[i] \in Texts /\ DOMAIN data = 1 .. Len(data)
    BY ElementOfSeq
  <1>6. PICK k \in Nat : least <= k /\ most <= k
    <2>1. least + most \in Nat /\ least <= least + most /\ most <= least + most
      OBVIOUS
    <2> QED BY <2>1
  <1>7. \A x \in 0 .. most : x \in 0 .. k
    BY <1>6
  <1>8. I \in SUBSET (0 .. k) /\ I # {}
    <2>1. AtMost(most, Len(headers[i])) \in 0 .. k /\ least \in 0 .. k
      BY <1>2, <1>5, <1>6, <1>7
    <2>2. ASSUME NEW r \in rows PROVE AtMost(most, Len(data[r][i])) \in 0 .. k
      <3>1. data[r][i] \in Texts
        BY <1>4, <1>5
      <3> QED BY <1>2, <1>7, <3>1
    <2> HIDE DEF rows
    <2> QED BY <2>1, <2>2
  <1>9. Max(I) \in I /\ \A y \in I : y <= Max(I)
    <2> HIDE DEF I
    <2> QED BY <1>8, Greatest
  <1>10. \A r \in 1 .. Len(data) :
           i <= Len(data[r]) => AtMost(most, Len(data[r][i])) \in I
    BY <1>5
  <1> HIDE DEF I
  <1>11. Max(I) \in Nat
    <2>1. Max(I) \in 0 .. k
      BY <1>8, <1>9, Zenon
    <2> HIDE DEF I
    <2> QED BY <2>1
  <1> QED BY <1>0, <1>3, <1>9, <1>10, <1>11 DEF Held

(* There is a width for each header, and each holds its column.            *)
LEMMA WidthsFacts ==
  ASSUME NEW data \in Seq(Seq(Texts)), NEW headers \in Seq(Texts),
         NEW config, IsConfig(config), NEW w,
         w = CalculateColumnWidths(data, headers, config)
  PROVE  /\ w \in Seq(Nat) /\ Len(w) = Len(headers)
         /\ \A i \in 1 .. Len(headers) : Held(data, headers, config, i, w[i])
  <1>1. DOMAIN headers = 1 .. Len(headers) /\ Len(headers) \in Nat
    OBVIOUS
  <1>2. w = [i \in 1 .. Len(headers) |-> Width(data, headers, config, i)]
    BY <1>1 DEF CalculateColumnWidths
  <1>3. ASSUME NEW i \in 1 .. Len(headers) PROVE Held(data, headers, config, i, w[i])
    <2>1. Held(data, headers, config, i, Width(data, headers, config, i))
      BY WidthFacts
    <2> QED BY <1>2, <2>1
  <1>4. \A i \in 1 .. Len(headers) : w[i] \in Nat
    BY <1>3 DEF Held
  <1> QED BY <1>1, <1>2, <1>3, <1>4

-----------------------------------------------------------------------------
(* The pieces of a line, one for each cell.                                *)
Piece(cell, width, align, config) ==
  <<"space">> \o AlignText(cell, width, align) \o <<"space">> \o Border(config)

PiecesOf(cells, widths, align, config) ==
  [i \in DOMAIN cells |-> Piece(cells[i], widths[i], align, config)]

(* A cell between its blanks is as long as the column asks, and shows its  *)
(* text when that fits.                                                    *)
LEMMA PieceFacts ==
  ASSUME NEW cell \in Texts, NEW width \in Nat, NEW align, NEW config
  PROVE  /\ Piece(cell, width, align, config) \in Seq(Bytes)
         /\ Len(Piece(cell, width, align, config)) = width + 2 + Len(Border(config))
         /\ Len(cell) <= width => Letters(Piece(cell, width, align, config)) = cell
  <1> DEFINE s == <<"space">>
             a == AlignText(cell, width, align)
             b == Border(config)
  <1>1. s \in Seq(Bytes) /\ Len(s) = 1 /\ Letters(s) = << >>
    BY OneByte
  <1>2. /\ a \in Seq(Bytes) /\ Len(a) = width
        /\ Len(cell) <= width => Letters(a) = cell
    BY AlignFacts
  <1>3. b \in Seq(Bytes) /\ Len(b) \in Nat /\ Letters(b) = << >>
    BY BorderFacts
  <1> HIDE DEF s, a, b
  <1>4. Beside(s, a, s \o a)
    BY <1>1, <1>2, BytesBeside
  <1>5. Beside(s \o a, s, s \o a \o s)
    BY <1>1, <1>4, BytesBeside DEF Beside
  <1>6. Beside(s \o a \o s, b, s \o a \o s \o b)
    BY <1>3, <1>5, BytesBeside DEF Beside
  <1>7. Piece(cell, width, align, config) = s \o a \o s \o b
    BY DEF Piece, s, a, b
  <1> DEFINE c == s \o a
             d == c \o s
             e == d \o b
  <1>8. Len(e) = width + 2 + Len(b) /\ e \in Seq(Bytes)
    <2>1. Len(c) = 1 + width
      BY <1>1, <1>2, <1>4 DEF Beside
    <2>2. Len(d) = (1 + width) + 1
      BY <1>1, <1>5, <2>1 DEF Beside
    <2>3. Len(e) = ((1 + width) + 1) + Len(b)
      BY <1>6, <2>2 DEF Beside
    <2>4. e \in Seq(Bytes)
      BY <1>6 DEF Beside
    <2> HIDE DEF e
    <2> QED BY <1>3, <2>3, <2>4
  <1>9. Len(cell) <= width => Letters(e) = cell
    <2> SUFFICES ASSUME Len(cell) <= width PROVE Letters(e) = cell
      OBVIOUS
    <2>1. << >> \o cell = cell /\ cell \o << >> = cell
      BY ConcatEmptySeq DEF Texts
    <2>2. Letters(a) = cell
      BY <1>2
    <2>3. Letters(c) = cell
      BY <1>1, <1>4, <2>1, <2>2 DEF Beside
    <2>4. Letters(d) = cell
      BY <1>1, <1>5, <2>1, <2>3 DEF Beside
    <2>5. Letters(e) = cell
      BY <1>3, <1>6, <2>1, <2>4 DEF Beside
    <2> QED BY <2>5
  <1> HIDE DEF e
  <1>10. Piece(cell, width, align, config) = e
    BY <1>7 DEF e
  <1> QED BY <1>8, <1>9, <1>10 DEF b

(* Pieces of a row that has no more cells than there are widths.           *)
Fits(cells, widths) ==
  cells \in Seq(Texts) /\ widths \in Seq(Nat) /\ Len(cells) <= Len(widths)

ArePieces(p, cells, widths, config) ==
  /\ p \in Seq(Seq(Bytes)) /\ Len(p) = Len(cells)
  /\ \A i \in 1 .. Len(cells) :
       /\ Len(p[i]) = widths[i] + 2 + Len(Border(config))
       /\ Len(cells[i]) <= widths[i] => Letters(p[i]) = cells[i]

(* The pieces of a line, one for each cell.                                *)
LEMMA RowPieces ==
  ASSUME NEW cells, NEW widths, Fits(cells, widths), NEW align, NEW config
  PROVE  ArePieces(PiecesOf(cells, widths, align, config), cells, widths, config)
  <1> DEFINE p == PiecesOf(cells, widths, align, config)
  <1>1. PICK n \in Nat : n = Len(cells) /\ DOMAIN cells = 1 .. n
    BY DEF Fits
  <1>2. p = [i \in 1 .. n |-> Piece(cells[i], widths[i], align, config)]
    BY <1>1 DEF PiecesOf
  <1> HIDE DEF p
  <1>3. ASSUME NEW i \in 1 .. n
        PROVE  /\ p[i] \in Seq(Bytes)
               /\ Len(p[i]) = widths[i] + 2 + Len(Border(config))
               /\ Len(cells[i]) <= widths[i] => Letters(p[i]) = cells[i]
    <2>1. cells[i] \in Texts /\ widths[i] \in Nat
      BY <1>1 DEF Fits
    <2>2. p[i] = Piece(cells[i], widths[i], align, config)
      BY <1>2
    <2> QED BY <2>1, <2>2, PieceFacts
  <1>4. p \in Seq(Seq(Bytes)) /\ Len(p) = n
    <2>1. \A i \in 1 .. n : p[i] \in Seq(Bytes)
      BY <1>3
    <2>2. p = [i \in 1 .. n |-> p[i]]
      BY <1>2
    <2> QED BY <2>1, <2>2
  <1>5. ArePieces(p, cells, widths, config)
    BY <1>1, <1>3, <1>4 DEF ArePieces
  <1> QED BY <1>5 DEF p

-----------------------------------------------------------------------------
(* A line is a border and the pieces of its cells.                         *)
LEMMA LineFacts ==
  ASSUME NEW cells, NEW widths, Fits(cells, widths), NEW align, NEW config
  PROVE  /\ Line(cells, widths, align, config)
              = Border(config) \o FlattenSeq(PiecesOf(cells, widths, align, config))
         /\ FlattenSeq(PiecesOf(cells, widths, align, config)) \in Seq(Bytes)
         /\ Line(cells, widths, align, config) \in Seq(Bytes)
         /\ Len(Line(cells, widths, align, config))
              = Len(Border(config))
                  + Len(FlattenSeq(PiecesOf(cells, widths, align, config)))
  <1> DEFINE p == PiecesOf(cells, widths, align, config)
             b == Border(config)
  <1>1. Line(cells, widths, align, config) = b \o FlattenSeq(p)
    BY DEF Line, CellsOf, PiecesOf, Piece
  <1>2. p \in Seq(Seq(Bytes))
    <2>1. ArePieces(p, cells, widths, config)
      BY RowPieces
    <2> HIDE DEF p
    <2> QED BY <2>1 DEF ArePieces
  <1>3. b \in Seq(Bytes)
    BY BorderFacts
  <1> HIDE DEF b, p
  <1>4. FlattenSeq(p) \in Seq(Bytes)
    <2>1. IsFlat(p, Bytes) /\ Len(p) \in 0 .. Len(p)
      BY <1>2, FlatFacts
    <2> QED BY <2>1 DEF IsFlat
  <1>5. Beside(b, FlattenSeq(p), b \o FlattenSeq(p))
    BY <1>3, <1>4, BytesBeside
  <1> QED BY <1>1, <1>4, <1>5 DEF Beside, p, b

(* Lines of as many cells as there are columns are of equal length.        *)
LEMMA EvenLines ==
  ASSUME NEW c, NEW d, NEW widths, Fits(c, widths), Fits(d, widths),
         Len(c) = Len(widths), Len(d) = Len(widths), widths # << >>,
         NEW x, NEW y, NEW config
  PROVE  Len(Line(c, widths, x, config)) = Len(Line(d, widths, y, config))
  <1> DEFINE p == PiecesOf(c, widths, x, config)
             q == PiecesOf(d, widths, y, config)
  <1>1. ArePieces(p, c, widths, config) /\ ArePieces(q, d, widths, config)
    BY RowPieces
  <1>2. /\ Len(Line(c, widths, x, config))
             = Len(Border(config)) + Len(FlattenSeq(p))
        /\ Len(Line(d, widths, y, config))
             = Len(Border(config)) + Len(FlattenSeq(q))
    BY LineFacts
  <1> HIDE DEF p, q
  <1>3. PICK n \in Nat : n = Len(widths) /\ n > 0
    BY DEF Fits
  <1>4. /\ p \in Seq(Seq(Bytes)) /\ q \in Seq(Seq(Bytes)) /\ Len(p) = n /\ Len(q) = n
        /\ \A i \in 1 .. n : Len(p[i]) = widths[i] + 2 + Len(Border(config))
        /\ \A i \in 1 .. n : Len(q[i]) = widths[i] + 2 + Len(Border(config))
    BY <1>1, <1>3 DEF ArePieces
  <1>5. \A i \in 1 .. n : Len(p[i]) = Len(q[i]) /\ Len(q[i]) \in Nat
    <2> SUFFICES ASSUME NEW i \in 1 .. n PROVE Len(p[i]) = Len(q[i]) /\ Len(q[i]) \in Nat
      OBVIOUS
    <2>1. q[i] \in Seq(Bytes)
      BY <1>4, ElementOfSeq
    <2>2. Len(q[i]) \in Nat
      BY <2>1
    <2> QED BY <1>4, <2>2
  <1>6. p # << >> /\ n \in 1 .. n /\ 0 \in Nat
    BY <1>3, <1>4
  <1>7. Len(p[n]) = Len(q[n]) + 0
    BY <1>5, <1>6
  <1>8. Len(FlattenSeq(p)) = Len(FlattenSeq(q)) + 0
    <2>1. LastLonger(p, q, 0)
      BY <1>4, <1>5, <1>6, <1>7 DEF LastLonger
    <2> QED BY <1>4, <1>6, <2>1, FlatLengths
  <1>9. Len(FlattenSeq(q)) \in Nat
    <2>1. IsFlat(q, Bytes) /\ Len(q) \in 0 .. Len(q)
      BY <1>4, FlatFacts
    <2>2. FlattenSeq(q) \in Seq(Bytes)
      BY <2>1 DEF IsFlat
    <2> QED BY <2>2
  <1>10. Len(FlattenSeq(p)) = Len(FlattenSeq(q))
    BY <1>8, <1>9
  <1> QED BY <1>2, <1>10

(* The line of a border is as long as the lines it is drawn between.       *)
RulePieces(widths) ==
  [i \in DOMAIN widths |->
     RepeatChar("rule", widths[i] + 2)
       \o (IF i < Len(widths) THEN <<"corner">> ELSE << >>)]

(* The pieces of a rule: a dash for each byte of a column, and a corner    *)
(* between two.                                                            *)
LEMMA RuleFacts ==
  ASSUME NEW widths \in Seq(Nat), NEW r, r = RulePieces(widths)
  PROVE  /\ r \in Seq(Seq(Bytes)) /\ Len(r) = Len(widths)
         /\ \A i \in 1 .. Len(widths) :
              Len(r[i]) = widths[i] + 2 + (IF i < Len(widths) THEN 1 ELSE 0)
  <1>1. PICK n \in Nat : n = Len(widths) /\ DOMAIN widths = 1 .. n
    OBVIOUS
  <1> DEFINE last(i) == IF i < n THEN <<"corner">> ELSE << >>
  <1>2. r = [i \in 1 .. n |-> RepeatChar("rule", widths[i] + 2) \o last(i)]
    BY <1>1 DEF RulePieces
  <1>3. ASSUME NEW i \in 1 .. n
        PROVE  /\ r[i] \in Seq(Bytes)
               /\ Len(r[i]) = widths[i] + 2 + (IF i < n THEN 1 ELSE 0)
    <2>1. widths[i] \in Nat /\ widths[i] + 2 \in Int /\ widths[i] + 2 > 0
      BY <1>1
    <2>2. /\ RepeatChar("rule", widths[i] + 2) \in Seq(Bytes)
          /\ Len(RepeatChar("rule", widths[i] + 2)) = widths[i] + 2
      <3>1. "rule" \in {"space", "bar", "corner", "rule"}
        OBVIOUS
      <3> QED BY <2>1, <3>1, RepeatFacts
    <2>3. last(i) \in Seq(Bytes) /\ Len(last(i)) = IF i < n THEN 1 ELSE 0
      <3>1. CASE i < n
        BY <3>1, OneByte
      <3>2. CASE ~(i < n)
        BY <3>2, NoByte
      <3> QED BY <3>1, <3>2
    <2>4. r[i] = RepeatChar("rule", widths[i] + 2) \o last(i)
      BY <1>2
    <2> HIDE DEF last
    <2>5. Beside(RepeatChar("rule", widths[i] + 2), last(i), r[i])
      BY <2>2, <2>3, <2>4, BytesBeside
    <2> QED BY <2>2, <2>3, <2>5 DEF Beside
  <1> HIDE DEF last
  <1>4. r \in Seq(Seq(Bytes)) /\ Len(r) = n
    <2>1. \A i \in 1 .. n : r[i] \in Seq(Bytes)
      BY <1>3
    <2>2. r = [i \in 1 .. n |-> r[i]]
      BY <1>2
    <2> QED BY <2>1, <2>2
  <1> QED BY <1>1, <1>3, <1>4

(* A rule is made of bytes, none of them a code.                           *)
LEMMA RuleBytes == ASSUME NEW widths \in Seq(Nat) PROVE Rule(widths) \in Seq(Bytes)
  <1> DEFINE q == RulePieces(widths)
             k == <<"corner">>
  <1>1. Rule(widths) = k \o FlattenSeq(q) \o k
    BY DEF Rule, RulePieces
  <1>2. q \in Seq(Seq(Bytes))
    BY RuleFacts
  <1> HIDE DEF q
  <1>3. FlattenSeq(q) \in Seq(Bytes)
    <2>1. IsFlat(q, Bytes) /\ Len(q) \in 0 .. Len(q)
      BY <1>2, FlatFacts
    <2> QED BY <2>1 DEF IsFlat
  <1>4. k \in Seq(Bytes)
    BY OneByte
  <1> HIDE DEF k
  <1> QED BY <1>1, <1>3, <1>4

(* A rule is as long as a line over the same columns.                      *)
LEMMA EvenRule ==
  ASSUME NEW c, NEW widths, Fits(c, widths), Len(c) = Len(widths), widths # << >>,
         NEW x, NEW config, config.showBorder
  PROVE  /\ Len(Line(c, widths, x, config)) = Len(Rule(widths))
         /\ Rule(widths) \in Seq(Bytes)
  <1> DEFINE p == PiecesOf(c, widths, x, config)
             q == RulePieces(widths)
  <1>1. ArePieces(p, c, widths, config)
    BY RowPieces
  <1>2. Len(Line(c, widths, x, config)) = Len(Border(config)) + Len(FlattenSeq(p))
    BY LineFacts
  <1>3. Rule(widths) = <<"corner">> \o FlattenSeq(q) \o <<"corner">>
    BY DEF Rule, RulePieces
  <1> HIDE DEF p
  <1>4. PICK n \in Nat : n = Len(widths) /\ n > 0
    BY DEF Fits
  <1>5. Len(Border(config)) = 1
    BY BorderFacts
  <1>6. /\ q \in Seq(Seq(Bytes)) /\ Len(q) = n
        /\ \A i \in 1 .. n : Len(q[i]) = widths[i] + 2 + (IF i < n THEN 1 ELSE 0)
    BY <1>4, RuleFacts DEF Fits
  <1> HIDE DEF q
  <1>7. /\ p \in Seq(Seq(Bytes)) /\ Len(p) = n
        /\ \A i \in 1 .. n : Len(p[i]) = widths[i] + 2 + 1
    BY <1>1, <1>4, <1>5 DEF ArePieces
  <1>8. \A i \in 1 .. n : widths[i] \in Nat
    BY <1>4 DEF Fits
  <1>9. \A i \in 1 .. n : i < n => Len(p[i]) = Len(q[i])
    BY <1>6, <1>7
  <1>10. p # << >> /\ n \in 1 .. n /\ 1 \in Nat
    BY <1>4, <1>7
  <1>11. Len(p[n]) = Len(q[n]) + 1
    <2>1. Len(p[n]) = widths[n] + 2 + 1 /\ Len(q[n]) = widths[n] + 2 + 0 /\ widths[n] \in Nat
      BY <1>6, <1>7, <1>8, <1>10
    <2> QED BY <2>1
  <1>12. Len(FlattenSeq(p)) = Len(FlattenSeq(q)) + 1
    <2>1. LastLonger(p, q, 1)
      BY <1>6, <1>7, <1>9, <1>10, <1>11 DEF LastLonger
    <2> QED BY <1>6, <1>7, <1>10, <2>1, FlatLengths
  <1>13. FlattenSeq(q) \in Seq(Bytes)
    <2>1. IsFlat(q, Bytes) /\ Len(q) \in 0 .. Len(q)
      BY <1>6, FlatFacts
    <2> QED BY <2>1 DEF IsFlat
  <1> DEFINE k == <<"corner">>
             f == FlattenSeq(q)
  <1>14. k \in Seq(Bytes) /\ Len(k) = 1
    BY OneByte
  <1> HIDE DEF k, f
  <1>15. Beside(k, f, k \o f)
    BY <1>13, <1>14, BytesBeside DEF f
  <1>16. Beside(k \o f, k, k \o f \o k)
    BY <1>14, <1>15, BytesBeside DEF Beside
  <1>17. /\ Len(k \o f \o k) = (1 + Len(f)) + 1 /\ Len(f) \in Nat
         /\ k \o f \o k \in Seq(Bytes)
    BY <1>14, <1>15, <1>16 DEF Beside
  <1>18. Rule(widths) = k \o f \o k
    BY <1>3 DEF k, f
  <1>19. Len(Line(c, widths, x, config)) = 1 + (Len(f) + 1)
    BY <1>2, <1>5, <1>12 DEF f
  <1> QED BY <1>17, <1>18, <1>19

(* Of two sequences, one after the other.                                  *)
TwoParts(z, a, b) ==
  /\ Len(z) = Len(a) + Len(b) /\ Len(a) \in Nat /\ Len(b) \in Nat
  /\ \A i \in 1 .. Len(a) : z[i] = a[i]
  /\ \A i \in 1 .. Len(b) : z[Len(a) + i] = b[i]

(* What stands where in two sequences joined.                              *)
LEMMA TwoFacts ==
  ASSUME NEW S, NEW a \in Seq(S), NEW b \in Seq(S)
  PROVE  TwoParts(a \o b, a, b) /\ a \o b \in Seq(S)
  <1>1. PICK k \in Nat, l \in Nat : k = Len(a) /\ l = Len(b)
    OBVIOUS
  <1>2. /\ a \o b \in Seq(S) /\ Len(a \o b) = k + l
        /\ \A i \in 1 .. k + l : (a \o b)[i] = IF i <= k THEN a[i] ELSE b[i - k]
    BY <1>1, ConcatProperties
  <1>3. ASSUME NEW i \in 1 .. k PROVE (a \o b)[i] = a[i]
    <2>1. i \in 1 .. k + l /\ i <= k
      OBVIOUS
    <2> QED BY <1>2, <2>1
  <1>4. ASSUME NEW i \in 1 .. l PROVE (a \o b)[k + i] = b[i]
    <2>1. k + i \in 1 .. k + l /\ ~(k + i <= k) /\ (k + i) - k = i
      OBVIOUS
    <2> QED BY <1>2, <2>1
  <1> QED BY <1>1, <1>2, <1>3, <1>4 DEF TwoParts

(* The line of a row is that line between its codes, if it is coloured: on *)
(* the screen it is the line, and where there is a colour the last of its  *)
(* bytes takes it back.                                                    *)
AsLine(d, l) == Visible(d) = l /\ Letters(d) = Letters(l) /\ EndsPlain(d)

LEMMA ColourFacts ==
  ASSUME NEW c \in Codes
  PROVE  /\ <<c>> \in Seq(Bytes \cup Codes) /\ Len(<<c>>) = 1
         /\ Letters(<<c>>) = << >> /\ Visible(<<c>>) = << >>
  <1>1. c \notin Glyphs /\ c \notin Bytes
    BY DEF Codes, Glyphs, Bytes
  <1>2. <<c>> \in Seq(Codes) /\ Len(<<c>>) = 1 /\ <<c>>[1] = c
    OBVIOUS
  <1>3. \A i \in 1 .. Len(<<c>>) : <<c>>[i] \notin Glyphs /\ <<c>>[i] \notin Bytes
    BY <1>1, <1>2
  <1>4. Only(Glyphs, <<c>>) = << >> /\ Only(Bytes, <<c>>) = << >>
    BY <1>2, <1>3, OnlyOfNone
  <1>5. <<c>> \in Seq(Bytes \cup Codes)
    OBVIOUS
  <1> QED BY <1>2, <1>4, <1>5 DEF Letters, Visible

(* A line without codes ends as it began.                                  *)
LEMMA PlainEnds == ASSUME NEW l \in Seq(Bytes) PROVE EndsPlain(l)
  <1>1. "colour" \notin Bytes
    BY DEF Bytes
  <1>2. \A i \in DOMAIN l : l[i] \in Bytes
    OBVIOUS
  <1> QED BY <1>1, <1>2 DEF EndsPlain

(* The line of a row shows what the line shows.                            *)
LEMMA DataLineFacts ==
  ASSUME NEW cells, NEW widths, Fits(cells, widths), NEW config, NEW row
  PROVE  AsLine(DataLine(cells, widths, config, row), Line(cells, widths, "l", config))
  <1> DEFINE B == Bytes \cup Codes
             b == Border(config)
             f == FlattenSeq(PiecesOf(cells, widths, "l", config))
             on == CodeIf(row, config, "colour")
             off == CodeIf(row, config, "reset")
             l == Line(cells, widths, "l", config)
             d == DataLine(cells, widths, config, row)
  <1>1. b \in Seq(Bytes) /\ f \in Seq(Bytes) /\ l \in Seq(Bytes) /\ l = b \o f
    BY BorderFacts, LineFacts
  <1>2. d = ((b \o on) \o f) \o off
    BY DEF DataLine, CellsOf, PiecesOf, Piece
  <1>3. CASE ~Coloured(row, config)
    <2>1. on = << >> /\ off = << >>
      BY <1>3 DEF CodeIf
    <2> HIDE DEF b, f, l, d, on, off
    <2>2. d = l
      BY <1>1, <1>2, <2>1, ConcatEmptySeq
    <2>3. Visible(l) = l /\ EndsPlain(l)
      BY <1>1, LettersOfText, PlainEnds
    <2> QED BY <2>2, <2>3 DEF AsLine, d, l
  <1>4. CASE Coloured(row, config)
    <2>1. on = <<"colour">> /\ off = <<"reset">>
      BY <1>4 DEF CodeIf
    <2>2. "colour" \in Codes /\ "reset" \in Codes
      BY DEF Codes
    <2>3. /\ on \in Seq(B) /\ Letters(on) = << >> /\ Visible(on) = << >>
          /\ off \in Seq(B) /\ Letters(off) = << >> /\ Visible(off) = << >>
          /\ Len(off) = 1 /\ off[1] = "reset"
      <3> HIDE DEF on, off
      <3> QED BY <2>1, <2>2, ColourFacts
    <2>4. b \in Seq(B) /\ f \in Seq(B)
      <3> HIDE DEF b, f
      <3> QED BY <1>1, SeqMonotonic
    <2> HIDE DEF b, f, l, d, on, off, B
    <2>5. b \o on \in Seq(B) /\ (b \o on) \o f \in Seq(B) /\ b \o f \in Seq(B)
      BY <2>3, <2>4, ConcatProperties
    <2>6. /\ Visible(d) = Visible((b \o on) \o f) \o << >>
          /\ Letters(d) = Letters((b \o on) \o f) \o << >>
      BY <1>2, <2>3, <2>5, LettersConcat
    <2>7. /\ Visible((b \o on) \o f) = Visible(b \o on) \o Visible(f)
          /\ Letters((b \o on) \o f) = Letters(b \o on) \o Letters(f)
      BY <2>4, <2>5, LettersConcat
    <2>8. /\ Visible(b \o on) = Visible(b) \o << >>
          /\ Letters(b \o on) = Letters(b) \o << >>
      BY <2>3, <2>4, LettersConcat
    <2>9. /\ Visible(b) = b /\ Visible(f) = f
          /\ Letters(b) \in Seq(Glyphs) /\ Letters(f) \in Seq(Glyphs)
          /\ Letters(l) = Letters(b) \o Letters(f)
      BY <1>1, LettersOfText, LettersTyped, LettersConcat
    <2>10. Visible(d) = l /\ Letters(d) = Letters(l)
      <3>1. b \o << >> = b /\ Letters(b) \o << >> = Letters(b)
        BY <1>1, <2>9, ConcatEmptySeq
      <3>2. l \o << >> = l /\ Letters(l) \in Seq(Glyphs) /\ Letters(l) \o << >> = Letters(l)
        BY <1>1, LettersTyped, ConcatEmptySeq
      <3> QED BY <1>1, <2>6, <2>7, <2>8, <2>9, <3>1, <3>2, Zenon
    <2>11. d[Len(d)] = "reset"
      <3>1. PICK m \in Nat : m = Len((b \o on) \o f)
        BY <2>5
      <3>2. TwoParts(d, (b \o on) \o f, off)
        BY <1>2, <2>3, <2>5, TwoFacts
      <3>3. Len(d) = m + 1 /\ d[m + 1] = off[1]
        BY <2>3, <3>1, <3>2 DEF TwoParts
      <3> QED BY <2>3, <3>3
    <2> QED BY <2>10, <2>11 DEF AsLine, EndsPlain, d, l
  <1> QED BY <1>3, <1>4

-----------------------------------------------------------------------------
(* What a table is made of.                                                *)
RowLines(data, w, config) == [r \in DOMAIN data |-> DataLine(data[r], w, config, r)]

IsTable(data, headers, config) ==
  /\ data \in Seq(Seq(Texts)) /\ headers \in Seq(Texts) /\ IsConfig(config)
  /\ ~ReadsBeyondWidths(data, headers)

RowsFit(data, w) == \A r \in 1 .. Len(data) : Fits(data[r], w)

(* The header and, where there are no more cells than columns, the rows    *)
(* fit the widths.                                                         *)
LEMMA TableFits ==
  ASSUME NEW data, NEW headers, NEW config, IsTable(data, headers, config),
         NEW w, w = CalculateColumnWidths(data, headers, config)
  PROVE  Fits(headers, w) /\ Len(w) = Len(headers) /\ w \in Seq(Nat) /\ RowsFit(data, w)
  <1>1. w \in Seq(Nat) /\ Len(w) = Len(headers) /\ Len(headers) \in Nat
    BY WidthsFacts DEF IsTable
  <1>2. Fits(headers, w)
    BY <1>1 DEF Fits, IsTable
  <1>3. ASSUME NEW r \in 1 .. Len(data) PROVE Fits(data[r], w)
    <2>1. data[r] \in Seq(Texts) /\ DOMAIN data = 1 .. Len(data)
      BY ElementOfSeq DEF IsTable
    <2>2. ~(Len(data[r]) > Len(headers))
      BY <2>1 DEF IsTable, ReadsBeyondWidths
    <2>3. Len(data[r]) \in Nat
      BY <2>1
    <2>4. Len(data[r]) <= Len(w)
      BY <1>1, <2>2, <2>3
    <2> QED BY <1>1, <2>1, <2>4 DEF Fits
  <1> QED BY <1>1, <1>2, <1>3 DEF RowsFit

(* Rules, if the table has borders.                                        *)
LEMMA RuleIfFacts ==
  ASSUME NEW widths \in Seq(Nat), NEW b \in BOOLEAN
  PROVE  /\ RuleIf(b, widths) \in Seq({Rule(widths)})
         /\ Len(RuleIf(b, widths)) = IF b THEN 1 ELSE 0
  <1>1. CASE b = TRUE
    BY <1>1 DEF RuleIf
  <1>2. CASE b = FALSE
    BY <1>2 DEF RuleIf
  <1> QED BY <1>1, <1>2

HeaderHeight(headers, config) ==
  IF config.showHeader /\ headers # << >> THEN (IF config.showBorder THEN 2 ELSE 1) ELSE 0

(* The lines of a header are the header and, with borders, a rule.         *)
LEMMA HeaderFacts ==
  ASSUME NEW headers, NEW widths \in Seq(Nat), NEW config, IsConfig(config)
  PROVE  /\ HeaderLines(headers, widths, config)
              \in Seq({Line(headers, widths, "c", config), Rule(widths)})
         /\ Len(HeaderLines(headers, widths, config)) = HeaderHeight(headers, config)
         /\ config.showBorder = FALSE => HeaderLines(headers, widths, config)
              \in Seq({Line(headers, widths, "c", config)})
  <1> DEFINE l == Line(headers, widths, "c", config)
             r == Rule(widths)
             h == HeaderLines(headers, widths, config)
  <1>0. config.showBorder \in BOOLEAN /\ config.showHeader \in BOOLEAN
    BY DEF IsConfig
  <1>1. CASE config.showHeader = TRUE /\ headers # << >> /\ config.showBorder = TRUE
    <2>1. h = <<l>> \o <<r>>
      BY <1>1 DEF HeaderLines, RuleIf
    <2> HIDE DEF h, l, r
    <2>2. <<l>> \o <<r>> \in Seq({l, r}) /\ Len(<<l>> \o <<r>>) = 2
      OBVIOUS
    <2>3. HeaderHeight(headers, config) = 2
      BY <1>1 DEF HeaderHeight
    <2>4. h \in Seq({l, r}) /\ Len(h) = 2
      BY <2>1, <2>2
    <2> QED BY <1>1, <2>3, <2>4 DEF h, l, r
  <1>2. CASE config.showHeader = TRUE /\ headers # << >> /\ config.showBorder = FALSE
    <2>1. h = <<l>> \o << >>
      BY <1>2 DEF HeaderLines, RuleIf
    <2> HIDE DEF h, l, r
    <2>2. <<l>> \o << >> = <<l>> /\ <<l>> \in Seq({l, r}) /\ <<l>> \in Seq({l}) /\ Len(<<l>>) = 1
      OBVIOUS
    <2>3. HeaderHeight(headers, config) = 1
      BY <1>2 DEF HeaderHeight
    <2>4. h \in Seq({l, r}) /\ Len(h) = 1 /\ h \in Seq({l})
      BY <2>1, <2>2
    <2> QED BY <1>2, <2>3, <2>4 DEF h, l, r
  <1>3. CASE ~(config.showHeader = TRUE /\ headers # << >>)
    <2>0. ~(config.showHeader /\ headers # << >>)
      BY <1>0, <1>3
    <2>1. h = << >>
      BY <2>0 DEF HeaderLines
    <2>2. HeaderHeight(headers, config) = 0
      BY <2>0 DEF HeaderHeight
    <2> HIDE DEF h, l, r
    <2>3. h \in Seq({l, r}) /\ Len(h) = 0 /\ h \in Seq({l})
      BY <2>1
    <2> QED BY <2>2, <2>3 DEF h, l, r
  <1> QED BY <1>0, <1>1, <1>2, <1>3

(* The lines of a table: a rule, the header, the rows and a rule.          *)
LEMMA TableLines ==
  ASSUME NEW data, NEW headers, NEW config, ~(data = << >> /\ headers = << >>),
         NEW w, w = CalculateColumnWidths(data, headers, config)
  PROVE  FormatTableLines(data, headers, config)
           = RuleIf(config.showBorder, w) \o HeaderLines(headers, w, config)
               \o RowLines(data, w, config) \o RuleIf(config.showBorder, w)
  BY Zenon DEF FormatTableLines, RowLines

IsList(f, n) ==
  Len(f) = n /\ \A T : (\A i \in 1 .. n : f[i] \in T) => f \in Seq(T)

(* A function on the first n naturals is a sequence.                       *)
LEMMA AsSequence ==
  ASSUME NEW n \in Nat, NEW f, f = [i \in 1 .. n |-> f[i]]
  PROVE  IsList(f, n)
  <1>1. ASSUME NEW T, \A i \in 1 .. n : f[i] \in T PROVE f \in Seq(T) /\ Len(f) = n
    BY <1>1
  <1>2. \A i \in 1 .. n : f[i] \in {f[j] : j \in 1 .. n}
    OBVIOUS
  <1>3. Len(f) = n
    BY <1>1, <1>2
  <1> QED BY <1>1, <1>3 DEF IsList

(* The lines of the rows, one for each.                                    *)
LEMMA RowLinesFacts ==
  ASSUME NEW S, NEW data \in Seq(S), NEW w, NEW config,
         NEW d, d = RowLines(data, w, config)
  PROVE  /\ Len(d) = Len(data) /\ DOMAIN data = 1 .. Len(data)
         /\ \A r \in 1 .. Len(data) : d[r] = DataLine(data[r], w, config, r)
         /\ IsList(d, Len(data))
  <1>1. PICK n \in Nat : n = Len(data) /\ DOMAIN data = 1 .. n
    OBVIOUS
  <1>2. d = [r \in 1 .. n |-> DataLine(data[r], w, config, r)]
    BY <1>1 DEF RowLines
  <1>3. \A r \in 1 .. n : d[r] = DataLine(data[r], w, config, r)
    BY <1>2
  <1>4. d = [r \in 1 .. n |-> d[r]]
    BY <1>2
  <1>5. IsList(d, n)
    BY <1>4, AsSequence
  <1> QED BY <1>1, <1>3, <1>5 DEF IsList

(* What stands where in four sequences joined.                             *)
FourParts(z, a, b, c, d) ==
  /\ Len(z) = Len(a) + Len(b) + Len(c) + Len(d)
  /\ Len(a) \in Nat /\ Len(b) \in Nat /\ Len(c) \in Nat /\ Len(d) \in Nat
  /\ \A i \in 1 .. Len(c) : z[Len(a) + Len(b) + i] = c[i]

(* The third of them, in its place.                                        *)
LEMMA FourFacts ==
  ASSUME NEW S, NEW a \in Seq(S), NEW b \in Seq(S), NEW c \in Seq(S), NEW d \in Seq(S)
  PROVE  FourParts(a \o b \o c \o d, a, b, c, d)
  <1> DEFINE x == a \o b
             y == x \o c
             z == y \o d
  <1>1. TwoParts(x, a, b) /\ x \in Seq(S)
    BY TwoFacts
  <1> HIDE DEF x
  <1>2. TwoParts(y, x, c) /\ y \in Seq(S)
    BY <1>1, TwoFacts
  <1> HIDE DEF y
  <1>3. TwoParts(z, y, d) /\ z \in Seq(S)
    BY <1>2, TwoFacts
  <1> HIDE DEF z
  <1>4. PICK k \in Nat, l \in Nat, m \in Nat, n \in Nat :
          k = Len(a) /\ l = Len(b) /\ m = Len(c) /\ n = Len(d)
    OBVIOUS
  <1>5. Len(x) = k + l /\ Len(y) = (k + l) + m /\ Len(z) = ((k + l) + m) + n
    BY <1>1, <1>2, <1>3, <1>4 DEF TwoParts
  <1>6. ASSUME NEW i \in 1 .. m PROVE z[k + l + i] = c[i]
    <2>1. (k + l) + i \in 1 .. (k + l) + m
      OBVIOUS
    <2>2. y[(k + l) + i] = c[i]
      BY <1>2, <1>4, <1>5 DEF TwoParts
    <2>3. z[(k + l) + i] = y[(k + l) + i]
      BY <1>3, <1>5, <2>1 DEF TwoParts
    <2> QED BY <2>2, <2>3
  <1>7. FourParts(z, a, b, c, d)
    BY <1>4, <1>5, <1>6 DEF FourParts
  <1> QED BY <1>7 DEF x, y, z

-----------------------------------------------------------------------------
RuleHeight(config) == IF config.showBorder THEN 1 ELSE 0

(* The height of a table, and where its rows are.                          *)
Stacked(z, data, headers, config, w) ==
  /\ Len(z) = RuleHeight(config) + HeaderHeight(headers, config) + Len(data)
                + RuleHeight(config)
  /\ \A r \in 1 .. Len(data) :
       z[RuleHeight(config) + HeaderHeight(headers, config) + r]
         = DataLine(data[r], w, config, r)

(* Where the line of each row stands in a table.                           *)
LEMMA TableParts ==
  ASSUME NEW data, NEW headers, NEW config, IsTable(data, headers, config),
         ~(data = << >> /\ headers = << >>)
  PROVE  Stacked(FormatTableLines(data, headers, config), data, headers, config,
                 CalculateColumnWidths(data, headers, config))
  <1> DEFINE w == CalculateColumnWidths(data, headers, config)
             R == RuleIf(config.showBorder, w)
             H == HeaderLines(headers, w, config)
             D == RowLines(data, w, config)
             l == Line(headers, w, "c", config)
             T == {l, Rule(w)} \cup {D[r] : r \in 1 .. Len(data)}
             z == FormatTableLines(data, headers, config)
  <1>1. z = R \o H \o D \o R
    BY TableLines
  <1>2. w \in Seq(Nat) /\ config.showBorder \in BOOLEAN /\ IsConfig(config)
    BY TableFits DEF IsTable, IsConfig
  <1>3. R \in Seq({Rule(w)}) /\ Len(R) = RuleHeight(config)
    BY <1>2, RuleIfFacts DEF RuleHeight
  <1>4. H \in Seq({l, Rule(w)}) /\ Len(H) = HeaderHeight(headers, config)
    BY <1>2, HeaderFacts
  <1>5. /\ Len(D) = Len(data) /\ IsList(D, Len(data))
        /\ \A r \in 1 .. Len(data) : D[r] = DataLine(data[r], w, config, r)
    BY RowLinesFacts DEF IsTable
  <1> HIDE DEF R, H, D, l, z, w
  <1>6. R \in Seq(T) /\ H \in Seq(T) /\ D \in Seq(T)
    <2>1. {Rule(w)} \subseteq T /\ {l, Rule(w)} \subseteq T
          /\ \A r \in 1 .. Len(data) : D[r] \in T
      OBVIOUS
    <2> HIDE DEF T
    <2>2. R \in Seq(T) /\ H \in Seq(T)
      BY <1>3, <1>4, <2>1, SeqMonotonic
    <2>3. D \in Seq(T)
      BY <1>5, <2>1 DEF IsList
    <2> QED BY <2>2, <2>3
  <1> HIDE DEF T
  <1>7. FourParts(z, R, H, D, R)
    BY <1>1, <1>6, FourFacts
  <1>8. Stacked(z, data, headers, config, w)
    BY <1>3, <1>4, <1>5, <1>7 DEF FourParts, Stacked
  <1> QED BY <1>8 DEF z, w

(* All lines of a table whose rows are full are of equal length.           *)
LEMMA EvenTable ==
  ASSUME NEW data, NEW headers, NEW config, IsTable(data, headers, config), headers # << >>,
         \A r \in 1 .. Len(data) : Len(data[r]) = Len(headers)
  PROVE  Even(FormatTableLines(data, headers, config))
  <1> DEFINE w == CalculateColumnWidths(data, headers, config)
             R == RuleIf(config.showBorder, w)
             H == HeaderLines(headers, w, config)
             D == RowLines(data, w, config)
             l == Line(headers, w, "c", config)
             T == (IF config.showBorder THEN {l, Rule(w)} ELSE {l})
                    \cup {D[r] : r \in 1 .. Len(data)}
             z == FormatTableLines(data, headers, config)
  <1>1. z = R \o H \o D \o R
    BY TableLines
  <1>2. /\ w \in Seq(Nat) /\ config.showBorder \in BOOLEAN /\ IsConfig(config)
        /\ Fits(headers, w) /\ Len(w) = Len(headers) /\ RowsFit(data, w)
    BY TableFits DEF IsTable, IsConfig
  <1>3. /\ R \in Seq({Rule(w)})
        /\ Len(R) = IF config.showBorder THEN 1 ELSE 0
    BY <1>2, RuleIfFacts
  <1>4. /\ H \in Seq({l, Rule(w)})
        /\ config.showBorder = FALSE => H \in Seq({l})
    BY <1>2, HeaderFacts
  <1>5. /\ IsList(D, Len(data))
        /\ \A r \in 1 .. Len(data) : D[r] = DataLine(data[r], w, config, r)
    BY RowLinesFacts DEF IsTable
  <1>6. w # << >>
    <2>1. headers \in Seq(Texts)
      BY DEF IsTable
    <2>2. Len(headers) \in Nat \ {0}
      BY <2>1, EmptySeq
    <2> HIDE DEF w
    <2> QED BY <1>2, <2>2, EmptySeq
  <1>7. ASSUME NEW r \in 1 .. Len(data) PROVE Len(Visible(D[r])) = Len(l)
    <2>1. Fits(data[r], w) /\ Len(data[r]) = Len(w)
      BY <1>2 DEF RowsFit
    <2>2. D[r] = DataLine(data[r], w, config, r)
      BY <1>5
    <2> HIDE DEF w, D
    <2>3. Visible(D[r]) = Line(data[r], w, "l", config)
      BY <2>1, <2>2, DataLineFacts DEF AsLine
    <2> QED BY <1>2, <1>6, <2>1, <2>3, EvenLines
  <1>8. config.showBorder => Len(Visible(Rule(w))) = Len(l)
    <2> HIDE DEF w
    <2> QED BY <1>2, <1>6, EvenRule, LettersOfText
  <1>14. Visible(l) = l
    <2> HIDE DEF w
    <2>1. l \in Seq(Bytes)
      BY <1>2, LineFacts
    <2> QED BY <2>1, LettersOfText
  <1> HIDE DEF R, H, D, l, z, w
  <1>9. \A x \in T : Len(Visible(x)) = Len(l)
    BY <1>7, <1>8, <1>14
  <1>10. R \in Seq(T) /\ H \in Seq(T) /\ D \in Seq(T)
    <2>1. \A r \in 1 .. Len(data) : D[r] \in T
      OBVIOUS
    <2>2. D \in Seq(T)
      <3> HIDE DEF T
      <3> QED BY <1>5, <2>1 DEF IsList
    <2>3. CASE config.showBorder = TRUE
      <3>1. {Rule(w)} \subseteq T /\ {l, Rule(w)} \subseteq T
        BY <2>3
      <3> HIDE DEF T
      <3> QED BY <1>3, <1>4, <2>2, <3>1, SeqMonotonic
    <2>4. CASE config.showBorder = FALSE
      <3>1. {l} \subseteq T
        BY <2>4
      <3>2. Len(R) = 0
        BY <1>3, <2>4
      <3>3. R = << >> /\ << >> \in Seq(T)
        BY <1>3, <3>2, EmptySeq
      <3> HIDE DEF T
      <3> QED BY <1>4, <2>2, <2>4, <3>1, <3>3, SeqMonotonic
    <2> QED BY <1>2, <2>3, <2>4
  <1> HIDE DEF T
  <1>11. z \in Seq(T)
    BY <1>1, <1>10
  <1>12. \A i \in DOMAIN z : Len(Visible(z[i])) = Len(l)
    <2>1. \A i \in DOMAIN z : z[i] \in T
      BY <1>11
    <2> QED BY <1>9, <2>1
  <1>13. Even(z)
    BY <1>12 DEF Even
  <1> QED BY <1>13 DEF z

(* A row whose cells are no longer than a column may be has their letters. *)
LEMMA WholeRow ==
  ASSUME NEW data, NEW headers, NEW config, IsTable(data, headers, config),
         NEW w, w = CalculateColumnWidths(data, headers, config),
         NEW r \in 1 .. Len(data),
         \A c \in 1 .. Len(data[r]) : Len(data[r][c]) <= config.maxColumnWidth
  PROVE  Letters(DataLine(data[r], w, config, r)) = FlattenSeq(data[r])
  <1> DEFINE cells == data[r]
             p == PiecesOf(cells, w, "l", config)
             b == Border(config)
  <1>1. Fits(cells, w) /\ Len(w) = Len(headers) /\ w \in Seq(Nat)
    BY TableFits DEF RowsFit
  <1>2. \A i \in 1 .. Len(headers) : Held(data, headers, config, i, w[i])
    BY WidthsFacts DEF IsTable
  <1>3. cells \in Seq(Texts) /\ Len(cells) \in Nat /\ Len(cells) <= Len(w)
    <2>1. cells \in Seq(Texts) /\ Len(cells) <= Len(w)
      BY <1>1 DEF Fits
    <2> HIDE DEF cells
    <2> QED BY <2>1
  <1>4. ASSUME NEW i \in 1 .. Len(cells) PROVE Len(cells[i]) <= w[i]
    <2>1. i \in 1 .. Len(headers) /\ i <= Len(cells)
      BY <1>1, <1>3
    <2>2. AtMost(config.maxColumnWidth, Len(cells[i])) <= w[i]
      BY <1>2, <2>1 DEF Held
    <2>3. cells[i] \in Texts
      BY <1>3, ElementOfSeq
    <2>4. Len(cells[i]) \in Nat
      BY <2>3 DEF Texts
    <2>5. config.maxColumnWidth \in Nat /\ Len(cells[i]) <= config.maxColumnWidth
      BY DEF IsTable, IsConfig
    <2>6. PICK m \in Nat, k \in Nat : m = config.maxColumnWidth /\ k = Len(cells[i]) /\ k <= m
      BY <2>4, <2>5
    <2>7. AtMost(m, k) = k
      BY <2>6 DEF AtMost
    <2> HIDE DEF cells
    <2> QED BY <2>2, <2>6, <2>7
  <1> HIDE DEF cells
  <1>5. ArePieces(p, cells, w, config)
    BY <1>1, RowPieces
  <1>6. /\ Line(cells, w, "l", config) = b \o FlattenSeq(p)
        /\ FlattenSeq(p) \in Seq(Bytes)
    BY <1>1, LineFacts
  <1>7. b \in Seq(Bytes) /\ Letters(b) = << >>
    BY BorderFacts
  <1> HIDE DEF p, b
  <1>8. /\ p \in Seq(Seq(Bytes)) /\ Len(p) = Len(cells)
        /\ \A i \in 1 .. Len(p) : Letters(p[i]) = cells[i]
    BY <1>4, <1>5 DEF ArePieces
  <1>9. Letters(FlattenSeq(p)) = FlattenSeq(cells)
    BY <1>3, <1>8, FlatLetters
  <1>10. Beside(b, FlattenSeq(p), b \o FlattenSeq(p))
    BY <1>6, <1>7, BytesBeside
  <1>11. FlattenSeq(cells) \in Seq(Glyphs)
    <2>1. cells \in Seq(Seq(Glyphs))
      BY <1>3 DEF Texts
    <2>2. IsFlat(cells, Glyphs) /\ Len(cells) \in 0 .. Len(cells)
      BY <2>1, FlatFacts
    <2> QED BY <2>2 DEF IsFlat
  <1>12. << >> \o FlattenSeq(cells) = FlattenSeq(cells)
    BY <1>11, ConcatEmptySeq
  <1>13. Letters(Line(cells, w, "l", config)) = FlattenSeq(cells)
    BY <1>6, <1>7, <1>9, <1>10, <1>12 DEF Beside
  <1>14. Letters(DataLine(cells, w, config, r)) = Letters(Line(cells, w, "l", config))
    BY <1>1, DataLineFacts DEF AsLine
  <1> QED BY <1>13, <1>14 DEF cells

(* No line of a table leaves a colour behind.                              *)
LEMMA TableEnds ==
  ASSUME NEW data, NEW headers, NEW config, IsTable(data, headers, config),
         NEW z, z = FormatTableLines(data, headers, config), NEW i \in DOMAIN z
  PROVE  EndsPlain(z[i])
  <1> DEFINE w == CalculateColumnWidths(data, headers, config)
             R == RuleIf(config.showBorder, w)
             H == HeaderLines(headers, w, config)
             D == RowLines(data, w, config)
             l == Line(headers, w, "c", config)
             T == {l, Rule(w)} \cup {D[r] : r \in 1 .. Len(data)}
  <1>0. ~(data = << >> /\ headers = << >>)
    <2> SUFFICES ASSUME data = << >> /\ headers = << >> PROVE FALSE
      OBVIOUS
    <2>1. z = << >>
      BY Zenon DEF FormatTableLines
    <2> QED BY <2>1
  <1>1. z = R \o H \o D \o R
    BY <1>0, TableLines
  <1>2. /\ w \in Seq(Nat) /\ config.showBorder \in BOOLEAN /\ IsConfig(config)
        /\ Fits(headers, w) /\ RowsFit(data, w)
    BY TableFits DEF IsTable, IsConfig
  <1>3. R \in Seq({Rule(w)}) /\ H \in Seq({l, Rule(w)})
    BY <1>2, RuleIfFacts, HeaderFacts
  <1>4. /\ IsList(D, Len(data))
        /\ \A r \in 1 .. Len(data) : D[r] = DataLine(data[r], w, config, r)
    BY RowLinesFacts DEF IsTable
  <1> HIDE DEF R, H, D, w
  <1>5. l \in Seq(Bytes) /\ Rule(w) \in Seq(Bytes)
    BY <1>2, LineFacts, RuleBytes
  <1>6. ASSUME NEW r \in 1 .. Len(data) PROVE EndsPlain(D[r])
    <2>1. Fits(data[r], w) /\ D[r] = DataLine(data[r], w, config, r)
      BY <1>2, <1>4 DEF RowsFit
    <2> QED BY <2>1, DataLineFacts DEF AsLine
  <1>7. EndsPlain(l) /\ EndsPlain(Rule(w))
    BY <1>5, PlainEnds
  <1> HIDE DEF l
  <1>8. \A x \in T : EndsPlain(x)
    BY <1>6, <1>7
  <1>9. R \in Seq(T) /\ H \in Seq(T) /\ D \in Seq(T)
    <2>1. {Rule(w)} \subseteq T /\ {l, Rule(w)} \subseteq T
          /\ \A r \in 1 .. Len(data) : D[r] \in T
      OBVIOUS
    <2> HIDE DEF T
    <2>2. R \in Seq(T) /\ H \in Seq(T)
      BY <1>3, <2>1, SeqMonotonic
    <2>3. D \in Seq(T)
      BY <1>4, <2>1 DEF IsList
    <2> QED BY <2>2, <2>3
  <1> HIDE DEF T
  <1>10. z \in Seq(T)
    BY <1>1, <1>9
  <1>11. z[i] \in T
    BY <1>10
  <1> QED BY <1>8, <1>11

-----------------------------------------------------------------------------
(* What a call has shown is what it makes of arguments it may be given.    *)
IsTableAnswer(a) ==
  \E data, headers, config :
    /\ data \in Seq(Seq(Texts)) /\ headers \in Seq(Texts) /\ IsConfig(config)
    /\ a = TableAnswer(data, headers, config)

IsLogsAnswer(a) == \E logs \in Logs, n \in MaxRows : a = LogsAnswer(logs, n)

TableInv ==
  /\ shown.call = "formatTable" => IsTableAnswer(shown)
  /\ shown.call = "formatLogsTable" => IsLogsAnswer(shown)

(* There is no table at the start.                                         *)
LEMMA TableInit == FormatterInit => TableInv
  BY DEF FormatterInit, Silence, TableInv

(* Every call keeps TableInv.                                              *)
LEMMA TableStep ==
  ASSUME FormatterTyped PROVE TableInv /\ [FormatterNext]_formatterVars => TableInv'
  <1> SUFFICES ASSUME TableInv, [FormatterNext]_formatterVars PROVE TableInv'
    OBVIOUS
  <1>1. CASE UNCHANGED formatterVars
    BY <1>1 DEF TableInv, formatterVars
  <1>2. CASE Construct \/ Drop \/ Update
    <2>1. shown'.call = "none"
      BY <1>2 DEF Construct, Drop, Update, Silence
    <2> QED BY <2>1 DEF TableInv
  <1>3. CASE Increment
    <2>1. shown'.call = "increment"
      BY <1>3 DEF Increment
    <2> QED BY <2>1 DEF TableInv
  <1>4. CASE Display \/ Finish
    <2>1. shown' = Drawn(bar) \/ shown' = Drawn(bar')
      BY <1>4 DEF Display, Finish
    <2>2. shown'.call = "toString"
      BY <2>1 DEF Drawn
    <2> QED BY <2>2 DEF TableInv
  <1>5. CASE FormatTable
    <2>1. PICK t \in Tables : shown' = TableAnswer(t.data, t.headers, t.config)
      BY <1>5 DEF FormatTable
    <2>2. /\ t.data \in Seq(Seq(Texts)) /\ t.headers \in Seq(Texts)
          /\ IsConfig(t.config)
      BY DEF FormatterTyped
    <2>3. IsTableAnswer(shown')
      BY <2>1, <2>2 DEF IsTableAnswer
    <2>4. shown'.call = "formatTable"
      BY <2>1 DEF TableAnswer
    <2> QED BY <2>3, <2>4 DEF TableInv, IsTableAnswer
  <1>6. CASE FormatTopTable
    <2>1. PICK top \in Tops : shown' = TableAnswer(top, SubSeq(Columns, 1, 2), Config)
      BY <1>6 DEF FormatTopTable
    <2>2. top \in Seq(Seq(Texts)) /\ IsConfig(Config)
      BY DEF FormatterTyped
    <2>3. SubSeq(Columns, 1, 2) \in Seq(Texts)
      <3>1. Columns \in Seq(Texts) /\ Len(Columns) = 5
        BY DEF FormatterTyped
      <3> QED BY <3>1
    <2>4. IsTableAnswer(shown')
      BY <2>1, <2>2, <2>3 DEF IsTableAnswer
    <2>5. shown'.call = "formatTable"
      BY <2>1 DEF TableAnswer
    <2> QED BY <2>4, <2>5 DEF TableInv, IsTableAnswer
  <1>7. CASE FormatLogsTable
    <2>1. PICK logs \in Logs, n \in MaxRows :
            \/ shown' = [call |-> "no_data"] \/ shown' = [call |-> "out_of_range"]
            \/ shown' = LogsAnswer(logs, n)
      BY <1>7 DEF FormatLogsTable
    <2>2. CASE shown' = [call |-> "no_data"] \/ shown' = [call |-> "out_of_range"]
      <3>1. shown'.call \in {"no_data", "out_of_range"}
        BY <2>2
      <3> QED BY <3>1 DEF TableInv
    <2>3. CASE shown' = LogsAnswer(logs, n)
      <3>1. shown'.call = "formatLogsTable"
        BY <2>3 DEF LogsAnswer
      <3>2. IsLogsAnswer(shown')
        BY <2>3 DEF IsLogsAnswer
      <3> QED BY <3>1, <3>2 DEF TableInv, IsLogsAnswer
    <2> QED BY <2>1, <2>2, <2>3
  <1> QED BY <1>1, <1>2, <1>3, <1>4, <1>5, <1>6, <1>7 DEF FormatterNext

(* TableInv is an invariant.                                               *)
LEMMA TableAnswers == ASSUME FormatterTyped PROVE FormatterSpec => []TableInv
  <1>1. TableInv /\ [FormatterNext]_formatterVars => TableInv'
    BY TableStep
  <1> QED BY <1>1, TableInit, PTL DEF FormatterSpec

-----------------------------------------------------------------------------
(* The lines of a table are of one length.                                 *)
LEMMA EvenAnswers == ASSUME TableInv PROVE LinesAreEven
  <1> SUFFICES ASSUME shown.call = "formatTable", ~shown.undefined, shown.headers # << >>,
                      \A r \in DOMAIN shown.data : Len(shown.data[r]) = Len(shown.headers)
      PROVE Even(shown.lines)
    BY DEF LinesAreEven
  <1>1. PICK data, headers, config :
          /\ data \in Seq(Seq(Texts)) /\ headers \in Seq(Texts)
          /\ IsConfig(config) /\ shown = TableAnswer(data, headers, config)
    BY DEF TableInv, IsTableAnswer
  <1>2. /\ shown.data = data /\ shown.headers = headers
        /\ ~ReadsBeyondWidths(data, headers)
    BY <1>1 DEF TableAnswer
  <1>3. shown.lines = FormatTableLines(data, headers, config)
    BY <1>1, <1>2 DEF TableAnswer
  <1>4. IsTable(data, headers, config) /\ DOMAIN data = 1 .. Len(data)
    BY <1>1, <1>2 DEF IsTable
  <1>5. headers # << >> /\ \A r \in 1 .. Len(data) : Len(data[r]) = Len(headers)
    BY <1>2, <1>4
  <1> QED BY <1>3, <1>4, <1>5, EvenTable

(* Cells that fit are shown whole, in the line of their row.               *)
LEMMA WholeAnswers == ASSUME TableInv PROVE CellsAreWhole
  <1> SUFFICES ASSUME shown.call = "formatTable", ~shown.undefined,
                      NEW r \in DOMAIN shown.data,
                      \A c \in DOMAIN shown.data[r] :
                        Len(shown.data[r][c]) <= shown.config.maxColumnWidth
      PROVE Letters(RowLine(shown, r)) = FlattenSeq(shown.data[r])
    BY DEF CellsAreWhole
  <1>1. PICK data, headers, config :
          /\ data \in Seq(Seq(Texts)) /\ headers \in Seq(Texts)
          /\ IsConfig(config) /\ shown = TableAnswer(data, headers, config)
    BY DEF TableInv, IsTableAnswer
  <1>2. /\ shown.data = data /\ shown.headers = headers /\ shown.config = config
        /\ ~ReadsBeyondWidths(data, headers)
    BY <1>1 DEF TableAnswer
  <1>3. shown.lines = FormatTableLines(data, headers, config)
    BY <1>1, <1>2 DEF TableAnswer
  <1>4. IsTable(data, headers, config) /\ DOMAIN data = 1 .. Len(data)
    BY <1>1, <1>2 DEF IsTable
  <1>5. r \in 1 .. Len(data) /\ data # << >>
    <2>1. r \in 1 .. Len(data)
      BY <1>2, <1>4
    <2> QED BY <2>1
  <1>6. \A c \in 1 .. Len(data[r]) : Len(data[r][c]) <= config.maxColumnWidth
    <2>1. data[r] \in Seq(Texts)
      BY <1>1, <1>5, ElementOfSeq
    <2>2. DOMAIN data[r] = 1 .. Len(data[r])
      BY <2>1
    <2> QED BY <1>2, <2>2
  <1> DEFINE w == CalculateColumnWidths(data, headers, config)
             z == FormatTableLines(data, headers, config)
  <1>7. Stacked(z, data, headers, config, w)
    BY <1>4, <1>5, TableParts
  <1>8. Letters(DataLine(data[r], w, config, r)) = FlattenSeq(data[r])
    BY <1>4, <1>5, <1>6, WholeRow
  <1> HIDE DEF w, z
  <1>9. RowLine(shown, r) = z[RuleHeight(config) + HeaderHeight(headers, config) + r]
    <2>1. PICK i, j : i = RuleHeight(config) /\ j = HeaderHeight(headers, config)
      OBVIOUS
    <2>2. i \in {0, 1} /\ j \in {0, 1, 2} /\ FirstRow(shown) - 1 = i
      BY <1>2, <2>1 DEF RuleHeight, HeaderHeight, FirstRow
    <2>3. RowLine(shown, r) = z[FirstRow(shown) - 1 + r + j]
      BY <1>2, <1>3, <2>1, Zenon DEF RowLine, HeaderHeight, z
    <2>4. r \in Int /\ i + r + j = i + j + r
      BY <1>5, <2>2
    <2> QED BY <2>1, <2>2, <2>3, <2>4
  <1>10. RowLine(shown, r) = DataLine(data[r], w, config, r)
    BY <1>5, <1>7, <1>9 DEF Stacked
  <1> QED BY <1>2, <1>8, <1>10

(* The same of what a call returns.                                        *)
LEMMA AnswerEnds ==
  ASSUME NEW data \in Seq(Seq(Texts)), NEW headers \in Seq(Texts), NEW config,
         IsConfig(config), NEW z, z = TableAnswer(data, headers, config).lines,
         NEW i \in DOMAIN z
  PROVE  EndsPlain(z[i])
  <1>1. CASE ReadsBeyondWidths(data, headers)
    <2>1. z = << >>
      BY <1>1 DEF TableAnswer
    <2> QED BY <2>1
  <1>2. CASE ~ReadsBeyondWidths(data, headers)
    <2>1. z = FormatTableLines(data, headers, config)
      BY <1>2 DEF TableAnswer
    <2>2. IsTable(data, headers, config)
      BY <1>2 DEF IsTable
    <2> QED BY <2>1, <2>2, TableEnds
  <1> QED BY <1>1, <1>2

-----------------------------------------------------------------------------
(* A row for a record is of texts, one for each column.                    *)
LogRecord == [timestamp : Texts, ip : Texts, method : Texts, url : Texts,
              status : Texts]

(* A record makes a row of five texts.                                     *)
LEMMA LogRowFacts ==
  ASSUME CutsTyped, NEW log \in LogRecord
  PROVE  LogRow(log) \in Seq(Texts) /\ Len(LogRow(log)) = 5
  <1>1. /\ log.timestamp \in Seq(Glyphs) /\ log.url \in Seq(Glyphs)
        /\ log.ip \in Texts /\ log.method \in Texts /\ log.status \in Texts
    BY DEF LogRecord, Texts
  <1>2. PICK t \in Seq(Glyphs), u \in Seq(Glyphs) : t = log.timestamp /\ u = log.url
    BY <1>1
  <1>3. PICK n \in Nat, m \in Nat : n = Len(t) /\ m = Len(u)
    OBVIOUS
  <1>4. ClockAt \in Nat /\ ClockLen \in Nat /\ UrlMax \in Nat /\ UrlCut \in 0 .. UrlMax
    BY DEF CutsTyped
  <1>5. Clock(log) \in Seq(Glyphs)
    <2>1. PICK e \in Int : e = AtMost(n, ClockAt + ClockLen) /\ e <= n
      BY <1>3, <1>4 DEF AtMost
    <2>2. Clock(log) = SubSeq(t, ClockAt + 1, e)
      BY <1>2, <1>3, <2>1 DEF Clock
    <2>3. ASSUME NEW i \in ClockAt + 1 .. e PROVE t[i] \in Glyphs
      <3>1. i \in 1 .. n
        BY <1>4, <2>1
      <3> QED BY <1>3, <3>1, ElementOfSeq
    <2>4. ClockAt + 1 \in Int
      BY <1>4
    <2>5. SubSeq(t, ClockAt + 1, e) \in Seq(Glyphs)
      BY <2>3, <2>4, SubSeqProperties
    <2> QED BY <2>2, <2>5
  <1>6. ShortUrl(log.url) \in Seq(Glyphs)
    <2>1. CASE m > UrlMax
      <3>1. SubSeq(u, 1, UrlCut) \in Seq(Glyphs)
        <4>1. ASSUME NEW i \in 1 .. UrlCut PROVE u[i] \in Glyphs
          <5>1. i \in 1 .. m
            BY <1>4, <2>1
          <5> QED BY <1>3, <5>1, ElementOfSeq
        <4>2. UrlCut \in Int /\ 1 \in Int
          BY <1>4
        <4> QED BY <4>1, <4>2, SubSeqProperties
      <3>2. RepeatChar(".", 3) \in Seq(Glyphs)
        <4>1. AtLeast(0, 3) = 3
          BY DEF AtLeast
        <4>2. "." \in Glyphs
          BY DEF Glyphs
        <4>3. [i \in 1 .. 3 |-> "."] \in Seq(Glyphs)
          BY <4>2
        <4> QED BY <4>1, <4>3 DEF RepeatChar
      <3>3. SubSeq(u, 1, UrlCut) \o RepeatChar(".", 3) \in Seq(Glyphs)
        BY <3>1, <3>2, ConcatProperties
      <3>4. ShortUrl(log.url) = SubSeq(u, 1, UrlCut) \o RepeatChar(".", 3)
        BY <1>2, <1>3, <2>1 DEF ShortUrl
      <3> QED BY <3>3, <3>4
    <2>2. CASE ~(m > UrlMax)
      <3>1. ShortUrl(log.url) = u
        BY <1>2, <1>3, <2>2 DEF ShortUrl
      <3> QED BY <3>1
    <2> QED BY <2>1, <2>2
  <1>7. Clock(log) \in Texts /\ ShortUrl(log.url) \in Texts
    BY <1>5, <1>6 DEF Texts
  <1> QED BY <1>1, <1>7 DEF LogRow

(* As many records are shown as there are, or as the limit allows.         *)
LEMMA CountFacts ==
  ASSUME NEW S, NEW logs \in Seq(S), NEW n \in Int
  PROVE  DisplayCount(logs, n) \in 0 .. Len(logs)
  <1>1. PICK k \in Nat : k = Len(logs)
    OBVIOUS
  <1> QED BY <1>1 DEF DisplayCount, AtMost

(* As many rows as records are displayed, of five texts each.              *)
LEMMA LogRowsFacts ==
  ASSUME CutsTyped, NEW logs \in Seq(LogRecord), NEW n \in Int
  PROVE  /\ LogRows(logs, n) \in Seq(Seq(Texts))
         /\ Len(LogRows(logs, n)) = DisplayCount(logs, n)
         /\ \A r \in 1 .. Len(LogRows(logs, n)) : Len(LogRows(logs, n)[r]) = 5
  <1>1. PICK k \in Nat : k = DisplayCount(logs, n) /\ k \in 0 .. Len(logs)
    BY CountFacts
  <1> DEFINE d == LogRows(logs, n)
  <1>2. d = [i \in 1 .. k |-> LogRow(logs[i])]
    BY <1>1 DEF LogRows
  <1>3. ASSUME NEW i \in 1 .. k PROVE d[i] \in Seq(Texts) /\ Len(d[i]) = 5
    <2>1. i \in 1 .. Len(logs)
      BY <1>1
    <2>2. logs[i] \in LogRecord
      BY <2>1, ElementOfSeq
    <2>3. d[i] = LogRow(logs[i])
      BY <1>2
    <2> QED BY <2>2, <2>3, LogRowFacts
  <1> HIDE DEF d
  <1>4. d = [i \in 1 .. k |-> d[i]]
    BY <1>2
  <1>5. IsList(d, k)
    BY <1>4, AsSequence
  <1>6. d \in Seq(Seq(Texts)) /\ Len(d) = k
    BY <1>3, <1>5 DEF IsList
  <1> QED BY <1>1, <1>3, <1>6 DEF d

(* Rows shown and records left out are all records.                        *)
LEMMA LogsAnswers ==
  ASSUME FormatterTyped, TableInv PROVE LogsAddUp
  <1> SUFFICES ASSUME shown.call = "formatLogsTable"
      PROVE /\ shown.rows \in 0 .. Len(shown.logs)
            /\ shown.rows + shown.more = Len(shown.logs)
            /\ Len(shown.lines)
                 = shown.rows + Len(FormatTableLines(<< >>, Columns, Config))
    BY DEF LogsAddUp
  <1>1. PICK logs \in Logs, n \in MaxRows : shown = LogsAnswer(logs, n)
    BY DEF TableInv, IsLogsAnswer
  <1>2. /\ logs \in Seq(LogRecord) /\ n \in Int /\ CutsTyped
        /\ Columns \in Seq(Texts) /\ Len(Columns) = 5 /\ IsConfig(Config)
    BY DEF FormatterTyped, LogRecord
  <1> DEFINE d == LogRows(logs, n)
             k == DisplayCount(logs, n)
             none == << >>
  <1>3. k \in 0 .. Len(logs) /\ Len(logs) \in Nat
    BY <1>2, CountFacts
  <1>4. /\ d \in Seq(Seq(Texts)) /\ Len(d) = k
        /\ \A r \in 1 .. Len(d) : Len(d[r]) = 5
    BY <1>2, LogRowsFacts
  <1>5. /\ shown.logs = logs /\ shown.rows = k /\ shown.more = Len(logs) - k
        /\ shown.lines = TableAnswer(d, Columns, Config).lines
    BY <1>1 DEF LogsAnswer
  <1> HIDE DEF d, k
  <1>6. IsTable(d, Columns, Config) /\ ~ReadsBeyondWidths(d, Columns)
    <2>1. ~ReadsBeyondWidths(d, Columns)
      <3>1. DOMAIN d = 1 .. Len(d)
        BY <1>4
      <3>2. ASSUME NEW r \in DOMAIN d PROVE ~(Len(d[r]) > Len(Columns))
        <4>1. Len(d[r]) = 5 /\ Len(Columns) = 5
          BY <1>2, <1>4, <3>1, Zenon
        <4> QED BY <4>1
      <3> QED BY <3>2 DEF ReadsBeyondWidths
    <2> QED BY <1>2, <1>4, <2>1, Zenon DEF IsTable
  <1>7. IsTable(none, Columns, Config)
    <2>1. none \in Seq(Seq(Texts)) /\ DOMAIN none = {}
      OBVIOUS
    <2> HIDE DEF none
    <2>2. ~ReadsBeyondWidths(none, Columns)
      BY <2>1, Zenon DEF ReadsBeyondWidths
    <2> QED BY <1>2, <2>1, <2>2, Zenon DEF IsTable
  <1>8. Columns # << >>
    <2>1. Len(Columns) = 5 /\ Len(none) = 0
      BY <1>2
    <2> HIDE DEF none
    <2>2. ASSUME Columns = none PROVE FALSE
      <3>1. Len(none) = 5
        BY <2>1, <2>2, Zenon
      <3> QED BY <2>1, <3>1
    <2> QED BY <2>2 DEF none
  <1>9. shown.lines = FormatTableLines(d, Columns, Config)
    BY <1>5, <1>6 DEF TableAnswer
  <1>10. /\ Stacked(FormatTableLines(d, Columns, Config), d, Columns, Config,
                    CalculateColumnWidths(d, Columns, Config))
         /\ Stacked(FormatTableLines(none, Columns, Config), none, Columns, Config,
                    CalculateColumnWidths(none, Columns, Config))
    BY <1>6, <1>7, <1>8, TableParts
  <1>11. PICK i \in Nat, j \in Nat : i = RuleHeight(Config) /\ j = HeaderHeight(Columns, Config)
    BY DEF RuleHeight, HeaderHeight
  <1>12. Len(FormatTableLines(d, Columns, Config)) = i + j + k + i
    BY <1>4, <1>10, <1>11 DEF Stacked
  <1>13. Len(FormatTableLines(none, Columns, Config)) = i + j + 0 + i
    <2>1. Len(none) = 0
      OBVIOUS
    <2> HIDE DEF none
    <2> QED BY <1>10, <1>11, <2>1 DEF Stacked
  <1>14. i + j + k + i = k + (i + j + 0 + i) /\ k + (Len(logs) - k) = Len(logs)
    BY <1>3, <1>11
  <1> QED BY <1>3, <1>5, <1>9, <1>12, <1>13, <1>14

(* No colour is left behind by a table, of records or of anything else.    *)
LEMMA EndAnswers == ASSUME FormatterTyped, TableInv PROVE ColoursEnd
  <1> SUFFICES ASSUME shown.call \in {"formatTable", "formatLogsTable"},
                      NEW i \in DOMAIN shown.lines
               PROVE  EndsPlain(shown.lines[i])
    BY DEF ColoursEnd
  <1>1. CASE shown.call = "formatTable"
    <2>1. PICK data, headers, config :
            /\ data \in Seq(Seq(Texts)) /\ headers \in Seq(Texts)
            /\ IsConfig(config) /\ shown = TableAnswer(data, headers, config)
      BY <1>1 DEF TableInv, IsTableAnswer
    <2> QED BY <2>1, AnswerEnds DEF TableAnswer
  <1>2. CASE shown.call = "formatLogsTable"
    <2>1. PICK logs \in Logs, n \in MaxRows : shown = LogsAnswer(logs, n)
      BY <1>2 DEF TableInv, IsLogsAnswer
    <2>2. shown.lines = TableAnswer(LogRows(logs, n), Columns, Config).lines
      BY <2>1 DEF LogsAnswer
    <2>3. /\ logs \in Seq(LogRecord) /\ n \in Int /\ CutsTyped
          /\ Columns \in Seq(Texts) /\ IsConfig(Config)
      BY DEF FormatterTyped, LogRecord
    <2>4. LogRows(logs, n) \in Seq(Seq(Texts))
      BY <2>3, LogRowsFacts
    <2> QED BY <2>2, <2>3, <2>4, AnswerEnds
  <1> QED BY <1>1, <1>2

(* A table is rectangular on the screen, says in every line what its row   *)
(* holds, keeps its colours to itself, and says how many records it leaves *)
(* out, for any texts, widths and limits (formatter.cpp:106-218, 302-340). *)
THEOREM WholeTables == FormatterSpec => []TablesAreWhole
  <1> FormatterTyped
    BY FormatterAssumption
  <1>1. TableInv => TablesAreWhole
    BY EvenAnswers, WholeAnswers, EndAnswers, LogsAnswers DEF TablesAreWhole
  <1> QED BY <1>1, TableAnswers, PTL
=============================================================================
