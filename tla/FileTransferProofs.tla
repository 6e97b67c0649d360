------------------------- MODULE FileTransferProofs -------------------------
(***************************************************************************)
(* Theorems about FileTransfer, for any records, lists and size of the     *)
(* buffer: what a read gives while another process writes the file.        *)
(***************************************************************************)
EXTENDS FileTransfer, SequenceTheorems, TLAPS

-----------------------------------------------------------------------------
(* The inductive invariant.  The file is always the beginning of the text  *)
(* that was begun last; while the stream is good, what is missing is in its*)
(* buffer and behind it.  The reader is never ahead of the file as long as *)
(* nobody empties it.                                                      *)
Goal == TextOf(target)

Begun == IsPrefixOf(file, Goal)

Coming ==
  writer.at # "idle" /\ writer.good =>
    /\ Len(file) + Len(writer.buf) + Len(writer.todo) = Len(Goal)
    /\ \A i \in 1 .. Len(writer.buf)  : writer.buf[i] = Goal[Len(file) + i]
    /\ \A i \in 1 .. Len(writer.todo) :
         writer.todo[i] = Goal[Len(file) + Len(writer.buf) + i]

Told ==
  /\ writer.at = "writing" => writer.told = "nothing"
  /\ writer.at = "closing" /\ writer.good => writer.todo = << >>
  /\ writer.told = "done" /\ writer.fn = "writeStringToFile" =>
       /\ writer.at = "closing" => writer.good
       /\ Len(file) + BufferSize >= Len(Goal)

Behind ==
  reader.at = "reading" /\ ~raced =>
    reader.size <= Len(file) /\ IsPrefixOf(reader.got, file)

IInv ==
  /\ TypeOK /\ Begun /\ Coming /\ Told /\ Behind
  /\ ReadsOneVersion /\ ShortReadNeverLoads

-----------------------------------------------------------------------------
(* Places of a printed list.                                               *)
LEMMA Places ==
  ASSUME NEW m \in Nat \ {0}
  PROVE  /\ \A i \in 1 .. 2 * m + 1 : i % 2 = 0 => i \div 2 \in 1 .. m
         /\ \A i \in 1 .. m : /\ 2 * i \in 1 .. 2 * m + 1 /\ 2 * i # 1
                              /\ 2 * i # 2 * m + 1
                              /\ (2 * i) % 2 = 0 /\ (2 * i) \div 2 = i
         /\ \A i \in 1 .. m - 1 : /\ 2 * i + 1 \in 1 .. 2 * m + 1 /\ 2 * i + 1 # 1
                                  /\ 2 * i + 1 # 2 * m + 1 /\ (2 * i + 1) % 2 = 1
         /\ 1 \in 1 .. 2 * m + 1 /\ 2 * m + 1 \in 1 .. 2 * m + 1 /\ 1 # 2 * m + 1
  <1>1. \A i \in 1 .. 2 * m + 1 : i % 2 = 0 => i \div 2 \in 1 .. m
    OBVIOUS
  <1>2. \A i \in 1 .. m : 2 * i \in 1 .. 2 * m + 1 /\ 2 * i # 1 /\ 2 * i # 2 * m + 1
    OBVIOUS
  <1>3. \A i \in Nat : (2 * i) % 2 = 0 /\ (2 * i) \div 2 = i /\ (2 * i + 1) % 2 = 1
    OBVIOUS
  <1>4. \A i \in 1 .. m - 1 : 2 * i + 1 \in 1 .. 2 * m + 1 /\ 2 * i + 1 # 1 /\ 2 * i + 1 # 2 * m + 1
    OBVIOUS
  <1>5. 1 .. m \subseteq Nat /\ 1 .. m - 1 \subseteq Nat
    OBVIOUS
  <1> QED BY <1>1, <1>2, <1>3, <1>4, <1>5

(* A printed list: brackets around it, a comma between two records         *)
(* (json_parser.cpp:329-348).                                              *)
LEMMA TextFacts ==
  ASSUME NEW logs \in Logs
  PROVE  /\ TextOf(logs) \in Seq(Blocks) /\ Len(TextOf(logs)) = 2 * Len(logs) + 1
         /\ logs \in Seq(Records) /\ Len(logs) \in Nat \ {0}
         /\ TextOf(logs)[1] = "[" /\ TextOf(logs)[2 * Len(logs) + 1] = "]"
         /\ \A i \in 1 .. Len(logs) : TextOf(logs)[2 * i] = logs[i]
         /\ \A i \in 1 .. Len(logs) - 1 : TextOf(logs)[2 * i + 1] = ","
  <1>1. logs \in Seq(Records) /\ Len(logs) \in Nat \ {0}
    BY TransferAssumption, EmptySeq
  <1>2. PICK m \in Nat \ {0} : m = Len(logs)
    BY <1>1
  <1> DEFINE n == 2 * m + 1
             f == [i \in 1 .. n |->
                     IF i = 1 THEN "[" ELSE IF i = n THEN "]"
                     ELSE IF i % 2 = 0 THEN logs[i \div 2] ELSE ","]
  <1>3. TextOf(logs) = f
    BY <1>2 DEF TextOf
  <1>4. \A i \in 1 .. m : logs[i] \in Records
    BY <1>1, <1>2
  <1>5. \A i \in 1 .. n : f[i] \in Blocks
    BY <1>4, Places DEF Blocks, Marks
  <1>6. n \in Nat
    OBVIOUS
  <1>7. f \in Seq(Blocks) /\ Len(f) = n
    <2>1. f \in [1 .. n -> Blocks]
      BY <1>5
    <2> HIDE DEF f, n
    <2> QED BY <2>1, <1>6
  <1>8. /\ f[1] = "[" /\ f[n] = "]"
        /\ \A i \in 1 .. m : f[2 * i] = logs[i]
        /\ \A i \in 1 .. m - 1 : f[2 * i + 1] = ","
    <2>1. f[1] = "[" /\ f[n] = "]"
      BY Places
    <2>2. \A i \in 1 .. m : f[2 * i] = logs[i]
      <3> TAKE i \in 1 .. m
      <3>1. \A j \in 1 .. n : j # 1 /\ j # n /\ j % 2 = 0 => f[j] = logs[j \div 2]
        OBVIOUS
      <3> HIDE DEF f
      <3> QED BY <3>1, Places
    <2>3. \A i \in 1 .. m - 1 : f[2 * i + 1] = ","
      <3> TAKE i \in 1 .. m - 1
      <3>1. \A j \in 1 .. n : j # 1 /\ j # n /\ j % 2 # 0 => f[j] = ","
        OBVIOUS
      <3>2. 2 * i + 1 \in 1 .. n /\ 2 * i + 1 # 1 /\ 2 * i + 1 # n /\ (2 * i + 1) % 2 = 1
        BY Places
      <3>3. PICK j \in 1 .. n : j = 2 * i + 1
        BY <3>2
      <3>4. j # 1 /\ j # n /\ j % 2 # 0
        BY <3>2, <3>3
      <3> HIDE DEF f
      <3> QED BY <3>1, <3>3, <3>4
    <2> QED BY <2>1, <2>2, <2>3
  <1> HIDE DEF f
  <1> QED BY <1>1, <1>2, <1>3, <1>7, <1>8

(* A text that ends in a zero is not taken: the zero is no element and no  *)
(* separator (json_parser.cpp:112-144).                                    *)
LEMMA ZeroRefused ==
  ASSUME NEW text \in Seq(Blocks), text # << >>, text[Len(text)] = "nul"
  PROVE  ~Parses(text)
  <1>1. "nul" \notin Records
    BY TransferAssumption DEF Marks
  <1>2. PICK n \in Nat \ {0} : n = Len(text) /\ text[n] = "nul"
    BY EmptySeq
  <1>3. ~Element(text[n]) /\ ~Separates(text[n])
    BY <1>1, <1>2 DEF Element, Separates
  <1>4. CASE n = 1
    BY <1>2, <1>4 DEF Parses
  <1>5. CASE n = 2
    BY <1>2, <1>3, <1>5 DEF Parses
  <1>6. CASE n > 2
    <2>1. n \in 2 .. n /\ n # 2
      BY <1>6
    <2> QED BY <1>2, <1>3, <2>1 DEF Parses
  <1> QED BY <1>4, <1>5, <1>6

(* What loadFromFile gives its parser.                                     *)
LEMMA ContentFacts ==
  ASSUME TypeOK
  PROVE  /\ Content \in Seq(Blocks)
         /\ IsShort => Content # << >> /\ Content[Len(Content)] = "nul"
         /\ ~IsShort => Content = reader.got
  <1>1. PICK g \in Seq(Blocks) : g = reader.got
    BY DEF TypeOK
  <1>2. PICK n \in Nat : n = reader.size - Len(g)
    BY <1>1 DEF TypeOK
  <1>3. PICK z : z = Padding(n)
    OBVIOUS
  <1>4. z \in [1 .. n -> Blocks] /\ \A i \in 1 .. n : z[i] = "nul"
    BY <1>3 DEF Padding, Blocks, Marks
  <1>5. z \in Seq(Blocks) /\ Len(z) = n
    BY <1>4
  <1>6. Content = g \o z
    BY <1>1, <1>2, <1>3 DEF Content, Got
  <1>7. IsShort <=> n > 0
    BY <1>1, <1>2 DEF IsShort, Got, TypeOK
  <1>8. g \o z \in Seq(Blocks) /\ Len(g \o z) = Len(g) + n
    BY <1>5
  <1>9. ASSUME n > 0 PROVE (g \o z)[Len(g) + n] = "nul" /\ g \o z # << >>
    BY <1>4, <1>5, <1>8, <1>9
  <1>10. ASSUME n = 0 PROVE g \o z = g
    BY <1>5, <1>10
  <1> QED BY <1>1, <1>6, <1>7, <1>8, <1>9, <1>10

-----------------------------------------------------------------------------
(* A file that grows by what its stream has to write is still the beginning*)
(* of the text, and what was asked and read of it before stays true.       *)
LEMMA Grown ==
  ASSUME TypeOK, Begun, Coming, writer.at # "idle", writer.good,
         NEW k \in 0 .. Len(writer.buf), NEW f, f = file \o SubSeq(writer.buf, 1, k)
  PROVE  /\ f \in Seq(Blocks) /\ Len(f) = Len(file) + k
         /\ IsPrefixOf(f, Goal) /\ IsPrefixOf(file, f)
  <1>1. /\ Len(file) + Len(writer.buf) + Len(writer.todo) = Len(Goal)
        /\ \A i \in 1 .. Len(writer.buf) : writer.buf[i] = Goal[Len(file) + i]
    BY Zenon DEF Coming
  <1>2. PICK w \in Seq(Blocks) : w = writer.buf
    BY DEF TypeOK
  <1>3. k \in Nat /\ k <= Len(w) /\ Len(w) \in Nat
    BY <1>2
  <1>4. PICK b : b = SubSeq(w, 1, k)
    OBVIOUS
  <1>5. b \in Seq(Blocks) /\ Len(b) = k /\ \A i \in 1 .. k : b[i] = w[i]
    <2>1. \A i \in 1 .. k : w[i] \in Blocks
      BY <1>2, <1>3
    <2> QED BY <1>3, <1>4, <2>1, SubSeqProperties
  <1>6. PICK s \in Seq(Blocks) : s = file
    BY DEF TypeOK
  <1>7. /\ f \in Seq(Blocks) /\ Len(f) = Len(s) + k /\ Len(s) \in Nat
        /\ \A i \in 1 .. Len(f) : f[i] = IF i <= Len(s) THEN s[i] ELSE b[i - Len(s)]
    <2>1. f = s \o b
      BY <1>2, <1>4, <1>6
    <2>2. Len(s) \in Nat
      OBVIOUS
    <2>3. f \in Seq(Blocks) /\ Len(f) = Len(s) + Len(b)
      <3>1. s \o b \in Seq(Blocks) /\ Len(s \o b) = Len(s) + Len(b)
        BY Zenon, <1>5, ConcatProperties
      <3> QED BY <2>1, <3>1
    <2>4. \A i \in 1 .. Len(f) : f[i] = IF i <= Len(s) THEN s[i] ELSE b[i - Len(s)]
      <3>1. \A i \in 1 .. Len(s) + Len(b) :
              (s \o b)[i] = IF i <= Len(s) THEN s[i] ELSE b[i - Len(s)]
        BY <1>5, ConcatProperties
      <3> QED BY Zenon, <2>1, <2>3, <3>1
    <2> QED BY <1>5, <2>2, <2>3, <2>4
  <1>8. Len(s) <= Len(Goal) /\ \A i \in 1 .. Len(s) : s[i] = Goal[i]
    BY <1>6 DEF Begun, IsPrefixOf
  <1>9. \A i \in 1 .. Len(f) : f[i] = Goal[i]
    <2> SUFFICES ASSUME NEW i \in 1 .. Len(f) PROVE f[i] = Goal[i]
      OBVIOUS
    <2>1. CASE i <= Len(s)
      BY <1>7, <1>8, <2>1
    <2>2. CASE i > Len(s)
      <3>1. PICK j \in 1 .. k : i = Len(s) + j
        <4>1. i - Len(s) \in 1 .. k /\ i = Len(s) + (i - Len(s))
          BY <1>3, <1>7, <2>2
        <4> QED BY <4>1
      <3>2. f[i] = b[j]
        <4>1. i - Len(s) = j
          BY <1>3, <1>7, <3>1
        <4> QED BY <1>7, <2>2, <4>1
      <3>3. w[j] = Goal[Len(s) + j]
        <4>1. j \in 1 .. Len(w)
          BY <1>3
        <4> QED BY Zenon, <1>1, <1>2, <1>6, <4>1
      <3> QED BY <1>5, <3>1, <3>2, <3>3
    <2> QED BY <1>7, <2>1, <2>2
  <1>10. Len(f) <= Len(Goal)
    <2>1. Len(writer.todo) \in Nat
      BY DEF TypeOK
    <2>2. Len(Goal) = Len(s) + Len(w) + Len(writer.todo)
      BY Zenon, <1>1, <1>2, <1>6
    <2> DEFINE l == Len(writer.todo)
               g == Len(Goal)
    <2>3. Len(s) \in Nat /\ Len(w) \in Nat /\ l \in Nat /\ g = Len(s) + Len(w) + l
      BY <1>3, <1>7, <2>1, <2>2
    <2> HIDE DEF l, g
    <2>4. Len(f) <= g
      BY <1>3, <1>7, <2>3
    <2> QED BY <2>4 DEF g
  <1>11. DOMAIN f = 1 .. Len(f) /\ DOMAIN s = 1 .. Len(s)
    BY <1>6, <1>7
  <1> QED BY <1>3, <1>6, <1>7, <1>9, <1>10, <1>11 DEF IsPrefixOf

(* What the other side of the file has said before stays true.             *)
LEMMA ReaderKeeps ==
  ASSUME TypeOK, Behind, ReadsOneVersion, ShortReadNeverLoads,
         file' \in Seq(Blocks), IsPrefixOf(file, file'), target' = target,
         UNCHANGED <<reader, result, raced>>
  PROVE  Behind' /\ ReadsOneVersion' /\ ShortReadNeverLoads'
  <1>1. ReadsOneVersion' /\ ShortReadNeverLoads'
    BY DEF ReadsOneVersion, ShortReadNeverLoads
  <1>2. Behind'
    <2> SUFFICES ASSUME reader.at = "reading", ~raced
                 PROVE  reader.size <= Len(file') /\ IsPrefixOf(reader.got, file')
      BY DEF Behind
    <2>1. reader.size <= Len(file) /\ IsPrefixOf(reader.got, file)
      BY DEF Behind
    <2>2. /\ Len(file) \in Nat /\ Len(file') \in Nat /\ Len(reader.got) \in Nat
          /\ reader.size \in Nat /\ DOMAIN file = 1 .. Len(file)
          /\ DOMAIN reader.got = 1 .. Len(reader.got)
      BY DEF TypeOK
    <2> QED BY <2>1, <2>2 DEF IsPrefixOf
  <1> QED BY <1>1, <1>2

LEMMA ItselfIsPrefix == ASSUME NEW s \in Seq(Blocks) PROVE IsPrefixOf(s, s)
  BY DEF IsPrefixOf

-----------------------------------------------------------------------------
LEMMA InitInv == Init => IInv
  <1> SUFFICES ASSUME Init PROVE IInv
    OBVIOUS
  <1>1. target \in Logs /\ file = Goal
    BY DEF Init, Goal
  <1>2. file \in Seq(Blocks) /\ Goal \in Seq(Blocks)
    BY <1>1, TextFacts DEF Goal
  <1>3. TypeOK
    <2>1. Len(<< >>) = 0 /\ << >> \in Seq(Blocks) /\ << >> \in Seq(Records)
      OBVIOUS
    <2>2. /\ writer \in [at : {"idle", "writing", "closing"},
                 fn : {"saveToFile", "writeStringToFile"},
                 todo : Seq(Blocks), buf : Seq(Blocks), good : BOOLEAN,
                 told : {"nothing", "done", "failed"}]
          /\ Len(writer.buf) <= BufferSize
      BY <2>1, TransferAssumption DEF Init, IdleWriter
    <2>3. /\ reader \in [at : {"idle", "reading"}, fn : {"loadFromFile", "readFileToString"},
                 size : Nat, got : Seq(Blocks)]
          /\ Len(reader.got) <= reader.size
      BY <2>1 DEF Init, IdleReader
    <2>4. result \in [what : {"none", "records", "string", "thrown"}, text : Seq(Blocks),
                 records : Seq(Records), short : BOOLEAN]
      BY <2>1 DEF Init, NoResult
    <2>5. raced \in BOOLEAN
      BY DEF Init
    <2> QED BY <1>1, <1>2, <2>2, <2>3, <2>4, <2>5 DEF TypeOK
  <1>4. Begun
    BY <1>1, <1>2, ItselfIsPrefix DEF Begun
  <1>5. Coming /\ Behind /\ ReadsOneVersion /\ ShortReadNeverLoads
    BY DEF Init, Coming, Behind, ReadsOneVersion, ShortReadNeverLoads,
           IdleWriter, IdleReader, NoResult
  <1>6. Told
    BY DEF Init, Told, IdleWriter
  <1> QED BY <1>3, <1>4, <1>5, <1>6 DEF IInv

LEMMA NothingIsText ==
  << >> \in Seq(Blocks) /\ << >> \in Seq(Records) /\ Len(<< >>) = 0
  OBVIOUS

LEMMA BusyIsNotIdle == "closing" # "idle" /\ "writing" # "idle"
  OBVIOUS

(* The open empties the file: everything is still to come.                 *)
LEMMA OpensInv ==
  ASSUME NEW fn \in {"saveToFile", "writeStringToFile"}, NEW logs \in Logs
  PROVE  IInv /\ Opens(fn, logs) => IInv'
  <1> SUFFICES ASSUME IInv, Opens(fn, logs) PROVE IInv'
    OBVIOUS
  <1>1. /\ file' = << >> /\ target' = logs /\ raced' = TRUE
        /\ writer' = [at |-> "writing", fn |-> fn, todo |-> TextOf(logs), buf |-> << >>,
                      good |-> TRUE, told |-> "nothing"]
        /\ UNCHANGED <<reader, result>>
    BY DEF Opens, IdleWriter
  <1>2. TextOf(logs) \in Seq(Blocks) /\ Goal' = TextOf(logs) /\ Len(TextOf(logs)) \in Nat
    <2>1. Goal' = TextOf(logs)
      BY <1>1 DEF Goal
    <2>2. TextOf(logs) \in Seq(Blocks)
      BY TextFacts
    <2> QED BY <2>1, <2>2
  <1>3. TypeOK'
    BY <1>1, <1>2, TransferAssumption DEF IInv, TypeOK
  <1>4. Begun'
    BY <1>1, <1>2 DEF Begun, IsPrefixOf
  <1>5. Coming'
    BY <1>1, <1>2 DEF Coming
  <1>6. Told'
    BY <1>1 DEF Told
  <1>7. Behind' /\ ReadsOneVersion' /\ ShortReadNeverLoads'
    BY <1>1 DEF IInv, Behind, ReadsOneVersion, ShortReadNeverLoads
  <1> QED BY <1>3, <1>4, <1>5, <1>6, <1>7 DEF IInv

(* The steps of a writer that do not touch the file.                       *)
LEMMA FileStays ==
  ASSUME IInv, UNCHANGED <<file, target, reader, result, raced>>
  PROVE  /\ Begun' /\ Behind' /\ ReadsOneVersion' /\ ShortReadNeverLoads'
         /\ Goal' = Goal
  <1>1. file \in Seq(Blocks) /\ file' \in Seq(Blocks) /\ IsPrefixOf(file, file')
    BY ItselfIsPrefix DEF IInv, TypeOK
  <1> QED BY <1>1, ReaderKeeps DEF IInv, Begun, Goal

LEMMA OpenRefusedInv ==
  ASSUME NEW fn \in {"saveToFile", "writeStringToFile"}
  PROVE  IInv /\ OpenRefused(fn) => IInv'
  <1> SUFFICES ASSUME IInv, OpenRefused(fn) PROVE IInv'
    OBVIOUS
  <1>1. /\ UNCHANGED <<file, target, reader, result, raced>>
        /\ writer' = [at |-> "idle", fn |-> fn, todo |-> << >>, buf |-> << >>,
                      good |-> TRUE, told |-> "failed"]
    BY DEF OpenRefused, IdleWriter
  <1>2. TypeOK' /\ Coming' /\ Told'
    BY <1>1, TransferAssumption DEF IInv, TypeOK, Coming, Told
  <1> QED BY <1>1, <1>2, FileStays DEF IInv

LEMMA WriterDiesInv == IInv /\ WriterDies => IInv'
  <1> SUFFICES ASSUME IInv, WriterDies PROVE IInv'
    OBVIOUS
  <1>1. /\ UNCHANGED <<file, target, reader, result, raced>>
        /\ writer' = [at |-> "idle", fn |-> "saveToFile", todo |-> << >>, buf |-> << >>,
                      good |-> TRUE, told |-> "nothing"]
    BY DEF WriterDies, IdleWriter
  <1>2. TypeOK' /\ Coming' /\ Told'
    BY <1>1, TransferAssumption DEF IInv, TypeOK, Coming, Told
  <1> QED BY <1>1, <1>2, FileStays DEF IInv

(* A block moves from what is to be printed to the end of the buffer.      *)
LEMMA BufferInv == IInv /\ Buffer => IInv'
  <1> SUFFICES ASSUME IInv, Buffer PROVE IInv'
    OBVIOUS
  <1>1. PICK b \in Seq(Blocks), d \in Seq(Blocks) : b = writer.buf /\ d = writer.todo
    BY DEF IInv, TypeOK
  <1>2. /\ UNCHANGED <<file, target, reader, result, raced>>
        /\ d # << >> /\ Len(b) < BufferSize /\ writer.at = "writing"
    BY <1>1 DEF Buffer
  <1>3. PICK x \in Seq(Blocks), y \in Seq(Blocks) : x = Append(b, Head(d)) /\ y = Tail(d)
    <2>1. Head(d) \in Blocks /\ Tail(d) \in Seq(Blocks)
      BY <1>2
    <2>2. Append(b, Head(d)) \in Seq(Blocks)
      BY <2>1
    <2> QED BY <2>1, <2>2
  <1>4. /\ writer'.at = "writing" /\ writer'.fn = writer.fn /\ writer'.todo = y
        /\ writer'.buf = x /\ writer'.good = writer.good /\ writer'.told = writer.told
        /\ writer' \in [at : {"idle", "writing", "closing"},
                 fn : {"saveToFile", "writeStringToFile"},
                 todo : Seq(Blocks), buf : Seq(Blocks), good : BOOLEAN,
                 told : {"nothing", "done", "failed"}]
    BY <1>1, <1>2, <1>3 DEF Buffer, IInv, TypeOK
  <1>5. /\ Len(b) \in Nat /\ Len(d) \in Nat \ {0}
        /\ Len(x) = Len(b) + 1 /\ Len(y) = Len(d) - 1
        /\ \A i \in 1 .. Len(b) : x[i] = b[i]
        /\ x[Len(b) + 1] = d[1]
        /\ \A i \in 1 .. Len(y) : y[i] = d[i + 1]
    BY <1>2, <1>3, EmptySeq
  <1>6. TypeOK'
    BY <1>2, <1>4, <1>5, TransferAssumption DEF IInv, TypeOK
  <1>7. Coming'
    <2> SUFFICES ASSUME writer'.good
                 PROVE  /\ Len(file) + Len(x) + Len(y) = Len(Goal)
                        /\ \A i \in 1 .. Len(x) : x[i] = Goal[Len(file) + i]
                        /\ \A i \in 1 .. Len(y) : y[i] = Goal[Len(file) + Len(x) + i]
      BY <1>2, <1>4, FileStays DEF Coming
    <2>1. /\ Len(file) + Len(b) + Len(d) = Len(Goal)
          /\ \A i \in 1 .. Len(b) : b[i] = Goal[Len(file) + i]
          /\ \A i \in 1 .. Len(d) : d[i] = Goal[Len(file) + Len(b) + i]
      BY Zenon, <1>1, <1>2, <1>4 DEF IInv, Coming
    <2>2. Len(file) \in Nat
      BY DEF IInv, TypeOK
    <2> HIDE DEF Goal
    <2>3. Len(file) + Len(x) + Len(y) = Len(Goal)
      <3>1. Len(file) + Len(x) + Len(y) = Len(file) + Len(b) + Len(d)
        BY <1>5, <2>2
      <3> QED BY Zenon, <2>1, <3>1
    <2>4. ASSUME NEW i \in 1 .. Len(x) PROVE x[i] = Goal[Len(file) + i]
      <3>1. CASE i = Len(b) + 1
        <4>1. 1 \in 1 .. Len(d) /\ Len(file) + Len(b) + 1 = Len(file) + i
          BY <1>5, <2>2, <3>1
        <4> QED BY <1>5, <2>1, <3>1, <4>1
      <3>2. CASE i # Len(b) + 1
        <4>1. i \in 1 .. Len(b)
          BY <1>5, <3>2
        <4> QED BY <1>5, <2>1, <4>1
      <3> QED BY <3>1, <3>2
    <2>5. ASSUME NEW i \in 1 .. Len(y) PROVE y[i] = Goal[Len(file) + Len(x) + i]
      <3>1. i + 1 \in 1 .. Len(d) /\ Len(file) + Len(b) + (i + 1) = Len(file) + Len(x) + i
        BY <1>5, <2>2
      <3> QED BY <1>5, <2>1, <3>1
    <2> QED BY <2>3, <2>4, <2>5
  <1>8. Told'
    BY <1>2, <1>4 DEF IInv, Told
  <1> QED BY <1>2, <1>6, <1>7, <1>8, FileStays DEF IInv

(* What a flush or a close does to the file when the stream is good.       *)
LEMMA FileGrows ==
  ASSUME IInv, writer.at # "idle", writer.good, NEW k \in 0 .. Len(writer.buf),
         file' = file \o SubSeq(writer.buf, 1, k),
         UNCHANGED <<target, reader, result, raced>>
  PROVE  /\ file' \in Seq(Blocks) /\ Len(file') = Len(file) + k /\ Goal' = Goal
         /\ Begun' /\ Behind' /\ ReadsOneVersion' /\ ShortReadNeverLoads'
  <1>1. /\ file' \in Seq(Blocks) /\ Len(file') = Len(file) + k
        /\ IsPrefixOf(file', Goal) /\ IsPrefixOf(file, file')
    <2> HIDE DEF Goal
    <2> QED BY Grown DEF IInv
  <1>2. Goal' = Goal
    BY DEF Goal
  <1>3. Behind' /\ ReadsOneVersion' /\ ShortReadNeverLoads'
    BY <1>1, ReaderKeeps DEF IInv
  <1> QED BY <1>1, <1>2, <1>3 DEF Begun

(* A full buffer is written, or a part of it and the stream is bad.        *)
LEMMA FlushInv == IInv /\ Flush => IInv'
  <1> SUFFICES ASSUME IInv, Flush PROVE IInv'
    OBVIOUS
  <1> DEFINE b == writer.buf
  <1>1. /\ writer.at = "writing" /\ writer.good
        /\ UNCHANGED <<target, reader, result, raced>>
        /\ b \in Seq(Blocks) /\ Len(b) \in Nat
    BY DEF Flush, IInv, TypeOK
  <1>2. CASE file' = file \o b /\ writer' = [writer EXCEPT !.buf = << >>]
    <2>1. SubSeq(b, 1, Len(b)) = b /\ Len(b) \in 0 .. Len(b)
      BY <1>1, SubSeqFull
    <2>2. /\ file' \in Seq(Blocks) /\ Len(file') = Len(file) + Len(b) /\ Goal' = Goal
          /\ Begun' /\ Behind' /\ ReadsOneVersion' /\ ShortReadNeverLoads'
      BY <1>1, <1>2, <2>1, FileGrows
    <2>3. /\ writer'.at = "writing" /\ writer'.fn = writer.fn /\ writer'.todo = writer.todo
          /\ writer'.buf = << >> /\ writer'.told = writer.told /\ writer'.good = writer.good
          /\ writer' \in [at : {"idle", "writing", "closing"},
                 fn : {"saveToFile", "writeStringToFile"},
                 todo : Seq(Blocks), buf : Seq(Blocks), good : BOOLEAN,
                 told : {"nothing", "done", "failed"}]
      BY <1>1, <1>2, NothingIsText DEF IInv, TypeOK
    <2>4. TypeOK'
      BY <1>1, <2>2, <2>3, TransferAssumption DEF IInv, TypeOK
    <2>5. Coming'
      <3>1. /\ Len(file) + Len(b) + Len(writer.todo) = Len(Goal)
            /\ \A i \in 1 .. Len(writer.todo) :
                 writer.todo[i] = Goal[Len(file) + Len(b) + i]
        BY Zenon, <1>1 DEF IInv, Coming
      <3>2. Len(file) \in Nat /\ Len(file') + Len(<< >>) = Len(file) + Len(b)
        BY <1>1, <2>2 DEF IInv, TypeOK
      <3>3. /\ Len(file') + Len(writer'.buf) + Len(writer'.todo) = Len(Goal')
            /\ \A i \in 1 .. Len(writer'.todo) :
                 writer'.todo[i] = Goal'[Len(file') + Len(writer'.buf) + i]
        BY Zenon, <2>2, <2>3, <3>1, <3>2
      <3>4. \A i \in 1 .. Len(writer'.buf)  : writer'.buf[i] = Goal'[Len(file') + i]
        BY <2>3
      <3> QED BY Zenon, <3>3, <3>4 DEF Coming
    <2>6. Told'
      BY <1>1, <2>3 DEF IInv, Told
    <2> QED BY <2>2, <2>4, <2>5, <2>6 DEF IInv
  <1>3. ASSUME NEW k \in 0 .. Len(b) - 1, file' = file \o SubSeq(b, 1, k),
               writer' = [writer EXCEPT !.good = FALSE]
        PROVE  IInv'
    <2>1. k \in 0 .. Len(b)
      BY <1>1
    <2>2. /\ file' \in Seq(Blocks) /\ Len(file') = Len(file) + k /\ Goal' = Goal
          /\ Begun' /\ Behind' /\ ReadsOneVersion' /\ ShortReadNeverLoads'
      BY <1>1, <1>3, <2>1, FileGrows
    <2>3. /\ writer'.at = "writing" /\ writer'.good = FALSE /\ writer'.buf = b
          /\ writer'.told = writer.told
          /\ writer' \in [at : {"idle", "writing", "closing"},
                 fn : {"saveToFile", "writeStringToFile"},
                 todo : Seq(Blocks), buf : Seq(Blocks), good : BOOLEAN,
                 told : {"nothing", "done", "failed"}]
      BY <1>1, <1>3 DEF IInv, TypeOK
    <2>4. TypeOK'
      BY <1>1, <2>2, <2>3 DEF IInv, TypeOK
    <2>5. Coming'
      BY <2>3 DEF Coming
    <2>6. Told'
      BY <1>1, <2>3 DEF IInv, Told
    <2> QED BY <2>2, <2>4, <2>5, <2>6 DEF IInv
  <1> QED BY <1>2, <1>3 DEF Flush

(* What the program is told: with a good stream nothing is left to print,  *)
(* and what is not in the file is in the buffer.                           *)
LEMMA FinishInv == IInv /\ Finish => IInv'
  <1> SUFFICES ASSUME IInv, Finish PROVE IInv'
    OBVIOUS
  <1>1. /\ UNCHANGED <<file, target, reader, result, raced>> /\ writer.at = "writing"
        /\ writer.todo = << >> \/ ~writer.good
        /\ writer' = [writer EXCEPT !.at = "closing", !.told = Tells]
    BY DEF Finish
  <1>2. Begun' /\ Behind' /\ ReadsOneVersion' /\ ShortReadNeverLoads' /\ Goal' = Goal
    BY <1>1, FileStays
  <1>3. /\ writer'.at = "closing" /\ writer'.fn = writer.fn /\ writer'.todo = writer.todo
        /\ writer'.buf = writer.buf /\ writer'.told = Tells /\ writer'.good = writer.good
        /\ writer' \in [at : {"idle", "writing", "closing"},
                 fn : {"saveToFile", "writeStringToFile"},
                 todo : Seq(Blocks), buf : Seq(Blocks), good : BOOLEAN,
                 told : {"nothing", "done", "failed"}]
    BY <1>1 DEF IInv, TypeOK, Tells
  <1>4. TypeOK'
    BY <1>1, <1>3 DEF IInv, TypeOK
  <1>5. Coming'
    BY Zenon, <1>1, <1>2, <1>3, BusyIsNotIdle DEF IInv, Coming
  <1>6. Told'
    <2>1. writer'.at = "closing" /\ writer'.good => writer'.todo = << >>
      BY <1>1, <1>3
    <2>2. ASSUME writer'.told = "done", writer'.fn = "writeStringToFile"
          PROVE  writer'.good /\ Len(file') + BufferSize >= Len(Goal')
      <3>1. writer.good
        BY <1>3, <2>2 DEF Tells
      <3>2. writer.todo = << >>
        BY <1>1, <3>1
      <3>3. Len(file) + Len(writer.buf) + Len(writer.todo) = Len(Goal)
        BY Zenon, <1>1, <3>1, BusyIsNotIdle DEF IInv, Coming
      <3>4. /\ Len(file) \in Nat /\ Len(writer.buf) \in Nat /\ Len(writer.buf) <= BufferSize
            /\ Len(writer.todo) = 0
        BY <3>2 DEF IInv, TypeOK
      <3> HIDE DEF Goal
      <3>5. Len(file) + Len(writer.buf) + Len(writer.todo) <= Len(file) + BufferSize
        BY <3>4, TransferAssumption
      <3>6. Len(Goal) <= Len(file) + BufferSize
        BY Zenon, <3>3, <3>5
      <3>7. Len(Goal) \in Nat
        BY <3>3, <3>4
      <3>8. Len(file) + BufferSize >= Len(Goal)
        BY <3>4, <3>6, <3>7, TransferAssumption
      <3> QED BY Zenon, <1>1, <1>2, <1>3, <3>1, <3>8
    <2> QED BY <1>3, <2>1, <2>2 DEF Told
  <1> QED BY <1>2, <1>4, <1>5, <1>6 DEF IInv

(* The close: some of the buffer comes to the file, and nobody is told.    *)
LEMMA CloseInv == IInv /\ Close => IInv'
  <1> SUFFICES ASSUME IInv, Close PROVE IInv'
    OBVIOUS
  <1>1. /\ UNCHANGED <<target, reader, result, raced>> /\ writer.at = "closing"
        /\ writer' = [writer EXCEPT !.at = "idle", !.todo = << >>, !.buf = << >>]
    BY DEF Close
  <1>2. PICK k \in 0 .. Len(writer.buf) :
          file' = IF writer.good THEN file \o SubSeq(writer.buf, 1, k) ELSE file
    BY DEF Close
  <1>3. /\ writer'.at = "idle" /\ writer'.buf = << >>
        /\ writer'.told = writer.told /\ writer'.fn = writer.fn
        /\ writer' \in [at : {"idle", "writing", "closing"},
                 fn : {"saveToFile", "writeStringToFile"},
                 todo : Seq(Blocks), buf : Seq(Blocks), good : BOOLEAN,
                 told : {"nothing", "done", "failed"}]
    BY <1>1, NothingIsText DEF IInv, TypeOK
  <1>4. Len(file) \in Nat /\ k \in Nat
    BY DEF IInv, TypeOK
  <1>5. /\ file' \in Seq(Blocks) /\ Goal' = Goal /\ Len(file') >= Len(file)
        /\ Begun' /\ Behind' /\ ReadsOneVersion' /\ ShortReadNeverLoads'
    <2>1. CASE writer.good
      BY <1>1, <1>2, <1>4, <2>1, FileGrows
    <2>2. CASE ~writer.good
      <3>1. file' = file
        BY <1>2, <2>2
      <3> QED BY <1>1, <1>4, <3>1, FileStays DEF IInv, TypeOK
    <2> QED BY <2>1, <2>2
  <1>6. TypeOK'
    BY <1>1, <1>3, <1>5, TransferAssumption DEF IInv, TypeOK
  <1>7. Coming'
    BY <1>3 DEF Coming
  <1>8. Told'
    <2>1. ASSUME writer'.told = "done", writer'.fn = "writeStringToFile"
          PROVE  Len(file') + BufferSize >= Len(Goal')
      <3>1. Len(file) + BufferSize >= Len(Goal)
        BY <1>3, <2>1 DEF IInv, Told
      <3>2. target \in Logs
        BY DEF IInv, TypeOK
      <3>3. Len(Goal) \in Nat
        <4>1. Goal \in Seq(Blocks)
          BY <3>2, TextFacts DEF Goal
        <4> HIDE DEF Goal
        <4> QED BY <4>1
      <3> HIDE DEF Goal
      <3>4. Len(file') + BufferSize >= Len(Goal)
        BY <1>4, <1>5, <3>1, <3>3, TransferAssumption
      <3> QED BY Zenon, <1>5, <3>4
    <2> QED BY <1>3, <2>1 DEF Told
  <1> QED BY <1>5, <1>6, <1>7, <1>8 DEF IInv

-----------------------------------------------------------------------------
(* The reader's steps leave the writer and the file alone.                 *)
LEMMA WriterStays ==
  ASSUME IInv, UNCHANGED <<file, target, writer>>
  PROVE  Begun' /\ Coming' /\ Told'
  BY DEF IInv, Begun, Coming, Told, Goal

LEMMA AskSizeInv ==
  ASSUME NEW fn \in {"loadFromFile", "readFileToString"}
  PROVE  IInv /\ AskSize(fn) => IInv'
  <1> SUFFICES ASSUME IInv, AskSize(fn) PROVE IInv'
    OBVIOUS
  <1>1. /\ UNCHANGED <<file, target, writer>> /\ raced' = FALSE /\ result' = NoResult
        /\ reader' = [at |-> "reading", fn |-> fn, size |-> Len(file), got |-> << >>]
    BY DEF AskSize
  <1>2. TypeOK'
    <2>1. /\ reader' \in [at : {"idle", "reading"}, fn : {"loadFromFile", "readFileToString"},
                 size : Nat, got : Seq(Blocks)]
          /\ Len(reader'.got) <= reader'.size
      BY <1>1, NothingIsText DEF IInv, TypeOK
    <2>2. result' \in [what : {"none", "records", "string", "thrown"}, text : Seq(Blocks),
                 records : Seq(Records), short : BOOLEAN]
      BY <1>1, NothingIsText DEF NoResult
    <2>3. raced' \in BOOLEAN
      BY <1>1
    <2> QED BY <1>1, <2>1, <2>2, <2>3 DEF IInv, TypeOK
  <1>3. Behind'
    BY <1>1 DEF IInv, TypeOK, Behind, IsPrefixOf
  <1>4. ReadsOneVersion' /\ ShortReadNeverLoads'
    BY <1>1 DEF ReadsOneVersion, ShortReadNeverLoads, NoResult
  <1> QED BY <1>1, <1>2, <1>3, <1>4, WriterStays DEF IInv

LEMMA ReadBlockInv == IInv /\ ReadBlock => IInv'
  <1> SUFFICES ASSUME IInv, ReadBlock PROVE IInv'
    OBVIOUS
  <1>1. PICK g \in Seq(Blocks), s \in Seq(Blocks) : g = reader.got /\ s = file
    BY DEF IInv, TypeOK
  <1>2. Len(g) \in Nat /\ Len(s) \in Nat /\ reader.size \in Nat
    BY DEF IInv, TypeOK
  <1>3. /\ UNCHANGED <<file, target, writer, result, raced>> /\ reader.at = "reading"
        /\ Len(g) < reader.size /\ Len(g) < Len(s)
        /\ reader' = [reader EXCEPT !.got = Append(g, s[Len(g) + 1])]
    BY <1>1, <1>2 DEF ReadBlock, Got, AtEnd
  <1>4. Len(g) + 1 \in 1 .. Len(s) /\ s[Len(g) + 1] \in Blocks
    BY <1>2, <1>3
  <1>5. PICK x \in Seq(Blocks) : x = Append(g, s[Len(g) + 1])
    <2>1. PICK e \in Blocks : e = s[Len(g) + 1]
      BY <1>4
    <2>2. Append(g, e) \in Seq(Blocks)
      OBVIOUS
    <2> QED BY <2>1, <2>2
  <1>6. /\ Len(x) = Len(g) + 1 /\ \A i \in 1 .. Len(g) : x[i] = g[i]
        /\ x[Len(g) + 1] = s[Len(g) + 1]
    BY <1>4, <1>5
  <1>7. /\ reader'.got = x /\ reader'.size = reader.size /\ reader'.at = "reading"
        /\ reader' \in [at : {"idle", "reading"}, fn : {"loadFromFile", "readFileToString"},
                 size : Nat, got : Seq(Blocks)]
    BY <1>3, <1>5 DEF IInv, TypeOK
  <1>8. TypeOK'
    BY <1>2, <1>3, <1>6, <1>7 DEF IInv, TypeOK
  <1>9. Behind'
    <2> SUFFICES ASSUME ~raced PROVE reader.size <= Len(s) /\ IsPrefixOf(x, s)
      BY <1>1, <1>3, <1>7 DEF Behind
    <2>1. reader.size <= Len(s) /\ \A i \in 1 .. Len(g) : g[i] = s[i]
      BY <1>1, <1>3 DEF IInv, Behind, IsPrefixOf
    <2>2. \A i \in 1 .. Len(x) : x[i] = s[i]
      <3> TAKE i \in 1 .. Len(x)
      <3>1. CASE i = Len(g) + 1
        BY <1>6, <3>1
      <3>2. CASE i # Len(g) + 1
        <4>1. i \in 1 .. Len(g)
          BY <1>2, <1>6, <3>2
        <4> QED BY <1>6, <2>1, <4>1
      <3> QED BY <3>1, <3>2
    <2> QED BY <1>2, <1>3, <1>6, <2>1, <2>2 DEF IsPrefixOf
  <1>10. ReadsOneVersion' /\ ShortReadNeverLoads'
    BY <1>3 DEF IInv, ReadsOneVersion, ShortReadNeverLoads
  <1> QED BY <1>3, <1>8, <1>9, <1>10, WriterStays DEF IInv

(* What the parser takes, element by element.                              *)
LEMMA RecordsFacts ==
  ASSUME NEW text \in Seq(Blocks), Parses(text)
  PROVE  /\ RecordsIn(text) \in Seq(Records)
         /\ Len(RecordsIn(text)) = (Len(text) - 1) \div 2
         /\ \A i \in 1 .. Len(RecordsIn(text)) :
              2 * i \in 1 .. Len(text) /\ RecordsIn(text)[i] = text[2 * i]
  <1>1. PICK n \in Nat \ {0} : n = Len(text)
    BY EmptySeq DEF Parses
  <1>2. PICK m \in Nat : m = (n - 1) \div 2
    <2>1. (n - 1) \div 2 \in Nat
      OBVIOUS
    <2> QED BY <2>1
  <1>3. \A i \in 1 .. m : 2 * i \in 1 .. n /\ 2 * i \in 2 .. n /\ (2 * i) % 2 = 0
    <2> TAKE i \in 1 .. m
    <2>1. 2 * m <= n - 1
      BY <1>2
    <2>2. 2 * i \in 2 .. n
      BY <2>1
    <2>3. i \in Nat
      OBVIOUS
    <2>4. (2 * i) % 2 = 0
      BY <2>3
    <2> QED BY <2>2, <2>4
  <1>4. \A i \in 1 .. m : text[2 * i] \in Records
    <2>1. CASE n % 2 = 1
      <3>1. \A i \in 2 .. n : i % 2 = 0 => text[i] \in Records
        <4>1. ~(n = 2)
          BY <2>1
        <4> QED BY <1>1, <4>1 DEF Parses, Element
      <3> QED BY <1>3, <3>1
    <2>2. CASE n % 2 # 1
      <3>1. n = 2
        BY <1>1, <2>2 DEF Parses
      <3>2. m = 0
        BY <1>2, <3>1
      <3> QED BY <3>2
    <2> QED BY <2>1, <2>2
  <1> DEFINE f == [i \in 1 .. m |-> text[2 * i]]
  <1>5. RecordsIn(text) = f
    BY <1>1, <1>2 DEF RecordsIn
  <1>6. f \in [1 .. m -> Records] /\ \A i \in 1 .. m : f[i] = text[2 * i]
    BY <1>4
  <1> HIDE DEF f
  <1>7. f \in Seq(Records) /\ Len(f) = m
    BY <1>6
  <1> QED BY <1>1, <1>2, <1>3, <1>5, <1>6, <1>7

(* A whole text is taken, and gives the list it was printed from.          *)
LEMMA TextParses ==
  ASSUME NEW logs \in Logs
  PROVE  Parses(TextOf(logs)) /\ RecordsIn(TextOf(logs)) = logs
  <1>1. PICK t \in Seq(Blocks) : t = TextOf(logs)
    BY TextFacts
  <1>2. PICK m \in Nat \ {0} : m = Len(logs)
    BY TextFacts
  <1>3. /\ Len(t) = 2 * m + 1 /\ t[1] = "[" /\ t[2 * m + 1] = "]"
        /\ \A i \in 1 .. m : t[2 * i] = logs[i]
        /\ \A i \in 1 .. m - 1 : t[2 * i + 1] = ","
    BY <1>1, <1>2, TextFacts
  <1>4. logs \in Seq(Records) /\ \A i \in 1 .. m : logs[i] \in Records
    <2>1. logs \in Seq(Records)
      BY TextFacts
    <2> QED BY <1>2, <2>1
  <1>5. Parses(t)
    <2>1. (2 * m + 1) % 2 = 1
      OBVIOUS
    <2>1a. t # << >>
      <3>1. 2 * m + 1 # 0 /\ Len(<< >>) = 0
        OBVIOUS
      <3> QED BY Zenon, <1>3, <3>1
    <2>2. ASSUME NEW i \in 2 .. 2 * m + 1
          PROVE  IF i % 2 = 0 THEN Element(t[i])
                 ELSE Separates(t[i]) \/ (i = 2 * m + 1 /\ t[i] = "]")
      <3>1. PICK j \in 1 .. m : i = 2 * j \/ i = 2 * j + 1
        <4>1. i \div 2 \in 1 .. m /\ (i = 2 * (i \div 2) \/ i = 2 * (i \div 2) + 1)
          OBVIOUS
        <4> QED BY <4>1
      <3>2. CASE i = 2 * j
        <4>1. i % 2 = 0
          BY <3>2
        <4> QED BY <1>3, <1>4, <3>2, <4>1 DEF Element
      <3>3. CASE i = 2 * j + 1
        <4>1. i % 2 # 0
          BY <3>3
        <4>2. j = m \/ j \in 1 .. m - 1
          OBVIOUS
        <4> QED BY <1>3, <3>3, <4>1, <4>2 DEF Separates
      <3> QED BY <3>1, <3>2, <3>3
    <2> QED BY <1>3, <2>1, <2>1a, <2>2 DEF Parses
  <1>6. RecordsIn(t) = logs
    <2>2. /\ RecordsIn(t) \in Seq(Records) /\ Len(RecordsIn(t)) = m
          /\ \A i \in 1 .. m : RecordsIn(t)[i] = t[2 * i]
      <3>1. /\ RecordsIn(t) \in Seq(Records)
            /\ Len(RecordsIn(t)) = (Len(t) - 1) \div 2
            /\ \A i \in 1 .. Len(RecordsIn(t)) : RecordsIn(t)[i] = t[2 * i]
        BY <1>5, RecordsFacts
      <3>2. (Len(t) - 1) \div 2 = m
        <4>1. Len(t) - 1 = 2 * m
          <5>1. Len(t) = 2 * m + 1
            BY Zenon, <1>3
          <5>2. (2 * m + 1) - 1 = 2 * m
            OBVIOUS
          <5> QED BY Zenon, <5>1, <5>2
        <4>2. (2 * m) \div 2 = m
          OBVIOUS
        <4> QED BY Zenon, <4>1, <4>2
      <3> QED BY <3>1, <3>2
    <2>3. \A i \in 1 .. m : RecordsIn(t)[i] = logs[i]
      BY <1>3, <2>2
    <2> QED BY Zenon, <1>2, <1>4, <2>2, <2>3, SeqEqual
  <1> QED BY <1>1, <1>5, <1>6

(* The end of a read: loadFromFile's text is parsed as it is, padding and  *)
(* all; readFileToString looks at the count.                               *)
LEMMA Answered ==
  ASSUME IInv
  PROVE  /\ Returned \in [what : {"none", "records", "string", "thrown"}, text : Seq(Blocks),
                 records : Seq(Records), short : BOOLEAN]
         /\ Returned.short => Returned.what = "thrown"
         /\ Returned.what = "string" => ~IsShort /\ Returned.text = reader.got
         /\ Returned.what = "records" =>
              /\ ~IsShort /\ Parses(reader.got)
              /\ Returned.records = RecordsIn(reader.got)
  <1>1. TypeOK /\ IsShort \in BOOLEAN
    BY DEF IInv, IsShort
  <1>2. /\ Content \in Seq(Blocks)
        /\ IsShort => Content # << >> /\ Content[Len(Content)] = "nul"
        /\ ~IsShort => Content = reader.got
    BY <1>1, ContentFacts
  <1>3. CASE reader.fn = "readFileToString" /\ IsShort
    <2>1. Returned = [what |-> "thrown", text |-> << >>, records |-> << >>, short |-> TRUE]
      BY <1>3 DEF Returned, NoResult
    <2> QED BY <2>1, NothingIsText
  <1>4. CASE reader.fn = "readFileToString" /\ ~IsShort
    <2>1. Returned = [what |-> "string", text |-> Content, records |-> << >>, short |-> FALSE]
      BY <1>4 DEF Returned, NoResult
    <2> QED BY <1>2, <1>4, <2>1, NothingIsText
  <1>5. CASE reader.fn # "readFileToString" /\ Parses(Content)
    <2>1. ~IsShort /\ Content = reader.got
      BY <1>2, <1>5, ZeroRefused
    <2>2. Returned = [what |-> "records", text |-> << >>, records |-> RecordsIn(Content),
                      short |-> FALSE]
      <3>1. IsShort = FALSE
        BY <1>1, <2>1
      <3>2. Returned = [NoResult EXCEPT !.what = "records", !.records = RecordsIn(Content),
                                        !.short = FALSE]
        BY Zenon, <1>5, <3>1 DEF Returned
      <3> QED BY <3>2 DEF NoResult
    <2>3. RecordsIn(Content) \in Seq(Records)
      BY <1>2, <1>5, RecordsFacts
    <2> QED BY <1>5, <2>1, <2>2, <2>3, NothingIsText
  <1>6. CASE reader.fn # "readFileToString" /\ ~Parses(Content)
    <2>1. Returned = [what |-> "thrown", text |-> << >>, records |-> << >>, short |-> IsShort]
      BY <1>6 DEF Returned, NoResult
    <2>2. Returned \in [what : {"none", "records", "string", "thrown"}, text : Seq(Blocks),
                 records : Seq(Records), short : BOOLEAN]
      BY <1>1, <2>1, NothingIsText
    <2>3. Returned.what = "thrown"
      BY <2>1
    <2> QED BY <2>2, <2>3
  <1> QED BY <1>3, <1>4, <1>5, <1>6

(* What is read of a file that was not emptied meanwhile.                  *)
LEMMA GotIsPrefix ==
  ASSUME IInv, reader.at = "reading", ~raced
  PROVE  IsPrefixOf(reader.got, Goal)
  <1>1. IsPrefixOf(reader.got, file) /\ IsPrefixOf(file, Goal)
    BY DEF IInv, Behind, Begun
  <1>2. target \in Logs /\ file \in Seq(Blocks) /\ reader.got \in Seq(Blocks)
    BY DEF IInv, TypeOK
  <1>3. PICK g \in Seq(Blocks), s \in Seq(Blocks), u \in Seq(Blocks) :
          g = reader.got /\ s = file /\ u = Goal
    BY <1>2, TextFacts DEF Goal
  <1>4. /\ Len(g) <= Len(s) /\ \A i \in 1 .. Len(g) : g[i] = s[i]
        /\ Len(s) <= Len(u) /\ \A i \in 1 .. Len(s) : s[i] = u[i]
    BY <1>1, <1>3 DEF IsPrefixOf
  <1>5. Len(g) <= Len(u) /\ \A i \in 1 .. Len(g) : g[i] = u[i]
    BY <1>4
  <1> QED BY <1>3, <1>5 DEF IsPrefixOf

LEMMA ReturnInv == IInv /\ Return => IInv'
  <1> SUFFICES ASSUME IInv, Return PROVE IInv'
    OBVIOUS
  <1>1. /\ UNCHANGED <<file, target, writer, raced>> /\ result' = Returned
        /\ reader.at = "reading"
        /\ reader' = [at |-> "idle", fn |-> reader.fn, size |-> 0, got |-> << >>]
    BY DEF Return, IdleReader
  <1>2. TypeOK'
    BY <1>1, Answered, NothingIsText DEF IInv, TypeOK
  <1>3. Behind' /\ ShortReadNeverLoads'
    BY <1>1, Answered DEF Behind, ShortReadNeverLoads
  <1>4. ReadsOneVersion'
    <2> SUFFICES ASSUME ~raced
                 PROVE  /\ Returned.what = "records" => IsPrefixOf(Returned.records, target)
                        /\ Returned.what = "string" => IsPrefixOf(Returned.text, Goal)
      BY <1>1 DEF ReadsOneVersion, Goal
    <2>1. IsPrefixOf(reader.got, Goal)
      BY <1>1, GotIsPrefix
    <2>2. ASSUME Parses(reader.got) PROVE IsPrefixOf(RecordsIn(reader.got), target)
      <3>1. target \in Logs /\ reader.got \in Seq(Blocks)
        BY DEF IInv, TypeOK
      <3>2. PICK g \in Seq(Blocks), u \in Seq(Blocks) : g = reader.got /\ u = Goal
        BY <3>1, TextFacts DEF Goal
      <3>3. PICK m \in Nat \ {0} : m = Len(target)
        BY <3>1, TextFacts
      <3>4. Len(u) = 2 * m + 1 /\ \A i \in 1 .. m : u[2 * i] = target[i]
        BY <3>1, <3>2, <3>3, TextFacts DEF Goal
      <3>5. PICK r \in Seq(Records) : r = RecordsIn(g)
        BY <2>2, <3>2, RecordsFacts
      <3>6. /\ Len(r) = (Len(g) - 1) \div 2
            /\ \A i \in 1 .. Len(r) : 2 * i \in 1 .. Len(g) /\ r[i] = g[2 * i]
        BY <2>2, <3>2, <3>5, RecordsFacts
      <3>7. Len(g) <= Len(u) /\ \A i \in 1 .. Len(g) : g[i] = u[i]
        BY <2>1, <3>2 DEF IsPrefixOf
      <3>8. Len(r) <= m
        <4>1. Len(g) \in Nat /\ Len(g) - 1 <= 2 * m
          BY <3>4, <3>7
        <4> QED BY <3>6, <4>1
      <3>9. \A i \in 1 .. Len(r) : r[i] = target[i]
        <4> TAKE i \in 1 .. Len(r)
        <4>1. i \in 1 .. m /\ 2 * i \in 1 .. Len(g) /\ r[i] = g[2 * i]
          BY <3>6, <3>8
        <4>2. g[2 * i] = u[2 * i]
          BY <3>7, <4>1
        <4>3. u[2 * i] = target[i]
          BY <3>4, <4>1
        <4> QED BY <4>1, <4>2, <4>3
      <3> QED BY <3>2, <3>3, <3>5, <3>8, <3>9 DEF IsPrefixOf
    <2> QED BY <2>1, <2>2, Answered
  <1> QED BY <1>1, <1>2, <1>3, <1>4, WriterStays DEF IInv

LEMMA StutterInv == IInv /\ UNCHANGED vars => IInv'
  BY DEF IInv, TypeOK, Begun, Coming, Told, Behind, ReadsOneVersion,
         ShortReadNeverLoads, Goal, vars

LEMMA NextInv == IInv /\ [Next]_vars => IInv'
  <1> SUFFICES ASSUME IInv, [Next]_vars PROVE IInv'
    OBVIOUS
  <1>1. ASSUME NEW fn \in {"saveToFile", "writeStringToFile"}, NEW logs \in Logs,
               Opens(fn, logs)
        PROVE  IInv'
    BY <1>1, OpensInv
  <1>2. ASSUME NEW fn \in {"saveToFile", "writeStringToFile"}, OpenRefused(fn)
        PROVE  IInv'
    BY <1>2, OpenRefusedInv
  <1>3. CASE Buffer \/ Flush \/ Finish \/ Close \/ WriterDies
    BY <1>3, BufferInv, FlushInv, FinishInv, CloseInv, WriterDiesInv
  <1>4. ASSUME NEW fn \in {"loadFromFile", "readFileToString"}, AskSize(fn)
        PROVE  IInv'
    BY <1>4, AskSizeInv
  <1>5. CASE ReadBlock \/ Return
    BY <1>5, ReadBlockInv, ReturnInv
  <1>6. CASE UNCHANGED vars
    BY <1>6, StutterInv
  <1> QED BY <1>1, <1>2, <1>3, <1>4, <1>5, <1>6 DEF Next, Writes, Reads

(* The inductive invariant holds in every reachable state.                 *)
THEOREM Invariance == Spec => []IInv
  <1> QED BY InitInv, NextInv, PTL DEF Spec

(* Every variable has its type: no buffer is longer than the stream's, and *)
(* a reader never gets more blocks than it asked for                       *)
(* (json_parser.cpp:272-278, windows_utils.cpp:59-85).                     *)
THEOREM Typing == Spec => []TypeOK
  <1>1. IInv => TypeOK
    BY DEF IInv
  <1> QED BY <1>1, Invariance, PTL

(* loadFromFile does not look whether its read came short, and need not: a *)
(* text with zeros at its end is never taken for an array                  *)
(* (json_parser.cpp:276-294).                                              *)
THEOREM ShortReads == Spec => []ShortReadNeverLoads
  <1>1. IInv => ShortReadNeverLoads
    BY DEF IInv
  <1> QED BY <1>1, Invariance, PTL

(* What a read gives while a writer is at work, or has died, is the        *)
(* beginning of one list unless the file was emptied meanwhile             *)
(* (json_parser.cpp:264-295, windows_utils.cpp:59-74).                     *)
THEOREM OneVersion == Spec => []ReadsOneVersion
  <1>1. IInv => ReadsOneVersion
    BY DEF IInv
  <1> QED BY <1>1, Invariance, PTL

(* A writeStringToFile that returns true has left out no more than its last*)
(* buffer (windows_utils.cpp:77-85).                                       *)
THEOREM Writing == Spec => []DoneUpToLastBuffer
  <1>1. IInv => DoneUpToLastBuffer
    BY DEF IInv, Begun, Told, Goal, DoneUpToLastBuffer
  <1> QED BY <1>1, Invariance, PTL

(* A file that is whole when its size is asked is read whole, or has been  *)
(* emptied meanwhile (json_parser.cpp:270-277, windows_utils.cpp:65-73).   *)
THEOREM WholeReads == Spec => WholeFileIsReadWhole
  <1> DEFINE Whole == reader.at = "reading" /\ reader'.at = "idle" /\ ~raced
                        /\ reader.size = Len(TextOf(target)) =>
                      \/ result'.what = "records" /\ result'.records = target
                      \/ result'.what = "string" /\ result'.text = TextOf(target)
  <1>1. IInv /\ [Next]_vars => [Whole]_vars
    <2> SUFFICES ASSUME IInv, [Next]_vars, reader.at = "reading", reader'.at = "idle",
                        ~raced, reader.size = Len(Goal)
                 PROVE  \/ result'.what = "records" /\ result'.records = target
                        \/ result'.what = "string" /\ result'.text = Goal
      BY DEF Goal
    <2>1. Return
      <3>1. reader' # reader
        OBVIOUS
      <3>2. ASSUME NEW fn \in {"loadFromFile", "readFileToString"}, AskSize(fn)
            PROVE  FALSE
        BY <3>2 DEF AskSize
      <3>3. ReadBlock => reader'.at = "reading"
        BY DEF ReadBlock, IInv, TypeOK
      <3>4. Next
        BY <3>1 DEF vars
      <3>5. ~Writes
        BY <3>1 DEF Writes, Opens, OpenRefused, Buffer, Flush, Finish, Close, WriterDies
      <3> QED BY <3>2, <3>3, <3>4, <3>5 DEF Next, Reads
    <2>2. target \in Logs /\ reader.got \in Seq(Blocks) /\ file \in Seq(Blocks)
          /\ reader.size \in Nat
      BY DEF IInv, TypeOK
    <2>3. PICK g \in Seq(Blocks), u \in Seq(Blocks) : g = reader.got /\ u = Goal
      BY <2>2, TextFacts DEF Goal
    <2>4. Len(g) <= Len(u) /\ \A i \in 1 .. Len(g) : g[i] = u[i]
      BY <2>3, GotIsPrefix DEF IsPrefixOf
    <2>5. Len(g) = Len(u) /\ ~IsShort
      <3>1. reader.size = Len(u) /\ Len(u) <= Len(file)
        BY <2>3 DEF IInv, Behind
      <3>2. Len(g) = reader.size \/ Len(g) >= Len(file)
        BY <2>1, <2>3 DEF Return, ReadDone, AtEnd, Got
      <3>3. Len(g) = Len(u)
        BY <2>2, <2>4, <3>1, <3>2
      <3> QED BY <2>2, <2>3, <3>1, <3>3 DEF IsShort, Got
    <2>6. g = u
      BY <2>4, <2>5, SeqEqual
    <2>7. Content = Goal
      BY <2>3, <2>5, <2>6, ContentFacts DEF IInv
    <2>8. Parses(Goal) /\ RecordsIn(Goal) = target
      BY <2>2, TextParses DEF Goal
    <2>9. result' = Returned
      BY <2>1 DEF Return
    <2> HIDE DEF Goal
    <2>10. CASE reader.fn = "readFileToString"
      BY <2>5, <2>7, <2>9, <2>10 DEF Returned, NoResult
    <2>11. CASE reader.fn # "readFileToString"
      BY <2>5, <2>7, <2>8, <2>9, <2>11 DEF Returned, NoResult
    <2> QED BY <2>10, <2>11
  <1> QED BY <1>1, Invariance, PTL DEF Spec, WholeFileIsReadWhole
=============================================================================
