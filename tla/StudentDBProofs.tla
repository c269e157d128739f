--------------------------- MODULE StudentDBProofs ---------------------------
(***************************************************************************)
(* Proofs about the student database, for any number of runs, ids, faults  *)
(* and crashes.                                                            *)
(***************************************************************************)
EXTENDS StudentDB, SequenceLemmas

USE DEF history

(***************************************************************************)
(* The files.                                                              *)
(***************************************************************************)

LEMMA EmptyIsRecord == Empty \in Record
  BY DEF Record

LEMMA SlotType ==
  ASSUME NEW f \in Seq(Record), NEW i \in Nat
  PROVE  Slot(f, i) \in Record
  BY EmptyIsRecord DEF Slot

\* A write yields a file, with the new record at its offset and the other
\* slots as they were.
LEMMA WriteAtType ==
  ASSUME NEW f \in Seq(Record), NEW i \in Nat, NEW r \in Record
  PROVE  /\ WriteAt(f, i, r) \in Seq(Record)
         /\ Slot(WriteAt(f, i, r), i) = r
         /\ \A j \in Nat \ {i} : Slot(WriteAt(f, i, r), j) = Slot(f, j)
<1> DEFINE n == IF i < Len(f) THEN Len(f) ELSE i + 1
           g == WriteAt(f, i, r)
<1>1. n \in Nat /\ i < n /\ Len(f) <= n
  OBVIOUS
<1>2. g = [k \in 1..n |-> IF k = i + 1 THEN r ELSE Slot(f, k - 1)]
  BY DEF WriteAt
<1>3. \A k \in 1..n : g[k] \in Record
  <2> SUFFICES ASSUME NEW k \in 1..n PROVE g[k] \in Record
    OBVIOUS
  <2>1. k - 1 \in Nat
    BY <1>1
  <2> QED
    BY <2>1, <1>1, <1>2, SlotType
<1> HIDE DEF n, g
<1>4. g \in [1..n -> Record]
  BY <1>2, <1>3
<1>5. g \in Seq(Record) /\ Len(g) = n
  BY <1>1, <1>4
<1>6. Slot(g, i) = r
  BY <1>1, <1>2, <1>5 DEF Slot
<1>7. \A j \in Nat \ {i} : Slot(g, j) = Slot(f, j)
  BY <1>1, <1>2, <1>5 DEF Slot
<1> QED
  BY <1>5, <1>6, <1>7 DEF g

(***************************************************************************)
(* Types, and which descriptors a process has where it is.                 *)
(***************************************************************************)

Descriptors ==
  \A p \in Procs :
    /\ pc[p] \notin {"start", "exit", "done"} => fd[p] # 0 /\ db # 0
    /\ pc[p] \in {"xread", "xwrite"} => tfd[p] # 0
    /\ pc[p] = "write" => arg[p] \in Ids

Safe == TypeOK /\ Descriptors

LEMMA WrittenType ==
  ASSUME TypeOK, NEW p \in Procs, op[p] = "add" => arg[p] \in Ids
  PROVE  Written(p) \in Record
  BY DEF Written, Record, Empty

\* What a system call may do to the files: change one, or make a new one.
LEMMA SetFile ==
  ASSUME TypeOK, NEW n \in 1..Len(data), NEW f \in Seq(Record),
         data' = [data EXCEPT ![n] = f]
  PROVE  data' \in Seq(Seq(Record)) /\ Len(data') = Len(data)
  BY DEF TypeOK

LEMMA NewFile ==
  ASSUME TypeOK, data' = Append(data, <<>>)
  PROVE  data' \in Seq(Seq(Record)) /\ Len(data') = Len(data) + 1
<1>1. <<>> \in Seq(Record)
  OBVIOUS
<1> QED
  BY <1>1 DEF TypeOK

LEMMA FileType ==
  ASSUME TypeOK, NEW n \in 1..Len(data)
  PROVE  data[n] \in Seq(Record)
  BY DEF TypeOK

\* Where a process goes on.
LEMMA FinishType ==
  ASSUME TypeOK, NEW p \in Procs, NEW r \in Replies, Finish(p, r)
  PROVE  /\ pc' \in [Procs -> Calls] /\ reply' \in [Procs -> Replies]
         /\ pc' = [pc EXCEPT ![p] = "exit"]
  BY DEF TypeOK, Finish, Calls

LEMMA GotoType ==
  ASSUME TypeOK, NEW p \in Procs, NEW c \in Calls, Goto(p, c)
  PROVE  /\ pc' \in [Procs -> Calls] /\ reply' \in [Procs -> Replies]
         /\ pc' = [pc EXCEPT ![p] = c]
  BY DEF TypeOK, Goto

LEMMA RecordsType ==
  ASSUME NEW f \in Seq(Record)
  PROVE  Records(f) \in Nat
<1>1. IsFiniteSet({k \in 1..Len(f) : f[k] # Empty})
  BY FS_Interval, FS_Subset
<1> QED
  BY <1>1, FS_CardinalityType DEF Records

LEMMA CountedType ==
  ASSUME NEW f \in [Procs -> Nat], NEW p \in Procs
  PROVE  [f EXCEPT ![p] = @ + 1] \in [Procs -> Nat]
<1>1. f[p] + 1 \in Nat
  OBVIOUS
<1> QED
  BY <1>1

LEMMA InitSafe == Init => Safe
<1> SUFFICES ASSUME Init PROVE Safe
  OBVIOUS
<1>1. data \in Seq(Seq(Record)) /\ Len(data) = 0
  BY DEF Init
<1> QED
  BY <1>1, EmptyIsRecord, MaxIdAssumption
  DEF Init, Safe, TypeOK, Descriptors, Calls, Replies

\* A process under way has its file open, and a copying one both of them.
LEMMA OpenFiles ==
  ASSUME Safe, NEW p \in Procs, pc[p] \notin {"start", "exit", "done"}
  PROVE  /\ fd[p] \in 1..Len(data) /\ data[fd[p]] \in Seq(Record)
         /\ db \in 1..Len(data)
         /\ pc[p] \in {"xread", "xwrite"} =>
              tfd[p] \in 1..Len(data) /\ data[tfd[p]] \in Seq(Record)
<1>1. Len(data) \in Nat /\ fd[p] \in 0..Len(data) /\ tfd[p] \in 0..Len(data)
      /\ db \in 0..Len(data)
  BY DEF Safe, TypeOK
<1>2. fd[p] # 0 /\ db # 0 /\ (pc[p] \in {"xread", "xwrite"} => tfd[p] # 0)
  BY DEF Safe, Descriptors
<1>3. fd[p] \in 1..Len(data) /\ db \in 1..Len(data)
      /\ (pc[p] \in {"xread", "xwrite"} => tfd[p] \in 1..Len(data))
  BY <1>1, <1>2
<1> QED
  BY <1>3, FileType DEF Safe

LEMMA StartSafe ==
  ASSUME Safe, NEW p \in Procs, Start(p)
  PROVE  Safe'
<1> USE DEF Safe
<1>1. PICK o \in Ops : \E i \in Args(o) : Start(p)!3!(o)!(i)
  BY DEF Start
<1>2. PICK i \in Args(o) : Start(p)!3!(o)!(i)
  BY <1>1
<1>3. i \in 0..(MaxId + 1)
  BY MaxIdAssumption DEF Args
<1>4. op' \in [Procs -> Ops \cup {"none"}] /\ arg' \in [Procs -> 0..(MaxId + 1)]
  BY <1>2, <1>3 DEF TypeOK
<1>5. Records(Content) \in Nat
  <2>1. Content \in Seq(Record)
    BY FileType DEF Content, TypeOK
  <2> QED
    BY <2>1, RecordsType
<1>6. /\ base' \in [Procs -> Nat]
      /\ UNCHANGED <<tmp, pos, tfd, tpos, buf, num, adders>>
  BY <1>5 DEF Start, TypeOK
<1>7. CASE Fails(p, "open") /\ UNCHANGED <<db, data, fd>>
  <2>1. Finish(p, "fail") /\ "fail" \in Replies
    BY <1>7 DEF Fails, Replies
  <2>2. /\ pc' \in [Procs -> Calls] /\ reply' \in [Procs -> Replies]
        /\ pc' = [pc EXCEPT ![p] = "exit"]
    BY <2>1, FinishType
  <2>3. TypeOK'
    BY <1>4, <1>6, <1>7, <2>2 DEF TypeOK
  <2>4. Descriptors'
    BY <1>2, <1>7, <2>2, <1>6 DEF TypeOK, Descriptors
  <2> QED
    BY <2>3, <2>4
<1>8. CASE ~(Fails(p, "open") /\ UNCHANGED <<db, data, fd>>)
  <2>1. /\ db' = IF db = 0 THEN Len(data) + 1 ELSE db
        /\ data' = IF db = 0 THEN Append(data, <<>>) ELSE data
        /\ fd' = [fd EXCEPT ![p] = db']
        /\ \/ Finish(p, "args")
           \/ Goto(p, FirstCall(o)) /\ (o = "add" => i \in Ids)
    BY <1>2, <1>8
  <2>2. /\ data' \in Seq(Seq(Record)) /\ Len(data') \in Nat
        /\ Len(data') >= Len(data)
        /\ db' \in 1..Len(data')
    BY <2>1, NewFile, SMTT(30) DEF TypeOK
  <2>3. FirstCall(o) \in Calls \ {"start", "exit", "done", "write", "xread", "xwrite"}
    BY DEF FirstCall, Calls
  <2>4. /\ pc' \in [Procs -> Calls] /\ reply' \in [Procs -> Replies]
        /\ \/ pc' = [pc EXCEPT ![p] = "exit"]
           \/ pc' = [pc EXCEPT ![p] = FirstCall(o)]
    BY <2>1, <2>3, FinishType, GotoType DEF Replies
  <2>5. fd' \in [Procs -> 0..Len(data')] /\ tmp' \in 0..Len(data')
        /\ tfd' \in [Procs -> 0..Len(data')] /\ db' \in 0..Len(data')
    <3>1. Len(data) \in Nat /\ 0..Len(data) \subseteq 0..Len(data')
      BY <2>2 DEF TypeOK
    <3>2. db' \in 0..Len(data')
      BY <2>2
    <3>3. fd \in [Procs -> 0..Len(data')] /\ tfd \in [Procs -> 0..Len(data')]
          /\ tmp \in 0..Len(data')
      BY <3>1 DEF TypeOK
    <3> QED
      BY <2>1, <3>2, <3>3, <1>6
  <2>6. TypeOK'
    BY <1>4, <1>6, <2>2, <2>4, <2>5 DEF TypeOK
  <2>7. Descriptors'
    <3> SUFFICES ASSUME NEW q \in Procs
                 PROVE  /\ pc'[q] \notin {"start", "exit", "done"} =>
                             fd'[q] # 0 /\ db' # 0
                        /\ pc'[q] \in {"xread", "xwrite"} => tfd'[q] # 0
                        /\ pc'[q] = "write" => arg'[q] \in Ids
      BY DEF Descriptors
    <3>1. CASE q = p
      <4>1. pc'[p] \in {"exit", FirstCall(o)} /\ fd'[p] = db' /\ db' # 0
        BY <2>1, <2>2, <2>4, SMTT(30) DEF TypeOK
      <4> QED
        BY <3>1, <4>1, <2>3
    <3>2. CASE q # p
      <4>1. /\ pc'[q] = pc[q] /\ fd'[q] = fd[q] /\ tfd'[q] = tfd[q]
            /\ arg'[q] = arg[q] /\ (db # 0 => db' = db)
        BY <1>2, <1>6, <2>1, <2>4, <3>2 DEF TypeOK
      <4> QED
        BY <4>1 DEF Descriptors
    <3> QED
      BY <3>1, <3>2
  <2> QED
    BY <2>6, <2>7
<1> QED
  BY <1>7, <1>8

LEMMA LookupSafe ==
  ASSUME Safe, NEW p \in Procs, Lookup(p)
  PROVE  Safe'
<1> USE DEF Safe
<1>1. data[fd[p]] \in Seq(Record)
  BY OpenFiles DEF Lookup
<1>2. arg[p] \in Ids => Slot(data[fd[p]], arg[p]) \in Record
  BY <1>1, SlotType DEF Ids
<1>3. \/ \E r \in Replies : Finish(p, r)
      \/ Goto(p, "write") /\ arg[p] \in Ids
  BY DEF Lookup, Fails, Replies
<1>4. /\ pc' \in [Procs -> Calls] /\ reply' \in [Procs -> Replies]
      /\ \/ pc' = [pc EXCEPT ![p] = "exit"]
         \/ pc' = [pc EXCEPT ![p] = "write"] /\ arg[p] \in Ids
  BY <1>3, FinishType, GotoType DEF Calls
<1>5. buf' \in [Procs -> Record]
  BY <1>2 DEF Lookup, TypeOK
<1>6. TypeOK'
  BY <1>4, <1>5 DEF TypeOK, Lookup
<1>7. Descriptors'
  BY <1>4 DEF TypeOK, Descriptors, Lookup
<1> QED
  BY <1>6, <1>7

LEMMA WriteSafe ==
  ASSUME Safe, NEW p \in Procs, Write(p)
  PROVE  Safe'
<1> USE DEF Safe
<1>1. /\ fd[p] \in 1..Len(data) /\ data[fd[p]] \in Seq(Record)
      /\ arg[p] \in Ids
  BY OpenFiles DEF Descriptors, Write
<1>2. WriteAt(data[fd[p]], arg[p], Written(p)) \in Seq(Record)
  BY <1>1, WrittenType, WriteAtType DEF Ids
<1>3. data' \in Seq(Seq(Record)) /\ Len(data') = Len(data)
  BY <1>1, <1>2, SetFile DEF Write, TypeOK
<1>4. \E r \in Replies : Finish(p, r)
  BY DEF Write, Fails, Replies
<1>5. /\ pc' \in [Procs -> Calls] /\ reply' \in [Procs -> Replies]
      /\ pc' = [pc EXCEPT ![p] = "exit"]
  BY <1>4, FinishType
<1>a. adders' \in [Procs -> SUBSET Procs]
  <2>1. Adders(p) \in SUBSET Procs
    BY DEF Adders
  <2> QED
    BY <2>1 DEF Write, TypeOK
<1>6. TypeOK'
  BY <1>3, <1>5, <1>a DEF TypeOK, Write
<1>7. Descriptors'
  BY <1>5 DEF TypeOK, Descriptors, Write
<1> QED
  BY <1>6, <1>7

LEMMA ScanSafe ==
  ASSUME Safe, NEW p \in Procs, Scan(p)
  PROVE  Safe'
<1> USE DEF Safe
<1>1. (\E r \in Replies : Finish(p, r)) \/ Goto(p, "scan")
  BY DEF Scan, Fails, Replies
<1>2. /\ pc' \in [Procs -> Calls] /\ reply' \in [Procs -> Replies]
      /\ \/ pc' = [pc EXCEPT ![p] = "exit"]
         \/ pc' = [pc EXCEPT ![p] = "scan"]
  BY <1>1, FinishType, GotoType DEF Calls
<1>3. pos' \in [Procs -> Nat] /\ num' \in [Procs -> Nat]
  <2>1. pos' \in {pos, [pos EXCEPT ![p] = @ + 1]}
        /\ num' \in {num, [num EXCEPT ![p] = @ + 1]}
    BY DEF Scan
  <2>2. /\ [pos EXCEPT ![p] = @ + 1] \in [Procs -> Nat]
        /\ [num EXCEPT ![p] = @ + 1] \in [Procs -> Nat]
    BY CountedType DEF TypeOK
  <2> QED
    BY <2>1, <2>2 DEF TypeOK
<1>4. TypeOK'
  BY <1>2, <1>3 DEF TypeOK, Scan
<1>5. Descriptors'
  BY <1>2 DEF TypeOK, Descriptors, Scan
<1> QED
  BY <1>4, <1>5

LEMMA TruncateSafe ==
  ASSUME Safe, NEW p \in Procs, Truncate(p)
  PROVE  Safe'
<1> USE DEF Safe
<1>1. db \in 1..Len(data)
  BY OpenFiles DEF Truncate
<1>2. data' \in Seq(Seq(Record)) /\ Len(data') = Len(data)
  <2>1. <<>> \in Seq(Record)
    OBVIOUS
  <2> QED
    BY <1>1, <2>1, SetFile DEF Truncate, TypeOK
<1>3. \E r \in Replies : Finish(p, r)
  BY DEF Truncate, Fails, Replies
<1>4. /\ pc' \in [Procs -> Calls] /\ reply' \in [Procs -> Replies]
      /\ pc' = [pc EXCEPT ![p] = "exit"]
  BY <1>3, FinishType
<1>5. fd' \in [Procs -> 0..Len(data')]
  BY <1>1, <1>2 DEF Truncate, TypeOK
<1>6. TypeOK'
  BY <1>2, <1>4, <1>5 DEF TypeOK, Truncate
<1>7. Descriptors'
  BY <1>4 DEF TypeOK, Descriptors, Truncate
<1> QED
  BY <1>6, <1>7

LEMMA CompressOpenSafe ==
  ASSUME Safe, NEW p \in Procs, CompressOpen(p)
  PROVE  Safe'
<1> USE DEF Safe
<1>1. db \in 1..Len(data)
  BY OpenFiles DEF CompressOpen
<1>2. (\E r \in Replies : Finish(p, r)) \/ (Goto(p, "xtmp") /\ fd'[p] # 0)
  BY <1>1 DEF CompressOpen, Fails, Replies, TypeOK
<1>3. /\ pc' \in [Procs -> Calls] /\ reply' \in [Procs -> Replies]
      /\ \/ pc' = [pc EXCEPT ![p] = "exit"]
         \/ pc' = [pc EXCEPT ![p] = "xtmp"]
  BY <1>2, FinishType, GotoType DEF Calls
<1>4. fd' \in [Procs -> 0..Len(data)]
  <2>1. fd' = fd \/ fd' = [fd EXCEPT ![p] = db]
    BY DEF CompressOpen
  <2> QED
    BY <2>1 DEF TypeOK
<1>5. TypeOK'
  BY <1>3, <1>4 DEF TypeOK, CompressOpen
<1>6. Descriptors'
  <2>1. \A q \in Procs : fd'[q] # 0 \/ fd'[q] = fd[q]
    BY <1>1, SMTT(30) DEF CompressOpen, TypeOK
  <2> QED
    BY <1>1, <1>3, <2>1, OpenFiles DEF TypeOK, Descriptors, CompressOpen
<1> QED
  BY <1>5, <1>6

LEMMA CompressTmpSafe ==
  ASSUME Safe, NEW p \in Procs, CompressTmp(p)
  PROVE  Safe'
<1> USE DEF Safe
<1>1. CASE Fails(p, "open") /\ UNCHANGED <<tmp, data, tfd>>
  <2>1. Finish(p, "fail") /\ "fail" \in Replies
    BY <1>1 DEF Fails, Replies
  <2>2. /\ pc' \in [Procs -> Calls] /\ reply' \in [Procs -> Replies]
        /\ pc' = [pc EXCEPT ![p] = "exit"]
    BY <2>1, FinishType
  <2>3. TypeOK'
    BY <1>1, <2>2 DEF TypeOK, CompressTmp
  <2>4. Descriptors'
    BY <1>1, <2>2 DEF TypeOK, Descriptors, CompressTmp
  <2> QED
    BY <2>3, <2>4
<1>2. CASE ~(Fails(p, "open") /\ UNCHANGED <<tmp, data, tfd>>)
  <2>1. /\ tmp' = IF tmp = 0 THEN Len(data) + 1 ELSE tmp
        /\ data' = IF tmp = 0 THEN Append(data, <<>>)
                              ELSE [data EXCEPT ![tmp] = <<>>]
        /\ tfd' = [tfd EXCEPT ![p] = tmp']
        /\ Goto(p, "xread")
    BY <1>2 DEF CompressTmp
  <2>2. /\ data' \in Seq(Seq(Record)) /\ Len(data') \in Nat
        /\ Len(data') >= Len(data)
        /\ tmp' \in 1..Len(data')
    <3>1. CASE tmp = 0
      BY <2>1, <3>1, NewFile DEF TypeOK
    <3>2. CASE tmp # 0
      <4>1. tmp \in 1..Len(data) /\ <<>> \in Seq(Record)
        BY <3>2 DEF TypeOK
      <4>2. data' \in Seq(Seq(Record)) /\ Len(data') = Len(data)
        BY <2>1, <3>2, <4>1, SetFile
      <4> QED
        BY <2>1, <3>2, <4>1, <4>2
    <3> QED
      BY <3>1, <3>2
  <2>3. /\ pc' \in [Procs -> Calls] /\ reply' \in [Procs -> Replies]
        /\ pc' = [pc EXCEPT ![p] = "xread"]
    BY <2>1, GotoType DEF Calls
  <2>4. fd' \in [Procs -> 0..Len(data')] /\ tmp' \in 0..Len(data')
        /\ tfd' \in [Procs -> 0..Len(data')] /\ db' \in 0..Len(data')
    <3>1. Len(data) \in Nat /\ 0..Len(data) \subseteq 0..Len(data')
      BY <2>2 DEF TypeOK
    <3>2. fd \in [Procs -> 0..Len(data')] /\ tfd \in [Procs -> 0..Len(data')]
          /\ db \in 0..Len(data') /\ tmp' \in 0..Len(data')
      BY <2>2, <3>1 DEF TypeOK
    <3> QED
      BY <2>1, <3>2 DEF CompressTmp
  <2>5. TypeOK'
    BY <2>2, <2>3, <2>4 DEF TypeOK, CompressTmp
  <2>6. Descriptors'
    <3>1. \A q \in Procs : tfd'[q] # 0 \/ (tfd'[q] = tfd[q] /\ pc'[q] = pc[q])
      BY <2>1, <2>2, <2>3 DEF TypeOK
    <3>2. fd[p] # 0 /\ db # 0
      BY DEF CompressTmp, Descriptors
    <3> QED
      BY <2>3, <3>1, <3>2 DEF TypeOK, Descriptors, CompressTmp
  <2> QED
    BY <2>5, <2>6
<1> QED
  BY <1>1, <1>2

LEMMA CompressReadSafe ==
  ASSUME Safe, NEW p \in Procs, CompressRead(p)
  PROVE  Safe'
<1> USE DEF Safe
<1>1. data[fd[p]] \in Seq(Record) /\ pos[p] \in Nat /\ tfd[p] # 0
  BY OpenFiles DEF CompressRead, TypeOK, Descriptors
<1>2. Slot(data[fd[p]], pos[p]) \in Record
  BY <1>1, SlotType
<1>3. \E c \in {"xread", "xwrite", "xrename"} : Goto(p, c)
  BY DEF CompressRead
<1>4. /\ pc' \in [Procs -> Calls] /\ reply' \in [Procs -> Replies]
      /\ \E c \in {"xread", "xwrite", "xrename"} : pc' = [pc EXCEPT ![p] = c]
  BY <1>3, GotoType DEF Calls
<1>5. pos' \in [Procs -> Nat] /\ buf' \in [Procs -> Record]
  <2>1. \/ UNCHANGED <<pos, buf>>
        \/ /\ pos' = [pos EXCEPT ![p] = @ + 1]
           /\ buf' = [buf EXCEPT ![p] = Slot(data[fd[p]], pos[p])]
    BY DEF CompressRead
  <2>2. [pos EXCEPT ![p] = @ + 1] \in [Procs -> Nat]
    BY CountedType DEF TypeOK
  <2> QED
    BY <1>2, <2>1, <2>2 DEF TypeOK
<1>6. TypeOK'
  BY <1>4, <1>5 DEF TypeOK, CompressRead
<1>7. Descriptors'
  BY <1>1, <1>4 DEF TypeOK, Descriptors, CompressRead
<1> QED
  BY <1>6, <1>7

LEMMA CompressWriteSafe ==
  ASSUME Safe, NEW p \in Procs, CompressWrite(p)
  PROVE  Safe'
<1> USE DEF Safe
<1>1. /\ tfd[p] \in 1..Len(data) /\ data[tfd[p]] \in Seq(Record)
      /\ tpos[p] \in Nat /\ buf[p] \in Record
  BY OpenFiles DEF CompressWrite, TypeOK
<1>2. WriteAt(data[tfd[p]], tpos[p], buf[p]) \in Seq(Record)
  BY <1>1, WriteAtType
<1>3. data' \in Seq(Seq(Record)) /\ Len(data') = Len(data)
  BY <1>1, <1>2, SetFile DEF CompressWrite, TypeOK
<1>4. (\E r \in Replies : Finish(p, r)) \/ Goto(p, "xread")
  BY DEF CompressWrite, Fails, Replies
<1>5. /\ pc' \in [Procs -> Calls] /\ reply' \in [Procs -> Replies]
      /\ \/ pc' = [pc EXCEPT ![p] = "exit"]
         \/ pc' = [pc EXCEPT ![p] = "xread"]
  BY <1>4, FinishType, GotoType DEF Calls
<1>6. tpos' \in [Procs -> Nat]
  <2>1. tpos' \in {tpos, [tpos EXCEPT ![p] = @ + 1]}
    BY DEF CompressWrite
  <2>2. [tpos EXCEPT ![p] = @ + 1] \in [Procs -> Nat]
    BY CountedType DEF TypeOK
  <2> QED
    BY <2>1, <2>2 DEF TypeOK
<1>7. TypeOK'
  BY <1>3, <1>5, <1>6 DEF TypeOK, CompressWrite
<1>8. Descriptors'
  BY <1>5 DEF TypeOK, Descriptors, CompressWrite
<1> QED
  BY <1>7, <1>8

LEMMA CompressRenameSafe ==
  ASSUME Safe, NEW p \in Procs, CompressRename(p)
  PROVE  Safe'
<1> USE DEF Safe
<1>1. (\E r \in Replies : Finish(p, r)) \/ Goto(p, "xreopen")
  BY DEF CompressRename, Fails, Replies
<1>2. /\ pc' \in [Procs -> Calls] /\ reply' \in [Procs -> Replies]
      /\ \/ pc' = [pc EXCEPT ![p] = "exit"]
         \/ pc' = [pc EXCEPT ![p] = "xreopen"]
  BY <1>1, FinishType, GotoType DEF Calls
<1>3. (db' = db /\ tmp' = tmp) \/ (db' = tmp /\ tmp' = 0 /\ tmp # 0)
  BY DEF CompressRename
<1>4. TypeOK'
  BY <1>2, <1>3, SMTT(30) DEF TypeOK, CompressRename
<1>5. Descriptors'
  BY <1>2, <1>3 DEF TypeOK, Descriptors, CompressRename
<1> QED
  BY <1>4, <1>5

LEMMA CompressReopenSafe ==
  ASSUME Safe, NEW p \in Procs, CompressReopen(p)
  PROVE  Safe'
<1> USE DEF Safe
<1>1. \E r \in Replies : Finish(p, r)
  BY DEF CompressReopen, Fails, Replies
<1>2. /\ pc' \in [Procs -> Calls] /\ reply' \in [Procs -> Replies]
      /\ pc' = [pc EXCEPT ![p] = "exit"]
  BY <1>1, FinishType
<1>3. fd' \in [Procs -> 0..Len(data)]
  <2>1. fd' = fd \/ fd' = [fd EXCEPT ![p] = db]
    BY DEF CompressReopen
  <2> QED
    BY <2>1 DEF TypeOK
<1>4. TypeOK'
  BY <1>2, <1>3 DEF TypeOK, CompressReopen
<1>5. Descriptors'
  <2>1. \A q \in Procs : q # p => fd'[q] = fd[q]
    BY DEF CompressReopen, TypeOK
  <2> QED
    BY <1>2, <2>1 DEF TypeOK, Descriptors, CompressReopen
<1> QED
  BY <1>4, <1>5

LEMMA NextSafe == Safe /\ [Next]_vars => Safe'
<1> SUFFICES ASSUME Safe, [Next]_vars PROVE Safe'
  OBVIOUS
<1>1. CASE UNCHANGED vars
  BY <1>1 DEF vars, Safe, TypeOK, Descriptors
<1>2. ASSUME NEW p \in Procs, Exit(p) PROVE Safe'
  BY <1>2 DEF Exit, Safe, TypeOK, Descriptors, Calls
<1>3. ASSUME NEW p \in Procs, Crash(p) PROVE Safe'
  BY <1>3 DEF Crash, Safe, TypeOK, Descriptors, Calls, Replies
<1> QED
  BY <1>1, <1>2, <1>3, StartSafe, LookupSafe, WriteSafe, ScanSafe,
     TruncateSafe, CompressOpenSafe, CompressTmpSafe, CompressReadSafe,
     CompressWriteSafe, CompressRenameSafe, CompressReopenSafe
  DEF Next, Compress

\* The variables keep their types and no process is without the files it
\* uses, for any number of runs of any options, faults and crashes.
THEOREM TypeCorrect == Spec => []TypeOK
<1>1. Safe => TypeOK
  BY DEF Safe
<1> QED
  BY InitSafe, NextSafe, <1>1, PTL DEF Spec

(***************************************************************************)
(* A run that compresses never copies a file onto itself: TMP_DB_FILE is   *)
(* always a file nobody opened under the name DB_FILE.                     *)
(***************************************************************************)

FreshTmp ==
  /\ tmp # 0 => tmp # db /\ \A p \in Procs : fd[p] # tmp
  /\ NeverOntoItself

LEMMA InitFresh == Init => FreshTmp
  BY DEF Init, FreshTmp, NeverOntoItself

LEMMA NextFresh == Safe /\ FreshTmp /\ [Next]_vars => FreshTmp'
<1> SUFFICES ASSUME Safe, FreshTmp, [Next]_vars PROVE FreshTmp'
  OBVIOUS
<1>1. /\ Len(data) \in Nat /\ tmp \in 0..Len(data) /\ db \in 0..Len(data)
      /\ fd \in [Procs -> 0..Len(data)] /\ tfd \in [Procs -> 0..Len(data)]
      /\ pc \in [Procs -> Calls]
  BY DEF Safe, TypeOK
<1>2. CASE UNCHANGED vars
  BY <1>2 DEF vars, FreshTmp, NeverOntoItself
<1>3. ASSUME NEW p \in Procs, Start(p) PROVE FreshTmp'
  <2>1. /\ tmp' = tmp /\ tfd' = tfd
        /\ \/ db' = db /\ fd' = fd
           \/ db' = (IF db = 0 THEN Len(data) + 1 ELSE db)
                 /\ fd' = [fd EXCEPT ![p] = db']
        /\ \A q \in Procs : pc'[q] = pc[q] \/ pc'[q] \notin {"xread", "xwrite"}
        /\ pc'[p] \notin {"xread", "xwrite"}
    BY <1>1, <1>3 DEF Start, Fails, Finish, Goto, FirstCall
  <2>2. tmp' # 0 => tmp' # db' /\ \A q \in Procs : fd'[q] # tmp'
    BY <1>1, <2>1 DEF FreshTmp
  <2>3. NeverOntoItself'
    BY <1>1, <2>1 DEF FreshTmp, NeverOntoItself
  <2> QED
    BY <2>2, <2>3 DEF FreshTmp
<1>4. ASSUME NEW p \in Procs,
             Lookup(p) \/ Write(p) \/ Scan(p) \/ Exit(p) \/ Crash(p)
      PROVE  FreshTmp'
  <2>1. /\ UNCHANGED <<tmp, db, fd, tfd>>
        /\ \A q \in Procs : pc'[q] = pc[q] \/ pc'[q] \notin {"xread", "xwrite"}
    BY <1>1, <1>4
    DEF Lookup, Write, Scan, Exit, Crash, Fails, Finish, Goto
  <2> QED
    BY <2>1 DEF FreshTmp, NeverOntoItself
<1>5. ASSUME NEW p \in Procs, Truncate(p) \/ CompressOpen(p) \/ CompressReopen(p)
      PROVE  FreshTmp'
  <2>1. /\ UNCHANGED <<tmp, db, tfd>>
        /\ fd' = fd \/ fd' = [fd EXCEPT ![p] = db]
        /\ \A q \in Procs : q # p => pc'[q] = pc[q]
        /\ pc'[p] \notin {"xread", "xwrite"}
    BY <1>1, <1>5
    DEF Truncate, CompressOpen, CompressReopen, Fails, Finish, Goto
  <2> QED
    BY <1>1, <2>1 DEF FreshTmp, NeverOntoItself
<1>6. ASSUME NEW p \in Procs, CompressTmp(p) PROVE FreshTmp'
  <2>1. /\ UNCHANGED <<db, fd>>
        /\ \A q \in Procs : q # p => pc'[q] = pc[q] /\ tfd'[q] = tfd[q]
        /\ \/ tmp' = tmp /\ pc'[p] = "exit"
           \/ tmp' = (IF tmp = 0 THEN Len(data) + 1 ELSE tmp) /\ tfd'[p] = tmp'
    BY <1>1, <1>6 DEF CompressTmp, Fails, Finish, Goto
  <2>2. tmp' # 0 => tmp' # db' /\ \A q \in Procs : fd'[q] # tmp'
    BY <1>1, <2>1 DEF FreshTmp
  <2>3. NeverOntoItself'
    <3> SUFFICES ASSUME NEW q \in Procs, pc'[q] \in {"xread", "xwrite"}
                 PROVE  fd'[q] # tfd'[q]
      BY DEF NeverOntoItself
    <3>1. CASE q = p
      <4>1. tfd'[p] = tmp' /\ tmp' # 0
        BY <1>1, <2>1, <3>1
      <4> QED
        BY <2>2, <3>1, <4>1
    <3>2. CASE q # p
      BY <2>1, <3>2 DEF FreshTmp, NeverOntoItself
    <3> QED
      BY <3>1, <3>2
  <2> QED
    BY <2>2, <2>3 DEF FreshTmp
<1>7. ASSUME NEW p \in Procs, CompressRead(p) \/ CompressWrite(p)
      PROVE  FreshTmp'
  <2>1. /\ UNCHANGED <<tmp, db, fd, tfd>>
        /\ \A q \in Procs : q # p => pc'[q] = pc[q]
        /\ pc[p] \in {"xread", "xwrite"}
    BY <1>1, <1>7 DEF CompressRead, CompressWrite, Fails, Finish, Goto
  <2> QED
    BY <2>1 DEF FreshTmp, NeverOntoItself
<1>8. ASSUME NEW p \in Procs, CompressRename(p) PROVE FreshTmp'
  <2>1. /\ UNCHANGED <<fd, tfd>>
        /\ \/ tmp' = tmp /\ db' = db
           \/ tmp' = 0
        /\ \A q \in Procs : pc'[q] = pc[q] \/ pc'[q] \notin {"xread", "xwrite"}
    BY <1>1, <1>8 DEF CompressRename, Fails, Finish, Goto
  <2> QED
    BY <2>1 DEF FreshTmp, NeverOntoItself
<1> QED
  BY <1>2, <1>3, <1>4, <1>5, <1>6, <1>7, <1>8 DEF Next, Compress

\* No run of compress_db copies a file onto itself, however many compress at
\* the same time and wherever they fail or are killed.
THEOREM CompressesApart == Spec => []NeverOntoItself
<1>1. FreshTmp => NeverOntoItself
  BY DEF FreshTmp
<1> QED
  BY InitSafe, NextSafe, InitFresh, NextFresh, <1>1, PTL DEF Spec

(***************************************************************************)
(* Until a run compresses every record is where its id says.               *)
(***************************************************************************)

\* A run that has not started was asked for nothing, so that a run asked for
\* something stays asked for it.
Unasked == \A p \in Procs : pc[p] = "start" => op[p] = "none"

LEMMA NextUnasked ==
  /\ Init => Unasked
  /\ TypeOK /\ Unasked /\ [Next]_vars =>
       /\ Unasked'
       /\ \A p \in Procs : op[p] # "none" => op'[p] = op[p] /\ arg'[p] = arg[p]
<1>1. Init => Unasked
  BY DEF Init, Unasked
<1>2. ASSUME TypeOK, Unasked, [Next]_vars
      PROVE  /\ Unasked'
             /\ \A p \in Procs : op[p] # "none" => op'[p] = op[p] /\ arg'[p] = arg[p]
  <2>1. /\ pc \in [Procs -> Calls] /\ op \in [Procs -> Ops \cup {"none"}]
        /\ arg \in [Procs -> 0..(MaxId + 1)]
    BY <1>2 DEF TypeOK
  <2>2. CASE UNCHANGED vars
    BY <1>2, <2>2 DEF vars, Unasked
  <2>3. ASSUME NEW p \in Procs, Start(p)
        PROVE  /\ Unasked'
               /\ \A q \in Procs : op[q] # "none" => op'[q] = op[q] /\ arg'[q] = arg[q]
    <3>1. pc[p] = "start" /\ op[p] = "none"
      BY <1>2, <2>3 DEF Start, Unasked
    <3>2. \A q \in Procs \ {p} :
            op'[q] = op[q] /\ arg'[q] = arg[q] /\ pc'[q] = pc[q]
      BY <2>1, <2>3 DEF Start, Fails, Finish, Goto
    <3>3. pc'[p] # "start"
      BY <2>1, <2>3 DEF Start, Fails, Finish, Goto, FirstCall
    <3> QED
      BY <1>2, <3>1, <3>2, <3>3 DEF Unasked
  <2>4. ASSUME NEW p \in Procs,
               \/ Lookup(p) \/ Write(p) \/ Scan(p) \/ Truncate(p)
               \/ Exit(p) \/ Crash(p)
        PROVE  UNCHANGED <<op, arg>> /\ \A q \in Procs : pc'[q] # "start" \/ pc'[q] = pc[q]
    BY <2>1, <2>4
    DEF Lookup, Write, Scan, Truncate, Exit, Crash, Fails, Finish, Goto
  <2>5. ASSUME NEW p \in Procs, Compress(p)
        PROVE  UNCHANGED <<op, arg>> /\ \A q \in Procs : pc'[q] # "start" \/ pc'[q] = pc[q]
    BY <2>1, <2>5
    DEF Compress, CompressOpen, CompressTmp, CompressRead, CompressWrite,
        CompressRename, CompressReopen, Fails, Finish, Goto
  <2>6. CASE /\ UNCHANGED <<op, arg>>
             /\ \A q \in Procs : pc'[q] # "start" \/ pc'[q] = pc[q]
    BY <1>2, <2>6 DEF Unasked
  <2> QED
    BY <1>2, <2>2, <2>3, <2>4, <2>5, <2>6 DEF Next
<1> QED
  BY <1>1, <1>2

CompressCalls == {"xopen", "xtmp", "xread", "xwrite", "xrename", "xreopen"}

AllInPlace ==
  \A n \in 1..Len(data) : \A j \in Nat : Slot(data[n], j).id \in {0, j}

Placed ==
  /\ \A p \in Procs : pc[p] \notin CompressCalls
  /\ \A p \in Procs : pc[p] \notin {"exit", "done"} => reply[p] = "none"
  /\ AllInPlace
  /\ FoundIsAsked

LEMMA InitPlaced == Init => Placed
<1> SUFFICES ASSUME Init PROVE Placed
  OBVIOUS
<1>1. Len(data) = 0
  BY DEF Init
<1> QED
  BY <1>1 DEF Init, Placed, AllInPlace, CompressCalls, FoundIsAsked

\* What a step of process p leaves to show, when it changes no other process.
LEMMA OneMoves ==
  ASSUME Safe, Placed, NEW p \in Procs, AllInPlace',
         \A q \in Procs \ {p} :
           /\ pc'[q] = pc[q] /\ reply'[q] = reply[q]
           /\ buf'[q] = buf[q] /\ arg'[q] = arg[q],
         pc'[p] \notin CompressCalls,
         pc'[p] \notin {"exit", "done"} => reply'[p] = "none",
         reply'[p] = "found" => buf'[p].id = arg'[p]
  PROVE  Placed'
  BY DEF Placed, FoundIsAsked

LEMMA NextPlaced ==
  ASSUME NeverCompressed', Safe, Placed, [Next]_vars
  PROVE  Placed'
<1>1. /\ Len(data) \in Nat /\ data \in Seq(Seq(Record))
      /\ pc \in [Procs -> Calls] /\ reply \in [Procs -> Replies]
      /\ buf \in [Procs -> Record] /\ arg \in [Procs -> 0..(MaxId + 1)]
      /\ op \in [Procs -> Ops \cup {"none"}]
  BY DEF Safe, TypeOK
<1>2. CASE UNCHANGED vars
  BY <1>2 DEF vars, Placed, AllInPlace, FoundIsAsked
<1>3. ASSUME NEW p \in Procs, Start(p) PROVE Placed'
  <2>1. PICK o \in Ops : \E i \in Args(o) : Start(p)!3!(o)!(i)
    BY <1>3 DEF Start
  <2>2. \A q \in Procs \ {p} :
           /\ pc'[q] = pc[q] /\ reply'[q] = reply[q]
           /\ buf'[q] = buf[q] /\ arg'[q] = arg[q]
    BY <1>1, <1>3 DEF Start, Fails, Finish, Goto
  <2>3. /\ pc'[p] \notin CompressCalls
        /\ pc'[p] \notin {"exit", "done"} => reply'[p] = reply[p]
        /\ reply'[p] = reply[p] \/ reply'[p] # "found"
    <3>1. o # "compress"
      BY <1>1, <2>1 DEF NeverCompressed
    <3> QED
      BY <1>1, <2>1, <3>1 DEF CompressCalls, Fails, Finish, Goto, FirstCall
  <2>4. reply[p] = "none"
    BY <1>3 DEF Start, Placed
  <2>5. AllInPlace'
    <3> SUFFICES ASSUME NEW n \in 1..Len(data'), NEW j \in Nat
                 PROVE  Slot(data'[n], j).id \in {0, j}
      BY DEF AllInPlace
    <3>1. CASE data' = data
      BY <3>1 DEF Placed, AllInPlace
    <3>2. CASE data' = Append(data, <<>>)
      <4>1. CASE n \in 1..Len(data)
        <5>1. data'[n] = data[n]
          BY <1>1, <3>2, <4>1
        <5> QED
          BY <4>1, <5>1 DEF Placed, AllInPlace
      <4>2. CASE n \notin 1..Len(data)
        <5>1. data'[n] = <<>>
          BY <1>1, <3>2, <4>2
        <5> QED
          BY <5>1 DEF Slot, Empty
      <4> QED
        BY <4>1, <4>2
    <3> QED
      BY <1>3, <3>1, <3>2 DEF Start
  <2> QED
    BY <2>2, <2>3, <2>4, <2>5, OneMoves
<1>4. ASSUME NEW p \in Procs, Lookup(p) PROVE Placed'
  <2>1. /\ UNCHANGED <<data, arg>>
        /\ \A q \in Procs \ {p} :
             pc'[q] = pc[q] /\ buf'[q] = buf[q] /\ reply'[q] = reply[q]
    BY <1>1, <1>4 DEF Lookup, Fails, Finish, Goto
  <2>2. reply[p] = "none"
    BY <1>4 DEF Lookup, Placed
  <2>3. /\ pc'[p] \notin CompressCalls
        /\ pc'[p] \notin {"exit", "done"} => reply'[p] = "none"
    BY <1>1, <1>4, <2>2 DEF Lookup, CompressCalls, Fails, Finish, Goto
  <2>4. reply'[p] = "found" => buf'[p].id = arg[p]
    <3> SUFFICES ASSUME reply'[p] = "found" PROVE buf'[p].id = arg[p]
      OBVIOUS
    <3>1. arg[p] \in Ids /\ buf' = [buf EXCEPT ![p] = Slot(data[fd[p]], arg[p])]
          /\ buf'[p].id # 0
      BY <1>1, <1>4, <2>2 DEF Lookup, Fails, Finish, Goto
    <3>2. fd[p] \in 1..Len(data)
      BY <1>4, OpenFiles DEF Lookup
    <3>3. buf'[p] = Slot(data[fd[p]], arg[p]) /\ arg[p] \in Nat
      BY <1>1, <3>1 DEF Ids
    <3> QED
      BY <3>1, <3>2, <3>3 DEF Placed, AllInPlace
  <2>5. AllInPlace'
    BY <2>1 DEF Placed, AllInPlace
  <2> QED
    BY <2>1, <2>3, <2>4, <2>5, OneMoves
<1>5. ASSUME NEW p \in Procs, Write(p) \/ Truncate(p) \/ Scan(p) PROVE Placed'
  <2>1. /\ UNCHANGED <<buf, arg>>
        /\ \A q \in Procs \ {p} : pc'[q] = pc[q] /\ reply'[q] = reply[q]
    BY <1>1, <1>5 DEF Write, Truncate, Scan, Fails, Finish, Goto
  <2>2. reply[p] = "none"
    BY <1>5 DEF Write, Truncate, Scan, Placed
  <2>3. /\ pc'[p] \notin CompressCalls
        /\ pc'[p] \notin {"exit", "done"} => reply'[p] = "none"
        /\ reply'[p] # "found"
    BY <1>1, <1>5, <2>2
    DEF Write, Truncate, Scan, CompressCalls, Fails, Finish, Goto
  <2>4. AllInPlace'
    <3>1. CASE data' = data
      BY <3>1 DEF Placed, AllInPlace
    <3>2. CASE Write(p) /\ data' # data
      <4>1. /\ fd[p] \in 1..Len(data) /\ data[fd[p]] \in Seq(Record)
            /\ arg[p] \in Ids /\ arg[p] \in Nat
        BY <3>2, OpenFiles DEF Write, Safe, Descriptors, Ids
      <4>2. Written(p) \in Record /\ Written(p).id \in {0, arg[p]}
        BY <4>1, WrittenType DEF Safe, Written, Empty
      <4> DEFINE f == WriteAt(data[fd[p]], arg[p], Written(p))
      <4>3. /\ Slot(f, arg[p]) = Written(p)
            /\ \A j \in Nat \ {arg[p]} : Slot(f, j) = Slot(data[fd[p]], j)
        BY <4>1, <4>2, WriteAtType, ZenonT(40)
      <4>4. data' = [data EXCEPT ![fd[p]] = f]
        BY <3>2 DEF Write
      <4> HIDE DEF f
      <4>5. \A j \in Nat : Slot(f, j).id \in {0, j}
        BY <4>1, <4>2, <4>3 DEF Placed, AllInPlace
      <4>6. \A n \in 1..Len(data') : \/ data'[n] = f
                                     \/ data'[n] = data[n] /\ n \in 1..Len(data)
        BY <1>1, <4>4
      <4> QED
        BY <4>5, <4>6 DEF Placed, AllInPlace
    <3>3. CASE Truncate(p) /\ data' # data
      <4>1. data' = [data EXCEPT ![db] = <<>>]
        BY <3>3 DEF Truncate
      <4>2. \A n \in 1..Len(data') : \/ data'[n] = <<>>
                                     \/ data'[n] = data[n] /\ n \in 1..Len(data)
        BY <1>1, <4>1
      <4>3. \A j \in Nat : Slot(<<>>, j).id \in {0, j}
        BY DEF Slot, Empty
      <4> QED
        BY <4>2, <4>3 DEF Placed, AllInPlace
    <3> QED
      BY <1>5, <3>1, <3>2, <3>3 DEF Scan
  <2> QED
    BY <2>1, <2>3, <2>4, OneMoves
<1>6. ASSUME NEW p \in Procs, Exit(p) \/ Crash(p) PROVE Placed'
  <2>1. /\ UNCHANGED <<data, buf, arg>>
        /\ \A q \in Procs \ {p} : pc'[q] = pc[q] /\ reply'[q] = reply[q]
        /\ pc'[p] = "done"
        /\ reply'[p] \in {reply[p], "killed"}
    BY <1>1, <1>6 DEF Exit, Crash
  <2>2. AllInPlace'
    BY <2>1 DEF Placed, AllInPlace
  <2> QED
    BY <2>1, <2>2, OneMoves DEF Placed, FoundIsAsked, CompressCalls
<1>7. ASSUME NEW p \in Procs, Compress(p) PROVE FALSE
  BY <1>7 DEF Placed, CompressCalls, Compress, CompressOpen, CompressTmp,
              CompressRead, CompressWrite, CompressRename, CompressReopen
<1> QED
  BY <1>2, <1>3, <1>4, <1>5, <1>6, <1>7 DEF Next

LEMMA PlacedImplies == Safe /\ Placed => InPlace /\ FoundIsAsked
<1> SUFFICES ASSUME Safe, Placed, NEW k \in 1..Len(Content)
             PROVE  Content[k].id \in {0, k - 1}
  BY DEF InPlace, Placed
<1>1. db \in 1..Len(data) /\ Content = data[db]
  BY DEF Content, Safe, TypeOK
<1>2. data[db] \in Seq(Record)
  BY <1>1, FileType DEF Safe
<1>3. k - 1 \in Nat /\ Slot(Content, k - 1) = Content[k]
  BY <1>1, <1>2 DEF Slot
<1> QED
  BY <1>1, <1>3 DEF Placed, AllInPlace

\* What holds of a database until a run compresses it.
Undisturbed == Safe /\ Unasked /\ (NeverCompressed => Placed)

LEMMA InitUndisturbed == Init => Undisturbed
  BY InitSafe, InitPlaced, NextUnasked DEF Undisturbed

LEMMA NextUndisturbed == Undisturbed /\ [Next]_vars => Undisturbed'
<1> SUFFICES ASSUME Undisturbed, [Next]_vars PROVE Undisturbed'
  OBVIOUS
<1>1. Safe /\ TypeOK /\ Unasked
  BY DEF Undisturbed, Safe
<1>2. Safe' /\ Unasked'
  BY <1>1, NextSafe, NextUnasked
<1>3. NeverCompressed' => NeverCompressed
  BY <1>1, NextUnasked DEF NeverCompressed
<1> QED
  BY <1>1, <1>2, <1>3, NextPlaced DEF Undisturbed

\* Until a run compresses, every record is at the offset of its id, whatever
\* the runs do to each other and wherever they fail or are killed.
THEOREM RecordsInPlace == Spec => []InPlace
<1>1. Undisturbed => InPlace
  BY PlacedImplies DEF Undisturbed, InPlace
<1> QED
  BY InitUndisturbed, NextUndisturbed, <1>1, PTL DEF Spec

\* Until a run compresses, a run prints the student it was asked for.
THEOREM FindsWhatIsAsked == Spec => []FoundInPlace
<1>1. Undisturbed => FoundInPlace
  BY PlacedImplies DEF Undisturbed, FoundInPlace
<1> QED
  BY InitUndisturbed, NextUndisturbed, <1>1, PTL DEF Spec

(***************************************************************************)
(* A student reported as added stays until that student is dropped.        *)
(***************************************************************************)

Entry(i, p) == [id |-> i, by |-> p]

\* Student i is never lost: the record is that of a run that was about to add
\* i when the run that reported it did, and no run that came later is.
Growing(i) ==
  /\ \A p \in Procs : pc[p] # "truncate"
  /\ \A p \in Procs : fd[p] \in {0, db}
  /\ \A p \in Procs : pc[p] = "write" => op[p] = "add" \/ arg[p] # i
  /\ \A p \in Procs : reply[p] = "added" /\ arg[p] = i =>
       /\ \E q \in adders[p] : Slot(Content, i) = Entry(i, q)
       /\ \A q \in Procs : pc[q] = "write" /\ arg[q] = i => q \in adders[p]

LEMMA InitGrowing == Init => \A i \in Ids : Growing(i)
  BY DEF Init, Growing

LEMMA NextGrowing ==
  ASSUME Safe, Unasked, Placed, NEW i \in Ids, NeverDropped(i)', Growing(i),
         [Next]_vars
  PROVE  Growing(i)'
<1>1. /\ Len(data) \in Nat /\ data \in Seq(Seq(Record)) /\ db \in 0..Len(data)
      /\ pc \in [Procs -> Calls] /\ reply \in [Procs -> Replies]
      /\ op \in [Procs -> Ops \cup {"none"}]
      /\ fd \in [Procs -> 0..Len(data)] /\ arg \in [Procs -> 0..(MaxId + 1)]
      /\ adders \in [Procs -> SUBSET Procs]
  BY DEF Safe, TypeOK
<1>i. i \in Nat
  BY DEF Ids
<1>2. CASE UNCHANGED vars
  BY <1>2 DEF vars, Growing, Content
<1>3. ASSUME NEW p \in Procs, Start(p) PROVE Growing(i)'
  <2>1. PICK o \in Ops : \E a \in Args(o) : Start(p)!3!(o)!(a)
    BY <1>3 DEF Start
  <2>2. \A q \in Procs \ {p} : /\ pc'[q] = pc[q] /\ reply'[q] = reply[q]
                              /\ op'[q] = op[q] /\ arg'[q] = arg[q]
        /\ UNCHANGED adders
    BY <1>1, <1>3 DEF Start, Fails, Finish, Goto
  <2>3. reply'[p] # "added" /\ pc'[p] \notin {"truncate", "write"}
    <3>1. o \in {"add", "del", "find", "count", "print"}
      BY <1>1, <2>1, OpsAssumption DEF NeverDropped, AllOps
    <3>2. reply[p] = "none"
      BY <1>3 DEF Start, Placed
    <3> QED
      BY <1>1, <2>1, <3>1, <3>2 DEF Fails, Finish, Goto, FirstCall
  <2>4. \A q \in Procs : fd'[q] \in {0, db'}
    <3>1. \A q \in Procs : fd[q] = 0 \/ (fd[q] = db /\ db # 0)
      BY DEF Growing
    <3>2. \/ UNCHANGED <<db, fd>>
          \/ db' = (IF db = 0 THEN Len(data) + 1 ELSE db)
               /\ fd' = [fd EXCEPT ![p] = db']
      BY <1>3 DEF Start
    <3> QED
      BY <1>1, <3>1, <3>2
  <2>5. Slot(Content', i) = Slot(Content, i)
    <3>1. CASE UNCHANGED <<db, data>>
      BY <3>1 DEF Content
    <3>2. CASE db = 0 /\ db' = Len(data) + 1 /\ data' = Append(data, <<>>)
      BY <1>1, <3>2 DEF Content
    <3> QED
      BY <1>3, <3>1, <3>2 DEF Start
  <2> QED
    BY <2>2, <2>3, <2>4, <2>5 DEF Growing
<1>4. ASSUME NEW p \in Procs, Lookup(p) \/ Scan(p) \/ Exit(p) \/ Crash(p)
      PROVE  Growing(i)'
  <2>1. /\ UNCHANGED <<db, data, fd, op, arg, adders>>
        /\ \A q \in Procs \ {p} : pc'[q] = pc[q] /\ reply'[q] = reply[q]
        /\ reply'[p] = "added" => reply[p] = "added"
        /\ pc'[p] # "truncate"
    BY <1>1, <1>4 DEF Lookup, Scan, Exit, Crash, Fails, Finish, Goto
  <2>2. pc'[p] = "write" => op[p] \in {"add", "del"}
    BY <1>1, <1>4 DEF Lookup, Scan, Exit, Crash, Fails, Finish, Goto
  <2>3. op[p] = "del" => arg[p] # i
    BY <2>1 DEF NeverDropped
  <2>4. ASSUME pc'[p] = "write", arg[p] = i PROVE Slot(Content, i).id = 0
    <3>1. Lookup(p) /\ op[p] = "add"
      BY <1>1, <1>4, <2>2, <2>3, <2>4
      DEF Lookup, Scan, Exit, Crash, Fails, Finish, Goto
    <3>2. fd[p] = db /\ db # 0
      BY <3>1 DEF Lookup, Safe, Descriptors, Growing
    <3>3. pc' = [pc EXCEPT ![p] = "write"]
      BY <1>1, <2>4, <3>1 DEF Lookup, Fails, Finish, Goto
    <3>4. buf' = [buf EXCEPT ![p] = Slot(data[fd[p]], arg[p])] /\ buf'[p].id = 0
      BY <1>1, <2>4, <3>1, <3>3 DEF Lookup, Fails, Finish, Goto
    <3> QED
      BY <1>1, <2>4, <3>2, <3>4 DEF Content, Safe, TypeOK
  <2>5. ASSUME NEW r \in Procs, reply[r] = "added", arg[r] = i
        PROVE  pc'[p] = "write" => arg[p] # i
    <3>1. Slot(Content, i).id = i
      BY <2>5 DEF Growing, Entry
    <3> QED
      BY <2>4, <3>1 DEF Ids
  <2>6. \A r \in Procs : reply'[r] = "added" => reply[r] = "added"
    BY <2>1
  <2>7. Content' = Content
    BY <2>1 DEF Content
  <2>8. ASSUME NEW r \in Procs, reply'[r] = "added", arg'[r] = i
        PROVE  /\ \E q \in adders'[r] : Slot(Content', i) = Entry(i, q)
               /\ \A q \in Procs : pc'[q] = "write" /\ arg'[q] = i
                                   => q \in adders'[r]
    BY <2>1, <2>5, <2>6, <2>7, <2>8 DEF Growing
  <2> QED
    BY <2>1, <2>2, <2>3, <2>8 DEF Growing
<1>5. ASSUME NEW p \in Procs, Write(p) PROVE Growing(i)'
  <2>1. /\ UNCHANGED <<db, fd, op, arg>>
        /\ \A q \in Procs \ {p} : /\ pc'[q] = pc[q] /\ reply'[q] = reply[q]
                                  /\ adders'[q] = adders[q]
        /\ pc[p] = "write" /\ pc'[p] = "exit"
        /\ op[p] = "add" \/ arg[p] # i
        /\ arg[p] \in Ids /\ arg[p] \in Nat
    BY <1>1, <1>5
    DEF Write, Fails, Finish, Growing, Safe, Descriptors, Ids
  <2>2. /\ fd[p] \in 1..Len(data) /\ data[fd[p]] \in Seq(Record)
        /\ fd[p] = db /\ Content = data[db]
    BY <1>5, OpenFiles DEF Write, Growing, Content
  <2>3. CASE UNCHANGED <<data, adders>> /\ reply'[p] = "fail"
    BY <2>1, <2>3 DEF Growing, Content
  <2>4. CASE /\ data' = [data EXCEPT ![fd[p]] = WriteAt(@, arg[p], Written(p))]
             /\ adders' = [adders EXCEPT ![p] = Adders(p)]
    <3>1. Written(p) \in Record /\ (arg[p] = i => Written(p) = Entry(i, p))
      BY <2>1, WrittenType DEF Safe, Written, Entry
    <3>2. Content' = WriteAt(Content, arg[p], Written(p))
      BY <1>1, <2>1, <2>2, <2>4 DEF Content
    <3>3. /\ Slot(Content', arg[p]) = Written(p)
          /\ \A j \in Nat \ {arg[p]} : Slot(Content', j) = Slot(Content, j)
      BY <2>1, <2>2, <3>1, <3>2, WriteAtType, ZenonT(40)
    <3>4. arg[p] = i => Slot(Content', i) = Entry(i, p)
      BY <3>1, <3>3
    <3>5. arg[p] # i => Slot(Content', i) = Slot(Content, i)
      BY <1>i, <3>3
    <3>6. adders'[p] = Adders(p)
      BY <2>4 DEF Safe, TypeOK
    <3>7. ASSUME NEW r \in Procs, reply'[r] = "added", arg[r] = i
          PROVE  /\ \E q \in adders'[r] : Slot(Content', i) = Entry(i, q)
                 /\ \A q \in Procs : pc'[q] = "write" /\ arg[q] = i
                                     => q \in adders'[r]
      <4>1. CASE r # p
        <5>1. reply[r] = "added" /\ adders'[r] = adders[r]
          BY <2>1, <3>7, <4>1
        <5>2. arg[p] = i => p \in adders[r]
          BY <2>1, <3>7, <5>1 DEF Growing
        <5> QED
          BY <2>1, <3>4, <3>5, <3>7, <5>1, <5>2 DEF Growing
      <4>2. CASE r = p
        <5>1. arg[p] = i /\ op[p] = "add"
          BY <2>1, <3>7, <4>2
        <5>2. p \in Adders(p)
          BY <2>1, <5>1 DEF Adders
        <5>3. \A q \in Procs : pc'[q] = "write" /\ arg[q] = i
                              => q \in Adders(p)
          BY <2>1, <5>1 DEF Adders, Growing
        <5> QED
          BY <3>4, <3>6, <4>2, <5>1, <5>2, <5>3
      <4> QED BY <4>1, <4>2
    <3> QED
      BY <2>1, <3>7 DEF Growing
  <2>5. \/ UNCHANGED <<data, adders>> /\ reply'[p] = "fail"
        \/ /\ data' = [data EXCEPT ![fd[p]] = WriteAt(@, arg[p], Written(p))]
           /\ adders' = [adders EXCEPT ![p] = Adders(p)]
    BY <1>1, <1>5 DEF Write, Fails, Finish
  <2> QED
    BY <2>3, <2>4, <2>5
<1>6. ASSUME NEW p \in Procs, Truncate(p) PROVE FALSE
  BY <1>6 DEF Truncate, Growing
<1>7. ASSUME NEW p \in Procs, Compress(p) PROVE FALSE
  BY <1>7 DEF Placed, CompressCalls, Compress, CompressOpen, CompressTmp,
              CompressRead, CompressWrite, CompressRename, CompressReopen
<1> QED
  BY <1>2, <1>3, <1>4, <1>5, <1>6, <1>7 DEF Next

\* What holds of every student until that student is dropped, and that only
\* ids in range are ever reported as added.
Keeping ==
  /\ Undisturbed
  /\ \A i \in Ids : NeverDropped(i) => Growing(i)
  /\ \A p \in Procs : reply[p] = "added" => arg[p] \in Ids /\ pc[p] # "start"

LEMMA NextAdded ==
  ASSUME Undisturbed, [Next]_vars,
         \A p \in Procs : reply[p] = "added" => arg[p] \in Ids /\ pc[p] # "start"
  PROVE  \A p \in Procs : reply'[p] = "added" => arg'[p] \in Ids /\ pc'[p] # "start"
<1>1. /\ pc \in [Procs -> Calls] /\ reply \in [Procs -> Replies]
      /\ arg \in [Procs -> 0..(MaxId + 1)]
  BY DEF Undisturbed, Safe, TypeOK
<1>2. \A p \in Procs : pc[p] = "write" => arg[p] \in Ids
  BY DEF Undisturbed, Safe, Descriptors
<1>3. CASE UNCHANGED vars
  BY <1>3 DEF vars
<1>4. ASSUME NEW p \in Procs,
             Start(p) \/ Lookup(p) \/ Scan(p) \/ Truncate(p) \/ Compress(p)
      PROVE  /\ \A q \in Procs \ {p} :
                  reply'[q] = reply[q] /\ arg'[q] = arg[q] /\ pc'[q] = pc[q]
             /\ pc'[p] # "start"
             /\ reply'[p] # "added" \/ (reply'[p] = reply[p] /\ pc[p] = "start")
                  \/ (reply'[p] = reply[p] /\ arg' = arg)
  BY <1>1, <1>4
  DEF Start, Lookup, Scan, Truncate, Compress, CompressOpen, CompressTmp,
      CompressRead, CompressWrite, CompressRename, CompressReopen,
      Fails, Finish, Goto, FirstCall
<1>5. ASSUME NEW p \in Procs, Write(p) \/ Exit(p) \/ Crash(p)
      PROVE  /\ \A q \in Procs \ {p} : reply'[q] = reply[q] /\ pc'[q] = pc[q]
             /\ UNCHANGED arg
             /\ pc'[p] # "start"
             /\ reply'[p] = "added" => reply[p] = "added" \/ pc[p] = "write"
  BY <1>1, <1>5 DEF Write, Exit, Crash, Fails, Finish
<1> QED
  BY <1>2, <1>3, <1>4, <1>5 DEF Next

\* A student a run reported as added stays in the database until a run is
\* asked to delete that student, to zero or to compress.
THEOREM AddedStays == Spec => []NoLostStudent
<1>1. Init => Keeping
  BY InitUndisturbed, InitGrowing DEF Init, Keeping
<1>2. Keeping /\ [Next]_vars => Keeping'
  <2> SUFFICES ASSUME Keeping, [Next]_vars PROVE Keeping'
    OBVIOUS
  <2>1. Undisturbed' /\ Safe /\ Unasked /\ TypeOK
    BY NextUndisturbed DEF Keeping, Undisturbed, Safe
  <2>2. \A i \in Ids : NeverDropped(i)' => Growing(i)'
    <3> SUFFICES ASSUME NEW i \in Ids, NeverDropped(i)' PROVE Growing(i)'
      OBVIOUS
    <3>1. \A q \in Procs : op[q] = "none" \/ (op'[q] = op[q] /\ arg'[q] = arg[q])
      BY <2>1, NextUnasked
    <3>2. NeverDropped(i) /\ NeverCompressed
      BY <3>1 DEF NeverDropped, NeverCompressed
    <3> QED
      BY <2>1, <3>2, NextGrowing DEF Keeping, Undisturbed
  <2> QED
    BY <2>1, <2>2, NextAdded DEF Keeping
<1>3. Keeping => NoLostStudent
  <2> SUFFICES ASSUME Keeping, NEW p \in Procs, reply[p] = "added",
                      NeverDropped(arg[p])
               PROVE  Slot(Content, arg[p]) \in [id : {arg[p]}, by : adders[p]]
    BY DEF NoLostStudent
  <2>1. Growing(arg[p])
    BY DEF Keeping
  <2>2. PICK q \in adders[p] : Slot(Content, arg[p]) = Entry(arg[p], q)
    BY <2>1 DEF Growing
  <2> QED
    BY <2>2 DEF Entry
<1> QED
  BY <1>1, <1>2, <1>3, PTL DEF Spec

(***************************************************************************)
(* The table as a whole: what a run counts while others add, what          *)
(* compress_db leaves, and the table that runs one after the other         *)
(* implement.                                                              *)
(***************************************************************************)

\* The offsets of the records of a file: all, those a run at offset n has
\* read, and those it has still to read.
Full(f) == {k \in 1..Len(f) : f[k] # Empty}
Read(f, n) == {k \in Full(f) : k <= n}
Unread(f, n) == {k \in Full(f) : k > n}

LEMMA Counts ==
  ASSUME NEW f \in Seq(Record), NEW n \in Nat
  PROVE  /\ IsFiniteSet(Full(f)) /\ Records(f) = Cardinality(Full(f))
         /\ IsFiniteSet(Read(f, n)) /\ Cardinality(Read(f, n)) \in Nat
         /\ IsFiniteSet(Unread(f, n)) /\ Cardinality(Unread(f, n)) \in Nat
         /\ Records(f) \in Nat
<1>1. IsFiniteSet(Full(f))
  BY FS_Interval, FS_Subset DEF Full
<1>2. IsFiniteSet(Read(f, n)) /\ IsFiniteSet(Unread(f, n))
  BY <1>1, FS_Subset DEF Read, Unread
<1> QED
  BY <1>1, <1>2, FS_CardinalityType, RecordsType DEF Records, Full

\* Before the first read nothing is read; at the end of the file, everything.
LEMMA CountAtEnds ==
  ASSUME NEW f \in Seq(Record)
  PROVE  /\ Cardinality(Read(f, 0)) = 0
         /\ Cardinality(Unread(f, 0)) = Records(f)
         /\ \A n \in Nat : n >= Len(f) =>
              /\ Cardinality(Read(f, n)) = Records(f)
              /\ Cardinality(Unread(f, n)) = 0
<1>1. Read(f, 0) = {} /\ Unread(f, 0) = Full(f)
  BY DEF Read, Unread, Full
<1>2. ASSUME NEW n \in Nat, n >= Len(f)
      PROVE  Read(f, n) = Full(f) /\ Unread(f, n) = {}
  BY <1>2 DEF Read, Unread, Full
<1> QED
  BY <1>1, <1>2, FS_EmptySet DEF Records, Full

\* One read moves a record from the unread to the read ones.
LEMMA CountOfRead ==
  ASSUME NEW f \in Seq(Record), NEW n \in Nat, n < Len(f)
  PROVE  LET one == IF Slot(f, n) = Empty THEN 0 ELSE 1 IN
         /\ Cardinality(Read(f, n + 1)) = Cardinality(Read(f, n)) + one
         /\ Cardinality(Unread(f, n + 1)) + one = Cardinality(Unread(f, n))
<1>1. Slot(f, n) = f[n + 1] /\ n + 1 \in 1..Len(f)
  BY DEF Slot
<1>. /\ IsFiniteSet(Read(f, n)) /\ Cardinality(Read(f, n)) \in Nat
     /\ IsFiniteSet(Unread(f, n)) /\ Cardinality(Unread(f, n)) \in Nat
  BY Counts
<1>2. CASE f[n + 1] = Empty
  <2>1. Read(f, n + 1) = Read(f, n) /\ Unread(f, n + 1) = Unread(f, n)
    BY <1>1, <1>2 DEF Read, Unread, Full
  <2> QED
    BY <1>1, <1>2, <2>1
<1>3. CASE f[n + 1] # Empty
  <2>1. /\ Read(f, n + 1) = Read(f, n) \cup {n + 1} /\ n + 1 \notin Read(f, n)
        /\ Unread(f, n + 1) = Unread(f, n) \ {n + 1} /\ n + 1 \in Unread(f, n)
    BY <1>1, <1>3 DEF Read, Unread, Full
  <2>2. Cardinality(Read(f, n + 1)) = Cardinality(Read(f, n)) + 1
    BY <2>1, FS_AddElement
  <2>3. Cardinality(Unread(f, n + 1)) = Cardinality(Unread(f, n)) - 1
    BY <2>1, FS_RemoveElement
  <2> QED
    BY <1>1, <1>3, <2>2, <2>3
<1> QED
  BY <1>2, <1>3

\* Adding a record takes none away, on either side.
LEMMA CountOfWrite ==
  ASSUME NEW f \in Seq(Record), NEW n \in Nat,
         NEW i \in Nat, NEW r \in Record, r # Empty
  PROVE  /\ Cardinality(Read(f, n)) <= Cardinality(Read(WriteAt(f, i, r), n))
         /\ Cardinality(Unread(f, n)) <= Cardinality(Unread(WriteAt(f, i, r), n))
         /\ Records(f) <= Records(WriteAt(f, i, r))
<1>. DEFINE g == WriteAt(f, i, r)
<1>1. g \in Seq(Record)
  BY WriteAtType
<1>2. Full(f) \subseteq Full(g)
  <2> SUFFICES ASSUME NEW k \in 1..Len(f), f[k] # Empty
               PROVE  k \in 1..Len(g) /\ g[k] # Empty
    BY DEF Full
  <2>1. Len(g) = IF i < Len(f) THEN Len(f) ELSE i + 1
    BY <1>1 DEF WriteAt
  <2>2. k \in 1..Len(g) /\ k - 1 \in Nat /\ k - 1 < Len(f)
    BY <2>1
  <2>3. g[k] = IF k = i + 1 THEN r ELSE Slot(f, k - 1)
    BY <2>1, <2>2 DEF WriteAt
  <2>4. Slot(f, k - 1) = f[k]
    BY <2>2 DEF Slot
  <2> QED
    BY <2>2, <2>3, <2>4
<1>. HIDE DEF g
<1>3. Read(f, n) \subseteq Read(g, n) /\ Unread(f, n) \subseteq Unread(g, n)
  BY <1>2 DEF Read, Unread
<1>4. /\ Cardinality(Read(f, n)) <= Cardinality(Read(g, n))
      /\ Cardinality(Unread(f, n)) <= Cardinality(Unread(g, n))
  BY <1>1, <1>3, Counts, FS_Subset
<1>5. Records(f) <= Records(g)
  <2>1. IsFiniteSet(Full(f)) /\ IsFiniteSet(Full(g))
    BY <1>1, Counts
  <2>2. Cardinality(Full(f)) <= Cardinality(Full(g))
    BY <1>2, <2>1, FS_Subset
  <2> QED
    BY <1>1, <2>2, Counts
<1> QED
  BY <1>4, <1>5 DEF g

-----------------------------------------------------------------------------
\* Until a run is asked to delete, zero or compress: all runs have the one file
\* open, those that write it add, and one that scans it has counted no more
\* records than it has read, and with those it has still to read no fewer than
\* there were when it started.
Quiet ==
  /\ \A p \in Procs : pc[p] \notin CompressCalls \cup {"truncate"}
  /\ \A p \in Procs : fd[p] \in {0, db}
  /\ \A p \in Procs : pc[p] = "write" => op[p] = "add"
  /\ \A p \in Procs : pc[p] \notin {"exit", "done"} => reply[p] = "none"

Counting(p) ==
  /\ pc[p] = "start" => pos[p] = 0 /\ num[p] = 0
  /\ pc[p] = "scan" =>
       /\ num[p] <= Cardinality(Read(Content, pos[p]))
       /\ base[p] <= num[p] + Cardinality(Unread(Content, pos[p]))
  /\ reply[p] = "listed" => base[p] <= num[p] /\ num[p] <= Records(Content)

Listing == Quiet /\ \A p \in Procs : Counting(p)

LEMMA ContentType == Safe => Content \in Seq(Record)
<1> SUFFICES ASSUME Safe PROVE Content \in Seq(Record)
  OBVIOUS
<1>1. CASE db = 0
  BY <1>1 DEF Content
<1>2. CASE db # 0
  <2>1. db \in 1..Len(data)
    BY <1>2 DEF Safe, TypeOK
  <2> QED
    BY <1>2, <2>1, FileType DEF Safe, Content
<1> QED
  BY <1>1, <1>2

LEMMA NextContentType == Safe' => Content' \in Seq(Record)
<1> SUFFICES ASSUME Safe' PROVE Content' \in Seq(Record)
  OBVIOUS
<1>1. data' \in Seq(Seq(Record)) /\ db' \in 0..Len(data')
  BY DEF Safe, TypeOK
<1>2. CASE db' = 0
  BY <1>2 DEF Content
<1>3. CASE db' # 0
  <2>1. db' \in 1..Len(data')
    BY <1>1, <1>3
  <2> QED
    BY <1>1, <1>3, <2>1 DEF Content
<1> QED
  BY <1>2, <1>3

\* The file has no fewer records than before, anywhere.
Grown ==
  /\ \A n \in Nat :
       /\ Cardinality(Read(Content, n)) <= Cardinality(Read(Content', n))
       /\ Cardinality(Unread(Content, n)) <= Cardinality(Unread(Content', n))
  /\ Records(Content) <= Records(Content')

LEMMA SameGrown == ASSUME Safe, Content' = Content PROVE Grown
<1>1. Content \in Seq(Record)
  BY ContentType
<1>2. ASSUME NEW n \in Nat
      PROVE  /\ Cardinality(Read(Content, n)) \in Nat
             /\ Cardinality(Unread(Content, n)) \in Nat
  BY <1>1, Counts
<1>3. Records(Content) \in Nat
  BY <1>1, RecordsType
<1> QED
  BY <1>2, <1>3 DEF Grown

\* A run that does not move stays right while the file grows.
LEMMA OthersCount ==
  ASSUME Safe, Safe', Grown, NEW q \in Procs, Counting(q),
         pc'[q] = pc[q], reply'[q] = reply[q], pos'[q] = pos[q],
         num'[q] = num[q], base'[q] = base[q]
  PROVE  Counting(q)'
<1>1. pos[q] \in Nat /\ num[q] \in Nat /\ base[q] \in Nat
  BY DEF Safe, TypeOK
<1>. DEFINE n == pos[q]
<1>2. /\ Cardinality(Read(Content, n)) \in Nat
      /\ Cardinality(Unread(Content, n)) \in Nat
      /\ Records(Content) \in Nat
  BY <1>1, ContentType, Counts
<1>3. Content' \in Seq(Record)
  BY NextContentType
<1>4. /\ Cardinality(Read(Content', n)) \in Nat
      /\ Cardinality(Unread(Content', n)) \in Nat
      /\ Records(Content') \in Nat
  BY <1>1, <1>3, Counts
<1>5. /\ Cardinality(Read(Content, n)) <= Cardinality(Read(Content', n))
      /\ Cardinality(Unread(Content, n)) <= Cardinality(Unread(Content', n))
      /\ Records(Content) <= Records(Content')
  BY <1>1 DEF Grown
<1>6. pc'[q] = "scan" =>
        /\ num'[q] <= Cardinality(Read(Content', pos'[q]))
        /\ base'[q] <= num'[q] + Cardinality(Unread(Content', pos'[q]))
  BY <1>1, <1>2, <1>4, <1>5 DEF Counting
<1>7. reply'[q] = "listed" =>
        base'[q] <= num'[q] /\ num'[q] <= Records(Content')
  BY <1>1, <1>2, <1>4, <1>5 DEF Counting
<1> QED
  BY <1>6, <1>7 DEF Counting

LEMMA StartCounts ==
  ASSUME NeverShrunk', Safe, Safe', Listing, NEW p \in Procs, Start(p)
  PROVE  Listing'
<1>1. /\ Len(data) \in Nat /\ data \in Seq(Seq(Record)) /\ db \in 0..Len(data)
      /\ pc \in [Procs -> Calls] /\ reply \in [Procs -> Replies]
      /\ op \in [Procs -> Ops \cup {"none"}]
      /\ fd \in [Procs -> 0..Len(data)] /\ base \in [Procs -> Nat]
  BY SMTT(30) DEF Safe, TypeOK
<1>2. PICK o \in Ops : \E a \in Args(o) : Start(p)!3!(o)!(a)
  BY DEF Start
<1>3. /\ \A q \in Procs \ {p} : /\ pc'[q] = pc[q] /\ reply'[q] = reply[q]
                               /\ op'[q] = op[q] /\ base'[q] = base[q]
      /\ UNCHANGED <<pos, num>> /\ base'[p] = Records(Content)
  BY <1>1 DEF Start, Fails, Finish, Goto
<1>4. reply'[p] # "listed" /\ pc'[p] \in {"lookup", "scan", "exit"}
      /\ (pc'[p] # "exit" => reply'[p] = "none")
  <2>1. o \in {"add", "find", "count", "print"}
    BY <1>1, <1>2, OpsAssumption DEF NeverShrunk, AllOps
  <2>2. reply[p] = "none"
    BY DEF Start, Listing, Quiet
  <2> QED
    BY <1>1, <1>2, <2>1, <2>2 DEF Fails, Finish, Goto, FirstCall
<1>5. \A q \in Procs : fd'[q] \in {0, db'}
  <2>1. \A q \in Procs : fd[q] = 0 \/ (fd[q] = db /\ db # 0)
    BY DEF Listing, Quiet
  <2>2. \/ UNCHANGED <<db, fd>>
        \/ db' = (IF db = 0 THEN Len(data) + 1 ELSE db)
             /\ fd' = [fd EXCEPT ![p] = db']
    BY DEF Start
  <2> QED
    BY <1>1, <2>1, <2>2
<1>6. Content' = Content
  <2>1. CASE UNCHANGED <<db, data>>
    BY <2>1 DEF Content
  <2>2. CASE db = 0 /\ db' = Len(data) + 1 /\ data' = Append(data, <<>>)
    BY <1>1, <2>2 DEF Content
  <2> QED
    BY <2>1, <2>2 DEF Start
<1>7. Quiet'
  BY <1>3, <1>4, <1>5 DEF Listing, Quiet, CompressCalls
<1>8. ASSUME NEW q \in Procs \ {p} PROVE Counting(q)'
  BY <1>3, <1>6, SameGrown, OthersCount DEF Listing
<1>9. Counting(p)'
  <2>1. pos[p] = 0 /\ num[p] = 0
    BY DEF Start, Listing, Counting
  <2>2. /\ Cardinality(Read(Content, 0)) = 0
        /\ Cardinality(Unread(Content, 0)) = Records(Content)
        /\ Records(Content) \in Nat
    BY ContentType, CountAtEnds, Counts
  <2> QED
    BY <1>3, <1>4, <1>6, <2>1, <2>2 DEF Counting
<1> QED
  BY <1>7, <1>8, <1>9 DEF Listing

LEMMA WriteCounts ==
  ASSUME Safe, Safe', Listing, NEW p \in Procs, Write(p)
  PROVE  Listing'
<1>1. /\ Len(data) \in Nat /\ data \in Seq(Seq(Record)) /\ db \in 0..Len(data)
      /\ pc \in [Procs -> Calls] /\ reply \in [Procs -> Replies]
  BY SMTT(30) DEF Safe, TypeOK
<1>2. /\ UNCHANGED <<db, fd, op, arg, pos, num, base>>
      /\ \A q \in Procs \ {p} : pc'[q] = pc[q] /\ reply'[q] = reply[q]
      /\ pc'[p] = "exit" /\ reply'[p] # "listed"
  BY <1>1 DEF Write, Fails, Finish
<1>3. /\ arg[p] \in Ids /\ arg[p] \in Nat /\ op[p] = "add"
  BY DEF Write, Listing, Quiet, Safe, Descriptors, Ids
<1>4. Grown
  <2>1. /\ fd[p] \in 1..Len(data) /\ data[fd[p]] \in Seq(Record)
        /\ fd[p] = db /\ Content = data[db]
    BY OpenFiles DEF Write, Listing, Quiet, Content
  <2>2. CASE UNCHANGED data
    BY <1>2, <2>2, SameGrown DEF Content
  <2>3. CASE data' = [data EXCEPT ![fd[p]] = WriteAt(@, arg[p], Written(p))]
    <3>1. Written(p) \in Record /\ Written(p) # Empty
      BY <1>3 DEF Written, Record, Empty, Ids
    <3>2. Content' = WriteAt(Content, arg[p], Written(p))
      BY <1>1, <1>2, <2>1, <2>3 DEF Content
    <3> QED
      BY <1>3, <2>1, <3>1, <3>2, CountOfWrite DEF Grown
  <2> QED
    BY <2>2, <2>3 DEF Write
<1>5. Quiet'
  BY <1>2 DEF Listing, Quiet, CompressCalls
<1>6. ASSUME NEW q \in Procs \ {p} PROVE Counting(q)'
  BY <1>2, <1>4, OthersCount DEF Listing
<1>7. Counting(p)'
  BY <1>2 DEF Counting
<1> QED
  BY <1>5, <1>6, <1>7 DEF Listing

LEMMA ScanCounts ==
  ASSUME Safe, Safe', Listing, NEW p \in Procs, Scan(p)
  PROVE  Listing'
<1>1. /\ pc \in [Procs -> Calls] /\ reply \in [Procs -> Replies]
      /\ pos \in [Procs -> Nat] /\ num \in [Procs -> Nat]
      /\ base \in [Procs -> Nat]
  BY DEF Safe, TypeOK
<1>2. /\ UNCHANGED <<db, data, fd, op, base>>
      /\ \A q \in Procs \ {p} : /\ pc'[q] = pc[q] /\ reply'[q] = reply[q]
                               /\ pos'[q] = pos[q] /\ num'[q] = num[q]
      /\ pc'[p] \in {"scan", "exit"} /\ (pc'[p] = "scan" => reply'[p] = reply[p])
  BY <1>1 DEF Scan, Fails, Finish, Goto
<1>3. Content' = Content /\ Content \in Seq(Record)
  BY <1>2, ContentType DEF Content
<1>4. /\ data[fd[p]] = Content
      /\ pc[p] = "scan" /\ reply[p] = "none"
  BY OpenFiles DEF Scan, Listing, Quiet, Content
<1>5. /\ num[p] <= Cardinality(Read(Content, pos[p]))
      /\ base[p] <= num[p] + Cardinality(Unread(Content, pos[p]))
  BY <1>4 DEF Listing, Counting
<1>6. Quiet'
  BY <1>2, <1>4 DEF Listing, Quiet, CompressCalls
<1>7. ASSUME NEW q \in Procs \ {p} PROVE Counting(q)'
  BY <1>2, <1>3, SameGrown, OthersCount DEF Listing
<1>8. Counting(p)'
  <2>1. CASE pc'[p] = "exit" /\ reply'[p] = "fail"
    BY <2>1 DEF Counting
  <2>2. CASE /\ pos[p] < Len(Content)
             /\ pos'[p] = pos[p] + 1
             /\ num'[p] = IF Slot(Content, pos[p]) = Empty THEN num[p]
                          ELSE num[p] + 1
             /\ pc'[p] = "scan" /\ reply'[p] = "none"
    <3>1. /\ Cardinality(Read(Content, pos[p])) \in Nat
          /\ Cardinality(Unread(Content, pos[p])) \in Nat
          /\ Cardinality(Read(Content, pos[p] + 1)) \in Nat
          /\ Cardinality(Unread(Content, pos[p] + 1)) \in Nat
      <4>1. pos[p] \in Nat /\ pos[p] + 1 \in Nat
        BY <1>1
      <4> QED
        BY <4>1, <1>3, Counts
    <3>2. /\ Cardinality(Read(Content, pos[p] + 1)) =
               Cardinality(Read(Content, pos[p]))
                 + (IF Slot(Content, pos[p]) = Empty THEN 0 ELSE 1)
          /\ Cardinality(Unread(Content, pos[p] + 1))
                 + (IF Slot(Content, pos[p]) = Empty THEN 0 ELSE 1) =
               Cardinality(Unread(Content, pos[p]))
      BY <1>1, <1>3, <2>2, CountOfRead
    <3>3. /\ num'[p] <= Cardinality(Read(Content, pos[p] + 1))
          /\ base[p] <= num'[p] + Cardinality(Unread(Content, pos[p] + 1))
      BY <1>1, <1>5, <2>2, <3>1, <3>2
    <3> QED
      BY <1>2, <1>3, <2>2, <3>3 DEF Counting
  <2>3. CASE /\ pos[p] >= Len(Content) /\ pc'[p] = "exit"
             /\ num'[p] = num[p]
    <3>1. /\ Cardinality(Read(Content, pos[p])) = Records(Content)
          /\ Cardinality(Unread(Content, pos[p])) = 0
      BY <1>1, <1>3, <2>3, CountAtEnds
    <3>2. base[p] <= num[p] /\ num[p] <= Records(Content)
      BY <1>1, <1>5, <3>1
    <3> QED
      BY <1>2, <1>3, <2>3, <3>2 DEF Counting
  <2> QED
    BY <1>1, <1>4, <2>1, <2>2, <2>3 DEF Scan, Fails, Finish, Goto
<1> QED
  BY <1>6, <1>7, <1>8 DEF Listing

LEMMA RestCounts ==
  ASSUME Safe, Safe', Listing, NeverShrunk', NEW p \in Procs,
         Lookup(p) \/ Exit(p) \/ Crash(p)
  PROVE  Listing'
<1>1. /\ pc \in [Procs -> Calls] /\ reply \in [Procs -> Replies]
  BY DEF Safe, TypeOK
<1>2. /\ UNCHANGED <<db, data, fd, op, pos, num, base>>
      /\ \A q \in Procs \ {p} : pc'[q] = pc[q] /\ reply'[q] = reply[q]
      /\ reply'[p] = "listed" => reply[p] = "listed"
      /\ pc'[p] \in {"write", "exit", "done"}
      /\ pc'[p] = "write" => op[p] \in {"add", "del"} /\ reply'[p] = reply[p]
                              /\ pc[p] = "lookup"
  BY <1>1 DEF Lookup, Exit, Crash, Fails, Finish, Goto
<1>3. op[p] # "del"
  BY <1>2 DEF NeverShrunk
<1>4. Content' = Content
  BY <1>2 DEF Content
<1>5. Quiet'
  BY <1>2, <1>3 DEF Listing, Quiet, CompressCalls
<1>6. ASSUME NEW q \in Procs \ {p} PROVE Counting(q)'
  BY <1>2, <1>4, SameGrown, OthersCount DEF Listing
<1>7. Counting(p)'
  BY <1>2, <1>4 DEF Listing, Counting
<1> QED
  BY <1>5, <1>6, <1>7 DEF Listing

LEMMA NextListing ==
  ASSUME NeverShrunk', Safe, Safe', Listing, [Next]_vars
  PROVE  Listing'
<1>1. CASE UNCHANGED vars
  BY <1>1 DEF vars, Listing, Quiet, Counting, Content
<1>2. ASSUME NEW p \in Procs, Truncate(p) \/ Compress(p) PROVE FALSE
  BY <1>2
  DEF Truncate, Listing, Quiet, CompressCalls, Compress, CompressOpen,
      CompressTmp, CompressRead, CompressWrite, CompressRename, CompressReopen
<1> QED
  BY <1>1, <1>2, StartCounts, WriteCounts, ScanCounts, RestCounts DEF Next

\* A run that lists the records while others only add some reports none twice
\* and misses none that was there when it started, however many runs there are
\* and whatever fails.
THEOREM CountsBetween == Spec => []CountBetween
<1>. DEFINE Known == Safe /\ Unasked /\ (NeverShrunk => Listing)
<1>1. Init => Known
  <2>1. Init => Listing
    BY DEF Init, Listing, Quiet, Counting, CompressCalls
  <2> QED
    BY <2>1, InitSafe, NextUnasked
<1>2. Known /\ [Next]_vars => Known'
  <2> SUFFICES ASSUME Known, [Next]_vars PROVE Known'
    OBVIOUS
  <2>1. Safe' /\ Unasked' /\ TypeOK
    BY NextSafe, NextUnasked DEF Safe
  <2>2. NeverShrunk' => NeverShrunk
    BY <2>1, NextUnasked DEF NeverShrunk
  <2> QED
    BY <2>1, <2>2, NextListing
<1>3. Known => CountBetween
  <2> SUFFICES ASSUME Known, NeverShrunk, NEW p \in Procs, reply[p] = "listed"
               PROVE  num[p] \in base[p]..Records(Content)
    BY DEF CountBetween
  <2>1. /\ base[p] <= num[p] /\ num[p] <= Records(Content)
        /\ base[p] \in Nat /\ num[p] \in Nat
    BY DEF Listing, Counting, Safe, TypeOK
  <2>2. Records(Content) \in Nat
    BY ContentType, RecordsType
  <2> QED
    BY <2>1, <2>2
<1> QED
  BY <1>1, <1>2, <1>3, PTL DEF Spec

(***************************************************************************)
(* A run that compresses the database alone.                               *)
(***************************************************************************)

\* What compress_db has kept after each slot of a file.
IsKeeping(kept, f, n) ==
  kept = [k \in 0..n |-> IF k = 0 THEN <<>> ELSE Keep(kept[k - 1], f[k])]

LEMMA KeepingExists ==
  ASSUME NEW f
  PROVE  \A n \in Nat : \E kept : IsKeeping(kept, f, n)
<1>. DEFINE Bad == {n \in Nat : ~ \E kept : IsKeeping(kept, f, n)}
<1>. SUFFICES ASSUME Bad # {} PROVE FALSE
  OBVIOUS
<1>1. PICK n \in Bad : \A m \in Bad : n <= m
  <2>1. Bad \subseteq Nat
    OBVIOUS
  <2> HIDE DEF Bad
  <2> QED
    BY <2>1, Smallest
<1>2. CASE n = 0
  <2>1. IsKeeping([k \in 0..0 |-> <<>>], f, 0)
    BY DEF IsKeeping
  <2> QED
    BY <1>2, <2>1
<1>3. CASE n # 0
  <2>1. n - 1 \in Nat /\ n - 1 \notin Bad
    BY <1>1, <1>3
  <2>2. PICK g : IsKeeping(g, f, n - 1)
    BY <2>1
  <2>. DEFINE h == [k \in 0..n |-> IF k = n THEN Keep(g[n - 1], f[n]) ELSE g[k]]
  <2>3. ASSUME NEW k \in 0..n
        PROVE  h[k] = IF k = 0 THEN <<>> ELSE Keep(h[k - 1], f[k])
    <3>1. CASE k = n
      <4>1. h[n - 1] = g[n - 1]
        BY <2>1
      <4> QED
        BY <1>3, <3>1, <4>1
    <3>2. CASE k # n
      <4>1. k \in 0..(n - 1) /\ h[k] = g[k] /\ (k # 0 => h[k - 1] = g[k - 1])
        BY <2>1, <3>2
      <4>2. g[k] = IF k = 0 THEN <<>> ELSE Keep(g[k - 1], f[k])
        BY <2>2, <4>1 DEF IsKeeping
      <4> QED
        BY <4>1, <4>2
    <3> QED
      BY <3>1, <3>2
  <2>4. IsKeeping(h, f, n)
    BY <2>3 DEF IsKeeping
  <2> QED
    BY <2>4
<1> QED
  BY <1>2, <1>3

\* The records among the first n slots of a file.
KeptOf(f, n) == (CHOOSE kept : IsKeeping(kept, f, Len(f)))[n]

LEMMA KeptSteps ==
  ASSUME NEW f \in Seq(Record)
  PROVE  /\ KeptOf(f, 0) = <<>>
         /\ KeptOf(f, Len(f)) = Kept(f)
         /\ \A n \in Nat : n < Len(f) =>
              KeptOf(f, n + 1) = Keep(KeptOf(f, n), Slot(f, n))
<1>. DEFINE kept == CHOOSE kept : IsKeeping(kept, f, Len(f))
<1>1. IsKeeping(kept, f, Len(f))
  BY KeepingExists
<1>2. KeptOf(f, Len(f)) = Kept(f)
  BY DEF Kept, IsKeeping, KeptOf
<1>3. \A n : KeptOf(f, n) = kept[n]
  BY DEF KeptOf
<1>. HIDE DEF kept
<1>4. kept[0] = <<>>
  BY <1>1 DEF IsKeeping
<1>5. ASSUME NEW n \in Nat, n < Len(f)
      PROVE  kept[n + 1] = Keep(kept[n], Slot(f, n))
  <2>1. n + 1 \in 0..Len(f) /\ n + 1 # 0 /\ (n + 1) - 1 = n
    BY <1>5
  <2>2. kept[n + 1] = Keep(kept[n], f[n + 1])
    BY <1>1, <2>1 DEF IsKeeping
  <2> QED
    BY <1>5, <2>2 DEF Slot
<1> QED
  BY <1>2, <1>3, <1>4, <1>5

\* A file without empty records is kept as it is.
Compact(f) == \A n \in 1..Len(f) : f[n] # Empty

LEMMA KeptCompact ==
  ASSUME NEW f \in Seq(Record), Compact(f)
  PROVE  Kept(f) = f
<1>. DEFINE Prefix(n) == SubSeq(f, 1, n)
            Bad == {n \in 0..Len(f) : KeptOf(f, n) # Prefix(n)}
<1>1. Bad = {}
  <2> SUFFICES ASSUME Bad # {} PROVE FALSE
    OBVIOUS
  <2>1. PICK n \in Bad : \A m \in Bad : n <= m
    <3>1. Bad \subseteq Nat
      OBVIOUS
    <3> HIDE DEF Bad
    <3> QED
      BY <3>1, Smallest
  <2>2. CASE n = 0
    <3>1. Prefix(0) = <<>>
      OBVIOUS
    <3> QED
      BY <2>2, <3>1, KeptSteps
  <2>3. CASE n # 0
    <3>1. n - 1 \in Nat /\ n - 1 < Len(f) /\ n - 1 \in 0..Len(f)
          /\ n \in 1..Len(f) /\ (n - 1) + 1 = n
      BY <2>3
    <3>2. KeptOf(f, n - 1) = Prefix(n - 1)
      BY <2>1, <3>1
    <3>3. Slot(f, n - 1) = f[n] /\ f[n] # Empty
      BY <3>1 DEF Slot, Compact
    <3>4. KeptOf(f, n) = Keep(KeptOf(f, n - 1), Slot(f, n - 1))
      BY <3>1, KeptSteps
    <3>5. KeptOf(f, n) = Append(Prefix(n - 1), f[n])
      BY <3>2, <3>3, <3>4 DEF Keep
    <3>6. Append(Prefix(n - 1), f[n]) = Prefix(n)
      BY <3>1
    <3> QED
      BY <3>5, <3>6
  <2> QED
    BY <2>2, <2>3
<1>2. Prefix(Len(f)) = f
  OBVIOUS
<1>3. Len(f) \in 0..Len(f)
  OBVIOUS
<1> QED
  BY <1>1, <1>2, <1>3, KeptSteps

\* The record a run writes at the end of a file.
LEMMA WriteAppends ==
  ASSUME NEW f \in Seq(Record), NEW r \in Record
  PROVE  /\ WriteAt(f, Len(f), r) = Append(f, r)
         /\ Compact(f) /\ r # Empty => Compact(Append(f, r))
<1>1. ASSUME NEW k \in 1..(Len(f) + 1), k # Len(f) + 1
      PROVE  Slot(f, k - 1) = f[k]
  <2>1. k - 1 < Len(f) /\ (k - 1) + 1 = k
    BY <1>1
  <2> QED
    BY <2>1 DEF Slot
<1>2. WriteAt(f, Len(f), r) =
        [k \in 1..(Len(f) + 1) |-> IF k = Len(f) + 1 THEN r ELSE f[k]]
  BY <1>1 DEF WriteAt
<1>3. WriteAt(f, Len(f), r) = Append(f, r)
  <2>. DEFINE g == WriteAt(f, Len(f), r)
              h == Append(f, r)
  <2>1. g \in Seq(Record) /\ h \in Seq(Record)
    BY WriteAtType
  <2>2. /\ Len(g) = Len(f) + 1 /\ Len(h) = Len(f) + 1
        /\ g[Len(f) + 1] = r /\ h[Len(f) + 1] = r
        /\ \A k \in 1..Len(f) : g[k] = f[k] /\ h[k] = f[k]
    BY <1>2, AppendProperties
  <2>. HIDE DEF g, h
  <2>3. \A k \in 1..Len(g) : g[k] = h[k]
    <3>1. \A k \in 1..Len(g) : k = Len(f) + 1 \/ k \in 1..Len(f)
      BY <2>2
    <3> QED
      BY <2>2, <3>1
  <2>4. g = h
    BY <2>1, <2>2, <2>3, SeqEqual
  <2> QED
    BY <2>4 DEF g, h
<1>4. Compact(f) /\ r # Empty => Compact(Append(f, r))
  <2>1. /\ Len(f) \in Nat /\ Len(Append(f, r)) = Len(f) + 1
        /\ Append(f, r)[Len(f) + 1] = r
        /\ \A k \in 1..Len(f) : Append(f, r)[k] = f[k]
    OBVIOUS
  <2> QED
    BY <2>1 DEF Compact
<1> QED
  BY <1>3, <1>4

-----------------------------------------------------------------------------
(* One run at a time. *)

Under(p) == pc[p] \notin {"start", "done"}

Alone == \A p, q \in Procs : Under(p) /\ Under(q) => p = q

\* A run that compresses makes the calls of compress_db, and reads from the
\* first slot on.
Called(p) ==
  /\ op[p] = "compress" => pc[p] \in CompressCalls \cup {"exit", "done"}
  /\ pc[p] \in {"start", "xopen", "xtmp"} => pos[p] = 0 /\ tpos[p] = 0

\* While it copies, the temporary file holds the records among the slots it
\* has read, but for the one it is about to write.
Copied(p) ==
  /\ pc[p] \in {"xtmp", "xread", "xwrite", "xrename"} => fd[p] = db
  /\ pc[p] \in {"xread", "xwrite", "xrename"} =>
       /\ tmp # 0 /\ tfd[p] = tmp
       /\ pos[p] <= Len(data[db])
       /\ tpos[p] = Len(data[tmp])
       /\ Compact(data[tmp])
       /\ KeptOf(data[db], pos[p]) =
            IF pc[p] = "xwrite" THEN Append(data[tmp], buf[p]) ELSE data[tmp]
  /\ pc[p] = "xwrite" => buf[p] # Empty
  /\ pc[p] = "xrename" /\ "read" \notin Faults => pos[p] = Len(data[db])

\* What it leaves when it is through.
Replaced(p) ==
  pc[p] = "xreopen" \/ (reply[p] = "compressed" /\ pc[p] = "exit")
    => tmp = 0 /\ Compact(Content)

InTurn == Alone /\ \A p \in Procs : Called(p) /\ Copied(p) /\ Replaced(p)

\* Only the run that moves is under way.
LEMMA OthersWait ==
  ASSUME Serial, Safe, Alone, NEW p \in Procs,
         \/ Start(p) \/ Lookup(p) \/ Write(p) \/ Scan(p) \/ Truncate(p)
         \/ Compress(p) \/ Exit(p) \/ Crash(p)
  PROVE  \A q \in Procs \ {p} :
           /\ pc[q] \in {"start", "done"} /\ pc'[q] = pc[q]
           /\ op'[q] = op[q] /\ pos'[q] = pos[q] /\ tpos'[q] = tpos[q]
           /\ reply'[q] = reply[q] /\ arg'[q] = arg[q] /\ num'[q] = num[q]
           /\ buf'[q] = buf[q]
<1>1. /\ pc \in [Procs -> Calls] /\ reply \in [Procs -> Replies]
      /\ op \in [Procs -> Ops \cup {"none"}] /\ arg \in [Procs -> 0..(MaxId + 1)]
      /\ pos \in [Procs -> Nat] /\ tpos \in [Procs -> Nat]
      /\ num \in [Procs -> Nat] /\ buf \in [Procs -> Record]
  BY DEF Safe, TypeOK
<1>2. CASE Start(p)
  BY <1>1, <1>2 DEF Start, Fails, Finish, Goto
<1>3. CASE Lookup(p) \/ Write(p) \/ Scan(p) \/ Truncate(p) \/ Exit(p) \/ Crash(p)
  <2>1. Under(p)
    BY <1>3 DEF Under, Lookup, Write, Scan, Truncate, Exit, Crash
  <2>2. ASSUME NEW q \in Procs \ {p} PROVE pc[q] \in {"start", "done"}
    BY <2>1 DEF Alone, Under
  <2> QED
    BY <1>1, <1>3, <2>2
    DEF Lookup, Write, Scan, Truncate, Exit, Crash, Fails, Finish, Goto
<1>4. CASE Compress(p)
  <2>1. Under(p)
    BY <1>4 DEF Under, Compress, CompressOpen, CompressTmp, CompressRead,
                CompressWrite, CompressRename, CompressReopen
  <2>2. ASSUME NEW q \in Procs \ {p} PROVE pc[q] \in {"start", "done"}
    BY <2>1 DEF Alone, Under
  <2> QED
    BY <1>1, <1>4, <2>2
    DEF Compress, CompressOpen, CompressTmp, CompressRead, CompressWrite,
        CompressRename, CompressReopen, Fails, Finish, Goto
<1> QED
  BY <1>2, <1>3, <1>4

LEMMA TurnOfOne ==
  ASSUME Serial, Safe, InTurn, NEW p \in Procs,
         \/ Start(p) \/ Lookup(p) \/ Write(p) \/ Scan(p) \/ Truncate(p)
         \/ Compress(p) \/ Exit(p) \/ Crash(p),
         Called(p)', Copied(p)', Replaced(p)'
  PROVE  InTurn'
<1>1. ASSUME NEW q \in Procs \ {p}
      PROVE  /\ pc[q] \in {"start", "done"} /\ pc'[q] = pc[q]
             /\ op'[q] = op[q] /\ pos'[q] = pos[q] /\ tpos'[q] = tpos[q]
             /\ reply'[q] = reply[q]
  BY OthersWait DEF InTurn
<1>2. Alone'
  BY <1>1 DEF Alone, Under
<1>3. ASSUME NEW q \in Procs \ {p} PROVE Called(q)' /\ Copied(q)' /\ Replaced(q)'
  BY <1>1 DEF InTurn, Called, Copied, Replaced
<1> QED
  BY <1>2, <1>3 DEF InTurn

LEMMA StartTurns ==
  ASSUME Serial, Safe, InTurn, NEW p \in Procs, Start(p)
  PROVE  InTurn'
<1>1. /\ pc \in [Procs -> Calls] /\ op \in [Procs -> Ops \cup {"none"}]
      /\ reply \in [Procs -> Replies]
  BY DEF Safe, TypeOK
<1>2. PICK o \in Ops : \E i \in Args(o) : Start(p)!3!(o)!(i)
  BY DEF Start
<1>3. /\ pos' = pos /\ tpos' = tpos /\ pc[p] = "start"
      /\ op'[p] = o
      /\ \/ pc'[p] = "exit" /\ reply'[p] \in {"fail", "args"}
         \/ pc'[p] = FirstCall(o)
  BY <1>1, <1>2 DEF Start, Fails, Finish, Goto
<1>4. pc'[p] \in {"exit", "lookup", "scan", "xopen", "truncate"}
      /\ (pc'[p] = "xopen" <=> o = "compress" /\ pc'[p] # "exit")
      /\ (pc'[p] = "exit" => reply'[p] \in {"fail", "args"})
  BY <1>3 DEF FirstCall
<1>5. Called(p)' /\ Copied(p)' /\ Replaced(p)'
  BY <1>3, <1>4 DEF InTurn, Called, Copied, Replaced, CompressCalls
<1> QED
  BY <1>5, TurnOfOne

LEMMA OtherTurns ==
  ASSUME Serial, Safe, InTurn, NEW p \in Procs,
         \/ Lookup(p) \/ Write(p) \/ Scan(p) \/ Truncate(p)
         \/ Exit(p) \/ Crash(p)
  PROVE  InTurn'
<1>1. /\ pc \in [Procs -> Calls] /\ reply \in [Procs -> Replies]
  BY DEF Safe, TypeOK
<1>2. /\ op' = op /\ pc'[p] \in {"write", "scan", "exit", "done"}
      /\ pc'[p] = "exit" => reply'[p] # "compressed"
      /\ pc'[p] \in {"write", "scan", "exit"} =>
           pc[p] \in {"lookup", "write", "scan", "truncate"}
  BY <1>1
  DEF Lookup, Write, Scan, Truncate, Exit, Crash, Fails, Finish, Goto
<1>3. op[p] = "compress" => pc'[p] = "done"
  BY <1>2 DEF InTurn, Called, CompressCalls
<1>4. Called(p)' /\ Copied(p)' /\ Replaced(p)'
  BY <1>2, <1>3 DEF Called, Copied, Replaced, CompressCalls
<1> QED
  BY <1>4, TurnOfOne

\* The two files of a run that copies.
LEMMA CopyFiles ==
  ASSUME Safe, FreshTmp, InTurn, NEW p \in Procs,
         pc[p] \in {"xread", "xwrite", "xrename"}
  PROVE  /\ db \in 1..Len(data) /\ tmp \in 1..Len(data) /\ tmp # db
         /\ fd[p] = db /\ tfd[p] = tmp
         /\ data[db] \in Seq(Record) /\ data[tmp] \in Seq(Record)
         /\ pos[p] \in Nat /\ tpos[p] = Len(data[tmp])
<1>1. Len(data) \in Nat /\ tmp \in 0..Len(data) /\ pos[p] \in Nat
  BY DEF Safe, TypeOK
<1>2. tmp # 0 /\ tfd[p] = tmp /\ fd[p] = db /\ tpos[p] = Len(data[tmp])
  BY DEF InTurn, Copied
<1>3. db \in 1..Len(data)
  BY OpenFiles
<1>4. tmp \in 1..Len(data) /\ tmp # db
  BY <1>1, <1>2 DEF FreshTmp
<1> QED
  BY <1>1, <1>2, <1>3, <1>4, FileType DEF Safe

LEMMA CompressStarts ==
  ASSUME Serial, Safe, FreshTmp, InTurn, NEW p \in Procs,
         CompressOpen(p) \/ CompressTmp(p)
  PROVE  InTurn'
<1>. SUFFICES Called(p)' /\ Copied(p)' /\ Replaced(p)'
  BY TurnOfOne DEF Compress
<1>1. /\ pc \in [Procs -> Calls] /\ reply \in [Procs -> Replies]
      /\ fd \in [Procs -> 0..Len(data)] /\ tfd \in [Procs -> 0..Len(data)]
      /\ Len(data) \in Nat /\ data \in Seq(Seq(Record))
      /\ tmp \in 0..Len(data)
  BY DEF Safe, TypeOK
<1>2. db \in 1..Len(data) /\ data[db] \in Seq(Record)
  BY OpenFiles, FileType DEF CompressOpen, CompressTmp, Safe
<1>3. /\ pos' = pos /\ tpos' = tpos /\ op' = op /\ db' = db
      /\ pos[p] = 0 /\ tpos[p] = 0
  BY DEF CompressOpen, CompressTmp, InTurn, Called
<1>4. CASE pc'[p] = "exit" /\ reply'[p] = "fail"
  BY <1>4 DEF Called, Copied, Replaced, CompressCalls
<1>5. CASE CompressOpen(p) /\ pc'[p] = "xtmp"
  <2>1. fd'[p] = db
    BY <1>1, <1>5 DEF CompressOpen, Fails, Finish
  <2> QED
    BY <1>3, <1>5, <2>1 DEF Called, Copied, Replaced, CompressCalls
<1>6. CASE CompressTmp(p) /\ pc'[p] = "xread"
  <2>1. /\ tmp' = IF tmp = 0 THEN Len(data) + 1 ELSE tmp
        /\ data' = IF tmp = 0 THEN Append(data, <<>>)
                              ELSE [data EXCEPT ![tmp] = <<>>]
        /\ tfd'[p] = tmp' /\ fd'[p] = db
    BY <1>1, <1>6 DEF CompressTmp, Fails, Finish, InTurn, Copied
  <2>2. tmp # 0 => tmp # db
    BY DEF FreshTmp
  <2>3. tmp' # 0 /\ data'[tmp'] = <<>> /\ data'[db] = data[db]
    BY <1>1, <1>2, <2>1, <2>2
  <2>4. KeptOf(data[db], 0) = <<>> /\ 0 <= Len(data[db]) /\ Len(<<>>) = 0
    BY <1>2, KeptSteps
  <2>5. Compact(<<>>)
    BY DEF Compact
  <2> QED
    BY <1>3, <1>6, <2>1, <2>3, <2>4, <2>5
    DEF Called, Copied, Replaced, CompressCalls
<1>7. \/ pc'[p] = "exit" /\ reply'[p] = "fail"
      \/ CompressOpen(p) /\ pc'[p] = "xtmp"
      \/ CompressTmp(p) /\ pc'[p] = "xread"
  BY <1>1 DEF CompressOpen, CompressTmp, Fails, Finish, Goto
<1> QED
  BY <1>4, <1>5, <1>6, <1>7

LEMMA ReadTurns ==
  ASSUME Serial, Safe, FreshTmp, InTurn, NEW p \in Procs, CompressRead(p)
  PROVE  InTurn'
<1>. SUFFICES Called(p)' /\ Copied(p)' /\ Replaced(p)'
  BY TurnOfOne DEF Compress
<1>1. /\ pc \in [Procs -> Calls] /\ buf \in [Procs -> Record]
      /\ pos \in [Procs -> Nat]
  BY DEF Safe, TypeOK
<1>2. /\ db \in 1..Len(data) /\ tmp \in 1..Len(data) /\ tmp # db
      /\ fd[p] = db /\ tfd[p] = tmp /\ data[db] \in Seq(Record)
      /\ data[tmp] \in Seq(Record)
      /\ pos[p] \in Nat /\ tpos[p] = Len(data[tmp])
  BY CopyFiles DEF CompressRead
<1>3. /\ UNCHANGED <<db, tmp, data, op, fd, tfd, tpos>>
      /\ pc'[p] \in {"xread", "xwrite", "xrename"}
  BY <1>1 DEF CompressRead, Goto
<1>4. /\ tmp # 0 /\ Compact(data[tmp]) /\ pos[p] <= Len(data[db])
      /\ KeptOf(data[db], pos[p]) = data[tmp]
  BY DEF CompressRead, InTurn, Copied
<1>. DEFINE r == Slot(data[db], pos[p])
<1>5. CASE /\ pos[p] < Len(data[db])
           /\ pos'[p] = pos[p] + 1
           /\ buf'[p] = r
           /\ pc'[p] = IF r = Empty THEN "xread" ELSE "xwrite"
  <2>1. pos'[p] <= Len(data[db])
    BY <1>2, <1>5
  <2>2. KeptOf(data[db], pos'[p]) = Keep(data[tmp], r)
    BY <1>2, <1>4, <1>5, KeptSteps
  <2>. HIDE DEF r
  <2>3. KeptOf(data[db], pos'[p]) =
          IF pc'[p] = "xwrite" THEN Append(data[tmp], buf'[p]) ELSE data[tmp]
    BY <1>5, <2>2 DEF Keep
  <2>4. pc'[p] = "xwrite" => buf'[p] # Empty
    BY <1>5
  <2> QED
    BY <1>2, <1>3, <1>4, <1>5, <2>1, <2>3, <2>4
    DEF Called, Copied, Replaced, CompressCalls
<1>6. CASE /\ pos[p] >= Len(data[db]) \/ "read" \in Faults
           /\ pos'[p] = pos[p]
           /\ pc'[p] = "xrename"
  <2>1. "read" \notin Faults => pos[p] = Len(data[db])
    BY <1>2, <1>4, <1>6
  <2> QED
    BY <1>2, <1>3, <1>4, <1>6, <2>1
    DEF Called, Copied, Replaced, CompressCalls
<1> QED
  BY <1>1, <1>2, <1>5, <1>6 DEF CompressRead, Goto

LEMMA WriteTurns ==
  ASSUME Serial, Safe, FreshTmp, InTurn, NEW p \in Procs, CompressWrite(p)
  PROVE  InTurn'
<1>. SUFFICES Called(p)' /\ Copied(p)' /\ Replaced(p)'
  BY TurnOfOne DEF Compress
<1>1. /\ pc \in [Procs -> Calls] /\ reply \in [Procs -> Replies]
      /\ tpos \in [Procs -> Nat] /\ buf[p] \in Record
      /\ data \in Seq(Seq(Record))
  BY DEF Safe, TypeOK
<1>2. /\ db \in 1..Len(data) /\ tmp \in 1..Len(data) /\ tmp # db
      /\ fd[p] = db /\ tfd[p] = tmp /\ data[db] \in Seq(Record)
      /\ data[tmp] \in Seq(Record)
      /\ pos[p] \in Nat /\ tpos[p] = Len(data[tmp])
  BY CopyFiles DEF CompressWrite
<1>3. UNCHANGED <<db, tmp, op, fd, tfd, pos>>
  BY DEF CompressWrite
<1>4. /\ tmp # 0 /\ Compact(data[tmp]) /\ pos[p] <= Len(data[db])
      /\ buf[p] # Empty /\ KeptOf(data[db], pos[p]) = Append(data[tmp], buf[p])
  BY DEF CompressWrite, InTurn, Copied
<1>5. CASE pc'[p] = "exit" /\ reply'[p] = "fail"
  BY <1>5 DEF Called, Copied, Replaced, CompressCalls
<1>6. CASE /\ data' = [data EXCEPT ![tmp] = WriteAt(@, tpos[p], buf[p])]
           /\ tpos'[p] = tpos[p] + 1
           /\ pc'[p] = "xread"
  <2>. DEFINE f == Append(data[tmp], buf[p])
  <2>1. WriteAt(data[tmp], tpos[p], buf[p]) = f /\ Compact(f)
        /\ Len(f) = Len(data[tmp]) + 1
    <3>1. WriteAt(data[tmp], Len(data[tmp]), buf[p]) = f /\ Compact(f)
      BY <1>1, <1>2, <1>4, WriteAppends
    <3>2. Len(f) = Len(data[tmp]) + 1
      BY <1>1, <1>2, AppendProperties
    <3> QED
      BY <1>2, <3>1, <3>2
  <2>. HIDE DEF f
  <2>2. data'[tmp] = f /\ data'[db] = data[db]
    BY <1>1, <1>2, <1>6, <2>1
  <2>3. KeptOf(data[db], pos[p]) = f
    BY <1>4 DEF f
  <2> QED
    BY <1>2, <1>3, <1>4, <1>6, <2>1, <2>2, <2>3
    DEF Called, Copied, Replaced, CompressCalls
<1> QED
  BY <1>1, <1>2, <1>5, <1>6 DEF CompressWrite, Fails, Finish, Goto

\* What compress_db copied is what it found: the file it renames has the
\* records of the one it replaces, and no empty slot.
LEMMA RenameTurns ==
  ASSUME Serial, Safe, FreshTmp, InTurn, NEW p \in Procs, CompressRename(p)
  PROVE  /\ InTurn'
         /\ "read" \notin Faults => Kept(Content)' = Kept(Content)
<1>1. /\ pc \in [Procs -> Calls] /\ reply \in [Procs -> Replies]
  BY DEF Safe, TypeOK
<1>2. /\ db \in 1..Len(data) /\ tmp \in 1..Len(data)
      /\ data[db] \in Seq(Record) /\ data[tmp] \in Seq(Record)
  BY CopyFiles DEF CompressRename
<1>3. UNCHANGED <<data, op, fd, tfd, pos, tpos>>
  BY DEF CompressRename
<1>4. /\ tmp # 0 /\ Compact(data[tmp])
      /\ KeptOf(data[db], pos[p]) = data[tmp]
      /\ "read" \notin Faults => pos[p] = Len(data[db])
  BY DEF CompressRename, InTurn, Copied
<1>5. CASE pc'[p] = "exit" /\ reply'[p] = "fail" /\ UNCHANGED db
  <2>1. Called(p)' /\ Copied(p)' /\ Replaced(p)'
    BY <1>5 DEF Called, Copied, Replaced, CompressCalls
  <2>2. Content' = Content
    BY <1>3, <1>5 DEF Content
  <2> QED
    BY <2>1, <2>2, TurnOfOne DEF Compress, Kept
<1>6. CASE db' = tmp /\ tmp' = 0 /\ pc'[p] = "xreopen"
  <2>1. Content' = data[tmp] /\ Content = data[db]
    BY <1>2, <1>3, <1>6 DEF Content
  <2>2. Called(p)' /\ Copied(p)' /\ Replaced(p)'
    BY <1>3, <1>4, <1>6, <2>1 DEF Called, Copied, Replaced, CompressCalls
  <2>3. "read" \notin Faults => Kept(data[tmp]) = Kept(data[db])
    BY <1>2, <1>4, KeptSteps, KeptCompact
  <2> QED
    BY <2>1, <2>2, <2>3, TurnOfOne DEF Compress
<1> QED
  BY <1>1, <1>4, <1>5, <1>6 DEF CompressRename, Fails, Finish, Goto

LEMMA ReopenTurns ==
  ASSUME Serial, Safe, InTurn, NEW p \in Procs, CompressReopen(p)
  PROVE  InTurn'
<1>1. /\ pc \in [Procs -> Calls] /\ reply \in [Procs -> Replies]
  BY DEF Safe, TypeOK
<1>2. /\ UNCHANGED <<db, tmp, data, op>> /\ pc'[p] = "exit"
      /\ tmp = 0 /\ Compact(Content)
  BY <1>1 DEF CompressReopen, Fails, Finish, InTurn, Replaced
<1>3. Called(p)' /\ Copied(p)' /\ Replaced(p)'
  BY <1>2 DEF Called, Copied, Replaced, CompressCalls, Content
<1> QED
  BY <1>3, TurnOfOne DEF Compress

LEMMA NextInTurn ==
  ASSUME Serial, Safe, FreshTmp, InTurn, [Next]_vars
  PROVE  InTurn'
<1>1. CASE UNCHANGED vars
  BY <1>1 DEF vars, InTurn, Alone, Under, Called, Copied, Replaced, Content
<1> QED
  BY <1>1, StartTurns, OtherTurns, CompressStarts, ReadTurns, WriteTurns,
     RenameTurns, ReopenTurns
  DEF Next, Compress

LEMMA InitInTurn == Init => InTurn
  BY DEF Init, InTurn, Alone, Under, Called, Copied, Replaced, CompressCalls

\* A run that compressed the database alone leaves no empty record behind and
\* no temporary file, however large the file is and whatever failed before.
THEOREM CompactsTheFile ==
  ASSUME Serial
  PROVE  Spec => []CompressCompacts
<1>. DEFINE Known == Safe /\ FreshTmp /\ InTurn
<1>1. Init => Known
  BY InitSafe, InitFresh, InitInTurn
<1>2. Known /\ [Next]_vars => Known'
  BY NextSafe, NextFresh, NextInTurn
<1>3. Known => CompressCompacts
  <2> SUFFICES ASSUME Known, NEW p \in Procs, reply[p] = "compressed",
                      pc[p] = "exit"
               PROVE  tmp = 0 /\ Kept(Content) = Content
    BY DEF CompressCompacts
  <2>1. tmp = 0 /\ Compact(Content) /\ Content \in Seq(Record)
    BY ContentType DEF InTurn, Replaced
  <2> QED
    BY <2>1, KeptCompact
<1> QED
  BY <1>1, <1>2, <1>3, PTL DEF Spec

\* Where a run that compresses stands, no step of it loses a record.
LEMMA CompressStepKeeps ==
  ASSUME Serial, "read" \notin Faults, Safe, FreshTmp, InTurn, Unasked, [Next]_vars,
         NEW p \in Procs, op[p] = "compress", pc'[p] # pc[p]
  PROVE  Kept(Content)' = Kept(Content)
<1>1. /\ pc \in [Procs -> Calls] /\ Len(data) \in Nat /\ tmp \in 0..Len(data)
      /\ data \in Seq(Seq(Record))
  BY DEF Safe, TypeOK
<1>2. PICK q \in Procs : \/ Start(q) \/ Lookup(q) \/ Write(q) \/ Scan(q)
                         \/ Truncate(q) \/ Compress(q) \/ Exit(q) \/ Crash(q)
  BY DEF Next, vars
<1>3. q = p
  BY <1>2, OthersWait DEF InTurn
<1>4. /\ pc[p] \in CompressCalls \cup {"exit", "done"}
  BY DEF InTurn, Called
<1>5. CASE CompressOpen(p) \/ CompressRead(p) \/ CompressReopen(p)
             \/ Exit(p) \/ Crash(p)
  <2>1. Content' = Content
    BY <1>5 DEF CompressOpen, CompressRead, CompressReopen, Exit, Crash, Content
  <2> QED
    BY <2>1
<1>6. CASE CompressTmp(p)
  <2>1. db \in 1..Len(data) /\ db' = db
    BY <1>6, OpenFiles DEF CompressTmp
  <2>2. tmp # 0 => tmp # db
    BY DEF FreshTmp
  <2>3. data'[db] = data[db]
    <3>1. CASE data' = data
      BY <3>1
    <3>2. CASE data' = Append(data, <<>>)
      BY <1>1, <2>1, <3>2
    <3>3. CASE tmp # 0 /\ data' = [data EXCEPT ![tmp] = <<>>]
      BY <1>1, <2>1, <2>2, <3>3
    <3> QED
      BY <1>6, <3>1, <3>2, <3>3 DEF CompressTmp
  <2>4. Content' = Content
    BY <2>1, <2>3 DEF Content
  <2> QED
    BY <2>4
<1>7. CASE CompressWrite(p)
  <2>1. /\ db \in 1..Len(data) /\ tmp \in 1..Len(data) /\ tmp # db
        /\ tfd[p] = tmp
    BY <1>7, CopyFiles DEF CompressWrite
  <2>2. data'[db] = data[db] /\ db' = db
    BY <1>1, <1>7, <2>1 DEF CompressWrite
  <2>3. Content' = Content
    BY <2>1, <2>2 DEF Content
  <2> QED
    BY <2>3
<1>8. CASE CompressRename(p)
  BY <1>8, RenameTurns
<1>9. ~Start(p) /\ ~Lookup(p) /\ ~Write(p) /\ ~Scan(p) /\ ~Truncate(p)
  BY <1>4 DEF Start, Lookup, Write, Scan, Truncate, CompressCalls
<1> QED
  BY <1>2, <1>3, <1>5, <1>6, <1>7, <1>8, <1>9 DEF Compress

\* compress_db, run alone, keeps every record, wherever it fails or is killed
\* and whatever an earlier run left in TMP_DB_FILE, as long as read() does not
\* fail: a failure of read() is taken for the end of the file.
THEOREM CompressLosesNothing ==
  ASSUME Serial, "read" \notin Faults
  PROVE  Spec => CompressKeeps
<1>. DEFINE Known == Safe /\ FreshTmp /\ InTurn /\ Unasked
<1>1. Init => Known
  BY InitSafe, InitFresh, InitInTurn, NextUnasked
<1>2. Known /\ [Next]_vars => Known'
  <2>1. Safe => TypeOK
    BY DEF Safe
  <2> QED
    BY <2>1, NextSafe, NextFresh, NextInTurn, NextUnasked
<1>3. Known /\ [Next]_vars =>
        [\A p \in Procs :
           op[p] = "compress" /\ pc'[p] # pc[p]
             => Kept(Content)' = Kept(Content)]_vars
  BY CompressStepKeeps
<1> QED
  BY <1>1, <1>2, <1>3, PTL DEF Spec, CompressKeeps

(***************************************************************************)
(* Runs one after the other that do not compress implement the table.      *)
(***************************************************************************)

\* What the table of StudentTable is here: its rows, the row a run found and
\* the number of rows it listed.
Rows == [i \in Ids |-> Slot(Content, i).by]
RowSeen == [p \in Procs |-> IF reply[p] = "found" THEN buf[p].by ELSE NoProc]
Listed == [p \in Procs |-> IF reply[p] = "listed" THEN num[p] ELSE 0]

\* Where a run stands: it does what it was asked for, on the file of the table;
\* when it writes, the row is still as it saw it; when it lists, it has counted
\* what it has read.
Served(p) ==
  /\ pc[p] = "start" => pos[p] = 0 /\ num[p] = 0
  /\ pc[p] # "start" => op[p] # "none"
  /\ pc[p] \notin {"start", "exit", "done"} => fd[p] = db
  /\ pc[p] = "lookup" => op[p] \in {"add", "del", "find"}
  /\ pc[p] = "write" =>
       /\ op[p] \in {"add", "del"}
       /\ op[p] = "add" <=> Slot(Content, arg[p]).id = 0
  /\ pc[p] = "scan" =>
       /\ op[p] \in {"count", "print"}
       /\ num[p] = Cardinality(Read(Content, pos[p]))
  /\ pc[p] = "truncate" => op[p] = "zero"

Serving == Alone /\ Placed /\ Unasked /\ \A p \in Procs : Served(p)

\* A row is empty where the slot is.
LEMMA RowOfSlot ==
  ASSUME Safe, NEW i \in Ids
  PROVE  /\ Rows[i] = Slot(Content, i).by
         /\ Rows[i] = NoProc <=> Slot(Content, i).id = 0
<1>1. Slot(Content, i) \in Record
  BY ContentType, SlotType DEF Ids
<1> QED
  BY <1>1, ProcsAssumption DEF Rows, Record, Empty, Ids

\* There are as many rows as records.
LEMMA RowsAreRecords ==
  ASSUME Safe, Placed
  PROVE  Cardinality({i \in Ids : Rows[i] # NoProc}) = Records(Content)
<1>. DEFINE S == {i \in Ids : Rows[i] # NoProc}
            b == [k \in Full(Content) |-> k - 1]
<1>1. Content \in Seq(Record) /\ Len(Content) \in Nat
  BY ContentType
<1>2. \A k \in Nat : Slot(Content, k).id \in {0, k}
  <2>1. CASE db = 0
    BY <2>1 DEF Content, Slot, Empty
  <2>2. CASE db # 0
    BY <2>2 DEF Placed, AllInPlace, Safe, TypeOK, Content
  <2> QED
    BY <2>1, <2>2
<1>3. ASSUME NEW i \in S PROVE i + 1 \in Full(Content)
  <2>1. i \in Nat /\ Slot(Content, i).id # 0
    BY RowOfSlot DEF Ids
  <2>2. i < Len(Content) /\ Slot(Content, i) = Content[i + 1]
    BY <2>1 DEF Slot, Empty
  <2> QED
    BY <1>1, <2>1, <2>2 DEF Full, Empty
<1>4. ASSUME NEW k \in Full(Content) PROVE k - 1 \in S
  <2>1. /\ k \in 1..Len(Content) /\ Content[k] # Empty /\ k - 1 \in Nat
        /\ Slot(Content, k - 1) = Content[k]
    BY <1>1 DEF Full, Slot
  <2>2. Content[k] \in Record
    BY <1>1, <2>1
  <2>3. Content[k].id \in Ids /\ Content[k].id # 0
    BY <2>1, <2>2 DEF Record, Ids
  <2>4. k - 1 \in Ids
    BY <1>2, <2>1, <2>3
  <2> QED
    BY <2>1, <2>3, <2>4, RowOfSlot
<1>5. ExistsBijection(Full(Content), S)
  <2>1. b \in [Full(Content) -> S]
    BY <1>4
  <2>2. \A k, n \in Full(Content) : b[k] = b[n] => k = n
    BY DEF Full
  <2>3. \A i \in S : \E k \in Full(Content) : b[k] = i
    <3> SUFFICES ASSUME NEW i \in S
                 PROVE  i + 1 \in Full(Content) /\ b[i + 1] = i
      BY Zenon
    <3> QED
      BY <1>3 DEF Ids
  <2> HIDE DEF S, b
  <2> QED
    BY <2>1, <2>2, <2>3 DEF ExistsBijection, Bijection, Injection, Surjection,
                            IsInjective
<1>6. IsFiniteSet(Full(Content)) /\ Records(Content) = Cardinality(Full(Content))
  BY <1>1, Counts
<1>. HIDE DEF S
<1>7. Cardinality(S) = Cardinality(Full(Content))
  BY <1>5, <1>6, FS_Bijection
<1> QED
  BY <1>6, <1>7 DEF S

LEMMA InitServing == Init => Serving
<1>1. Init => Placed /\ Unasked
  BY InitPlaced, NextUnasked
<1> QED
  BY <1>1 DEF Init, Serving, Alone, Under, Served

\* The run that moves decides whether all of them stand where they should.
LEMMA ServedByOne ==
  ASSUME Serial, "compress" \notin Ops, Safe, Safe', Serving, [Next]_vars,
         NEW p \in Procs,
         \/ Start(p) \/ Lookup(p) \/ Write(p) \/ Scan(p) \/ Truncate(p)
         \/ Exit(p) \/ Crash(p),
         Served(p)'
  PROVE  Serving'
<1>1. ASSUME NEW q \in Procs \ {p}
      PROVE  /\ pc[q] \in {"start", "done"} /\ pc'[q] = pc[q]
             /\ op'[q] = op[q] /\ pos'[q] = pos[q] /\ num'[q] = num[q]
  BY OthersWait DEF Serving
<1>2. Alone'
  BY <1>1 DEF Alone, Under
<1>3. Placed' /\ Unasked'
  <2>1. NeverCompressed' /\ TypeOK
    BY DEF NeverCompressed, Safe, TypeOK
  <2> QED
    BY <2>1, NextPlaced, NextUnasked DEF Serving
<1>4. ASSUME NEW q \in Procs \ {p} PROVE Served(q)'
  BY <1>1 DEF Serving, Served
<1> QED
  BY <1>2, <1>3, <1>4 DEF Serving

LEMMA StartServes ==
  ASSUME Serial, "compress" \notin Ops, Safe, Safe', Serving,
         NEW p \in Procs, Start(p)
  PROVE  Serving'
<1>1. /\ pc \in [Procs -> Calls] /\ op \in [Procs -> Ops \cup {"none"}]
      /\ fd \in [Procs -> 0..Len(data)]
  BY DEF Safe, TypeOK
<1>2. PICK o \in Ops : \E i \in Args(o) : Start(p)!3!(o)!(i)
  BY DEF Start
<1>3. o \in {"add", "del", "find", "count", "print", "zero"}
  BY <1>2, OpsAssumption DEF AllOps
<1>4. /\ pos' = pos /\ num' = num /\ op'[p] = o
      /\ pos[p] = 0 /\ num[p] = 0
      /\ pc'[p] = "exit" \/ (pc'[p] = FirstCall(o) /\ fd'[p] = db')
  BY <1>1, <1>2 DEF Start, Fails, Finish, Goto, Serving, Served
<1>5. Cardinality(Read(Content', 0)) = 0
  BY NextContentType, CountAtEnds
<1>6. Served(p)'
  BY <1>3, <1>4, <1>5 DEF Served, FirstCall
<1> QED
  BY <1>6, ServedByOne DEF Next

LEMMA LookupServes ==
  ASSUME Serial, "compress" \notin Ops, Safe, Safe', Serving,
         NEW p \in Procs, Lookup(p)
  PROVE  Serving'
<1>. SUFFICES Served(p)'
  BY ServedByOne DEF Next
<1>1. /\ pc \in [Procs -> Calls] /\ buf \in [Procs -> Record]
  BY DEF Safe, TypeOK
<1>2. /\ fd[p] = db /\ Content = data[db] /\ op[p] # "none"
  BY OpenFiles DEF Lookup, Serving, Served, Content
<1>3. UNCHANGED <<db, data, op, arg, fd>>
  BY DEF Lookup
<1>4. Content' = Content
  BY <1>3 DEF Content
<1>5. CASE pc'[p] = "exit"
  BY <1>2, <1>3, <1>5 DEF Served
<1>6. CASE /\ pc'[p] = "write" /\ op[p] \in {"add", "del"}
           /\ op[p] = "add" <=> Slot(Content, arg[p]).id = 0
  BY <1>2, <1>3, <1>4, <1>6 DEF Served
<1> QED
  BY <1>1, <1>2, <1>5, <1>6 DEF Lookup, Fails, Finish, Goto

LEMMA ScanServes ==
  ASSUME Serial, "compress" \notin Ops, Safe, Safe', Serving,
         NEW p \in Procs, Scan(p)
  PROVE  Serving'
<1>. SUFFICES Served(p)'
  BY ServedByOne DEF Next
<1>1. /\ pc \in [Procs -> Calls] /\ pos \in [Procs -> Nat]
      /\ num \in [Procs -> Nat]
  BY DEF Safe, TypeOK
<1>2. /\ fd[p] = db /\ Content = data[db] /\ Content \in Seq(Record)
      /\ op[p] \in {"count", "print"}
      /\ num[p] = Cardinality(Read(Content, pos[p]))
  BY OpenFiles, ContentType DEF Scan, Serving, Served, Content
<1>3. UNCHANGED <<db, data, op, arg, fd>>
  BY DEF Scan
<1>4. Content' = Content
  BY <1>3 DEF Content
<1>5. CASE pc'[p] = "exit"
  BY <1>2, <1>3, <1>5 DEF Served
<1>6. CASE /\ pos[p] < Len(Content) /\ pos'[p] = pos[p] + 1
           /\ num'[p] = IF Slot(Content, pos[p]) = Empty THEN num[p]
                        ELSE num[p] + 1
           /\ pc'[p] = "scan"
  <2>1. Cardinality(Read(Content, pos[p] + 1)) =
          Cardinality(Read(Content, pos[p]))
            + (IF Slot(Content, pos[p]) = Empty THEN 0 ELSE 1)
    BY <1>1, <1>2, <1>6, CountOfRead
  <2>2. num'[p] = Cardinality(Read(Content', pos'[p]))
    BY <1>1, <1>2, <1>4, <1>6, <2>1
  <2> QED
    BY <1>2, <1>3, <1>6, <2>2 DEF Served
<1> QED
  BY <1>1, <1>2, <1>5, <1>6 DEF Scan, Fails, Finish, Goto

LEMMA EndServes ==
  ASSUME Serial, "compress" \notin Ops, Safe, Safe', Serving,
         NEW p \in Procs, Write(p) \/ Truncate(p) \/ Exit(p) \/ Crash(p)
  PROVE  Serving'
<1>1. /\ pc \in [Procs -> Calls]
  BY DEF Safe, TypeOK
<1>2. /\ pc[p] # "start" /\ op' = op /\ pc'[p] \in {"exit", "done"}
  BY <1>1 DEF Write, Truncate, Exit, Crash, Fails, Finish
<1>3. Served(p)'
  BY <1>2 DEF Serving, Served
<1> QED
  BY <1>3, ServedByOne DEF Next

LEMMA NoCompress ==
  ASSUME Serving, NEW p \in Procs
  PROVE  ~Compress(p)
  BY DEF Serving, Placed, CompressCalls, Compress, CompressOpen, CompressTmp,
         CompressRead, CompressWrite, CompressRename, CompressReopen

LEMMA NextServing ==
  ASSUME Serial, "compress" \notin Ops, Safe, Safe', Serving, [Next]_vars
  PROVE  Serving'
<1>1. CASE UNCHANGED vars
  BY <1>1 DEF vars, Serving, Alone, Under, Placed, AllInPlace, FoundIsAsked,
              Unasked, Served, Content
<1> QED
  BY <1>1, StartServes, LookupServes, ScanServes, EndServes, NoCompress
  DEF Next

\* One run answers: the row it found and the number it lists are its own.
LEMMA OthersSame ==
  ASSUME Serial, Safe, Serving, NEW p \in Procs,
         \/ Start(p) \/ Lookup(p) \/ Write(p) \/ Scan(p) \/ Truncate(p)
         \/ Exit(p) \/ Crash(p)
  PROVE  \A q \in Procs \ {p} : /\ RowSeen'[q] = RowSeen[q]
                                /\ Listed'[q] = Listed[q]
                                /\ reply'[q] = reply[q]
                                /\ op'[q] = op[q] /\ arg'[q] = arg[q]
<1>1. ASSUME NEW q \in Procs \ {p}
      PROVE  /\ reply'[q] = reply[q] /\ buf'[q] = buf[q] /\ num'[q] = num[q]
             /\ op'[q] = op[q] /\ arg'[q] = arg[q]
  BY OthersWait DEF Serving
<1> QED
  BY <1>1 DEF RowSeen, Listed

\* The steps that do not end a run.
LEMMA OpenRefines ==
  ASSUME Serial, "compress" \notin Ops, Safe, Safe', Serving,
         NEW p \in Procs, Start(p)
  PROVE  Table!Ask(p) \/ Table!Refuse(p)
<1>1. /\ pc \in [Procs -> Calls] /\ op \in [Procs -> Ops \cup {"none"}]
      /\ arg \in [Procs -> 0..(MaxId + 1)] /\ reply \in [Procs -> Replies]
      /\ Len(data) \in Nat /\ data \in Seq(Seq(Record))
  BY SMTT(30) DEF Safe, TypeOK
<1>2. op[p] = "none" /\ reply[p] = "none"
  BY DEF Start, Serving, Unasked, Placed
<1>3. PICK o \in Ops : \E i \in Args(o) : Start(p)!3!(o)!(i)
  BY DEF Start
<1>4. PICK i \in Args(o) : Start(p)!3!(o)!(i)
  BY <1>3
<1>5. /\ o \in {"add", "del", "find", "count", "print", "zero"}
      /\ i \in 0..(MaxId + 1)
  BY <1>3, <1>4, OpsAssumption, MaxIdAssumption DEF AllOps, Args
<1>6. Table!Pick(p)
  BY <1>2, <1>4, <1>5 DEF Table!Pick
<1>7. Content' = Content
  <2>1. CASE UNCHANGED <<db, data>>
    BY <2>1 DEF Content
  <2>2. CASE db = 0 /\ db' = Len(data) + 1 /\ data' = Append(data, <<>>)
    BY <1>1, <2>2 DEF Content
  <2> QED
    BY <2>1, <2>2 DEF Start
<1>8. Rows' = Rows
  BY <1>7 DEF Rows
<1>9. /\ buf' = buf /\ num' = num
      /\ \/ reply' = reply
         \/ reply' = [reply EXCEPT ![p] = "fail"]
         \/ reply' = [reply EXCEPT ![p] = "args"]
  BY <1>4 DEF Start, Fails, Finish, Goto
<1>10. RowSeen' = RowSeen /\ Listed' = Listed
  <2>1. \A q \in Procs : /\ reply'[q] = "found" <=> reply[q] = "found"
                         /\ reply'[q] = "listed" <=> reply[q] = "listed"
    BY <1>1, <1>2, <1>9
  <2> QED
    BY <1>9, <2>1 DEF RowSeen, Listed
<1> QED
  BY <1>6, <1>8, <1>9, <1>10
  DEF Table!Ask, Table!Refuse, Rows, RowSeen, Listed

\* What a run answers, when it is not about a row it found or listed.
LEMMA PlainAnswer ==
  ASSUME Serial, Safe, Serving, NEW p \in Procs,
         Lookup(p) \/ Write(p) \/ Scan(p) \/ Truncate(p),
         NEW r \in Replies \ {"found", "listed"}, Finish(p, r)
  PROVE  /\ reply[p] = "none" /\ reply' = [reply EXCEPT ![p] = r]
         /\ RowSeen' = RowSeen /\ Listed' = Listed
<1>1. reply \in [Procs -> Replies]
  BY DEF Safe, TypeOK
<1>2. /\ reply[p] = "none" /\ reply' = [reply EXCEPT ![p] = r]
      /\ reply'[p] = r
  BY <1>1 DEF Lookup, Write, Scan, Truncate, Serving, Placed, Finish
<1>3. RowSeen'[p] = RowSeen[p] /\ Listed'[p] = Listed[p]
  BY <1>2 DEF RowSeen, Listed
<1> QED
  BY <1>2, <1>3, OthersSame DEF RowSeen, Listed

LEMMA FailRefines ==
  ASSUME Serial, Safe, Serving, NEW p \in Procs,
         Lookup(p) \/ Write(p) \/ Scan(p) \/ Truncate(p),
         Finish(p, "fail"), UNCHANGED <<db, data, op, arg>>
  PROVE  Table!Fail(p)
<1>1. /\ reply[p] = "none" /\ reply' = [reply EXCEPT ![p] = "fail"]
      /\ RowSeen' = RowSeen /\ Listed' = Listed
  BY PlainAnswer DEF Replies
<1>2. Rows' = Rows
  BY DEF Rows, Content
<1> QED
  BY <1>1, <1>2 DEF Table!Fail, Rows, RowSeen, Listed

\* get_student and what is made of its answer.
LEMMA LookupRefines ==
  ASSUME Serial, Safe, Serving, NEW p \in Procs, Lookup(p)
  PROVE  Table!Next \/ UNCHANGED Table!tvars
<1>. DEFINE row == Slot(Content, arg[p])
<1>1. /\ buf \in [Procs -> Record] /\ reply \in [Procs -> Replies]
  BY DEF Safe, TypeOK
<1>2. fd[p] = db /\ Content = data[db]
  BY OpenFiles DEF Lookup, Serving, Served, Content
<1>3. UNCHANGED <<db, data, op, arg, num>>
  BY DEF Lookup
<1>4. Rows' = Rows
  BY <1>3 DEF Rows, Content
<1>5. CASE Finish(p, "fail")
  BY <1>3, <1>5, FailRefines DEF Table!Next
<1>6. CASE /\ arg[p] \in Ids /\ Finish(p, "dup")
           /\ op[p] = "add" /\ row.id # 0
  <2>1. Rows[arg[p]] # NoProc
    BY <1>6, RowOfSlot
  <2>2. /\ reply[p] = "none" /\ reply' = [reply EXCEPT ![p] = "dup"]
        /\ RowSeen' = RowSeen /\ Listed' = Listed
    BY <1>6, PlainAnswer DEF Replies
  <2>3. Table!Add(p)
    BY <1>3, <1>4, <1>6, <2>1, <2>2
    DEF Table!Add, Table!Answer, Table!Ids, Ids, Rows, RowSeen, Listed
  <2> QED
    BY <2>3 DEF Table!Next
<1>7. CASE /\ arg[p] \in Ids /\ Finish(p, "missing")
           /\ op[p] \in {"del", "find"} /\ row.id = 0
  <2>1. Rows[arg[p]] = NoProc
    BY <1>7, RowOfSlot
  <2>2. /\ reply[p] = "none" /\ reply' = [reply EXCEPT ![p] = "missing"]
        /\ RowSeen' = RowSeen /\ Listed' = Listed
    BY <1>7, PlainAnswer DEF Replies
  <2>3. CASE op[p] = "del"
    <3>1. Table!Delete(p)
      BY <1>3, <1>4, <1>7, <2>1, <2>2, <2>3
      DEF Table!Delete, Table!Answer, Table!Ids, Ids, Rows, RowSeen, Listed
    <3> QED
      BY <3>1 DEF Table!Next
  <2>4. CASE op[p] = "find"
    <3>1. Table!Find(p)
      BY <1>3, <1>4, <1>7, <2>1, <2>2, <2>4
      DEF Table!Find, Table!Answer, Table!Ids, Ids, Rows, RowSeen, Listed
    <3> QED
      BY <3>1 DEF Table!Next
  <2> QED
    BY <1>7, <2>3, <2>4
<1>8. CASE /\ arg[p] \in Ids /\ Finish(p, "found")
           /\ buf' = [buf EXCEPT ![p] = row]
           /\ op[p] = "find" /\ row.id # 0
  <2>1. Rows[arg[p]] # NoProc /\ Rows[arg[p]] = row.by
    BY <1>8, RowOfSlot
  <2>2. /\ reply[p] = "none" /\ reply' = [reply EXCEPT ![p] = "found"]
        /\ reply'[p] = "found" /\ buf'[p] = row
    BY <1>1, <1>8 DEF Lookup, Serving, Placed, Finish
  <2>3. RowSeen' = [RowSeen EXCEPT ![p] = Rows[arg[p]]] /\ Listed' = Listed
    <3>1. RowSeen'[p] = Rows[arg[p]] /\ Listed'[p] = Listed[p]
      BY <2>1, <2>2 DEF RowSeen, Listed
    <3>2. \A q \in Procs \ {p} : RowSeen'[q] = RowSeen[q] /\ Listed'[q] = Listed[q]
      BY OthersSame
    <3>3. RowSeen' = [RowSeen EXCEPT ![p] = Rows[arg[p]]]
      BY <3>1, <3>2 DEF RowSeen
    <3>4. Listed' = Listed
      BY <3>1, <3>2 DEF Listed
    <3> QED
      BY <3>3, <3>4
  <2>4. Table!Find(p)
    BY <1>3, <1>4, <1>8, <2>1, <2>2, <2>3
    DEF Table!Find, Table!Answer, Table!Ids, Ids, Rows, RowSeen, Listed
  <2> QED
    BY <2>4 DEF Table!Next
<1>9. CASE Goto(p, "write")
  <2>1. reply' = reply /\ reply[p] = "none"
    BY <1>9 DEF Goto, Lookup, Serving, Placed
  <2>2. RowSeen'[p] = RowSeen[p] /\ Listed'[p] = Listed[p]
    BY <2>1 DEF RowSeen, Listed
  <2>3. RowSeen' = RowSeen /\ Listed' = Listed
    BY <2>2, OthersSame DEF RowSeen, Listed
  <2> QED
    BY <1>3, <1>4, <2>1, <2>3 DEF Table!tvars, Rows, RowSeen, Listed
<1> QED
  BY <1>1, <1>2, <1>5, <1>6, <1>7, <1>8, <1>9 DEF Lookup, Fails

\* The write that adds or deletes a student, the row being as it was seen.
LEMMA WriteRefines ==
  ASSUME Serial, Safe, Serving, NEW p \in Procs, Write(p)
  PROVE  Table!Next
<1>1. /\ reply \in [Procs -> Replies] /\ Len(data) \in Nat
      /\ data \in Seq(Seq(Record))
  BY DEF Safe, TypeOK
<1>2. /\ fd[p] = db /\ Content = data[db] /\ db \in 1..Len(data)
      /\ Content \in Seq(Record) /\ op[p] \in {"add", "del"}
      /\ op[p] = "add" <=> Slot(Content, arg[p]).id = 0
      /\ arg[p] \in Ids /\ arg[p] \in Nat
  BY OpenFiles, ContentType
  DEF Write, Serving, Served, Content, Safe, Descriptors, Ids
<1>3. UNCHANGED <<db, op, arg>>
  BY DEF Write
<1>4. CASE Finish(p, "fail") /\ UNCHANGED data
  BY <1>3, <1>4, FailRefines DEF Table!Next
<1>5. CASE /\ data' = [data EXCEPT ![fd[p]] = WriteAt(@, arg[p], Written(p))]
           /\ Finish(p, IF op[p] = "add" THEN "added" ELSE "deleted")
  <2>1. Written(p) \in Record
    BY <1>2, WrittenType DEF Safe
  <2>2. Content' = WriteAt(Content, arg[p], Written(p))
    BY <1>1, <1>2, <1>3, <1>5 DEF Content
  <2>3. /\ Slot(Content', arg[p]) = Written(p)
        /\ \A j \in Nat \ {arg[p]} : Slot(Content', j) = Slot(Content, j)
    BY <1>2, <2>1, <2>2, WriteAtType, ZenonT(40)
  <2>4. Rows' = [Rows EXCEPT ![arg[p]] = Written(p).by]
    <3>1. ASSUME NEW i \in Ids
          PROVE  Slot(Content', i).by = IF i = arg[p] THEN Written(p).by
                                        ELSE Slot(Content, i).by
      BY <2>3 DEF Ids
    <3> QED
      BY <3>1 DEF Rows
  <2>5. Rows[arg[p]] = NoProc <=> op[p] = "add"
    BY <1>2, RowOfSlot
  <2>6. CASE op[p] = "add"
    <3>1. /\ reply[p] = "none" /\ reply' = [reply EXCEPT ![p] = "added"]
          /\ RowSeen' = RowSeen /\ Listed' = Listed
      BY <1>5, <2>6, PlainAnswer DEF Replies
    <3>2. Rows' = [Rows EXCEPT ![arg[p]] = p]
      BY <2>4, <2>6 DEF Written
    <3>3. Table!Add(p)
      BY <1>2, <1>3, <2>5, <2>6, <3>1, <3>2
      DEF Table!Add, Table!Answer, Table!Ids, Ids, Rows, RowSeen, Listed
    <3> QED
      BY <3>3 DEF Table!Next
  <2>7. CASE op[p] = "del"
    <3>1. /\ reply[p] = "none" /\ reply' = [reply EXCEPT ![p] = "deleted"]
          /\ RowSeen' = RowSeen /\ Listed' = Listed
      BY <1>5, <2>7, PlainAnswer DEF Replies
    <3>2. Rows' = [Rows EXCEPT ![arg[p]] = NoProc]
      BY <2>4, <2>7 DEF Written, Empty
    <3>3. Table!Delete(p)
      BY <1>2, <1>3, <2>5, <2>7, <3>1, <3>2
      DEF Table!Delete, Table!Answer, Table!Ids, Ids, Rows, RowSeen, Listed
    <3> QED
      BY <3>3 DEF Table!Next
  <2> QED
    BY <1>2, <2>6, <2>7
<1> QED
  BY <1>4, <1>5 DEF Write, Fails

LEMMA TruncateRefines ==
  ASSUME Serial, Safe, Serving, NEW p \in Procs, Truncate(p)
  PROVE  Table!Next
<1>1. /\ reply \in [Procs -> Replies] /\ Len(data) \in Nat
      /\ data \in Seq(Seq(Record))
  BY DEF Safe, TypeOK
<1>2. db \in 1..Len(data) /\ op[p] = "zero"
  BY OpenFiles DEF Truncate, Serving, Served
<1>3. UNCHANGED <<db, op, arg>>
  BY DEF Truncate
<1>4. CASE Finish(p, "fail") /\ UNCHANGED data
  BY <1>3, <1>4, FailRefines DEF Table!Next
<1>5. CASE data' = [data EXCEPT ![db] = <<>>] /\ Finish(p, "zeroed")
  <2>1. /\ reply[p] = "none" /\ reply' = [reply EXCEPT ![p] = "zeroed"]
        /\ RowSeen' = RowSeen /\ Listed' = Listed
    BY <1>5, PlainAnswer DEF Replies
  <2>2. Content' = <<>>
    BY <1>1, <1>2, <1>3, <1>5 DEF Content
  <2>3. \A i \in Ids : Slot(<<>>, i).by = NoProc
    BY DEF Slot, Empty, Ids
  <2>4. Rows' = [i \in Ids |-> NoProc]
    BY <2>2, <2>3 DEF Rows
  <2>5. Table!Zero(p)
    BY <1>2, <1>3, <2>1, <2>4
    DEF Table!Zero, Table!Answer, Table!Ids, Ids, Rows, RowSeen, Listed
  <2> QED
    BY <2>5 DEF Table!Next
<1> QED
  BY <1>4, <1>5 DEF Truncate, Fails

\* A run that lists the rows answers when it has read them all.
LEMMA ScanRefines ==
  ASSUME Serial, Safe, Serving, NEW p \in Procs, Scan(p)
  PROVE  Table!Next \/ UNCHANGED Table!tvars
<1>1. /\ reply \in [Procs -> Replies] /\ pos \in [Procs -> Nat]
      /\ num \in [Procs -> Nat]
  BY DEF Safe, TypeOK
<1>2. /\ fd[p] = db /\ Content = data[db] /\ Content \in Seq(Record)
      /\ op[p] \in {"count", "print"} /\ reply[p] = "none"
      /\ num[p] = Cardinality(Read(Content, pos[p]))
  BY OpenFiles, ContentType DEF Scan, Serving, Served, Placed, Content
<1>3. UNCHANGED <<db, data, op, arg, buf>>
  BY DEF Scan
<1>4. Rows' = Rows
  BY <1>3 DEF Rows, Content
<1>5. CASE Finish(p, "fail")
  BY <1>3, <1>5, FailRefines DEF Table!Next
<1>6. CASE Goto(p, "scan")
  <2>1. RowSeen'[p] = RowSeen[p] /\ Listed'[p] = Listed[p] /\ reply' = reply
    BY <1>2, <1>6 DEF RowSeen, Listed, Goto
  <2>2. RowSeen' = RowSeen /\ Listed' = Listed
    BY <2>1, OthersSame DEF RowSeen, Listed
  <2> QED
    BY <1>3, <1>4, <2>1, <2>2 DEF Table!tvars, Rows, RowSeen, Listed
<1>7. CASE /\ pos[p] >= Len(Content) /\ num' = num
           /\ Finish(p, "listed")
  <2>1. num[p] = Records(Content)
    BY <1>1, <1>2, <1>7, CountAtEnds
  <2>2. num[p] = Cardinality({i \in Ids : Rows[i] # NoProc})
    BY <2>1, RowsAreRecords DEF Serving
  <2>3. reply' = [reply EXCEPT ![p] = "listed"] /\ reply'[p] = "listed"
    BY <1>1, <1>7 DEF Finish
  <2>4. /\ RowSeen' = RowSeen
        /\ Listed' = [Listed EXCEPT
                        ![p] = Cardinality({i \in Ids : Rows[i] # NoProc})]
    <3>1. /\ RowSeen'[p] = RowSeen[p]
          /\ Listed'[p] = Cardinality({i \in Ids : Rows[i] # NoProc})
      BY <1>2, <1>7, <2>2, <2>3 DEF RowSeen, Listed
    <3> QED
      BY <3>1, OthersSame DEF RowSeen, Listed
  <2>5. \E o \in {"count", "print"} : Table!Answer(p, o, "listed", Rows)
    BY <1>2, <1>3, <1>4, <2>3 DEF Table!Answer, Rows
  <2>6. Table!List(p)
    <3>1. \A S : Table!Cardinality(S) = Cardinality(S)
      BY DEF Table!Cardinality, Cardinality
    <3> QED
      BY <2>4, <2>5, <3>1, Zenon
      DEF Table!List, Table!Ids, Ids, Rows, RowSeen, Listed
  <2> QED
    BY <2>6 DEF Table!Next
<1> QED
  BY <1>2, <1>5, <1>6, <1>7 DEF Scan, Fails

LEMMA ExitRefines ==
  ASSUME NEW p \in Procs, Exit(p)
  PROVE  UNCHANGED Table!tvars
  BY DEF Exit, Table!tvars, Content

LEMMA CrashRefines ==
  ASSUME Serial, Safe, Serving, NEW p \in Procs, Crash(p)
  PROVE  Table!Next
<1>1. reply \in [Procs -> Replies]
  BY DEF Safe, TypeOK
<1>2. /\ UNCHANGED <<db, data, op, arg>> /\ op[p] # "none"
      /\ reply' = [reply EXCEPT ![p] = "killed"] /\ reply'[p] = "killed"
  BY <1>1 DEF Crash, Serving, Served
<1>3. Rows' = Rows
  BY <1>2 DEF Rows, Content
<1>4. /\ RowSeen' = [RowSeen EXCEPT ![p] = NoProc]
      /\ Listed' = [Listed EXCEPT ![p] = 0]
  <2>1. RowSeen'[p] = NoProc /\ Listed'[p] = 0
    BY <1>2 DEF RowSeen, Listed
  <2> QED
    BY <2>1, OthersSame DEF RowSeen, Listed
<1>5. Table!Killed(p)
  BY <1>2, <1>3, <1>4 DEF Table!Killed, Rows, RowSeen, Listed
<1> QED
  BY <1>5 DEF Table!Next

LEMMA InitIsTable == Init => Table!Init
<1>1. \A i \in Ids : Slot(<<>>, i).by = NoProc
  BY DEF Slot, Empty, Ids
<1> QED
  BY <1>1 DEF Init, Table!Init, Table!Ids, Ids, Content

\* Runs that follow each other and do not compress implement the table: each
\* acts on it at one point, or fails, or is killed, with the answer that fits.
THEOREM RunsImplementTable ==
  ASSUME Serial, "compress" \notin Ops
  PROVE  Spec => ImplementsTable
<1>. DEFINE Known == Safe /\ Serving
<1>1. Init => Known
  BY InitSafe, InitServing
<1>2. Known /\ [Next]_vars => Known'
  BY NextSafe, NextServing
<1>3. Known /\ Known' /\ [Next]_vars => [Table!Next]_(Table!tvars)
  <2> SUFFICES ASSUME Known, Known', [Next]_vars
               PROVE  Table!Next \/ UNCHANGED Table!tvars
    OBVIOUS
  <2>1. CASE UNCHANGED vars
    BY <2>1 DEF vars, Table!tvars, Content
  <2> QED
    BY <2>1, OpenRefines, LookupRefines, WriteRefines, TruncateRefines,
       ScanRefines, ExitRefines, CrashRefines, NoCompress
    DEF Next, Table!Next
<1> QED
  BY <1>1, <1>2, <1>3, InitIsTable, PTL DEF Spec, Table!Spec, ImplementsTable
=============================================================================
