------------------------------ MODULE StudentDB ------------------------------
(***************************************************************************)
(* The student database of 2-StudentDB/sdbsc.c.  Each run of the command   *)
(* is a process that opens DB_FILE, does one operation and exits; what the *)
(* runs share is the file system.  A step is one system call, with what    *)
(* the process does until the next one.                                    *)
(*                                                                         *)
(* A file is a sequence of 64-byte slots: the slot of student i is at      *)
(* offset i * sizeof(student_t), so slot 0 is the first element.  A record *)
(* is the id stored in it and the run that wrote it, which stands for the  *)
(* names and the GPA.  Reads and writes of one slot are atomic.            *)
(***************************************************************************)
EXTENDS Integers, Sequences, FiniteSets

CONSTANTS
  Procs,    \* runs of the command
  NoProc,   \* wrote the empty record
  MaxId,    \* MAX_STD_ID
  Ops,      \* the options the runs are given
  Serial,   \* is a run started only when no other is under way?
  Faults,   \* the system calls that may fail
  Crashes   \* are processes killed at arbitrary points?

AllOps == {"add", "del", "find", "count", "print", "zero", "compress"}

ASSUME ProcsAssumption == NoProc \notin Procs
ASSUME MaxIdAssumption == MaxId \in Nat \ {0}
ASSUME OpsAssumption == Ops \subseteq AllOps
ASSUME ModesAssumption == Serial \in BOOLEAN /\ Crashes \in BOOLEAN
ASSUME FaultsAssumption == Faults \subseteq {"open", "read", "write", "rename"}

VARIABLES
  db,     \* the inode DB_FILE names, 0 for none
  tmp,    \* the inode TMP_DB_FILE names, 0 for none
  data,   \* the slots of each inode
  pc,     \* the next system call of each process
  op,     \* its option
  arg,    \* the id it was given
  fd,     \* the inode its fd refers to, 0 for none
  pos,    \* the offset of fd, in slots
  tfd,    \* the inode its tmp_fd refers to
  tpos,   \* the offset of tmp_fd
  buf,    \* the record it read last
  num,    \* the records it counted or printed
  reply,  \* what it prints
  base,   \* history: the records in the database when it was opened
  adders  \* history: the runs that were about to add its student when it did

vars == <<db, tmp, data, pc, op, arg, fd, pos, tfd, tpos, buf, num, reply, base,
          adders>>
history == <<base, adders>>

Ids == 1..MaxId
Empty == [id |-> 0, by |-> NoProc]
Record == [id : Ids, by : Procs] \cup {Empty}

\* Mutant of Slot: the slots are taken to start with the one of student 1.
SlotFromOne(f, i) == IF i \in 1..Len(f) THEN f[i] ELSE Empty

\* The slot read at an offset; past the end there is nothing to read, which
\* get_student takes for an empty slot.
Slot(f, i) == IF i < Len(f) THEN f[i + 1] ELSE Empty

\* Mutant of WriteAt: the file is not sought back after the read.
WriteAtNext(f, i, r) ==
  [k \in 1..(IF i + 1 < Len(f) THEN Len(f) ELSE i + 2) |->
     IF k = i + 2 THEN r ELSE Slot(f, k - 1)]

\* The file after a write at an offset: a gap is a hole, which reads as zeros.
WriteAt(f, i, r) ==
  [k \in 1..(IF i < Len(f) THEN Len(f) ELSE i + 1) |->
     IF k = i + 1 THEN r ELSE Slot(f, k - 1)]

\* The database as a new run sees it; the records of a file, without the
\* empty ones, and their number.
Content == IF db = 0 THEN <<>> ELSE data[db]
Keep(f, r) == IF r = Empty THEN f ELSE Append(f, r)
Kept(f) ==
  LET kept[n \in 0..Len(f)] == IF n = 0 THEN <<>> ELSE Keep(kept[n - 1], f[n])
  IN  kept[Len(f)]
Records(f) == Cardinality({k \in 1..Len(f) : f[k] # Empty})

\* The ids an option is given on the command line, out of range included.
Args(o) == IF o \in {"add", "del", "find"} THEN 0..(MaxId + 1) ELSE {0}

-----------------------------------------------------------------------------
Init ==
  /\ db = 0
  /\ tmp = 0
  /\ data = <<>>
  /\ pc = [p \in Procs |-> "start"]
  /\ op = [p \in Procs |-> "none"]
  /\ arg = [p \in Procs |-> 0]
  /\ fd = [p \in Procs |-> 0]
  /\ pos = [p \in Procs |-> 0]
  /\ tfd = [p \in Procs |-> 0]
  /\ tpos = [p \in Procs |-> 0]
  /\ buf = [p \in Procs |-> Empty]
  /\ num = [p \in Procs |-> 0]
  /\ reply = [p \in Procs |-> "none"]
  /\ base = [p \in Procs |-> 0]
  /\ adders = [p \in Procs |-> {}]

\* The process prints r and goes on to close its file and exit.
Finish(p, r) ==
  /\ pc' = [pc EXCEPT ![p] = "exit"]
  /\ reply' = [reply EXCEPT ![p] = r]

\* A system call of the given kind fails.
Fails(p, call) == call \in Faults /\ Finish(p, "fail")

Goto(p, label) == pc' = [pc EXCEPT ![p] = label] /\ UNCHANGED reply

\* Mutant of FirstCall: a student is added without a look at the slot.
FirstCallUnchecked(o) ==
  CASE o \in {"del", "find"} -> "lookup"
    [] o = "add" -> "write"
    [] o \in {"count", "print"} -> "scan"
    [] o = "compress" -> "xopen"
    [] OTHER -> "truncate"

\* Where the switch of main leads for an option.
FirstCall(o) ==
  CASE o \in {"add", "del", "find"} -> "lookup"
    [] o \in {"count", "print"} -> "scan"
    [] o = "compress" -> "xopen"
    [] OTHER -> "truncate"

\* main: open_db creates DB_FILE when it is missing; `add` checks its range.
Start(p) ==
  /\ pc[p] = "start"
  /\ Serial => \A q \in Procs : pc[q] \in {"start", "done"}
  /\ \E o \in Ops : \E i \in Args(o) :
       /\ op' = [op EXCEPT ![p] = o]
       /\ arg' = [arg EXCEPT ![p] = i]
       /\ \/ /\ Fails(p, "open")
             /\ UNCHANGED <<db, data, fd>>
          \/ /\ db' = IF db = 0 THEN Len(data) + 1 ELSE db
             /\ data' = IF db = 0 THEN Append(data, <<>>) ELSE data
             /\ fd' = [fd EXCEPT ![p] = db']
             /\ IF o = "add" /\ i \notin Ids THEN Finish(p, "args")
                                             ELSE Goto(p, FirstCall(o))
  /\ base' = [base EXCEPT ![p] = Records(Content)]
  /\ UNCHANGED <<tmp, pos, tfd, tpos, buf, num, adders>>

\* get_student, and what add_student, del_student and main do with its answer.
Lookup(p) ==
  /\ pc[p] = "lookup"
  /\ \/ /\ Fails(p, "read")
        /\ UNCHANGED buf
     \/ /\ arg[p] \notin Ids
        /\ Finish(p, "fail")
        /\ UNCHANGED buf
     \/ /\ arg[p] \in Ids
        /\ buf' = [buf EXCEPT ![p] = Slot(data[fd[p]], arg[p])]
        /\ LET there == buf'[p].id # 0
           IN  \/ op[p] = "add" /\ there /\ Finish(p, "dup")
               \/ op[p] = "add" /\ ~there /\ Goto(p, "write")
               \/ op[p] = "del" /\ there /\ Goto(p, "write")
               \/ op[p] = "find" /\ there /\ Finish(p, "found")
               \/ op[p] \in {"del", "find"} /\ ~there /\ Finish(p, "missing")
  /\ UNCHANGED <<db, tmp, data, op, arg, fd, pos, tfd, tpos, num, history>>

\* The record add_student and del_student write, at the offset of the id.
Written(p) == IF op[p] = "add" THEN [id |-> arg[p], by |-> p] ELSE Empty

\* History: the runs that found the slot of p's student empty and have not
\* written yet, p one of them.
Adders(p) ==
  {q \in Procs : pc[q] = "write" /\ op[q] = "add" /\ arg[q] = arg[p]}

Write(p) ==
  /\ pc[p] = "write"
  /\ \/ /\ Fails(p, "write")
        /\ UNCHANGED <<data, adders>>
     \/ /\ data' = [data EXCEPT ![fd[p]] = WriteAt(@, arg[p], Written(p))]
        /\ adders' = [adders EXCEPT ![p] = Adders(p)]
        /\ Finish(p, IF op[p] = "add" THEN "added" ELSE "deleted")
  /\ UNCHANGED <<db, tmp, op, arg, fd, pos, tfd, tpos, buf, num, base>>

\* Mutant of Scan: an empty slot is taken for the end of the file.
ScanToHole(p) ==
  /\ pc[p] = "scan"
  /\ LET more == Slot(data[fd[p]], pos[p]) # Empty
     IN  \/ /\ pos[p] = 0 \/ more
            /\ pos' = [pos EXCEPT ![p] = @ + 1]
            /\ num' = IF more THEN [num EXCEPT ![p] = @ + 1] ELSE num
            /\ Goto(p, "scan")
         \/ /\ pos[p] > 0 /\ ~more
            /\ Finish(p, "listed")
            /\ UNCHANGED <<pos, num>>
  /\ UNCHANGED <<db, tmp, data, op, arg, fd, tfd, tpos, buf, history>>

\* One read of the loops of count_db_records and print_db.
Scan(p) ==
  /\ pc[p] = "scan"
  /\ \/ /\ Fails(p, "read")
        /\ UNCHANGED <<pos, num>>
     \/ /\ pos[p] < Len(data[fd[p]])
        /\ pos' = [pos EXCEPT ![p] = @ + 1]
        /\ num' = IF Slot(data[fd[p]], pos[p]) = Empty THEN num
                  ELSE [num EXCEPT ![p] = @ + 1]
        /\ Goto(p, "scan")
     \/ /\ pos[p] >= Len(data[fd[p]])
        /\ Finish(p, "listed")
        /\ UNCHANGED <<pos, num>>
  /\ UNCHANGED <<db, tmp, data, op, arg, fd, tfd, tpos, buf, history>>

\* The second open_db of main, with should_truncate.
Truncate(p) ==
  /\ pc[p] = "truncate"
  /\ \/ /\ Fails(p, "open")
        /\ UNCHANGED <<data, fd>>
     \/ /\ data' = [data EXCEPT ![db] = <<>>]
        /\ fd' = [fd EXCEPT ![p] = db]
        /\ Finish(p, "zeroed")
  /\ UNCHANGED <<db, tmp, op, arg, pos, tfd, tpos, buf, num, history>>

-----------------------------------------------------------------------------
(* compress_db.                                                            *)

\* It closes its file and opens DB_FILE anew, for reading.
CompressOpen(p) ==
  /\ pc[p] = "xopen"
  /\ \/ Fails(p, "open") /\ UNCHANGED fd
     \/ fd' = [fd EXCEPT ![p] = db] /\ Goto(p, "xtmp")
  /\ UNCHANGED <<db, tmp, data, op, arg, pos, tfd, tpos, buf, num, history>>

\* Mutant of CompressTmp: the temporary file is opened without O_TRUNC.
CompressTmpAsIs(p) ==
  /\ pc[p] = "xtmp"
  /\ \/ /\ Fails(p, "open")
        /\ UNCHANGED <<tmp, data, tfd>>
     \/ /\ tmp' = IF tmp = 0 THEN Len(data) + 1 ELSE tmp
        /\ data' = IF tmp = 0 THEN Append(data, <<>>) ELSE data
        /\ tfd' = [tfd EXCEPT ![p] = tmp']
        /\ Goto(p, "xread")
  /\ UNCHANGED <<db, op, arg, fd, pos, tpos, buf, num, history>>

\* TMP_DB_FILE is created, or emptied if a run left it behind.
CompressTmp(p) ==
  /\ pc[p] = "xtmp"
  /\ \/ /\ Fails(p, "open")
        /\ UNCHANGED <<tmp, data, tfd>>
     \/ /\ tmp' = IF tmp = 0 THEN Len(data) + 1 ELSE tmp
        /\ data' = IF tmp = 0 THEN Append(data, <<>>)
                              ELSE [data EXCEPT ![tmp] = <<>>]
        /\ tfd' = [tfd EXCEPT ![p] = tmp']
        /\ Goto(p, "xread")
  /\ UNCHANGED <<db, op, arg, fd, pos, tpos, buf, num, history>>

\* Mutant of CompressRead: the records are not compared with the empty one.
CompressReadAll(p) ==
  /\ pc[p] = "xread"
  /\ \/ /\ pos[p] < Len(data[fd[p]])
        /\ pos' = [pos EXCEPT ![p] = @ + 1]
        /\ buf' = [buf EXCEPT ![p] = Slot(data[fd[p]], pos[p])]
        /\ Goto(p, "xwrite")
     \/ /\ pos[p] >= Len(data[fd[p]]) \/ "read" \in Faults
        /\ Goto(p, "xrename")
        /\ UNCHANGED <<pos, buf>>
  /\ UNCHANGED <<db, tmp, data, op, arg, fd, tfd, tpos, num, history>>

\* The condition of the copy loop: a read that fails ends it like the end of
\* the file does.
CompressRead(p) ==
  /\ pc[p] = "xread"
  /\ \/ /\ pos[p] < Len(data[fd[p]])
        /\ pos' = [pos EXCEPT ![p] = @ + 1]
        /\ buf' = [buf EXCEPT ![p] = Slot(data[fd[p]], pos[p])]
        /\ Goto(p, IF buf'[p] = Empty THEN "xread" ELSE "xwrite")
     \/ /\ pos[p] >= Len(data[fd[p]]) \/ "read" \in Faults
        /\ Goto(p, "xrename")
        /\ UNCHANGED <<pos, buf>>
  /\ UNCHANGED <<db, tmp, data, op, arg, fd, tfd, tpos, num, history>>

CompressWrite(p) ==
  /\ pc[p] = "xwrite"
  /\ \/ /\ Fails(p, "write")
        /\ UNCHANGED <<data, tpos>>
     \/ /\ data' = [data EXCEPT ![tfd[p]] = WriteAt(@, tpos[p], buf[p])]
        /\ tpos' = [tpos EXCEPT ![p] = @ + 1]
        /\ Goto(p, "xread")
  /\ UNCHANGED <<db, tmp, op, arg, fd, pos, tfd, buf, num, history>>

\* Mutant of CompressRename: the new file is linked to DB_FILE and keeps its
\* old name.
CompressLink(p) ==
  /\ pc[p] = "xrename"
  /\ \/ /\ Fails(p, "rename")
        /\ UNCHANGED db
     \/ /\ tmp = 0
        /\ Finish(p, "fail")
        /\ UNCHANGED db
     \/ /\ tmp # 0
        /\ db' = tmp
        /\ Goto(p, "xreopen")
  /\ UNCHANGED <<tmp, data, op, arg, fd, pos, tfd, tpos, buf, num, history>>

\* rename() replaces DB_FILE; another run may have taken TMP_DB_FILE away.
CompressRename(p) ==
  /\ pc[p] = "xrename"
  /\ \/ /\ Fails(p, "rename")
        /\ UNCHANGED <<db, tmp>>
     \/ /\ tmp = 0
        /\ Finish(p, "fail")
        /\ UNCHANGED <<db, tmp>>
     \/ /\ tmp # 0
        /\ db' = tmp
        /\ tmp' = 0
        /\ Goto(p, "xreopen")
  /\ UNCHANGED <<data, op, arg, fd, pos, tfd, tpos, buf, num, history>>

CompressReopen(p) ==
  /\ pc[p] = "xreopen"
  /\ \/ Fails(p, "open") /\ UNCHANGED fd
     \/ fd' = [fd EXCEPT ![p] = db] /\ Finish(p, "compressed")
  /\ UNCHANGED <<db, tmp, data, op, arg, pos, tfd, tpos, buf, num, history>>

-----------------------------------------------------------------------------
\* The process closes its file and exits.
Exit(p) ==
  /\ pc[p] = "exit"
  /\ pc' = [pc EXCEPT ![p] = "done"]
  /\ UNCHANGED <<db, tmp, data, op, arg, fd, pos, tfd, tpos, buf, num, reply,
                 history>>

\* The process is killed: its files stay as they are, and what it printed is
\* lost, for the buffer of stdout is written at its exit.
Crash(p) ==
  /\ Crashes
  /\ pc[p] \notin {"start", "done"}
  /\ pc' = [pc EXCEPT ![p] = "done"]
  /\ reply' = [reply EXCEPT ![p] = "killed"]
  /\ UNCHANGED <<db, tmp, data, op, arg, fd, pos, tfd, tpos, buf, num, history>>

Compress(p) ==
  \/ CompressOpen(p) \/ CompressTmp(p) \/ CompressRead(p) \/ CompressWrite(p)
  \/ CompressRename(p) \/ CompressReopen(p)

Next ==
  \E p \in Procs :
    \/ Start(p) \/ Lookup(p) \/ Write(p) \/ Scan(p) \/ Truncate(p)
    \/ Compress(p) \/ Exit(p) \/ Crash(p)

Spec == Init /\ [][Next]_vars

-----------------------------------------------------------------------------
(* Properties.                                                             *)

Calls == {"start", "lookup", "write", "scan", "truncate", "xopen", "xtmp",
          "xread", "xwrite", "xrename", "xreopen", "exit", "done"}
Replies == {"none", "args", "fail", "added", "dup", "deleted", "missing",
            "found", "listed", "zeroed", "compressed", "killed"}

\* Every variable has its type, and no descriptor outlives its file.
TypeOK ==
  /\ data \in Seq(Seq(Record))
  /\ db \in 0..Len(data)
  /\ tmp \in 0..Len(data)
  /\ pc \in [Procs -> Calls]
  /\ op \in [Procs -> Ops \cup {"none"}]
  /\ arg \in [Procs -> 0..(MaxId + 1)]
  /\ fd \in [Procs -> 0..Len(data)]
  /\ pos \in [Procs -> Nat]
  /\ tfd \in [Procs -> 0..Len(data)]
  /\ tpos \in [Procs -> Nat]
  /\ buf \in [Procs -> Record]
  /\ num \in [Procs -> Nat]
  /\ reply \in [Procs -> Replies]
  /\ base \in [Procs -> Nat]
  /\ adders \in [Procs -> SUBSET Procs]

NeverCompressed == \A q \in Procs : op[q] # "compress"
NeverDropped(i) ==
  \A q \in Procs :
    op[q] \notin {"zero", "compress"} /\ (op[q] = "del" => arg[q] # i)
NeverShrunk == \A q \in Procs : op[q] \notin {"del", "zero", "compress"}

\* Until a run compresses, a record is at the offset of its id, whatever the
\* runs do to each other: get_student and del_student (sdbsc.c:69, 198) never
\* look at the id they find there.
InPlace ==
  NeverCompressed => \A k \in 1..Len(Content) : Content[k].id \in {0, k - 1}

\* A run that was asked for a student prints that student (sdbsc.c:57); the
\* code keeps to it until a run compresses.
FoundIsAsked ==
  \A p \in Procs : reply[p] = "found" => buf[p].id = arg[p]
FoundInPlace == NeverCompressed => FoundIsAsked

\* A student reported as added stays in the database with the names and the
\* GPA of the run that reported it, until a run is asked to delete that very
\* student, to zero or to compress, whatever the others add and delete at the
\* same time and wherever they are killed.  Between the look at the slot and
\* the write (sdbsc.c:122 and 147) nothing is locked: a run that had found the
\* slot empty before this one wrote may still replace the record by its own,
\* and both report an added student; no run that came later can.
NoLostStudent ==
  \A p \in Procs :
    reply[p] = "added" /\ NeverDropped(arg[p]) =>
      Slot(Content, arg[p]) \in [id : {arg[p]}, by : adders[p]]

\* A run that lists the records while others only add some reports none twice
\* and misses none that was there when it started.
CountBetween ==
  NeverShrunk =>
    \A p \in Procs :
      reply[p] = "listed" => num[p] \in base[p]..Records(Content)

\* compress_db, run alone, keeps every record, wherever it fails or is killed
\* and whatever an earlier run left in TMP_DB_FILE.
CompressKeeps ==
  [][\A p \in Procs :
       op[p] = "compress" /\ pc'[p] # pc[p]
         => Kept(Content)' = Kept(Content)]_vars

\* However many runs compress at the same time, none copies a file onto
\* itself, although they share TMP_DB_FILE and the file one of them copies to
\* becomes DB_FILE when another renames it (sdbsc.c:460, 467 and 494).
NeverOntoItself ==
  \A p \in Procs : pc[p] \in {"xread", "xwrite"} => fd[p] # tfd[p]

\* A run that compressed the database alone leaves no empty record behind,
\* and no temporary file.
CompressCompacts ==
  \A p \in Procs :
    reply[p] = "compressed" /\ pc[p] = "exit" =>
      tmp = 0 /\ Kept(Content) = Content

\* Runs that follow each other and do not compress implement the table.
Table == INSTANCE StudentTable WITH
  table <- [i \in Ids |-> Slot(Content, i).by],
  seen <- [p \in Procs |-> IF reply[p] = "found" THEN buf[p].by ELSE NoProc],
  num <- [p \in Procs |-> IF reply[p] = "listed" THEN num[p] ELSE 0]

ImplementsTable == Table!Spec
===============================================================================
