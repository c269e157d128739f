----------------------------- MODULE StudentTable -----------------------------
(***************************************************************************)
(* What the student database promises whoever runs its command: a table    *)
(* with one row per student, on which each command acts at once and gives  *)
(* the answer that fits what it did.  A command that fails or is killed    *)
(* before it acted leaves the table alone.                                 *)
(***************************************************************************)
EXTENDS Integers, FiniteSets

CONSTANTS
  Procs,    \* runs of the command
  NoProc,   \* "no row"
  MaxId     \* MAX_STD_ID

VARIABLES
  table,   \* for each student, the command that wrote the row, or NoProc
  op,      \* what each command was asked to do, "none" before it starts
  arg,     \* for which student
  reply,   \* what it answered
  seen,    \* the row it found
  num      \* the number of rows it counted

Ids == 1..MaxId
tvars == <<table, op, arg, reply, seen, num>>

Init ==
  /\ table = [i \in Ids |-> NoProc]
  /\ op = [p \in Procs |-> "none"]
  /\ arg = [p \in Procs |-> 0]
  /\ reply = [p \in Procs |-> "none"]
  /\ seen = [p \in Procs |-> NoProc]
  /\ num = [p \in Procs |-> 0]

Pick(p) ==
  /\ op[p] = "none"
  /\ \E o \in {"add", "del", "find", "count", "print", "zero"} :
       op' = [op EXCEPT ![p] = o]
  /\ \E i \in 0..(MaxId + 1) : arg' = [arg EXCEPT ![p] = i]

Ask(p) == Pick(p) /\ UNCHANGED <<table, reply, seen, num>>

\* Bad arguments, or no way to open the table.
Refuse(p) ==
  /\ Pick(p)
  /\ \E r \in {"args", "fail"} : reply' = [reply EXCEPT ![p] = r]
  /\ UNCHANGED <<table, seen, num>>

\* The command p, asked for o, answers r and leaves the table as t.
Answer(p, o, r, t) ==
  /\ op[p] = o
  /\ reply[p] = "none"
  /\ reply' = [reply EXCEPT ![p] = r]
  /\ table' = t
  /\ UNCHANGED <<op, arg>>

Add(p) ==
  /\ arg[p] \in Ids
  /\ \/ /\ table[arg[p]] = NoProc
        /\ Answer(p, "add", "added", [table EXCEPT ![arg[p]] = p])
     \/ /\ table[arg[p]] # NoProc
        /\ Answer(p, "add", "dup", table)
  /\ UNCHANGED <<seen, num>>

Delete(p) ==
  /\ arg[p] \in Ids
  /\ \/ /\ table[arg[p]] # NoProc
        /\ Answer(p, "del", "deleted", [table EXCEPT ![arg[p]] = NoProc])
     \/ /\ table[arg[p]] = NoProc
        /\ Answer(p, "del", "missing", table)
  /\ UNCHANGED <<seen, num>>

Find(p) ==
  /\ arg[p] \in Ids
  /\ \/ /\ table[arg[p]] # NoProc
        /\ Answer(p, "find", "found", table)
        /\ seen' = [seen EXCEPT ![p] = table[arg[p]]]
     \/ /\ table[arg[p]] = NoProc
        /\ Answer(p, "find", "missing", table)
        /\ UNCHANGED seen
  /\ UNCHANGED num

List(p) ==
  /\ \E o \in {"count", "print"} : Answer(p, o, "listed", table)
  /\ num' = [num EXCEPT ![p] = Cardinality({i \in Ids : table[i] # NoProc})]
  /\ UNCHANGED seen

Zero(p) ==
  /\ Answer(p, "zero", "zeroed", [i \in Ids |-> NoProc])
  /\ UNCHANGED <<seen, num>>

Fail(p) ==
  /\ reply[p] = "none"
  /\ reply' = [reply EXCEPT ![p] = "fail"]
  /\ UNCHANGED <<table, op, arg, seen, num>>

\* A command may be killed before its answer is out, whether it acted or not.
Killed(p) ==
  /\ op[p] # "none"
  /\ reply' = [reply EXCEPT ![p] = "killed"]
  /\ seen' = [seen EXCEPT ![p] = NoProc]
  /\ num' = [num EXCEPT ![p] = 0]
  /\ UNCHANGED <<table, op, arg>>

Next ==
  \E p \in Procs : Ask(p) \/ Refuse(p) \/ Add(p) \/ Delete(p) \/ Find(p)
                     \/ List(p) \/ Zero(p) \/ Fail(p) \/ Killed(p)

Spec == Init /\ [][Next]_tvars
===============================================================================
