----------------------------- MODULE LocalShell -----------------------------
(***************************************************************************)
(* The local shell of 6-RShell/starter/dshlib.c (the same code as          *)
(* 5-ShellP3): its command loop, the processes execute_pipeline and        *)
(* exec_cmd fork, and the pipes between them.                              *)
(*                                                                         *)
(* A pipe has two ends; a process holds a set of ends, a forked process    *)
(* starts with those of the shell, and the kernel decides end-of-file and  *)
(* SIGPIPE by looking at who still holds an end.  Descriptors left open by *)
(* an earlier command are kept apart by the number of the command, and so  *)
(* are processes left behind.                                              *)
(***************************************************************************)
EXTENDS Naturals, Sequences, FiniteSets

CONSTANTS
  CmdMax,   \* CMD_MAX: the longest pipeline
  Rounds,   \* bound: commands one session runs
  Cap,      \* units a pipe holds
  Units,    \* units a "gen" program writes
  Lines,    \* the command lists build_cmd_list may return
  Faults,   \* do pipe() and fork() fail?
  Kills     \* are children killed by signals from outside?

\* What a stage may be.  gen writes and ends; copy copies its input to its
\* output; take reads one unit and ends; nofile is a stage whose redirection
\* cannot be opened, missing one whose program does not exist.
Programs == {"gen", "copy", "take", "nofile", "missing"}
BuiltIns == {"exit", "cd", "rc", "dragon"}

ASSUME SizesAssumption ==
  /\ CmdMax \in Nat \ {0}
  /\ Rounds \in Nat
  /\ Cap \in Nat \ {0}
  /\ Units \in Nat
ASSUME SwitchesAssumption == Faults \in BOOLEAN /\ Kills \in BOOLEAN
ASSUME LinesAssumption ==
  /\ Lines \subseteq Seq(Programs \cup BuiltIns)
  /\ \A l \in Lines : Len(l) \in 1..CmdMax

Kids == (1..Rounds) \X (1..CmdMax)
Pipes == (1..Rounds) \X (1..(CmdMax - 1))
Ends == Pipes \X {"r", "w"}

VARIABLES
  spc,      \* where the shell is
  lists,    \* the command list of each round
  round,    \* how many command lists it has executed
  i,        \* its loop index
  rc,       \* last_return_code
  shellFds, \* the pipe ends the shell holds
  kid,      \* the state of each child
  status,   \* its exit status
  kidFds,   \* the pipe ends it holds
  work,     \* units it has read or has to write
  data      \* units in each pipe

vars == <<spc, lists, round, i, rc, shellFds, kid, status, kidFds, work,
          data>>
shellVars == <<spc, lists, round, i, rc, shellFds>>
kidVars == <<kid, status, kidFds, work>>

-----------------------------------------------------------------------------
clist == lists[round]
Num == Len(clist)
Program(k) == lists[k[1]][k[2]]
Both(p) == {<<p, "r">>, <<p, "w">>}

\* The ends of the pipes of round r.
PipesOf(r) == {e \in Ends : e[1][1] = r /\ e[1][2] < Len(lists[r])}

\* The ends dup2 makes the standard input and output of child k.
StdIn(k) == <<<<k[1], k[2] - 1>>, "r">>
StdOut(k) == <<<<k[1], k[2]>>, "w">>
StdEnds(k) ==
  (IF k[2] > 1 THEN {StdIn(k)} ELSE {})
    \cup (IF k[2] < Len(lists[k[1]]) THEN {StdOut(k)} ELSE {})

Held(e) == e \in shellFds \/ \E k \in Kids : e \in kidFds[k]

\* What the kernel tells child k about its standard input and output.
FromPipe(k) == StdIn(k) \in kidFds[k]
ToPipe(k) == StdOut(k) \in kidFds[k]
AtEof(k) ==
  FromPipe(k) => data[StdIn(k)[1]] = 0 /\ ~Held(<<StdIn(k)[1], "w">>)
Broken(k) == ToPipe(k) /\ ~Held(<<StdOut(k)[1], "r">>)

\* Mutant of CodeOf: WEXITSTATUS without WIFEXITED.
CodeRaw(st) == st

\* WIFEXITED(status) ? WEXITSTATUS(status) : 1
CodeOf(st) == IF st = "sig" THEN "1" ELSE st

Init ==
  /\ spc = "prompt"
  /\ lists = [r \in 1..Rounds |-> <<>>]
  /\ round = 0
  /\ i = 1
  /\ rc = "0"
  /\ shellFds = {}
  /\ kid = [k \in Kids |-> "none"]
  /\ status = [k \in Kids |-> "none"]
  /\ kidFds = [k \in Kids |-> {}]
  /\ work = [k \in Kids |-> 0]
  /\ data = [p \in Pipes |-> 0]

-----------------------------------------------------------------------------
(* The shell.                                                              *)

\* A command list with no program to fork: a built-in alone, or one in a
\* pipeline, which is refused.  A `cd` with no argument leaves rc alone.  Of
\* what execute_pipeline returns the loop only looks for OK_EXIT.
BuiltIn(l) ==
  \/ /\ l = <<"exit">>
     /\ spc' = "exited"
     /\ shellFds' = {}
     /\ UNCHANGED rc
  \/ /\ l = <<"cd">>
     /\ rc' \in {rc, "0", "errno"}
     /\ UNCHANGED <<spc, shellFds>>
  \/ /\ l \in {<<"rc">>, <<"dragon">>} \/ Len(l) > 1
     /\ UNCHANGED <<spc, rc, shellFds>>

\* The user types a line that has commands.
Type ==
  /\ spc = "prompt"
  /\ \E l \in Lines :
       \/ /\ \E j \in 1..Len(l) : l[j] \in BuiltIns
          /\ BuiltIn(l)
          /\ UNCHANGED <<lists, round, i>>
       \/ /\ \A j \in 1..Len(l) : l[j] \in Programs
          /\ round < Rounds
          /\ round' = round + 1
          /\ lists' = [lists EXCEPT ![round + 1] = l]
          /\ i' = 1
          /\ spc' = IF Len(l) = 1 THEN "fork" ELSE "pipe"
          /\ UNCHANGED <<rc, shellFds>>
  /\ UNCHANGED <<kidVars, data>>

\* End of file on the shell's standard input.
Quit ==
  /\ spc = "prompt"
  /\ spc' = "exited"
  /\ shellFds' = {}
  /\ UNCHANGED <<lists, round, i, rc, kidVars, data>>

Pipe ==
  /\ spc = "pipe"
  /\ \/ /\ shellFds' = shellFds \cup Both(<<round, i>>)
        /\ i' = IF i = Num - 1 THEN 1 ELSE i + 1
        /\ spc' = IF i = Num - 1 THEN "fork" ELSE "pipe"
     \/ /\ Faults
        /\ spc' = "prompt"
        /\ UNCHANGED <<shellFds, i>>
  /\ UNCHANGED <<lists, round, rc, kidVars, data>>

Forked(k) ==
  /\ kid' = [kid EXCEPT ![k] = "forked"]
  /\ kidFds' = [kidFds EXCEPT ![k] = shellFds]
  /\ work' = [work EXCEPT ![k] = IF clist[i] = "gen" THEN Units ELSE 0]
  /\ UNCHANGED status

\* Only exec_cmd, for a command alone, remembers why fork() failed.
ForkFails ==
  /\ Faults
  /\ spc = "fork"
  /\ spc' = "prompt"
  /\ rc' = IF Num = 1 THEN "errno" ELSE rc
  /\ UNCHANGED <<lists, round, i, shellFds, kidVars, data>>

\* Mutant of Fork: the shell closes a pipe as soon as its writer is there.
ForkCloses ==
  /\ spc = "fork"
  /\ Forked(<<round, i>>)
  /\ shellFds' = shellFds \ Both(<<round, i>>)
  /\ i' = IF i = Num THEN 1 ELSE i + 1
  /\ spc' = IF i < Num THEN "fork" ELSE IF Num = 1 THEN "wait" ELSE "close"
  /\ UNCHANGED <<lists, round, rc, data>>

Fork ==
  /\ spc = "fork"
  /\ Forked(<<round, i>>)
  /\ i' = IF i = Num THEN 1 ELSE i + 1
  /\ spc' = IF i < Num THEN "fork" ELSE IF Num = 1 THEN "wait" ELSE "close"
  /\ UNCHANGED <<lists, round, rc, shellFds, data>>

\* Mutant of Close: the loop stops one pipe early.
CloseButOne ==
  /\ spc = "close"
  /\ shellFds' = shellFds \ {e \in PipesOf(round) : e[1][2] < Num - 1}
  /\ spc' = "wait"
  /\ UNCHANGED <<lists, round, i, rc, kidVars, data>>

Close ==
  /\ spc = "close"
  /\ shellFds' = shellFds \ PipesOf(round)
  /\ spc' = "wait"
  /\ UNCHANGED <<lists, round, i, rc, kidVars, data>>

\* Mutant of Wait: only the last command is waited for.
WaitLast ==
  /\ spc = "wait"
  /\ kid[<<round, Num>>] = "dead"
  /\ kid' = [kid EXCEPT ![<<round, Num>>] = "reaped"]
  /\ rc' = CodeOf(status[<<round, Num>>])
  /\ spc' = "prompt"
  /\ UNCHANGED <<lists, round, i, shellFds, status, kidFds, work, data>>

\* One waitpid() of the loop that reaps the children in order.
Wait ==
  /\ spc = "wait"
  /\ kid[<<round, i>>] = "dead"
  /\ kid' = [kid EXCEPT ![<<round, i>>] = "reaped"]
  /\ \/ /\ i < Num
        /\ i' = i + 1
        /\ UNCHANGED <<spc, rc>>
     \/ /\ i = Num
        /\ rc' = CodeOf(status[<<round, i>>])
        /\ spc' = "prompt"
        /\ UNCHANGED i
  /\ UNCHANGED <<lists, round, shellFds, status, kidFds, work, data>>

-----------------------------------------------------------------------------
(* A child.                                                                *)

Ended(k, st) ==
  /\ kid' = [kid EXCEPT ![k] = "dead"]
  /\ status' = [status EXCEPT ![k] = st]
  /\ kidFds' = [kidFds EXCEPT ![k] = {}]
  /\ UNCHANGED shellVars

\* Mutant of Exec: a stage uses dup2 and closes none of the pipes.
ExecKeeps(k) ==
  /\ kid[k] = "forked"
  /\ \/ Program(k) \in {"nofile", "missing"} /\ Ended(k, "1")
     \/ /\ Program(k) \in {"gen", "copy", "take"}
        /\ kid' = [kid EXCEPT ![k] = "run"]
        /\ UNCHANGED <<shellVars, status, kidFds>>
  /\ UNCHANGED <<work, data>>

\* From fork to the program: the redirections, dup2, close and execvp.  When
\* execvp fails exec_cmd exits with errno, execute_pipeline with EXIT_FAILURE.
Exec(k) ==
  /\ kid[k] = "forked"
  /\ \/ Program(k) = "nofile" /\ Ended(k, "errno")
     \/ /\ Program(k) = "missing"
        /\ Ended(k, IF Len(lists[k[1]]) = 1 THEN "errno" ELSE "1")
     \/ /\ Program(k) \in {"gen", "copy", "take"}
        /\ kid' = [kid EXCEPT ![k] = "run"]
        /\ kidFds' = [kidFds EXCEPT ![k] =
                        (@ \ PipesOf(k[1])) \cup StdEnds(k)]
        /\ UNCHANGED <<shellVars, status>>
  /\ UNCHANGED <<work, data>>

\* A program reads or writes one unit, or ends.  A program that writes to a
\* pipe nobody can read dies of SIGPIPE; one that reads a pipe waits for data
\* until nobody can write.
Read(k) ==
  /\ kid[k] = "run"
  /\ Program(k) \in {"copy", "take"}
  /\ work[k] = 0
  /\ FromPipe(k)
  /\ data[StdIn(k)[1]] > 0
  /\ data' = [data EXCEPT ![StdIn(k)[1]] = @ - 1]
  /\ work' = [work EXCEPT ![k] = 1]
  /\ UNCHANGED <<shellVars, kid, status, kidFds>>

Write(k) ==
  /\ kid[k] = "run"
  /\ Program(k) \in {"gen", "copy"}
  /\ work[k] > 0
  /\ \/ /\ Broken(k)
        /\ Ended(k, "sig")
        /\ UNCHANGED <<work, data>>
     \/ /\ ToPipe(k) /\ ~Broken(k)
        /\ data[StdOut(k)[1]] < Cap
        /\ data' = [data EXCEPT ![StdOut(k)[1]] = @ + 1]
        /\ work' = [work EXCEPT ![k] = @ - 1]
        /\ UNCHANGED <<shellVars, kid, status, kidFds>>
     \/ /\ ~ToPipe(k)
        /\ work' = [work EXCEPT ![k] = @ - 1]
        /\ UNCHANGED <<shellVars, kid, status, kidFds, data>>

Exit(k) ==
  /\ kid[k] = "run"
  /\ \/ Program(k) = "gen" /\ work[k] = 0
     \/ Program(k) = "copy" /\ work[k] = 0 /\ AtEof(k)
     \/ Program(k) = "take" /\ (work[k] = 1 \/ AtEof(k))
  /\ \E st \in {"0", "1"} : Ended(k, st)
  /\ UNCHANGED <<work, data>>

Kill(k) ==
  /\ Kills
  /\ kid[k] \in {"forked", "run"}
  /\ Ended(k, "sig")
  /\ UNCHANGED <<work, data>>

-----------------------------------------------------------------------------
ShellStep == Pipe \/ Fork \/ Close \/ Wait
KidStep(k) == Exec(k) \/ Read(k) \/ Write(k) \/ Exit(k)

Next ==
  \/ Type \/ Quit \/ ShellStep \/ ForkFails
  \/ \E k \in Kids : KidStep(k) \/ Kill(k)

Spec == Init /\ [][Next]_vars

\* The kernel schedules the shell and its children, and the programs it runs
\* end when their input does.  Nothing makes the user type.
Fairness == WF_vars(ShellStep) /\ \A k \in Kids : WF_vars(KidStep(k))

FairSpec == Spec /\ Fairness

-----------------------------------------------------------------------------
(* Properties.                                                             *)

Codes == {"0", "1", "errno"}

\* Every variable has its type.
TypeOK ==
  /\ spc \in {"prompt", "pipe", "fork", "close", "wait", "exited"}
  /\ lists \in [1..Rounds -> Lines \cup {<<>>}]
  /\ round \in 0..Rounds
  /\ i \in 1..CmdMax
  /\ rc \in Codes
  /\ shellFds \subseteq Ends
  /\ kid \in [Kids -> {"none", "forked", "run", "dead", "reaped"}]
  /\ status \in [Kids -> {"none", "sig"} \cup Codes]
  /\ kidFds \in [Kids -> SUBSET Ends]
  /\ work \in [Kids -> Nat]
  /\ data \in [Pipes -> 0..Cap]

Over(k) == kid[k] \in {"dead", "reaped"}

\* Every child of round r was forked: neither pipe() nor fork() failed in it.
Whole(r) == \A j \in 1..Len(lists[r]) : kid[<<r, j>>] # "none"

\* Nothing of round r is left with the shell, and none of its children.
Cleared(r) ==
  /\ PipesOf(r) \cap shellFds = {}
  /\ \A j \in 1..Len(lists[r]) : kid[<<r, j>>] = "reaped"

\* When the prompt is back every child of a pipeline is reaped and its pipes
\* are closed in the shell (dshlib.c:400-416, questions.md:5 and :9 of
\* 5-ShellP3), whatever an earlier one that failed left open; only the
\* pipeline whose own pipe() or fork() failed leaves something behind.
CleanPrompt ==
  spc \in {"prompt", "exited"} => \A r \in 1..round : Whole(r) => Cleared(r)

\* A stage sees end-of-file only when the stage before it has ended, and is
\* killed by SIGPIPE only when the stage after it has, or the shell is gone
\* before it forked one: no process closes an end another still needs.
StagesConnected ==
  \A k \in Kids : kid[k] = "run" =>
    /\ FromPipe(k) /\ AtEof(k) => Over(<<k[1], k[2] - 1>>)
    /\ Broken(k) => Over(<<k[1], k[2] + 1>>) \/ spc = "exited"

\* Whatever is typed the shell gets back to its prompt, descriptors leaked by
\* an earlier failure notwithstanding.
PromptReturns ==
  spc \notin {"prompt", "exited"} ~> spc \in {"prompt", "exited"}

\* No program outlives the shell for ever.  The stages that a failed fork()
\* left behind wait on the pipes the shell leaked (dshlib.c:361-367), and a
\* later command line inherits copies of those; once the shell has left, no
\* program is kept from its end-of-file or its SIGPIPE by itself or another
\* (the closes of dshlib.c:394-398).
LeftoversEnd ==
  spc = "exited" ~> \A k \in Kids : kid[k] \notin {"forked", "run"}

-----------------------------------------------------------------------------
(* The inductive invariants behind StagesConnected and CleanPrompt.        *)

\* How far a round can be: its pipes are laid, then its children are forked
\* in order.
Forking ==
  /\ spc \in {"pipe", "fork", "close", "wait"} =>
       round \in 1..Rounds /\ i \in 1..Num
  /\ spc = "pipe" =>
       /\ i < Num
       /\ \A j \in 1..CmdMax : kid[<<round, j>>] = "none"
       /\ \A e \in PipesOf(round) : e[1][2] < i => e \in shellFds
  /\ spc = "fork" =>
       /\ PipesOf(round) \subseteq shellFds
       /\ \A j \in 1..CmdMax : kid[<<round, j>>] = "none" <=> j >= i
  /\ spc \in {"close", "wait"} =>
       \A j \in 1..Num : kid[<<round, j>>] # "none"
  /\ spc = "close" => i = 1
  /\ \A k \in Kids : k[1] > round => kid[k] = "none"
  /\ \A k \in Kids : kid[k] # "none" =>
       /\ k[2] <= Len(lists[k[1]])
       /\ k[2] > 1 => kid[<<k[1], k[2] - 1>>] # "none"

\* Who holds which pipe end: a child the ends it needs, and the shell those
\* of a round whose children are not all there.
Holding ==
  /\ \A e \in shellFds : e \in PipesOf(e[1][1]) /\ e[1][1] <= round
  /\ \A k \in Kids :
       /\ \A e \in kidFds[k] : e \in PipesOf(e[1][1]) /\ e[1][1] <= round
       /\ kid[k] = "forked" => PipesOf(k[1]) \subseteq kidFds[k]
       /\ kid[k] = "run" => StdEnds(k) \subseteq kidFds[k]
       /\ /\ kid[k] = "none"
          /\ k[2] > 1 /\ k[2] <= Len(lists[k[1]])
          /\ kid[<<k[1], k[2] - 1>>] # "none"
          => PipesOf(k[1]) \subseteq shellFds \/ spc = "exited"

\* Nothing is left of a round that is over, if its children were all forked.
Tidy ==
  /\ \A r \in 1..round :
       r < round \/ spc \in {"prompt", "exited"} => (Whole(r) => Cleared(r))
  /\ spc = "wait" => /\ PipesOf(round) \cap shellFds = {}
                     /\ \A j \in 1..(i - 1) : kid[<<round, j>>] = "reaped"
=============================================================================
