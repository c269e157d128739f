---------------------------- MODULE SingleShell ----------------------------
(***************************************************************************)
(* The shell of assignment4-ShellP2/starter/dshlib.c, which runs one       *)
(* command at a time: how build_cmd_buff cuts a line into words, the       *)
(* memory a cmd_buff_t points to, the child exec_cmd forks and the code    *)
(* the rc command prints.                                                  *)
(*                                                                         *)
(* A character of a line is a letter, a space or a quote; which command    *)
(* its first word names is left to the action that runs the command.       *)
(* Memory is a set of blocks; a pointer is a block, NULL, or whatever      *)
(* memory that was never written holds.                                    *)
(***************************************************************************)
EXTENDS Naturals, Sequences, FiniteSets

CONSTANTS
  ArgvMax,   \* CMD_ARGV_MAX, the entries of argv
  MaxLen,    \* bound: the characters of a line
  MaxBlocks, \* bound: the blocks of memory
  Codes,     \* what programs exit with
  Faults,    \* do malloc, strndup and fork fail?
  Kills      \* is the child killed by a signal from outside?

NULL == 0
Blocks == 1..MaxBlocks
Wild == MaxBlocks + 1      \* bound: one address that malloc never returned
Chars == {"letter", "space", "quote"}
ENOENT == 2
EACCES == 13
Errno == {ENOENT, EACCES}  \* bound: why execvp fails
\* How a program ended, if not with an exit code; and before it ended
Signal == 256
Unset == 257

ASSUME SizesAssumption ==
  /\ ArgvMax \in Nat \ {0}
  /\ MaxLen \in Nat
  /\ MaxBlocks \in Nat /\ MaxBlocks >= ArgvMax
ASSUME CodesAssumption == Codes \subseteq 0..255
ASSUME SwitchesAssumption == Faults \in BOOLEAN /\ Kills \in BOOLEAN

VARIABLES
  pc,     \* where the shell is
  line,   \* the line it was given
  mem,    \* the heap, and the cmd_buff_t that points to it
  rc,     \* last_return_code
  child,  \* the process exec_cmd forked
  status  \* how it ended

vars == <<pc, line, mem, rc, child, status>>

-----------------------------------------------------------------------------
(* The words of a text, each as the places of its first and last character. *)

\* strndup of the text from s.start to k - 1, unless that is empty
Cut(s, k) ==
  IF k > s.start THEN Append(s.words, <<s.start, k - 1>>) ELSE s.words

\* Mutant: a space ends a word inside quotes as well.
TurnAtSpace(s, c, k) ==
  CASE c = "quote" ->
         [start |-> k + 1, quoted |-> ~s.quoted,
          words |-> IF s.quoted THEN Cut(s, k) ELSE s.words]
    [] c = "space" -> [s EXCEPT !.start = k + 1, !.words = Cut(s, k)]
    [] OTHER -> s

\* One turn of the loop, at character k.  The loops that skip spaces are turns
\* that cut nothing.
Turn(s, c, k) ==
  CASE c = "quote" ->
         [start |-> k + 1, quoted |-> ~s.quoted,
          words |-> IF s.quoted THEN Cut(s, k) ELSE s.words]
    [] c = "space" /\ ~s.quoted ->
         [s EXCEPT !.start = k + 1, !.words = Cut(s, k)]
    [] OTHER -> s

Words(text) ==
  LET scan[k \in 0..Len(text)] ==
        IF k = 0 THEN [start |-> 1, quoted |-> FALSE, words |-> <<>>]
        ELSE Turn(scan[k - 1], text[k], k)
  IN Cut(scan[Len(text)], Len(text) + 1)

\* Bound: argv has room for the words and the NULL after them.  What a longer
\* line overwrites is not modelled.
Lines ==
  {text \in UNION {[1..n -> Chars] : n \in 0..MaxLen} :
     Len(Words(text)) \in 0..(ArgvMax - 1)}

-----------------------------------------------------------------------------
(* Memory: m.heap is the set of blocks in use, the rest is the cmd_buff_t. *)

Args == 0..(ArgvMax - 1)
Memories ==
  [heap : SUBSET Blocks, buf : Blocks \cup {NULL}, argc : Args,
   argv : [Args -> Blocks \cup {NULL, Wild}]]

\* The pointers free_cmd_buff looks at.
Given(m) == {k \in Args : k < m.argc}
Pointers(m) == ({m.buf} \cup {m.argv[k] : k \in Given(m)}) \ {NULL}
Garbage(m) == \E k \in Given(m) : m.argv[k] = Wild

\* The cmd_buff_t on the stack of exec_local_cmd_loop, when malloc's result is
\* all that was written to it.
Unwritten ==
  [heap : {{}}, buf : {NULL}, argc : Args, argv : [Args -> {NULL, Wild}]]

\* Mutant: the loop stops one word early.
FreedButOne(m) ==
  [heap |-> m.heap \ ({m.buf} \cup {m.argv[k] : k \in {j \in Args : j + 1 < m.argc}}),
   buf |-> NULL,
   argc |-> 0,
   argv |-> [k \in Args |-> IF k + 1 < m.argc THEN NULL ELSE m.argv[k]]]

\* free_cmd_buff
Freed(m) ==
  [heap |-> m.heap \ ({m.buf} \cup {m.argv[k] : k \in {j \in Args : j < m.argc}}),
   buf |-> NULL,
   argc |-> 0,
   argv |-> [k \in Args |-> IF k < m.argc THEN NULL ELSE m.argv[k]]]

\* Blocks for the pointers in S.  Which free blocks the allocator returns does
\* not matter: the lowest ones, in order.
Fresh(S, heap) ==
  {f \in [S -> Blocks \ heap] :
     \A k \in S :
       /\ \A j \in S : j < k => f[j] < f[k]
       /\ \A b \in Blocks \ heap : b < f[k] => \E j \in S : f[j] = b}

\* alloc_cmd_buff, with the block malloc returned
Allocated(m, b) ==
  IF b = NULL THEN m
  ELSE [heap |-> m.heap \cup {b}, buf |-> b, argc |-> 0,
        argv |-> [k \in Args |-> NULL]]

\* build_cmd_buff after its clear_cmd_buff, for n words of which those in
\* DOMAIN f have a copy
Filled(m, n, f) ==
  [m EXCEPT !.heap = @ \cup {f[k] : k \in DOMAIN f},
            !.argc = n,
            !.argv = [k \in Args |-> IF k \in DOMAIN f THEN f[k]
                                     ELSE IF k <= n THEN NULL ELSE @[k]]]

\* What malloc may return, and which of n words strndup may copy
Malloc(heap) ==
  {b \in Blocks \ heap : \A c \in Blocks \ heap : b <= c}
  \cup (IF Faults THEN {NULL} ELSE {})
Copied(n) == IF Faults THEN SUBSET (0..(n - 1)) ELSE {0..(n - 1)}

-----------------------------------------------------------------------------
\* The result of the first alloc_cmd_buff is not looked at.  Bound: argc, if it
\* was never written, is in Args; a negative one does what 0 does, a greater one
\* also takes what is behind argv for pointers.
Init ==
  /\ pc = "prompt"
  /\ line = <<>>
  /\ \E m \in Unwritten, b \in Malloc({}) : mem = Allocated(m, b)
  /\ rc = 0
  /\ child = "none"
  /\ status = Unset

\* build_cmd_buff, or the end of the shell, frees what was never allocated.
\* What free() makes of it is undefined; the model ends here.
FreesGarbage ==
  /\ pc = "prompt" /\ Garbage(mem)
  /\ pc' = "crashed"
  /\ UNCHANGED <<line, mem, rc, child, status>>

\* build_cmd_buff: the result of clear_cmd_buff is not looked at.
BuildCommand ==
  /\ pc = "prompt" /\ ~Garbage(mem)
  /\ \E text \in Lines :
       /\ line' = text
       /\ LET count == Len(Words(text)) IN
          \E b \in Malloc(Freed(mem).heap) :
            LET m == Allocated(Freed(mem), b) IN
            \E S \in Copied(count) :
              \E f \in Fresh(S, m.heap) : mem' = Filled(m, count, f)
  /\ pc' = "built"
  /\ UNCHANGED <<rc, child, status>>

\* Back to the prompt, or out of the loop, with the line forgotten
Prompt == pc' = "prompt" /\ line' = <<>>
Leave ==
  /\ pc' = "gone" /\ line' = <<>>
  /\ mem' = Freed(mem)
  /\ UNCHANGED <<rc, child, status>>

EndOfInput == pc = "prompt" /\ ~Garbage(mem) /\ Leave

NoCommand ==
  /\ pc = "built" /\ mem.argc = 0
  /\ Prompt
  /\ UNCHANGED <<mem, rc, child, status>>

\* match_command compares argv[0]; it ends the shell if that was not copied.
Named == pc = "built" /\ mem.argc > 0 /\ mem.argv[0] # NULL
NoName ==
  /\ pc = "built" /\ mem.argc > 0 /\ mem.argv[0] = NULL
  /\ pc' = "crashed"
  /\ UNCHANGED <<line, mem, rc, child, status>>

Exit == Named /\ Leave

Rc ==
  /\ Named
  /\ Prompt
  /\ UNCHANGED <<mem, rc, child, status>>

\* cd alone keeps the code if it succeeds, or if there is no HOME; with an
\* argument that was not copied chdir fails.
Cd ==
  /\ Named
  /\ Prompt
  /\ \/ rc' = ENOENT
     \/ mem.argc = 1 /\ rc' = rc
     \/ mem.argc > 1 /\ mem.argv[1] # NULL /\ rc' = 0
  /\ UNCHANGED <<mem, child, status>>

ForkFails ==
  /\ Faults /\ Named
  /\ Prompt
  /\ rc' = 1
  /\ mem' = Freed(mem)
  /\ UNCHANGED <<child, status>>

Fork ==
  /\ Named
  /\ pc' = "waiting"
  /\ child' = "forked"
  /\ UNCHANGED <<line, mem, rc, status>>

\* Mutant: waitpid with WNOHANG.
WaitNot ==
  /\ pc = "waiting" /\ child # "none"
  /\ Prompt
  /\ rc' = IF status \in {Signal, Unset} THEN rc ELSE status
  /\ child' = IF child = "dead" THEN "none" ELSE child
  /\ mem' = Freed(mem)
  /\ status' = IF child = "dead" THEN Unset ELSE status

\* Mutant: the status is stored as waitpid returns it.
WaitRaw ==
  /\ pc = "waiting" /\ child = "dead"
  /\ Prompt
  /\ rc' = IF status = Signal THEN rc ELSE 256 * status
  /\ child' = "none"
  /\ mem' = Freed(mem)
  /\ status' = Unset

\* The code of a child that was killed is not taken.
Wait ==
  /\ pc = "waiting" /\ child = "dead"
  /\ Prompt
  /\ rc' = IF status = Signal THEN rc ELSE status
  /\ child' = "none"
  /\ mem' = Freed(mem)
  /\ status' = Unset

-----------------------------------------------------------------------------
(* The child. *)

Dies(st) ==
  /\ child' = "dead"
  /\ status' = st
  /\ UNCHANGED <<pc, line, mem, rc>>

ExecFails == child = "forked" /\ \E e \in Errno : Dies(e)
Exec ==
  /\ child = "forked"
  /\ child' = "run"
  /\ UNCHANGED <<pc, line, mem, rc, status>>
Ends == child = "run" /\ \E c \in Codes : Dies(c)
Kill == Kills /\ child \in {"forked", "run"} /\ Dies(Signal)

Shell ==
  \/ NoCommand \/ NoName \/ Exit \/ Rc \/ Cd \/ ForkFails \/ Fork \/ Wait
Child == ExecFails \/ Exec \/ Ends

Next ==
  \/ FreesGarbage \/ BuildCommand \/ EndOfInput
  \/ Shell \/ Child \/ Kill

Spec == Init /\ [][Next]_vars

-----------------------------------------------------------------------------
TypeOK ==
  /\ pc \in {"prompt", "built", "waiting", "gone", "crashed"}
  /\ line \in Seq(Chars)
  /\ mem \in Memories
  /\ rc \in 0..255
  /\ child \in {"none", "forked", "run", "dead"}
  /\ status \in (0..255) \cup {Signal, Unset}

\* Which stretches of a text are words, without a loop: the text between two
\* quotes, or after the last one, whatever is in it; and outside quotes a
\* stretch of letters up to a space or the end.  Letters that run into a quote
\* are lost.
Quoted(text, k) ==
  Cardinality({j \in 1..(k - 1) : text[j] = "quote"}) % 2 = 1
IsWord(text, a, b) ==
  LET end == b = Len(text)
      plain == \A k \in a..b : text[k] # "quote"
  IN IF Quoted(text, a)
     THEN plain /\ text[a - 1] = "quote" /\ (end \/ text[b + 1] = "quote")
     ELSE /\ \A k \in a..b : text[k] = "letter"
          /\ a = 1 \/ text[a - 1] # "letter"
          /\ end \/ text[b + 1] = "space"

\* build_cmd_buff finds exactly the words, in their order (dshlib.c:129-168,
\* readme.md:58-60): spaces separate, quotes keep them, no word is cut in two,
\* found twice or run together with its neighbour.
SplitRight ==
  LET words == Words(line) IN
  /\ {words[n] : n \in DOMAIN words} =
       {w \in (1..Len(line)) \X (1..Len(line)) :
          w[1] <= w[2] /\ IsWord(line, w[1], w[2])}
  /\ \A m, n \in DOMAIN words : m < n => words[m][2] < words[n][1]
  /\ pc = "built" => mem.argc = Len(words)

\* Over any number of lines nothing is lost, freed twice or used after it was
\* freed, whatever allocation fails but the very first: each block in use has one
\* pointer to it, and each pointer a block in use, of its own (alloc_cmd_buff,
\* free_cmd_buff, clear_cmd_buff and build_cmd_buff).  If the first one fails,
\* what the shell takes for pointers may be anything (dshlib.c:202); but only
\* before the first line, after which nothing of it is ever looked at again.
Accounted ==
  IF Garbage(mem)
  THEN pc \in {"prompt", "crashed"} /\ mem.heap = {} /\ rc = 0
  ELSE /\ mem.heap = Pointers(mem)
       /\ \A j, k \in Given(mem) :
            mem.argv[j] # NULL => /\ mem.argv[j] # mem.buf
                                  /\ mem.argv[j] = mem.argv[k] => j = k

\* A child is there only while the shell waits for it, and the memory is free
\* when the shell is left, by the end of the input or by exit (exec_cmd,
\* exec_local_cmd_loop).
NothingLeft ==
  /\ pc # "waiting" => child = "none"
  /\ pc = "gone" => mem.heap = {}
=============================================================================
