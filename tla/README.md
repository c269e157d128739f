# Models and proofs for the CS283 shells and student database

This directory holds TLA+ models of the programs in this repository, the TLC
configurations that check them on small instances, and TLAPS proofs of what
matters most for every instance.  Paths below are relative to `src/`.

## 1. Inventory

The repository is a course's sequence of assignments.  Three programs in it have
behaviour that several processes share, and that a test with one process and one
input cannot exercise: the remote shell, the local shell and the student
database.  The shell of assignment 4 is the local shell's ancestor, sequential but
for its child, with memory that five ways through its loop must keep in order.

| part | code | state | operations | interacts with |
|---|---|---|---|---|
| remote shell server | `6-RShell/starter/rsh_server.c` | listening socket, the client being served, rc of the accept loop, working directory | `start_server`, `boot_server`, `process_cli_requests`, `exec_client_requests`, `send_message_eof/string`, `rsh_execute_pipeline`, `rsh_match_command`, `rsh_built_in_cmd`, `stop_server` | clients (TCP), forked programs that write to the client's socket |
| remote shell client | `6-RShell/starter/rsh_cli.c` | prompt or waiting, the line sent, socket | `exec_remote_cmd_loop`, `start_client`, `client_cleanup` | server (TCP), user |
| local shell | `6-RShell/starter/dshlib.c`, `5-ShellP3/starter/dshlib.c` (they differ in the name of one field) | `last_return_code`, pipe descriptors, child pids | `exec_local_cmd_loop`, `execute_pipeline`, `exec_cmd`, `exec_built_in_cmd` | forked programs (fork, pipes, waitpid) |
| command parser | same files, `build_cmd_buff`, `build_cmd_list` | the command list, refilled line after line | line to command list, `alloc/clear/free_cmd_buff`, `free_cmd_list` | the two shells |
| student database | `2-StudentDB/sdbsc.c`, `db.h`, `sdbsc.h` | the file `student.db`, the file `.tmp_student.db` | add, delete, find, count, print, compress, zero | other runs of the command (shared files) |
| shell of assignment 4 | `assignment4-ShellP2/starter/dshlib.c` | `last_return_code`, one `cmd_buff_t` and the memory it points to | `exec_local_cmd_loop`, `build_cmd_buff`, `alloc/free/clear_cmd_buff`, `exec_cmd`, `exec_built_in_cmd` | one forked program |
| splitter of assignment 3 | `3-ShellP1/dshlib.c`, `dsh_cli.c` | none | line to command list | - |
| string tool | `stringfun.c` (twice) | one 50-byte buffer | count, reverse, print words, replace | - |
| entry points, `dragon.c` | `*/dsh_cli.c` | none | getopt, constant text | the loops above |

What is hard, and what makes each part right:

* **Remote shell.**  The protocol has no lengths: a request is whatever one
  `recv()` returns, and a reply ends when a chunk ends with `RDSH_EOF_CHAR`.  A
  reply is three sends by two processes (the program, then the exit code, then
  the marker).  The server serves one client at a time, from a queue the kernel
  keeps.  Client and server decide *separately* whether a line ends the session:
  the client by `strstr`, the server by comparing the command.  Right means:
  client and server never both wait (`NoMutualWait`), no byte of a reply is taken
  for part of the next one (`PromptInSync`), the server stops only when asked
  (`StopRequested`), a waiting client is always released (`Answered`,
  `Released`), and everyone is served in the end (`AllServed`).
* **Local shell.**  End-of-file on a pipe depends on *every* process that holds
  the write end; the children end in any order, by themselves or by a signal;
  `pipe()` and `fork()` can fail half way through a pipeline.  Right means: the
  prompt comes back (`PromptReturns`), with no child and no descriptor left
  (`CleanPrompt`), no stage is cut off from a neighbour that still works
  (`StagesConnected`), and what a failed pipeline leaves behind ends once the shell
  has left (`LeftoversEnd`).
* **Student database.**  The offset of a record is its key, no lock is taken,
  `compress` replaces the file by a rename while other runs may hold it, and all
  compressing runs share one temporary name.  Right means: alone, the command is
  a table (`ImplementsTable`); shared, what survives without locks (`InPlace`,
  `FoundInPlace`, `NoLostStudent`, `CountBetween`, `NeverOntoItself`); compressing
  loses nothing wherever it is interrupted (`CompressKeeps`, `CompressCompacts`).
* **Shell of assignment 4.**  `build_cmd_buff` carries the start of a word over
  turns of its loop through quotes and spaces; one `cmd_buff_t` is cleared, filled
  and freed on every line, by a count (`argc`) that the free itself resets, with
  allocations whose results nobody looks at.  Right means: the words are those
  of the line (`SplitRight`), the heap is what the buffer points to, each block
  once (`Accounted`), and nothing is left behind (`NothingLeft`).
* **Command parser.**  One loop over the characters of a token carries the start
  of a word through quotes, operators and file names; tokens are cut at pipes
  before quotes are looked at; the list is not emptied when a line is refused, nor
  its slots when a token has no program, and each pointer that is overwritten is a
  block lost.  Right means: what runs are the commands of the line that was typed
  and a line is refused when it should be (`RunsItsLine`), the local shell loses no memory from line to line but where the code cannot help it
  (`LocalLoses`), and no list is run that no line filled (`EmptyIffNotCopied`).  The
  parser of assignment 3 agrees where both apply (`SplitAgrees`).
* **String tool.**  `replace_word` shifts the text in the buffer it goes through,
  by the length the text had at the start, and compares past the end of it.  Right
  means: the buffer is set up as promised (`SetupRight`), words are those of the
  text (`WordsRight`), every occurrence is replaced (`ReplaceRight`), nothing outside
  the buffer is touched (`StaysInside`) and the loop ends (`Terminates`); the last
  three hold under conditions, which the properties state.

## 2. Modules

| module | what it is |
|---|---|
| `RemoteShell` | clients, server and connections, with the inductive invariant behind its safety properties |
| `RemoteCall` | the abstract specification: a line is a remote call |
| `RemoteShellProofs` | types and connections, whatever the traffic; the exchange with polite traffic, and the refinement of `RemoteCall` |
| `LocalShell`, `LocalShellProofs` | the shell, the children of a pipeline, and their descriptors; the proofs |
| `StudentDB`, `StudentDBProofs` | runs of the `sdbsc` command over shared files; the proofs, the refinement of `StudentTable` among them |
| `StudentTable` | the abstract specification: a table of students |
| `SingleShell`, `SingleShellProofs` | the shell that runs one command at a time: words, memory, child, code; the proofs |
| `CommandParser`, `CommandParserProofs` | the parsers of the shells as functions of a text, and what each should find, said without a loop; lemmas that the one finds the other |
| `CommandList`, `CommandListProofs` | the command list over the lines of a session, in the local shell and in the server; the proofs |
| `StringFun`, `StringFunProofs` | the string tool and its buffer; the proofs |
| `SequenceLemmas` | what the proofs share: the smallest counterexample, sequences that grow by one element |
| `MCRemoteShell`, `MCLocalShell`, `MCStudentDB`, `MCSingleShell`, `MCCommandList`, `MCStringFun` | values of the constants for TLC |

### RemoteShell

`spc` is where the server is: `boot` and `accept` in `process_cli_requests`,
`recv` to `close` in `exec_client_requests`, `stopping` before `stop_server`,
`stopped` when `main` returns.  `dead` is when the last process that holds the
server's sockets has ended: the server itself, by SIGPIPE or by the `exit()` in
`rsh_execute_pipeline`, or a program it left behind.  For when a `fork()` fails for a
later stage the programs forked before it go on, with inherited copies of the
client's socket and of the listening socket (`rsh_server.c:438-447`; nothing closes
them): that is `orphans`.  The kernel goes on to complete connections into a queue
that nobody accepts from, and the first orphan may read what the client sends
(`OrphanReads`); the sockets are closed when the orphans have ended (`OrphansEnd`).
The last stage, the only one whose output goes to the client, is never among them.  `cpc` is where each client is.  A
connection is two sequences, `up` and `down`, and the state of its two ends
(`cliEnd`, `srvEnd`), with the rules of TCP the code depends on: closing with
unread bytes is a reset, sending to a reset connection fails or raises SIGPIPE,
closing the listening socket resets what is in its queue.  The stream to the
server is made of words, `|`, newline and the NUL the client sends; the stream
back of output, the message with the exit code, the pipe-limit message and the
end marker.  `Kind` is what the server makes of the bytes of one `recv()`, up to
the first NUL: nothing, too many commands, `exit`, `stop-server` or a pipeline.
`MentionsExit` is the client's different opinion.  One action is one system call
and the code up to the next.  A pipeline is one step from its forks to the last
`waitpid()`, preceded by `ChildReads` when its first program reads the socket
that the server made its stdin; `LocalShell` has the processes of a pipeline one
by one.

`bi` and `cwd` record what `rsh_built_in_cmd` answered and whose `cd` moved the
server: the code executes the command as a program all the same.  `AcceptNoBuffer` is
the `malloc` of `exec_client_requests` failing: that client is closed, and the next one
accepted.

`Polite` is the traffic the protocol is made for: lines arrive in one piece, get
a reply or end the session, and leave the socket alone, and no program prints the
end marker.

### LocalShell

`spc` is the phase of `execute_pipeline`: laying the pipes, forking, closing,
waiting.  A child is `forked` (a copy of the shell, with all its descriptors),
`run` (after its redirections, `dup2`, the closing loop and `execvp`), `dead` or
`reaped`.  A descriptor is the end of a pipe; the kernel's rules are `AtEof` (no
data and nobody holds the write end) and `Broken` (nobody holds the read end).
The programs are the five that matter here: one that writes, one that copies, one
that stops reading early, one that does not exist, and one whose redirection
cannot be opened.  A single command, which the code runs through `exec_cmd`, is
the pipeline of one.

### StudentDB

A file is a sequence of slots and a run of the command is a process with its own
descriptor, offset and program counter; one action is one system call.  `db` and
`tmp` are what the two names refer to, which is what `rename` and `O_CREAT`
change; a run keeps the file it opened.  A write past the end leaves a hole that
reads as empty records, and slot 0 belongs to no student.  A read that fails in
the copy loop of `compress_db` ends it like the end of the file, because the loop
tests for a positive result only.  `print_db` and `count_db_records` are one
action, `Scan`: they differ in what they print.  Reads and writes of one 64-byte
slot are atomic.  Two history variables say what the properties need of the past:
`base`, how many records there were when a run opened the file, and `adders`, which
runs had been about to add the same student when a run did.

### SingleShell

`Words` is the loop of `build_cmd_buff` as a function on a text of letters, spaces
and quotes (`Turn` is one turn); `mem` is the heap and the `cmd_buff_t`; `Freed`,
`Allocated` and `Filled` are what `free_cmd_buff`, `alloc_cmd_buff` and
`build_cmd_buff` do to it, and an allocation that fails leaves what the code
leaves.  That goes for the first one too, whose result is not looked at
(`dshlib.c:202`): `argc` and `argv` then hold what the stack held (`Unwritten`), an entry
of `argv` NULL or an address `malloc` never returned (`Wild`); if `free_cmd_buff` would
meet one (`Garbage`), what happens is up to the build, and the model stops
(`FreesGarbage`).  `pc` is where `exec_local_cmd_loop` is; which command the first word names
is the choice of the action that runs.  The child is a copy of the shell, then a
program, then a status.  A shell whose first word was not copied ends in `strcmp`
(`crashed`).  A line has at most `CMD_ARGV_MAX - 1` words: what the code writes
beyond `argv` is undefined, and outside the model.

### CommandParser and CommandList

A text is a sequence of kinds of character, and a word or a file name the pair of
the places of its first and last one.  `Scan` is `build_cmd_buff`, one `Turn` for each
character of a text: `mode` says whether the loop is in an argument, right behind an
operator, in the spaces after one or in a file name, which the code says by where
its inner loops are.  `Split3` is the `build_cmd_list` of assignment 3.  `Commands`,
`Verdict` and `Replaced` say the same of a line by what stands next to what.

`CommandList` is what the two loops do with it.  `side` says which loop it is.  A
slot is one `cmd_buff_t`; `Freed` is what is left of it after `free_cmd_buff`,
`Held` counts the blocks its pointers have, and `lost` those the last step lost: the
pointers of a slot are never copied, so a block is lost exactly when the pointer to
it is overwritten or forgotten.  `Receive` puts fresh buffers over what the slots
hold, as the server does for each line.  `strdup` may fail (`Faults`); the shell then
runs a list without commands, and the server an array of -1 pipes (`NoPipes`).
`RemoteShell` has its own, coarser view of a line (`Kind`), on words instead of
characters.

### StringFun

`Copy` is one character of `setup_buff`, `Skip` and `Replace` one turn of the loop of
`replace_word`; `count_words` and `word_print` only read, and are one step each.
`pc = "undefined"` is a program that has left its buffer: what it does then is up to
the build.  `reverse_string` always does (section 5).  `Invoke` ends with 99 when `malloc` fails.

## 3. Runs

Every bound is a constant in the `.cfg`.  `CHECK_DEADLOCK FALSE` is set
everywhere because each system stops: users leave, runs of the database exit.

| run | what is in it | what it shows |
|---|---|---|
| `shell_polite` | 2 clients, 2 lines each, 7 lines, replies of 0 to 2 chunks, kills, and failures of every call of the server but `send()` on an open connection, 890 146 states | `TypeOK`, `NoMutualWait`, `PromptInSync`, `StopRequested`, `OneAtATime`, and `ImplementsCall`: a session is a sequence of remote calls |
| `shell_fair` | 3 clients with one line, queue of one | `ServerSurvives`, and under fairness `Answered` and `AllServed` |
| `shell_rude` | 2 clients, one line each: `cat \| stop-server` or `w \| w \|`, in fragments, so that every part of them is a command too (a `cat` that reads the socket, alone or in front of another program; a line over the limit; `stop-server`); output with the end marker in it, kills, failures, pipelines that fail with programs running, 319 173 states | `GoneClosesAll`, and under fairness `Released`: what is left when nothing else is promised is that neither side, nor a program the server left behind, holds the other after it has gone |
| `pipes` | two command lists of up to three stages, `pipe()` and `fork()` failing, children killed anywhere, 546 238 states | `TypeOK`, `CleanPrompt`, `StagesConnected`, and under fairness `PromptReturns` and `LeftoversEnd` |
| `cmd_list` | every line of up to 5 characters and pipelines at the limits (2 commands, 2 arguments, words of 2), `strdup` failing, 76 461 states | `TypeOK`, `RunsItsLine`, `LocalLoses`, `EmptyIffNotCopied`, `SplitAgrees` |
| `string_tool` | a buffer of 6, every text of up to 5 characters and four longer ones, 8 old and 4 new words, `malloc` failing, 591 112 states | `TypeOK`, `SetupRight`, `WordsRight`, `ReplaceRight`, `StaysInside`, and under fairness `Terminates` |
| `db_table` | three runs in a row, every option but compress, failures and crashes | `ImplementsTable` |
| `db_shared` | three concurrent runs of any option, any call failing, crashes, 2 335 378 states | `NeverOntoItself`, `InPlace`, `FoundInPlace`, `NoLostStudent`, `CountBetween`: what holds without locks, and until which option is asked (`TypeOK` is a theorem) |
| `db_compress` | four runs in a row that add, delete, compress; every call but `read()` fails anywhere, crashes | `CompressCompacts`, `CompressKeeps` |
| `single_shell` | every text of up to 6 characters, `argv` of 4, every `malloc` from the first on, `strndup` and `fork` failing, kills, 287 289 states | `TypeOK`, `SplitRight`, `Accounted`, `NothingLeft` |
| `doc_message_eof` | a line of too many commands | violates `MessagesEnded` |
| `db_doc_find` | add, compress, find | violates `FoundIsAsked` |

Why the bounds are enough.  Two clients are one served and one queued, three add
one that is refused by the full queue; two lines are an exchange and the one its
leftovers would disturb; three stages have a first, a middle and a last; two
rounds have one whose leftovers the next meets; `Cap = 1` with two units makes
writers block; ids 1 to 3 (or 2) give holes before, between and after records,
and the arguments 0 and `MaxId + 1` are out of range.  Three concurrent runs are
a reader and two that write, or two that compress and one that holds the old
file; four runs in a row are add, add, delete, compress, or a compress killed
half way, another run and a second compress.  Six characters are two quoted words
next to each other, a quoted and two plain ones, or three words, which is as many
as an `argv` of four holds; more lines than the session's next one do not matter,
for what a line leaves in memory is part of the state.

Five characters are a word, an operator and two names, or a quote with a pipe in
it; the longer lines put two and three commands together, with files and blanks
where the limit is looked at.  After a line that was refused, or that left anything
in a slot, only the lines of `Again` follow (22 of them: each is a way to fill, skip or
overflow the slots); what a line leaves is part of the state.  For a buffer of six,
texts of five fill it to the last place but the dot's, and the longer ones are those
that do not fit, fit by their blanks, or fit but for the blanks behind them; words
of up to three characters make the text shorter, longer, or nothing.

Fairness.  The server, each client and each child are processes the kernel
schedules: weak fairness of each one's next step.  For `Answered`, `AllServed`
and `Released` a user at the prompt goes on typing or leaves (`UserStep`); for
`PromptReturns` and `LeftoversEnd` the programs end when their input does and nothing
is asked of the user.  Programs that a failed pipeline of the server left behind end
too, under the condition of the ones it waits for: one that reads the client's socket
ends at its end of file and not before, so that `Released` excepts the clients that
wait while such a program reads from a client that is there (`HeldByOrphan`).  Failures, kills and a user's typing in the local shell are never fair: a failing `recv()` (`RecvFails`) is an action of its own outside
the fairness of the server, or a server that nobody talks to would be freed by a
failure that need not come.  For `Terminates` the program goes on with its loop
(`Turn`).  `shell_fair` has no kills and no failures, because a client
that is killed between two sends of its reply may end the server (see section 5).

Each property comes with a mutant: a definition such as `SendEofForgotten`,
`CloseButOne` or `WriteAtNext` beside the operator it stands for, with the bug a
careless edit would bring, which makes TLC report that property violated.

## 4. Theorems

All are for any number of clients, lines, stages, rounds, ids and runs, and for
texts of any length.  Where the third column says "-", what the constants' types and
the model's own bounds (section 6) say is all that is assumed.

| theorem | states | assumes beyond the constants' types |
|---|---|---|
| `RemoteShellProofs!TypeCorrect` | `Spec => []TypeOK` | - |
| `RemoteShellProofs!ServesOneAtATime` | `Spec => []OneAtATime` | - |
| `RemoteShellProofs!GoneServerClosesAll` | `Spec => []GoneClosesAll` | - |
| `RemoteShellProofs!NeverBothWait` | `Spec => []NoMutualWait` | `Polite` |
| `RemoteShellProofs!PromptMeansDone` | `Spec => []PromptInSync` | `Polite` |
| `RemoteShellProofs!StopsOnRequest` | `Spec => []StopRequested` | `Polite` |
| `RemoteShellProofs!ServerStaysUp` | `Spec => []ServerSurvives` | `Polite`, `~Kills`, `~Faults` |
| `RemoteShellProofs!Refinement` | `Spec => ImplementsCall` | `Polite` |
| `LocalShellProofs!TypeCorrect` | `Spec => []TypeOK` | - |
| `LocalShellProofs!StagesStayConnected` | `Spec => []StagesConnected` | - |
| `LocalShellProofs!PromptIsClean` | `Spec => []CleanPrompt` | - |
| `StudentDBProofs!TypeCorrect` | `Spec => []TypeOK` | - |
| `StudentDBProofs!CompressesApart` | `Spec => []NeverOntoItself` | - |
| `StudentDBProofs!RecordsInPlace` | `Spec => []InPlace` | - |
| `StudentDBProofs!FindsWhatIsAsked` | `Spec => []FoundInPlace` | - |
| `StudentDBProofs!AddedStays` | `Spec => []NoLostStudent` | - |
| `StudentDBProofs!CountsBetween` | `Spec => []CountBetween` | - |
| `StudentDBProofs!CompactsTheFile` | `Spec => []CompressCompacts` | `Serial` |
| `StudentDBProofs!CompressLosesNothing` | `Spec => CompressKeeps` | `Serial`, `"read" \notin Faults` |
| `StudentDBProofs!RunsImplementTable` | `Spec => ImplementsTable` | `Serial`, `"compress" \notin Ops` |
| `SingleShellProofs!TypeCorrect` | `Spec => []TypeOK` | - |
| `SingleShellProofs!MemoryIsAccountedFor` | `Spec => []Accounted` | the same `Lines` |
| `SingleShellProofs!NothingIsLeft` | `Spec => []NothingLeft` | the same `Lines` |
| `SingleShellProofs!SplitsRight` | `Spec => []SplitRight` | lines are of at most `MaxLen` characters and `ArgvMax - 1` words, both of any size (`Lines`) |
| `CommandListProofs!TypeCorrect` | `Spec => []TypeOK` | - |
| `CommandListProofs!RunsNothingStale` | `Spec => []EmptyIffNotCopied` | - |
| `CommandListProofs!RunsWhatIsTyped` | `Spec => []RunsItsLine` | - |
| `CommandListProofs!LosesReplacedOnly` | `Spec => []LocalLoses` | - |
| `CommandListProofs!ParsersAgree` | `Spec => []SplitAgrees` | - |
| `StringFunProofs!TypeCorrect` | `Spec => []TypeOK` | - |
| `StringFunProofs!SetupCopies` | `Spec => []SetupRight` | - |
| `StringFunProofs!PassesAgree` | `Spec => []WordsRight` | - |
| `StringFunProofs!ReplacesAll` | `Spec => []ReplaceRight` | - |
| `StringFunProofs!ReplacementInside` | `Spec => []StaysInside` | - |

The assumptions are not conveniences: without `Polite` a `cat` or a line over the
limit hangs both sides.  A run that compresses next to others loses what they add
(`Serial`: runs follow each other), one whose `read()` fails loses what it has not
read, and one that compresses moves students to other ids, which no table does; the
runs `db_compress` and `db_table` have the same conditions in their constants.  The
limits are those of `dshlib.h`, positive, and `argv` holds a word and the NULL behind
it: with room for the NULL alone no line has a command, and the parser of assignment 3,
which has no such array, finds one.  The
conditions in the database's properties are part of them: `InPlace` and
`FoundInPlace` speak of the time until a run is asked to compress, `NoLostStudent`
of the time until one is asked to delete that very student, to zero the file or to
compress it, `CountBetween` of runs that only add and read.

Several theorems are about what a loop computes for an input of any length.  The
models have the loops as recursive functions.  What is wanted of such a function is
proved in two steps.  First that there is one: a set of the numbers up to which a
function as described (`IsScan`, `IsBuilt`, `IsAhead`, ...) exists has no smallest
number missing (`SequenceLemmas!Smallest`).  Then that each of its values has what the
next one needs, again by the smallest place where it would not.  That is induction
in first-order form, which the provers can do; induction by a library theorem that
takes an operator is what they cannot.  What made this possible are definitions that
say what is meant with sets, recursive functions and `CHOOSE`; the sorting and
selecting operators of the community modules are recursive operators, of which
nothing can be proved.

Arguments.

* Remote shell.  `NoMutualWait` is not inductive: one must know how far the
  exchange is.  `Inv` has three parts.  `Connections` says who holds which
  connection and what an unconnected client has, the server or a program it left
  behind holding that of the client at hand; it is inductive for any traffic,
  and gives the first three theorems.  `Exchange` says that a waiting client has
  either its whole line in flight, or a line being executed with no marker in the
  reply so far, or a complete reply; that needs `Polite`, which makes a `recv()`
  return exactly one line.  `Stopping` ties `OK_EXIT` to a user who still waits or
  has left.  `Present`, which needs that nobody is killed, says that the client whose
  line is executed is waiting for the reply, so that nothing is sent to a closed
  connection; `ServerSurvives` is a part of it.  The refinement maps `cpc` to the phase of a call and needs
  `Exchange` to show that the prompt comes back only after the call was executed.
* Local shell.  `Forking` says how far the round is: which children exist, and
  that the shell holds all pipes of the round while it forks.  `Holding` says that
  a child holds at least the ends it needs, and that the shell holds the pipes of
  a round whose children are not all there, or has exited; `StagesConnected`
  follows, for the neighbour of a stage then either holds its end or is over.
  `Tidy` gives `CleanPrompt`: a round of which every child was forked is closed and
  reaped once the shell is past it, and stays so (`StaysCleared`), for no later step
  can give the shell a pipe of an earlier round; a round that failed is not spoken
  of, and does not disturb the others.
* Database.  `Safe` adds to the types that a process past `open()` has a file;
  `FreshTmp`, that the temporary file was never opened as `DB_FILE` and that a run
  that copies reads another file than it writes, whoever renames which.  What a run
  was asked to do is fixed when it starts (`Unasked`), so that "no run was asked to
  compress" at some time says the same of all times before.  Until then `Undisturbed`
  says that nobody is in `compress_db`, that every file has its records at their
  offsets, and that what a run found is what it asked for.
  `Growing` says of a student nobody was asked to drop that no run is about to
  truncate the file or to clear the student's slot, that all runs have the one
  file open, and that where a run reported the student as added the record there
  is by a run that had been about to add it too (`adders`), to which every run that is
  still about to write belongs: later ones find the slot taken.
  `Listing` says of runs that only add and read that nobody truncates the file or
  clears a slot, and of a run that lists that its number is at most the records
  before its offset, and that the records there were at its start are at most its
  number and the records from its offset on: a read moves one record from the
  second part to the first, and an add makes either part of the file only larger.
  `InTurn` says of runs one after the other where the one that is under way is:
  `Copied`, that what it has written is what is to be kept of the part it has read
  and that the file it reads is still `DB_FILE`; `Replaced`, that after the rename
  the file has no empty record.  The file is shown to be compact from there, and its
  records to be the same before and after, for the copy ends at the end of the file
  or fails.  `Serving` says for the table what the run under way knows: a slot
  that was read is still what the file holds, a count is that of the slots before the
  offset.  Each action is then a step of the table or leaves it alone.
* Shell of assignment 4.  `Owned` says that no pointer `free_cmd_buff` looks at is
  garbage and that those pointers, which are the entries below `argc` and the buffer,
  are the heap, each block once: freeing then frees everything (`FreedHasNone`).
  `Known` is that the memory is owned, or that it still is what the stack held before
  the first line.  `Attended` says that there is a child exactly while the shell waits.  `Scanned` follows the loop of
  `build_cmd_buff`: the words it has are the words that end before the place it is at,
  in their order, and the start it carries is that of the stretch it is in.
* Command parser.  `CommandParser` says what the words and file names of a text are by
  what stands next to what: the stretches of places that are in a name, or between
  quotes, or outside both.  `Mode` says where the loop is, in those terms: in an
  argument, behind an operator, or in a name (whose operator the loop remembers as
  `s.op`), with the start of the stretch it is in, and whether the next place is
  between quotes.  `TurnMode` is that one character keeps this, by the cases of the
  loop.  `SoFar` is what the loop has: the words that end before the place, the first
  `ArgvMax - 1` of them (`FirstWords`), the last name for each operator (`Latest`), and
  as many blocks lost as names were replaced.  A stretch is the n-th when n stretches begin
  no later (`Rank`); that only one can end at a place (`WordEnds`, `NameEnds`) makes
  the step.  `ScanFinds` is the result.
* Command list.  `BuiltSoFar` says of the list after some tokens of a line that it holds
  the commands of the pieces with a word among them (`Carried`), or that a piece came
  after the `CmdMax`-th; each slot is overwritten as a whole, so that what it held
  before does not matter.  `IInv` is `TypeOK`, `RunsItsLine`, `LocalLoses` and
  `Counted`, which adds that at the prompt the list is empty: each of the ways back to
  the prompt has to see to that for itself, and a failing `strdup` leaves what it
  finds, a list of no commands over slots that may hold anything.  For `ParsersAgree`,
  `SplitSoFar` says the same of the list of assignment 3; on a text of letters and
  spaces the words are the stretches of letters (`SimpleWords`), which both take, one
  as a program with the rest as its arguments.
* String tool.  `Setup` says that the buffer holds what is to be kept of the
  characters read so far; the place of a character in the buffer is its rank among
  those kept, which carries what the passes find there over to the text the user
  gave.  `At(i)` says of `replace_word` between two turns that what lies before its
  place followed by the replaced rest of the text (`Ahead`) is the result; a longer
  new word pushes the rest out of the loop's sight, after which (`Over`) nothing may
  match any more, which is why one occurrence is all that is allowed then.  `Inside`
  adds that the place behind the text holds a dot as long as the replacement is safe.
  What matches a word without dots ends before that dot (`MatchEnds`), so that the new
  word, which is not longer, does too, and the shift moves the dot onto nothing but a
  copy of itself: the dot behind the old length is never overwritten, although the
  text no longer ends there.

Every safety property that a passing run checks is a theorem, those of the database
and the remote shell under the conditions above, which are those of the runs.  Only
model-checked: all liveness (`Answered`, `AllServed`, `Released`, `PromptReturns`,
`LeftoversEnd`, `Terminates`), which needs fairness and `ENABLED` and is out of reach of the proof
system; and the two runs that expect a violation.

## 5. Where the code and what is written about it differ

Shown by a run:

* `rsh_server.c:295-298` sends the pipe-limit message by `send_message_string`,
  whose comment (364-366) says that it sends the end marker too.  It does not, and
  the client waits for ever (`doc_message_eof`).
* `sdbsc.c:57` says that `get_student` locates the student.  After `compress_db`,
  which packs the records, the offset holds another one, and `find` prints it
  (`db_doc_find`).

Seen in the models and not given a run:

* the client returns a communication error after `exit` and `stop-server`
  (`rsh_cli.c:131`, against the comment at 67-70);
* a negative rc does not end the accept loop (`rsh_server.c:213`, comment at
  191-193);
* a `cd` the server executed is executed as a program as well
  (`rsh_server.c:313`, comment at 548-550);
* a second send to a client that was killed raises SIGPIPE and ends the server
  (`rsh_server.c:318`, comment at 259-260);
* a program that prints the byte of the end marker gives its client the prompt
  early (`rsh_cli.c:136`, comment at 48-51);
* a `read()` that fails ends the copy of `compress_db` as if the file were at its
  end, and the truncated copy replaces the database with success
  (`sdbsc.c:477`, comment at 416 and 442);
* a pipeline whose first program was forked when the `fork()` of a later one fails
  takes the server down and leaves the first one running with the client's socket and
  the listening socket (`rsh_server.c:438-447`): with `cat | w` the client waits for a
  reply, and those in the queue for their turn, until that client gives up;
* two concurrent adds of one id both report success, and the later write replaces the
  other's record (`sdbsc.c:122-147`): `NoLostStudent` says no more than by whom a record
  may be replaced; a student added to a file another run is replacing is reported as
  added and lost (494), and of two runs that compress one may truncate or fill the
  temporary file of the other (467);
* the result of the first `alloc_cmd_buff` is not looked at; if its `malloc` fails, the
  first line frees whatever the stack held (`assignment4-ShellP2/starter/dshlib.c:202`,
  then 132, 125 and 114-118);
* a child that returns -1 makes `rc` print 255, for `WEXITSTATUS` is eight bits of it
  (`assignment4-ShellP2/starter/dshlib.c:192`, and `dshlib.c:306-320` of the later shells),
  where `assignment4-ShellP2/readme.md:164` has -1;
* the code of a program that was killed is not taken, so that `rc` prints the code
  of an earlier one (`assignment4-ShellP2/starter/dshlib.c:191`,
  `assignment4-ShellP2/readme.md:164`); and letters that run into a quote are lost
  (line 147);
* a refused pipeline leaves `last_return_code` at its old value
  (`dshlib.c:340`, `readme.md:164`);
* after a failed `fork()` (`dshlib.c:356-362`) children may still run, and the pipes
  stay open in the shell, against `5-ShellP3/starter/questions.md:5`, which says that
  all children complete before the prompt is back; `CleanPrompt` is therefore about
  pipelines that were forked as a whole;
* a blank token behind the eighth command counts against the limit
  (`dshlib.c:240`); a pipe in quotes ends the command (239); the words from the
  ninth on are dropped (208); the name of a redirection that another one of the
  same command replaces is lost (196-202), and so is everything in the slots of a
  refused line when the local shell ends next (`free_cmd_list` goes by `num`);
* when `strdup` fails, `build_cmd_list` returns an error no loop looks at: the local
  shell runs a list of no commands, and the server declares an array of -1 pipes
  (`rsh_server.c:295-313`, 426);
* the server loses the buffers of the previous line with every line
  (`rsh_server.c:288-290`);
* assignment 3 answers OK to a line of spaces (`3-ShellP1/dshlib.c:52-58`, 104), though
  `3-ShellP1/dsh_cli.c:43` has a warning for a blank command;
* `reverse_string` fills 51 bytes of an array as long as the text
  (`stringfun.c:105-110`, 277);
* `replace_word` keeps the length the text had, so that a longer new word pushes
  what follows out of the loop's sight, and the second occurrence may be lost or
  left (`stringfun.c:159`, 172-176); an empty old word, or one of dots, with an empty
  new one never ends; an old word that ends in dots is compared past the buffer;
* the buffer is printed with `%s` and has no NUL (`stringfun.c:305`).

## 6. What is left out, and the plan

Not modelled: the text of messages and prompts; `malloc` and `strndup` failing in
`build_cmd_buff` (`alloc_cmd_buff` and `argv` would have gaps; `SingleShell` has that
for the shell it came from); tabs in a command line, which are spaces to it; what a
build does after it has left a buffer; partial writes, and a read of a file that
returns part of a slot; names and GPA of students; `getopt` and usage messages of
the entry points, whose loops are elsewhere, and the loop of assignment 3's, which
keeps nothing between two lines; `dragon.c`, which prints constant text.  In
`RemoteShell` and `LocalShell` a stage is one of a few programs: what arguments and
redirections it has is the matter of `CommandParser`.

Bounds of the models themselves: one address that `malloc` never returned stands for
all (`Wild`), and an `argc` that was never written is one `argv` has room for;
`Outputs` bounds what a program writes; the reads and writes of a pipeline that succeeds
are one step.

Next, in order:

1. A composition of `RemoteShell` with the processes of a pipeline, so that two
   programs and the server write to one socket in an interleaved way.
2. The redirections and arguments of `CommandParser` in the stages of `LocalShell`.
3. The remaining parts of a line's life in assignment 4 (`malloc` failing half way)
   for the list of its successors.
