---------------------------- MODULE CommandList ----------------------------
(***************************************************************************)
(* The command list a shell fills and empties line after line: build_cmd_- *)
(* list, alloc_cmd_buff, clear_cmd_buff and free_cmd_list of dshlib.c,     *)
(* driven by the loop of the local shell (exec_local_cmd_loop) or by that  *)
(* of the server (exec_client_requests).  How commands run is the matter   *)
(* of LocalShell and RemoteShell.                                          *)
(*                                                                         *)
(* A slot is one cmd_buff_t: the blocks its pointers hold.  Pointers are   *)
(* never copied from one slot to another, so that a block is lost when the *)
(* pointer to it is overwritten.                                           *)
(***************************************************************************)
EXTENDS CommandParser

CONSTANTS
  Lines,  \* the lines a user may type
  Again,  \* bound: those typed after a line that was refused or left something
  Faults  \* does strdup fail?

ASSUME LinesAssumption == Again \subseteq Lines /\ Lines \subseteq Seq(Chars)
ASSUME FaultsAssumption == Faults \in BOOLEAN

VARIABLES
  side,   \* the loop: the local shell's or the server's
  pc,     \* where it is
  line,   \* the line being handled
  result, \* what build_cmd_list returned for it
  list,   \* the command list
  lost    \* the blocks the last step lost

vars == <<side, pc, line, result, list, lost>>

-----------------------------------------------------------------------------
NoCommand == [args |-> <<>>, in |-> None, out |-> None, append |-> FALSE]

\* A slot: the command in it, and whether alloc_cmd_buff has set it up.  It
\* has a block of its own then.
Slot(buf, c) ==
  [buf |-> buf, args |-> c.args, in |-> c.in, out |-> c.out, append |-> c.append]
Garbage == Slot(FALSE, NoCommand)
Empty == Slot(TRUE, NoCommand)

Held(slot) ==
  Len(slot.args) + Cardinality({w \in {"in", "out"} : slot[w] # None})
    + (IF slot.buf THEN 1 ELSE 0)
AllHeld(slots) ==
  LET held[n \in 0..Len(slots)] ==
        IF n = 0 THEN 0 ELSE held[n - 1] + Held(slots[n])
  IN held[Len(slots)]

\* Mutant: free_cmd_buff and clear_cmd_buff forget the file names.
FreedButFiles(slot) == [Garbage EXCEPT !.in = slot.in, !.out = slot.out]

\* free_cmd_buff: what the slot still points to.
Freed(slot) == Garbage

\* Mutant: a token without a program does not count against the limit.
BuildNextLate(b, text) ==
  LET s == Scan(text)
      n == b.num + 1
  IN CASE b.rc # "OK" \/ (b.num >= CmdMax /\ s.args = <<>>) -> b
       [] b.rc = "OK" /\ b.num >= CmdMax /\ s.args # <<>> ->
            [b EXCEPT !.rc = "TOO_MANY"]
       [] OTHER ->
            [b EXCEPT !.slots[n] = Slot(TRUE, Command(s)),
                      !.num = IF s.args = <<>> THEN @ ELSE n,
                      !.lost = @ + Held(Freed(b.slots[n])) + s.lost]

\* Mutant: the input file of the last command of the slot stays.
BuildNextKeeps(b, text) ==
  LET s == Scan(text)
      n == b.num + 1
      in == IF s.in = None THEN b.slots[n].in ELSE s.in
  IN CASE b.rc # "OK" -> b
       [] b.rc = "OK" /\ b.num >= CmdMax -> [b EXCEPT !.rc = "TOO_MANY"]
       [] OTHER ->
            [b EXCEPT !.slots[n] = Slot(TRUE, [Command(s) EXCEPT !.in = in]),
                      !.num = IF s.args = <<>> THEN @ ELSE n,
                      !.lost = @ + Held(Freed(b.slots[n])) + s.lost]

\* One token of build_cmd_list.  clear_cmd_buff empties the slot; the next
\* token takes it again when this one has no argument.
BuildNext(b, text) ==
  LET s == Scan(text)
      n == b.num + 1
  IN CASE b.rc # "OK" -> b
       [] b.rc = "OK" /\ b.num >= CmdMax -> [b EXCEPT !.rc = "TOO_MANY"]
       [] OTHER ->
            [b EXCEPT !.slots[n] = Slot(TRUE, Command(s)),
                      !.num = IF s.args = <<>> THEN @ ELSE n,
                      !.lost = @ + Held(Freed(b.slots[n])) + s.lost]

\* The tokens of a line, one after the other.
Built(slots, text) ==
  LET tokens == Tokens(text)
      built[n \in 0..Len(tokens)] ==
        IF n = 0 THEN [slots |-> slots, num |-> 0, rc |-> "OK", lost |-> 0]
        ELSE BuildNext(built[n - 1], tokens[n])
  IN built[Len(tokens)]

\* Mutant: a line without a command is a list like any other.
BuildListEmpty(slots, text) == Built(slots, text)

\* Mutant: the number of commands is set on every way out.
BuildListCounts(slots, text) ==
  LET b == Built(slots, text)
      rc == IF b.rc = "OK" /\ b.num = 0 THEN "WARN_NO_CMDS" ELSE b.rc
  IN [rc |-> rc, num |-> b.num + 1, slots |-> b.slots, lost |-> b.lost]

\* build_cmd_list: the list keeps what a refused line put into its slots.
BuildList(slots, text) ==
  LET b == Built(slots, text)
      rc == IF b.rc = "OK" /\ b.num = 0 THEN "WARN_NO_CMDS" ELSE b.rc
  IN [rc |-> rc, num |-> IF rc = "OK" THEN b.num ELSE 0, slots |-> b.slots,
      lost |-> b.lost]

\* The list with its commands freed.
FreedList(l) ==
  [n \in 1..CmdMax |-> IF n <= l.num THEN Freed(l.slots[n]) ELSE l.slots[n]]

-----------------------------------------------------------------------------
Init ==
  /\ side \in {"local", "server"}
  /\ pc = "prompt"
  /\ line = <<>>
  /\ result = "OK"
  /\ list = [num |-> 0,
             slots |-> [n \in 1..CmdMax |->
                          IF side = "local" THEN Empty ELSE Garbage]]
  /\ lost = 0

\* The line is built into the slots, or strdup fails and nothing is; only two
\* of the results lead back to the prompt.
Build(slots, text, before) ==
  \/ LET b == BuildList(slots, text) IN
     /\ result' = b.rc
     /\ list' = [num |-> b.num, slots |-> b.slots]
     /\ lost' = before + b.lost
     /\ pc' = IF b.rc = "OK" THEN "run" ELSE "prompt"
  \/ /\ Faults
     /\ result' = "MEMORY"
     /\ list' = [num |-> list.num, slots |-> slots]
     /\ lost' = before
     /\ pc' = "run"

Typed ==
  IF line = <<>> /\ \A n \in 1..CmdMax : list.slots[n] \in {Empty, Garbage}
  THEN Lines ELSE Again

ReadLine ==
  /\ side = "local" /\ pc = "prompt"
  /\ \E text \in Typed :
       /\ line' = text
       /\ Build(list.slots, text, 0)
  /\ UNCHANGED side

\* The server skips a line of spaces, and for any other allocates all the
\* slots again, over what they hold.
Receive ==
  /\ side = "server" /\ pc = "prompt"
  /\ \E text \in Typed :
       /\ \E k \in DOMAIN text : text[k] # "space"
       /\ line' = text
       /\ Build([n \in 1..CmdMax |-> Empty], text, AllHeld(list.slots))
  /\ UNCHANGED side

\* The commands have run.
Done ==
  /\ pc = "run"
  /\ side = "server" => list.num > 0
  /\ pc' = "prompt"
  /\ line' = <<>>
  /\ list' = [num |-> 0,
              slots |-> [n \in 1..CmdMax |-> IF n <= list.num THEN Empty
                                             ELSE list.slots[n]]]
  /\ lost' = AllHeld(SubSeq(FreedList(list), 1, list.num))
  /\ UNCHANGED <<side, result>>

\* rsh_execute_pipeline declares an array of num - 1 pipes.
NoPipes ==
  /\ side = "server" /\ pc = "run" /\ list.num = 0
  /\ pc' = "undefined"
  /\ UNCHANGED <<side, line, result, list, lost>>

\* The loop ends: the local one frees the commands of its list, the server
\* only the buffer it received into.
Over ==
  /\ pc' = "over"
  /\ line' = <<>>
  /\ lost' = AllHeld(IF side = "local" THEN FreedList(list) ELSE list.slots)
  /\ list' = [num |-> 0, slots |-> [n \in 1..CmdMax |-> Garbage]]
  /\ UNCHANGED <<side, result>>

\* exit or stop-server, alone on its line; the end of the input, or of the
\* connection.
Exit == pc = "run" /\ list.num = 1 /\ Over
EndOfInput == pc = "prompt" /\ Over

Next == ReadLine \/ Receive \/ Done \/ NoPipes \/ Exit \/ EndOfInput

Spec == Init /\ [][Next]_vars

-----------------------------------------------------------------------------
Slots ==
  [buf : BOOLEAN, args : Seq(Nat \X Nat), in : Nat \X Nat, out : Nat \X Nat,
   append : BOOLEAN]

\* Every variable has its type.
TypeOK ==
  /\ side \in {"local", "server"}
  /\ pc \in {"prompt", "run", "over", "undefined"}
  /\ line \in {<<>>} \cup Lines
  /\ result \in {"OK", "WARN_NO_CMDS", "TOO_MANY", "MEMORY"}
  /\ list.num \in 0..CmdMax /\ list.slots \in [1..CmdMax -> Slots]
  /\ lost \in Nat

\* A line is refused when it should be, unless it cannot be copied; and what
\* runs are its commands, with its words and its files (dshlib.c:152-259):
\* nothing of an earlier line, or of a token without a program that used the
\* slot before.
RunsItsLine ==
  /\ line # <<>> /\ result # "MEMORY" => result = Verdict(line)
  /\ pc = "run" =>
       [n \in 1..list.num |->
          [w \in DOMAIN NoCommand |-> list.slots[n][w]]] =
       IF result = "MEMORY" THEN <<>> ELSE Commands(line)

\* Over any number of lines the local loop loses no block but those of file
\* names that another redirection of the same command replaced
\* (dshlib.c:196-202).
LocalLoses ==
  side = "local" /\ pc # "over" => lost <= Replaced(line)

\* When the line could not be copied, and then only, the list that runs is
\* empty: no earlier line left its number of commands behind for the loops,
\* which go on as after OK, and the server, whose arrays have no size then,
\* meets no other empty list (dshlib.c:441-448, rsh_server.c:286-296, 425-428).
EmptyIffNotCopied ==
  pc = "run" => (list.num = 0 <=> result = "MEMORY")

\* On a line without quotes or redirections the parser of 3-ShellP1 and that
\* of its successors find the same commands, up to the limits of each
\* (3-ShellP1/dshlib.c:35-105, 5-ShellP3/starter/dshlib.c:152-252).  A line
\* of spaces is no error for the former.
SplitAgrees ==
  LET words == [n \in DOMAIN Filled(line) |-> Words(Filled(line)[n])]
      Args(n) == IF Len(words[n]) = 1 THEN None
                 ELSE <<words[n][2][1], Last(words[n])[2]>>
      Big == \E n \in DOMAIN words :
               /\ n <= CmdMax
               /\ Size(words[n][1]) >= ExeMax \/ Size(Args(n)) >= ArgsMax
      r == Split3(line)
  IN ToSet(line) \subseteq {"letter", "space", "pipe"} =>
       /\ r.rc = CASE Big -> "TOO_BIG"
                   [] ~Big /\ Verdict(line) = "TOO_MANY" -> "TOO_MANY"
                   [] line = <<>> -> "WARN_NO_CMDS"
                   [] OTHER -> "OK"
       /\ r.rc = "OK" =>
            r.list = [n \in DOMAIN words |->
                        [exe |-> words[n][1], args |-> Args(n)]]
=============================================================================
