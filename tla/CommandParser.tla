--------------------------- MODULE CommandParser ---------------------------
(***************************************************************************)
(* How the shells of the course cut a line into commands: build_cmd_buff   *)
(* of 5-ShellP3/starter/dshlib.c (the same in 6-RShell), with quotes and   *)
(* redirections, and build_cmd_list of 3-ShellP1/dshlib.c, which has       *)
(* neither; and what each should find, said without a loop.                *)
(*                                                                         *)
(* A text is a sequence of kinds of character.  A word or a file name is   *)
(* the pair of the places of its first and last character.                 *)
(***************************************************************************)
EXTENDS Naturals, Sequences, FiniteSets, SequencesExt

CONSTANTS
  CmdMax,   \* CMD_MAX
  ArgvMax,  \* CMD_ARGV_MAX
  ExeMax,   \* EXE_MAX
  ArgsMax   \* ARG_MAX

\* The limits are positive, and argv holds a word and the NULL behind the last.
ASSUME LimitsAssumption ==
  /\ {CmdMax, ExeMax, ArgsMax} \subseteq Nat \ {0}
  /\ ArgvMax \in Nat \ {0, 1}

Redirs == {"in", "out"}
Chars == {"letter", "space", "quote", "pipe"} \cup Redirs

Size(w) == w[2] - w[1] + 1
None == <<1, 0>>

\* The longest stretches of a set of places.
Stretches(S) ==
  {w \in S \X S : /\ w[1] <= w[2] /\ w[1]..w[2] \subseteq S
                 /\ {w[1] - 1, w[2] + 1} \cap S = {}}

\* Stretches, in their order; and what is there.
InOrder(W) ==
  [n \in 1..Cardinality(W) |->
     CHOOSE w \in W : Cardinality({v \in W : v[1] <= w[1]}) = n]
Texts(line, W) ==
  LET w == InOrder(W)
  IN [n \in DOMAIN w |-> SubSeq(line, w[n][1], w[n][2])]

\* The texts strtok_r finds between pipes, quoted or not.
Pieces(line) == Stretches({k \in DOMAIN line : line[k] # "pipe"})
Tokens(line) == Texts(line, Pieces(line))

-----------------------------------------------------------------------------
(* build_cmd_buff.  s.mode is where the loop is: in an argument, right      *)
(* behind an operator, in the spaces after one, or in a file name.         *)

Start == [mode |-> "arg", op |-> "in", start |-> 1, quoted |-> FALSE,
          args |-> <<>>, in |-> None, out |-> None, append |-> FALSE,
          lost |-> 0]

\* An argument, or a file name, ends before k.  A name replaces the one
\* there was, whose block is lost.
Ends(s, k) ==
  LET w == <<s.start, k - 1>> IN
  CASE s.mode = "arg" /\ k > s.start /\ Len(s.args) < ArgvMax - 1 ->
         [s EXCEPT !.args = Append(@, w)]
    [] s.mode = "name" /\ s.op = "in" ->
         [s EXCEPT !.in = w, !.lost = @ + (IF s.in = None THEN 0 ELSE 1)]
    [] s.mode = "name" /\ s.op # "in" ->
         [s EXCEPT !.out = w, !.append = (s.op = "append"),
                   !.lost = @ + (IF s.out = None THEN 0 ELSE 1)]
    [] OTHER -> s

\* Mutant: a quote in a file name counts.
TurnNameQuote(s, c, k) ==
  LET second == s.mode = "op" /\ s.op = "out" /\ c = "out"
      redir == c \in Redirs /\ ~s.quoted /\ ~second
      space == c = "space" /\ ~s.quoted
      name == s.mode \in {"op", "gap"} /\ ~second /\ ~redir /\ ~space
  IN CASE second -> [s EXCEPT !.mode = "gap", !.op = "append"]
       [] redir -> [Ends(s, k) EXCEPT !.mode = "op", !.op = c]
       [] space ->
            [Ends(s, k) EXCEPT
               !.mode = IF s.mode \in {"op", "gap"} THEN "gap" ELSE "arg",
               !.start = k + 1]
       [] name -> [s EXCEPT !.mode = "name", !.start = k]
       [] c = "quote" /\ s.mode \notin {"op", "gap"} ->
            [(IF s.quoted THEN Ends(s, k) ELSE s) EXCEPT
               !.start = k + 1, !.quoted = ~@]
       [] OTHER -> s

\* One character of the loop.
Turn(s, c, k) ==
  LET second == s.mode = "op" /\ s.op = "out" /\ c = "out"
      redir == c \in Redirs /\ ~s.quoted /\ ~second
      space == c = "space" /\ ~s.quoted
      name == s.mode \in {"op", "gap"} /\ ~second /\ ~redir /\ ~space
  IN CASE second -> [s EXCEPT !.mode = "gap", !.op = "append"]
       [] redir -> [Ends(s, k) EXCEPT !.mode = "op", !.op = c]
       [] space ->
            [Ends(s, k) EXCEPT
               !.mode = IF s.mode \in {"op", "gap"} THEN "gap" ELSE "arg",
               !.start = k + 1]
       [] name -> [s EXCEPT !.mode = "name", !.start = k]
       [] c = "quote" /\ s.mode = "arg" ->
            [(IF s.quoted THEN Ends(s, k) ELSE s) EXCEPT
               !.start = k + 1, !.quoted = ~@]
       [] OTHER -> s

Command(s) == [args |-> s.args, in |-> s.in, out |-> s.out, append |-> s.append]

\* What build_cmd_buff puts in a cleared cmd_buff_t.
Scan(text) ==
  LET scan[k \in 0..Len(text)] ==
        IF k = 0 THEN Start ELSE Turn(scan[k - 1], text[k], k)
  IN Ends(scan[Len(text)], Len(text) + 1)

-----------------------------------------------------------------------------
(* The same without a loop.                                                *)

\* Whether the place k is between quotes; quotes in a file name do not count.
\* A name is what follows an operator outside quotes and the spaces after it.
InName(text, quoted, k) ==
  \E j \in 1..(k - 1) : \E m \in j..(k - 1) :
    /\ text[j] \in Redirs /\ ~quoted[j]
    /\ \A x \in (j + 1)..m : text[x] = "space"
    /\ \A x \in (m + 1)..k : text[x] \notin Redirs \cup {"space"}
Quoted(text) ==
  LET quoted[k \in 1..(Len(text) + 1)] ==
        /\ k > 1
        /\ quoted[k - 1] # (text[k - 1] = "quote"
                            /\ ~InName(text, quoted, k - 1))
  IN quoted

\* The words: what is between two quotes, or after the last one; and outside
\* quotes letters up to a space, an operator or the end.  Letters that run
\* into a quote are lost.
WordPlaces(text) ==
  LET quoted == Quoted(text)
      Plain == {k \in DOMAIN text : text[k] # "quote" /\ quoted[k]}
      Loose == {k \in DOMAIN text : /\ text[k] = "letter" /\ ~quoted[k]
                                   /\ ~InName(text, quoted, k)}
  IN Stretches(Plain)
     \cup {w \in Stretches(Loose) :
             w[2] = Len(text) \/ text[w[2] + 1] # "quote"}
Words(text) == InOrder(WordPlaces(text))

\* The file names, and the operator of one.
Names(text) ==
  LET quoted == Quoted(text)
  IN Stretches({k \in DOMAIN text : InName(text, quoted, k)})
Operator(text, w) ==
  CHOOSE j \in 1..(w[1] - 1) :
    /\ text[j] \in Redirs
    /\ \A x \in (j + 1)..(w[1] - 1) : text[x] = "space"

\* The last name with operator c, if there is one.
LastName(text, c) ==
  LET names == {w \in Names(text) : text[Operator(text, w)] = c}
  IN IF names = {} THEN None
     ELSE CHOOSE w \in names : \A v \in names : v[1] <= w[1]

\* `>>` appends; a third `>` starts a redirection of its own.
Appends(text, w) ==
  LET j == Operator(text, w) IN
  \E n \in 1..j : /\ n % 2 = 0
                  /\ \A x \in (j - n + 1)..j : text[x] = "out"
                  /\ j = n \/ text[j - n] # "out"

First(words) == SubSeq(words, 1, IF Len(words) < ArgvMax THEN Len(words)
                                 ELSE ArgvMax - 1)

CommandOf(text) ==
  LET out == LastName(text, "out") IN
  [args |-> First(Words(text)), in |-> LastName(text, "in"), out |-> out,
   append |-> out # None /\ Appends(text, out)]

\* A piece without a word is no command.
Filled(line) ==
  Texts(line, {w \in Pieces(line) :
                 CommandOf(SubSeq(line, w[1], w[2])).args # <<>>})
Commands(line) == [n \in DOMAIN Filled(line) |-> CommandOf(Filled(line)[n])]

\* A line is refused when any text follows its CmdMax-th command.
Verdict(line) ==
  LET n == Len(Filled(line)) IN
  CASE \/ n > CmdMax
       \/ n = CmdMax /\ CommandOf(Last(Tokens(line))).args = <<>> -> "TOO_MANY"
    [] n = 0 -> "WARN_NO_CMDS"
    [] OTHER -> "OK"

\* The names a later one of the same command replaces.
Replaced(line) ==
  LET Lost(text) == Names(text) \ {CommandOf(text).in, CommandOf(text).out}
  IN Cardinality(UNION {{n} \X Lost(Tokens(line)[n]) : n \in DOMAIN Tokens(line)})

-----------------------------------------------------------------------------
(* build_cmd_list of 3-ShellP1: a program and the rest of its token.       *)

Blanked(text) == InOrder(Stretches({k \in DOMAIN text : text[k] # "space"}))

\* Mutant: the spaces at the end of the arguments stay.
SplitUntrimmed(text) ==
  LET words == Blanked(text) IN
  [exe |-> words[1],
   args |-> IF Len(words) = 1 THEN None ELSE <<words[2][1], Len(text)>>]

\* strchr finds the first space behind the leading ones; the arguments are
\* what follows it without the spaces around.
Split(text) ==
  LET words == Blanked(text) IN
  [exe |-> words[1],
   args |-> IF Len(words) = 1 THEN None
            ELSE <<words[2][1], Last(words)[2]>>]

\* One token; the loop is left on an error.
SplitNext(r, text) ==
  LET full == Len(r.list) >= CmdMax
      blank == \A k \in DOMAIN text : text[k] = "space"
      big == Size(Split(text).exe) >= ExeMax \/ Size(Split(text).args) >= ArgsMax
  IN CASE r.rc # "OK" \/ (~full /\ blank) -> r
       [] r.rc = "OK" /\ full -> [r EXCEPT !.rc = "TOO_MANY"]
       [] r.rc = "OK" /\ ~full /\ ~blank /\ big -> [r EXCEPT !.rc = "TOO_BIG"]
       [] OTHER -> [r EXCEPT !.list = Append(@, Split(text))]

\* What 3-ShellP1 answers to a line.
Split3(line) ==
  IF line = <<>> THEN [rc |-> "WARN_NO_CMDS", list |-> <<>>]
  ELSE LET tokens == Tokens(line)
           split[n \in 0..Len(tokens)] ==
             IF n = 0 THEN [rc |-> "OK", list |-> <<>>]
             ELSE SplitNext(split[n - 1], tokens[n])
       IN split[Len(tokens)]
=============================================================================
