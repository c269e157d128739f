----------------------------- MODULE StringFun -----------------------------
(***************************************************************************)
(* The string tool stringfun.c (the same file is in 1-C Refresher          *)
(* Assignment): setup_buff copies the user's text into a buffer of fixed   *)
(* size, its blanks collapsed and the rest filled with dots, and one       *)
(* operation works on the buffer in place.  replace_word goes through it   *)
(* a step at a time, with the length the text had at the start.            *)
(*                                                                         *)
(* Not modelled: what a build prints of a buffer that has no NUL.          *)
(***************************************************************************)
EXTENDS Integers, Sequences, FiniteSets, SequencesExt

CONSTANTS
  BufferSz,  \* BUFFER_SZ
  Chars,     \* the other characters
  Texts,     \* the texts a user may give
  OldWords,  \* the words to replace
  NewWords   \* and by what

Blanks == {"space", "tab"}
AllChars == Chars \cup Blanks \cup {"dot"}

ASSUME SizeAssumption == BufferSz \in Nat \ {0}
ASSUME CharsAssumption == Chars \cap (Blanks \cup {"dot"}) = {}
ASSUME InputsAssumption ==
  Texts \cup OldWords \cup NewWords \subseteq Seq(AllChars)

VARIABLES
  args,   \* the command line: the option, the text and the two words
  pc,     \* where the program is
  buf,    \* buff
  len,    \* user_str_len
  pos,    \* the place in the text, and replace_word's in the buffer
  space,  \* was the last character copied a blank?
  out,    \* what it printed: a count, or the lengths of the words
  status  \* its exit code

vars == <<args, pc, buf, len, pos, space, out, status>>

-----------------------------------------------------------------------------
\* Mutant: the end of a word is not noticed.
CountedOnce(s, c) ==
  IF c \in Blanks \/ s.word THEN s
  ELSE [count |-> s.count + 1, word |-> TRUE]

\* One character of count_words.
Counted(s, c) ==
  IF c \in Blanks THEN [s EXCEPT !.word = FALSE]
  ELSE [count |-> IF s.word THEN s.count ELSE s.count + 1, word |-> TRUE]

\* One character of word_print, for which a dot ends a word as well.
Printed(s, c) ==
  CASE c \in {"space", "dot"} ->
         [word |-> 0,
          out |-> IF s.word > 0 THEN Append(s.out, s.word) ELSE s.out]
    [] OTHER -> [s EXCEPT !.word = @ + 1]

\* Mutant: no more is compared than the new word is long.
MatchesShort ==
  \A j \in 1..Len(args.old) :
    j <= Len(args.new) /\ pos + j - 1 <= BufferSz =>
      buf[pos + j - 1] = args.old[j]

\* strncmp(pos, old_word, old_word_len), as far as the buffer goes.
Matches ==
  \A j \in 1..Len(args.old) :
    pos + j - 1 <= BufferSz => buf[pos + j - 1] = args.old[j]

-----------------------------------------------------------------------------
\* What main goes on with: only -x is given words.
CommandLines ==
  [opt : {"c", "r", "w", "other"}, text : Texts, old : {<<>>}, new : {<<>>}]
  \cup [opt : {"x"}, text : Texts, old : OldWords, new : NewWords]

Init ==
  /\ args = [opt |-> "other", text |-> <<>>, old |-> <<>>, new |-> <<>>]
  /\ pc = "idle"
  /\ buf = [k \in 1..BufferSz |-> "junk"]
  /\ len = 0
  /\ pos = 1
  /\ space = FALSE
  /\ out = <<>>
  /\ status = 0

Exit(code) == pc' = "exit" /\ status' = code

\* The user runs the program; there may be no memory for its buffer.
Invoke ==
  /\ pc = "idle"
  /\ args' \in CommandLines
  /\ \/ pc' = "copy" /\ UNCHANGED status
     \/ Exit(99)
  /\ UNCHANGED <<buf, len, pos, space, out>>

-----------------------------------------------------------------------------
(* setup_buff.  There must be room before a character is looked at, though  *)
(* a blank behind another takes none.                                      *)

char == args.text[pos]
Copying == pc = "copy" /\ pos <= Len(args.text)

TooLong ==
  /\ Copying /\ len >= BufferSz - 1
  /\ Exit(3)
  /\ UNCHANGED <<args, buf, len, pos, space, out>>

\* Mutant: the last place of the buffer is used as well.
CopyOver ==
  /\ Copying /\ len < BufferSz
  /\ IF char \in Blanks /\ space THEN UNCHANGED <<buf, len>>
     ELSE /\ buf' = [buf EXCEPT ![len + 1] =
                       IF char \in Blanks THEN "space" ELSE char]
          /\ len' = len + 1
  /\ space' = (char \in Blanks)
  /\ pos' = pos + 1
  /\ UNCHANGED <<args, pc, out, status>>

\* Mutant: only a space before a blank is noticed, not a tab.
CopyTab ==
  /\ Copying /\ len < BufferSz - 1
  /\ IF char \in Blanks /\ space THEN UNCHANGED <<buf, len>>
     ELSE /\ buf' = [buf EXCEPT ![len + 1] =
                       IF char \in Blanks THEN "space" ELSE char]
          /\ len' = len + 1
  /\ space' = (char = "space")
  /\ pos' = pos + 1
  /\ UNCHANGED <<args, pc, out, status>>

Copy ==
  /\ Copying /\ len < BufferSz - 1
  /\ IF char \in Blanks /\ space THEN UNCHANGED <<buf, len>>
     ELSE /\ buf' = [buf EXCEPT ![len + 1] =
                       IF char \in Blanks THEN "space" ELSE char]
          /\ len' = len + 1
  /\ space' = (char \in Blanks)
  /\ pos' = pos + 1
  /\ UNCHANGED <<args, pc, out, status>>

\* memset, and the operation begins.
Fill ==
  /\ pc = "copy" /\ pos > Len(args.text)
  /\ buf' = [k \in 1..BufferSz |-> IF k <= len THEN buf[k] ELSE "dot"]
  /\ pc' = "run"
  /\ pos' = 1
  /\ UNCHANGED <<args, len, space, out, status>>

-----------------------------------------------------------------------------
(* The operations of one pass.                                             *)

Count ==
  /\ pc = "run" /\ args.opt = "c"
  /\ LET read[n \in 0..len] ==
           IF n = 0 THEN [count |-> 0, word |-> FALSE]
           ELSE Counted(read[n - 1], buf[n])
     IN out' = <<read[len].count>>
  /\ Exit(0)
  /\ UNCHANGED <<args, buf, len, pos, space>>

WordPrint ==
  /\ pc = "run" /\ args.opt = "w"
  /\ LET read[n \in 0..(len + 1)] ==
           IF n = 0 THEN [word |-> 0, out |-> <<>>]
           ELSE Printed(read[n - 1], buf[n])
     IN out' = read[len + 1].out
  /\ Exit(0)
  /\ UNCHANGED <<args, buf, len, pos, space>>

\* The array for the reversed text has one byte more than the text;
\* reverse_string fills BUFFER_SZ + 1.
ReverseString ==
  /\ pc = "run" /\ args.opt = "r"
  /\ pc' = "undefined"
  /\ UNCHANGED <<args, buf, len, pos, space, out, status>>

Usage ==
  /\ pc = "run" /\ args.opt = "other"
  /\ Exit(1)
  /\ UNCHANGED <<args, buf, len, pos, space, out>>

-----------------------------------------------------------------------------
(* replace_word, one turn of its loop at a time.                           *)

OldLen == Len(args.old)
NewLen == Len(args.new)
Growth == NewLen - OldLen
Rest == pos + OldLen
Turning == pc = "run" /\ args.opt = "x" /\ pos <= len

Skip ==
  /\ Turning /\ ~Matches
  /\ pos' = pos + 1
  /\ UNCHANGED <<args, pc, buf, len, space, out, status>>

NoRoom ==
  /\ Turning /\ Matches /\ Rest - 1 <= BufferSz
  /\ Growth > 0 /\ len + Growth > BufferSz
  /\ Exit(3)
  /\ UNCHANGED <<args, buf, len, pos, space, out>>

\* The comparison leaves the buffer, or the copy of the new word would.
OffTheEnd ==
  /\ Turning /\ Matches
  /\ \/ Rest - 1 > BufferSz
     \/ pos + NewLen - 1 > BufferSz /\ len + Growth <= BufferSz
  /\ pc' = "undefined"
  /\ UNCHANGED <<args, buf, len, pos, space, out, status>>

Replacing ==
  /\ Turning /\ Matches
  /\ Rest - 1 <= BufferSz /\ pos + NewLen - 1 <= BufferSz
  /\ Growth > 0 => len + Growth <= BufferSz

\* Mutant: the dot behind the text is not moved with it.
ReplaceShort ==
  /\ Replacing
  /\ buf' = [k \in 1..BufferSz |->
       IF k \in pos..(pos + NewLen - 1) THEN args.new[k - pos + 1]
       ELSE IF Growth # 0 /\ k - Growth \in Rest..len THEN buf[k - Growth]
       ELSE buf[k]]
  /\ pos' = pos + NewLen
  /\ UNCHANGED <<args, pc, len, space, out, status>>

\* Mutant: the new word is looked at again.
ReplaceAgain ==
  /\ Replacing
  /\ LET last == IF Growth > 0 THEN len ELSE len + 1 IN
     buf' = [k \in 1..BufferSz |->
       IF k \in pos..(pos + NewLen - 1) THEN args.new[k - pos + 1]
       ELSE IF Growth # 0 /\ k - Growth \in Rest..last THEN buf[k - Growth]
       ELSE buf[k]]
  /\ UNCHANGED <<args, pc, len, pos, space, out, status>>

\* What follows the old word is shifted, with the dot behind it when it moves
\* to the left, and the new word is copied; str_len stays as it was.
Replace ==
  /\ Replacing
  /\ LET last == IF Growth > 0 THEN len ELSE len + 1 IN
     buf' = [k \in 1..BufferSz |->
       IF k \in pos..(pos + NewLen - 1) THEN args.new[k - pos + 1]
       ELSE IF Growth # 0 /\ k - Growth \in Rest..last THEN buf[k - Growth]
       ELSE buf[k]]
  /\ pos' = pos + NewLen
  /\ UNCHANGED <<args, pc, len, space, out, status>>

Replaced ==
  /\ pc = "run" /\ args.opt = "x" /\ pos > len
  /\ Exit(0)
  /\ UNCHANGED <<args, buf, len, pos, space, out>>

Turn == Skip \/ NoRoom \/ OffTheEnd \/ Replace \/ Replaced

Next ==
  \/ Invoke \/ TooLong \/ Copy \/ Fill
  \/ Count \/ WordPrint \/ ReverseString \/ Usage
  \/ Turn

Spec == Init /\ [][Next]_vars

\* The program runs on: it is its loop that could go on for ever.
FairSpec == Spec /\ WF_vars(Turn)

-----------------------------------------------------------------------------
\* Every variable has its type.
TypeOK ==
  /\ args \in CommandLines \/ pc = "idle"
  /\ pc \in {"idle", "copy", "run", "exit", "undefined"}
  /\ buf \in [1..BufferSz -> AllChars \cup {"junk"}]
  /\ len \in 0..(BufferSz - 1)
  /\ pos \in Nat \ {0}
  /\ space \in BOOLEAN
  /\ out \in Seq(Nat)
  /\ status \in {0, 1, 3, 99}

\* The characters that setup_buff is to keep: of a run of blanks the first.
Kept ==
  {k \in DOMAIN args.text :
     ~(k > 1 /\ args.text[k] \in Blanks /\ args.text[k - 1] \in Blanks)}
Collapsed ==
  [j \in 1..Cardinality(Kept) |->
     LET k == CHOOSE k \in Kept : Cardinality(Kept \cap 1..k) = j
     IN IF args.text[k] \in Blanks THEN "space" ELSE args.text[k]]

\* The buffer holds the text with its blanks collapsed and dots behind it,
\* one of them at least; a text is refused as too long only when that does not
\* fit, or would be full where more blanks follow (stringfun.c:31-53).
SetupRight ==
  /\ pc = "run" /\ pos = 1 /\ args.opt # "x" =>
       buf = [k \in 1..BufferSz |-> IF k \in DOMAIN Collapsed THEN Collapsed[k]
                                    ELSE "dot"]
  /\ pc = "exit" /\ args.opt # "x" /\ status # 99 =>
       (status = 3 <=> \/ Len(Collapsed) >= BufferSz
                       \/ /\ Len(Collapsed) = BufferSz - 1
                          /\ Len(args.text) \in DOMAIN args.text \ Kept)

\* count_words and word_print agree with the text the user gave, before any
\* of it was copied: one word for each character that begins one, of the
\* length it has there (stringfun.c:69-142), if the text has no dots.
WordsRight ==
  LET text == args.text
      Begins(k) == /\ text[k] \notin Blanks
                   /\ k = 1 \/ text[k - 1] \in Blanks
      words == {k \in DOMAIN text : Begins(k)}
      Letters == {k \in DOMAIN text : text[k] \notin Blanks}
      Length(k) == Cardinality({l \in Letters :
                     l >= k /\ \A j \in k..l : j \in Letters})
  IN /\ pc = "exit" /\ status = 0 /\ args.opt = "c" =>
          out = <<Cardinality(words)>>
     /\ pc = "exit" /\ status = 0 /\ args.opt = "w"
          /\ "dot" \notin ToSet(text) =>
          /\ Len(out) = Cardinality(words)
          /\ \A k \in words : out[Cardinality(words \cap 1..k)] = Length(k)

\* The text with each occurrence of the old word replaced, from the left.
Fits(text, k) ==
  k + OldLen - 1 <= Len(text) /\ SubSeq(text, k, k + OldLen - 1) = args.old
Substituted(text) ==
  LET from[k \in 1..(Len(text) + 1)] ==
        IF k = Len(text) + 1 THEN <<>>
        ELSE IF Fits(text, k) THEN args.new \o from[k + OldLen]
        ELSE <<text[k]>> \o from[k + 1]
  IN from[1]
Occurrences(text) == {k \in DOMAIN text : Fits(text, k)}

\* A word of the user without dots.
Regular == args.old # <<>> /\ "dot" \notin ToSet(args.old)

\* replace_word leaves the text with every occurrence replaced, and a dot
\* behind it, as long as the new word is not longer or there is one to replace
\* only: with more, what was pushed behind the old length is lost
\* (stringfun.c:159-196).
ReplaceRight ==
  /\ pc = "exit" /\ status = 0 /\ args.opt = "x" /\ Regular
  /\ Growth <= 0 \/ Cardinality(Occurrences(Collapsed)) <= 1
  => LET text == Substituted(Collapsed) IN
     /\ SubSeq(buf, 1, Len(text)) = text
     /\ Len(text) < BufferSz => buf[Len(text) + 1] = "dot"

\* The replacement stays in the buffer, whatever the text, when the new word
\* is not longer and the old one has no dot: the dot behind the text, which
\* no step overwrites, stops the comparison (stringfun.c:159-188).
StaysInside ==
  args.opt = "x" /\ "dot" \notin ToSet(args.old) /\ Growth <= 0 =>
    pc # "undefined"

\* The program ends, though a new word that is empty keeps the place where it
\* is: unless the old word is empty too, or has a dot (stringfun.c:159-196).
Terminates ==
  pc = "run" /\ args.opt = "x" /\ (args.new # <<>> \/ Regular)
    ~> pc \in {"exit", "undefined"}
=============================================================================
