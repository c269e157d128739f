-------------------------- MODULE StringFunProofs --------------------------
(***************************************************************************)
(* What the string tool does with any text: its types, what setup_buff puts *)
(* into the buffer, what count_words and word_print find in it, what       *)
(* replace_word leaves there, and when it stays inside.                    *)
(***************************************************************************)
EXTENDS StringFun, SequenceLemmas, TLAPS

-----------------------------------------------------------------------------
(* What the passes of count_words and word_print have found after so many  *)
(* characters.                                                             *)

Begun == [count |-> 0, word |-> FALSE]
IsCounting(f, text, n) ==
  f = [k \in 0..n |-> IF k = 0 THEN Begun ELSE Counted(f[k - 1], text[k])]
CountedIn(text, n, k) == (CHOOSE f : IsCounting(f, text, n))[k]

Started == [word |-> 0, out |-> <<>>]
IsPrinting(f, text, n) ==
  f = [k \in 0..n |-> IF k = 0 THEN Started ELSE Printed(f[k - 1], text[k])]
PrintedIn(text, n, k) == (CHOOSE f : IsPrinting(f, text, n))[k]

LEMMA CountingExists ==
  ASSUME NEW text, NEW m \in Nat
  PROVE  \E f : IsCounting(f, text, m)
<1>. DEFINE Good == {n \in Nat : \E f : IsCounting(f, text, n)}
<1>1. 0 \in Good
  <2>1. IsCounting([k \in 0..0 |-> Begun], text, 0)
    BY DEF IsCounting
  <2> QED BY <2>1
<1>2. ASSUME NEW n \in Nat, n \in Good PROVE n + 1 \in Good
  <2>1. PICK g : IsCounting(g, text, n)
    BY <1>2
  <2>. DEFINE h == [k \in 0..(n + 1) |->
                      IF k = n + 1 THEN Counted(g[n], text[n + 1]) ELSE g[k]]
  <2>2. ASSUME NEW k \in 0..(n + 1)
        PROVE  h[k] = IF k = 0 THEN Begun ELSE Counted(h[k - 1], text[k])
    <3>1. CASE k = n + 1
      <4>1. k # 0 /\ k - 1 = n /\ n \in 0..(n + 1) /\ n # n + 1
        BY <3>1
      <4> QED BY <3>1, <4>1
    <3>2. CASE k # n + 1
      <4>1. k \in 0..n
        BY <3>2
      <4>2. g[k] = IF k = 0 THEN Begun ELSE Counted(g[k - 1], text[k])
        BY <2>1, <4>1 DEF IsCounting
      <4>3. k # 0 => k - 1 \in 0..(n + 1) /\ k - 1 # n + 1
        BY <4>1
      <4> QED BY <3>2, <4>2, <4>3
    <3> QED BY <3>1, <3>2
  <2>3. IsCounting(h, text, n + 1)
    BY <2>2 DEF IsCounting
  <2> QED BY <2>3
<1>. HIDE DEF Good
<1>3. \A n \in 0..m : n \in Good
  BY <1>1, <1>2, UpTo
<1> QED BY <1>3 DEF Good

LEMMA CountingSteps ==
  ASSUME NEW text, NEW m \in Nat
  PROVE  /\ CountedIn(text, m, 0) = Begun
         /\ \A n \in Nat : n < m =>
              CountedIn(text, m, n + 1) =
                Counted(CountedIn(text, m, n), text[n + 1])
<1>. DEFINE f == CHOOSE f : IsCounting(f, text, m)
<1>1. IsCounting(f, text, m)
  BY CountingExists
<1>2. \A k : CountedIn(text, m, k) = f[k]
  BY DEF CountedIn
<1>. HIDE DEF f
<1>3. f[0] = Begun
  BY <1>1 DEF IsCounting
<1>4. ASSUME NEW n \in Nat, n < m
      PROVE  f[n + 1] = Counted(f[n], text[n + 1])
  <2>1. n + 1 \in 0..m /\ n + 1 # 0 /\ (n + 1) - 1 = n
    BY <1>4
  <2> QED BY <1>1, <2>1 DEF IsCounting
<1> QED BY <1>2, <1>3, <1>4

LEMMA CountIs ==
  Count => out' = <<CountedIn(buf, len, len).count>>
BY DEF Count, CountedIn, IsCounting, Begun

LEMMA CountedType ==
  ASSUME NEW text, NEW m \in Nat
  PROVE  \A n \in 0..m : CountedIn(text, m, n) \in [count : Nat, word : BOOLEAN]
<1>. DEFINE Good == {n \in Nat : CountedIn(text, m, n) \in
                                   [count : Nat, word : BOOLEAN]}
<1>1. 0 \in Good
  <2>1. CountedIn(text, m, 0) = Begun
    BY CountingSteps
  <2>2. Begun \in [count : Nat, word : BOOLEAN]
    BY DEF Begun
  <2> QED BY <2>1, <2>2
<1>2. ASSUME NEW n \in Nat, n < m, n \in Good PROVE n + 1 \in Good
  <2>1. CountedIn(text, m, n + 1) = Counted(CountedIn(text, m, n), text[n + 1])
    BY <1>2, CountingSteps
  <2>. DEFINE s == CountedIn(text, m, n)
  <2>2. s \in [count : Nat, word : BOOLEAN]
    BY <1>2
  <2>. HIDE DEF s
  <2>3. Counted(s, text[n + 1]) \in [count : Nat, word : BOOLEAN]
    <3>1. [s EXCEPT !.word = FALSE] \in [count : Nat, word : BOOLEAN]
      BY <2>2
    <3>2. (IF s.word THEN s.count ELSE s.count + 1) \in Nat
      BY <2>2
    <3>3. [count |-> IF s.word THEN s.count ELSE s.count + 1, word |-> TRUE]
            \in [count : Nat, word : BOOLEAN]
      BY <3>2
    <3> QED BY <3>1, <3>3 DEF Counted
  <2> QED BY <1>2, <2>1, <2>3 DEF s
<1>. HIDE DEF Good
<1>3. \A n \in 0..m : n \in Good
  BY <1>1, <1>2, UpTo
<1> QED BY <1>3 DEF Good

LEMMA PrintingExists ==
  ASSUME NEW text, NEW m \in Nat
  PROVE  \E f : IsPrinting(f, text, m)
<1>. DEFINE Good == {n \in Nat : \E f : IsPrinting(f, text, n)}
<1>1. 0 \in Good
  <2>1. IsPrinting([k \in 0..0 |-> Started], text, 0)
    BY DEF IsPrinting
  <2> QED BY <2>1
<1>2. ASSUME NEW n \in Nat, n \in Good PROVE n + 1 \in Good
  <2>1. PICK g : IsPrinting(g, text, n)
    BY <1>2
  <2>. DEFINE h == [k \in 0..(n + 1) |->
                      IF k = n + 1 THEN Printed(g[n], text[n + 1]) ELSE g[k]]
  <2>2. ASSUME NEW k \in 0..(n + 1)
        PROVE  h[k] = IF k = 0 THEN Started ELSE Printed(h[k - 1], text[k])
    <3>1. CASE k = n + 1
      <4>1. k # 0 /\ k - 1 = n /\ n \in 0..(n + 1) /\ n # n + 1
        BY <3>1
      <4> QED BY <3>1, <4>1
    <3>2. CASE k # n + 1
      <4>1. k \in 0..n
        BY <3>2
      <4>2. g[k] = IF k = 0 THEN Started ELSE Printed(g[k - 1], text[k])
        BY <2>1, <4>1 DEF IsPrinting
      <4>3. k # 0 => k - 1 \in 0..(n + 1) /\ k - 1 # n + 1
        BY <4>1
      <4> QED BY <3>2, <4>2, <4>3
    <3> QED BY <3>1, <3>2
  <2>3. IsPrinting(h, text, n + 1)
    BY <2>2 DEF IsPrinting
  <2> QED BY <2>3
<1>. HIDE DEF Good
<1>3. \A n \in 0..m : n \in Good
  BY <1>1, <1>2, UpTo
<1> QED BY <1>3 DEF Good

LEMMA PrintingSteps ==
  ASSUME NEW text, NEW m \in Nat
  PROVE  /\ PrintedIn(text, m, 0) = Started
         /\ \A n \in Nat : n < m =>
              PrintedIn(text, m, n + 1) =
                Printed(PrintedIn(text, m, n), text[n + 1])
<1>. DEFINE f == CHOOSE f : IsPrinting(f, text, m)
<1>1. IsPrinting(f, text, m)
  BY PrintingExists
<1>2. \A k : PrintedIn(text, m, k) = f[k]
  BY DEF PrintedIn
<1>. HIDE DEF f
<1>3. f[0] = Started
  BY <1>1 DEF IsPrinting
<1>4. ASSUME NEW n \in Nat, n < m
      PROVE  f[n + 1] = Printed(f[n], text[n + 1])
  <2>1. n + 1 \in 0..m /\ n + 1 # 0 /\ (n + 1) - 1 = n
    BY <1>4
  <2> QED BY <1>1, <2>1 DEF IsPrinting
<1> QED BY <1>2, <1>3, <1>4

LEMMA WordPrintIs ==
  WordPrint => out' = PrintedIn(buf, len + 1, len + 1).out
BY DEF WordPrint, PrintedIn, IsPrinting, Started

LEMMA PrintedType ==
  ASSUME NEW text, NEW m \in Nat
  PROVE  \A n \in 0..m : PrintedIn(text, m, n) \in [word : Nat, out : Seq(Nat)]
<1>. DEFINE Good == {n \in Nat : PrintedIn(text, m, n) \in
                                   [word : Nat, out : Seq(Nat)]}
<1>1. 0 \in Good
  <2>1. PrintedIn(text, m, 0) = Started
    BY PrintingSteps
  <2>2. Started \in [word : Nat, out : Seq(Nat)]
    BY DEF Started
  <2> QED BY <2>1, <2>2
<1>2. ASSUME NEW n \in Nat, n < m, n \in Good PROVE n + 1 \in Good
  <2>1. PrintedIn(text, m, n + 1) = Printed(PrintedIn(text, m, n), text[n + 1])
    BY <1>2, PrintingSteps
  <2>. DEFINE s == PrintedIn(text, m, n)
  <2>2. s \in [word : Nat, out : Seq(Nat)]
    BY <1>2
  <2>. HIDE DEF s
  <2>3. Append(s.out, s.word) \in Seq(Nat)
    BY <2>2
  <2>4. Printed(s, text[n + 1]) \in [word : Nat, out : Seq(Nat)]
    BY <2>2, <2>3 DEF Printed
  <2> QED BY <1>2, <2>1, <2>4 DEF s
<1>. HIDE DEF Good
<1>3. \A n \in 0..m : n \in Good
  BY <1>1, <1>2, UpTo
<1> QED BY <1>3 DEF Good

-----------------------------------------------------------------------------
\* The text and the words are sequences of characters, before main reads them
\* as well.
LEMMA ArgsType ==
  ASSUME args \in CommandLines
  PROVE  /\ args.text \in Seq(AllChars)
         /\ args.old \in Seq(AllChars) /\ args.new \in Seq(AllChars)
         /\ Len(args.text) \in Nat /\ DOMAIN args.text = 1..Len(args.text)
         /\ OldLen \in Nat /\ NewLen \in Nat /\ Growth \in Int
<1>1. args.text \in Texts
  BY DEF CommandLines
<1>2. args.old \in OldWords \cup {<<>>} /\ args.new \in NewWords \cup {<<>>}
  BY DEF CommandLines
<1>3. /\ args.text \in Seq(AllChars)
      /\ args.old \in Seq(AllChars) /\ args.new \in Seq(AllChars)
  <2>1. <<>> \in Seq(AllChars)
    OBVIOUS
  <2> QED BY <1>1, <1>2, <2>1, InputsAssumption
<1> QED BY <1>3 DEF OldLen, NewLen, Growth

LEMMA NextTypeOK == TypeOK /\ [Next]_vars => TypeOK'
<1>. SUFFICES ASSUME TypeOK, [Next]_vars PROVE TypeOK'
  OBVIOUS
<1>. USE SizeAssumption
<1>1. CASE Invoke
  BY <1>1 DEF Invoke, Exit, TypeOK
<1>2. CASE TooLong \/ ReverseString \/ Usage \/ NoRoom \/ OffTheEnd \/ Replaced
  <2>1. /\ UNCHANGED <<args, buf, len, pos, space, out>>
        /\ pc # "idle" /\ pc' \in {"exit", "undefined"}
        /\ status' \in {0, 1, 3, 99}
    BY <1>2 DEF TooLong, Copying, ReverseString, Usage, NoRoom, OffTheEnd,
         Replaced, Turning, Exit, TypeOK
  <2> QED BY <2>1 DEF TypeOK
<1>3. CASE Copy
  <2>1. pc = "copy" /\ pos <= Len(args.text) /\ args \in CommandLines
    BY <1>3 DEF Copy, Copying, TypeOK
  <2>2. pos \in 1..Len(args.text) /\ char \in AllChars
    BY <2>1, ArgsType DEF TypeOK, char
  <2>3. buf' \in [1..BufferSz -> AllChars \cup {"junk"}]
    BY <1>3, <2>2 DEF Copy, TypeOK, AllChars, Blanks
  <2>4. len' \in 0..(BufferSz - 1)
    BY <1>3 DEF Copy, TypeOK
  <2> QED BY <1>3, <2>1, <2>3, <2>4 DEF Copy, TypeOK
<1>4. CASE Fill
  <2>1. buf' \in [1..BufferSz -> AllChars \cup {"junk"}]
    BY <1>4 DEF Fill, TypeOK, AllChars
  <2> QED BY <1>4, <2>1 DEF Fill, TypeOK
<1>5. CASE Count
  <2>1. len \in Nat
    BY DEF TypeOK
  <2>. DEFINE n == CountedIn(buf, len, len).count
  <2>2. n \in Nat
    BY <2>1, CountedType
  <2>3. out' = <<n>>
    BY <1>5, CountIs
  <2>. HIDE DEF n
  <2>4. out' \in Seq(Nat)
    BY <2>2, <2>3
  <2> QED BY <1>5, <2>4 DEF Count, Exit, TypeOK
<1>6. CASE WordPrint
  <2>1. len + 1 \in Nat
    BY DEF TypeOK
  <2>2. PrintedIn(buf, len + 1, len + 1).out \in Seq(Nat)
    BY <2>1, PrintedType
  <2>3. out' \in Seq(Nat)
    BY <1>6, <2>2, WordPrintIs
  <2> QED BY <1>6, <2>3 DEF WordPrint, Exit, TypeOK
<1>7. CASE Skip
  BY <1>7 DEF Skip, TypeOK
<1>8. CASE Replace
  <2>1. /\ UNCHANGED <<args, pc, len, space, out, status>>
        /\ pos' = pos + NewLen /\ pc = "run" /\ args \in CommandLines
    BY <1>8 DEF Replace, Replacing, Turning, TypeOK
  <2>2. /\ OldLen \in Nat /\ NewLen \in Nat /\ Growth \in Int
        /\ args.new \in Seq(AllChars)
    BY <2>1, ArgsType
  <2>3. PICK last \in {len, len + 1} :
          buf' = [k \in 1..BufferSz |->
            IF k \in pos..(pos + NewLen - 1) THEN args.new[k - pos + 1]
            ELSE IF Growth # 0 /\ k - Growth \in Rest..last THEN buf[k - Growth]
            ELSE buf[k]]
    BY <1>8 DEF Replace
  <2>4. pos \in Nat \ {0} /\ len \in 0..(BufferSz - 1)
        /\ buf \in [1..BufferSz -> AllChars \cup {"junk"}]
    BY DEF TypeOK
  <2>5. ASSUME NEW k \in 1..BufferSz
        PROVE  /\ k \in pos..(pos + NewLen - 1) =>
                    args.new[k - pos + 1] \in AllChars
               /\ k - Growth \in Rest..last => k - Growth \in 1..BufferSz
    <3>1. k \in pos..(pos + NewLen - 1) => k - pos + 1 \in 1..NewLen
      BY <2>2, <2>4
    <3>2. \A i \in 1..NewLen : args.new[i] \in AllChars
      BY <2>2 DEF NewLen
    <3>3. Rest >= 1 /\ Rest \in Nat /\ last <= BufferSz /\ last \in Nat
      BY <2>2, <2>3, <2>4 DEF Rest
    <3> QED BY <2>2, <3>1, <3>2, <3>3
  <2>6. buf' \in [1..BufferSz -> AllChars \cup {"junk"}]
    BY <2>3, <2>4, <2>5
  <2> QED BY <2>1, <2>2, <2>4, <2>6 DEF TypeOK
<1>9. CASE UNCHANGED vars
  BY <1>9 DEF vars, TypeOK
<1> QED BY <1>1, <1>2, <1>3, <1>4, <1>5, <1>6, <1>7, <1>8, <1>9 DEF Next, Turn

LEMMA InitTypeOK == Init => TypeOK
<1>. SUFFICES ASSUME Init PROVE TypeOK
  OBVIOUS
<1>1. out = <<>> /\ <<>> \in Seq(Nat)
  BY DEF Init
<1>2. buf \in [1..BufferSz -> AllChars \cup {"junk"}]
  BY DEF Init
<1>3. pc = "idle" /\ len \in 0..(BufferSz - 1) /\ pos \in Nat \ {0}
  BY SizeAssumption DEF Init
<1>4. space \in BOOLEAN /\ status \in {0, 1, 3, 99}
  BY DEF Init
<1> QED BY <1>1, <1>2, <1>3, <1>4 DEF TypeOK

\* For any buffer, texts and words every variable keeps its type.
THEOREM TypeCorrect == Spec => []TypeOK
BY InitTypeOK, NextTypeOK, PTL DEF Spec

-----------------------------------------------------------------------------
(* What setup_buff is to keep of a text, and what it has kept of its        *)
(* beginning.                                                              *)

Plain(c) == IF c \in Blanks THEN "space" ELSE c
Rank(k) == Cardinality(Kept \cap 1..k)

\* Each character that is kept is one more.
LEMMA RankSteps ==
  ASSUME args \in CommandLines
  PROVE  /\ IsFiniteSet(Kept) /\ Cardinality(Kept) = Rank(Len(args.text))
         /\ Rank(0) = 0
         /\ \A k \in Nat : Rank(k) \in Nat
         /\ \A k \in 1..Len(args.text) :
              Rank(k) = Rank(k - 1) + IF k \in Kept THEN 1 ELSE 0
<1>. DEFINE n == Len(args.text)
<1>1. n \in Nat /\ Kept \subseteq 1..n
  BY ArgsType DEF Kept
<1>2. /\ IsFiniteSet(Kept) /\ Cardinality(Kept) = Cardinality(Kept \cap 1..n)
      /\ Cardinality(Kept \cap 1..0) = 0
  BY <1>1, Running, Zenon
<1>3. \A k \in Nat : Cardinality(Kept \cap 1..k) \in Nat
  BY <1>1, Running, Zenon
<1>5. \A k : Rank(k) = Cardinality(Kept \cap 1..k)
  BY DEF Rank
<1>6. ASSUME NEW k \in 1..n
      PROVE  Rank(k) = Rank(k - 1) + IF k \in Kept THEN 1 ELSE 0
  <2>1. k \in Nat /\ k - 1 \in Nat
    BY <1>1
  <2>2. Rank(k) \in Nat /\ Rank(k - 1) \in Nat
    BY <1>3, <1>5, <2>1
  <2>3. /\ k \in Kept => Cardinality(Kept \cap 1..k) =
                        Cardinality(Kept \cap 1..(k - 1)) + 1
        /\ k \notin Kept => Cardinality(Kept \cap 1..k) =
                           Cardinality(Kept \cap 1..(k - 1))
    BY <1>1, RunningStep, Zenon
  <2>4. /\ k \in Kept => Rank(k) = Rank(k - 1) + 1
        /\ k \notin Kept => Rank(k) = Rank(k - 1)
    BY <2>3 DEF Rank
  <2> QED BY <2>2, <2>4
<1> QED BY <1>2, <1>3, <1>5, <1>6, Zenon

LEMMA RankGrows ==
  ASSUME args \in CommandLines, NEW j \in Nat, NEW k \in Nat, j <= k
  PROVE  Rank(j) <= Rank(k)
<1>1. Len(args.text) \in Nat /\ Kept \subseteq 1..Len(args.text)
  BY ArgsType DEF Kept
<1> QED BY <1>1, Running DEF Rank

\* A blank is left out when there is one before it.
LEMMA KeptIs ==
  ASSUME args \in CommandLines, NEW k \in 1..Len(args.text)
  PROVE  k \in Kept <=> ~(k > 1 /\ args.text[k] \in Blanks
                                /\ args.text[k - 1] \in Blanks)
BY ArgsType DEF Kept

\* What stands at each place of the collapsed text.
LEMMA CollapsedIs ==
  ASSUME args \in CommandLines
  PROVE  /\ Cardinality(Kept) \in Nat
         /\ DOMAIN Collapsed = 1..Cardinality(Kept)
         /\ Len(Collapsed) = Cardinality(Kept)
         /\ \A k \in 1..Len(args.text) :
              /\ Rank(k) \in 1..Cardinality(Kept)
              /\ Collapsed[Rank(k)] = Plain(args.text[k])
<1>. DEFINE n == Len(args.text)
            m == Cardinality(Kept)
<1>1. n \in Nat /\ DOMAIN args.text = 1..n
  BY ArgsType
<1>2. m \in Nat /\ m = Rank(n)
  BY <1>1, RankSteps
<1>3. DOMAIN Collapsed = 1..m /\ Len(Collapsed) = m
  BY <1>2 DEF Collapsed
<1>4. ASSUME NEW k \in Kept
      PROVE  Rank(k) \in 1..m /\ Collapsed[Rank(k)] = Plain(args.text[k])
  <2>1. k \in 1..n
    BY <1>1 DEF Kept
  <2>2. k - 1 \in Nat /\ k \in Nat /\ k <= n
    BY <1>1, <2>1
  <2>3. Rank(k) = Rank(k - 1) + 1 /\ Rank(k - 1) \in Nat
    BY <1>4, <2>1, <2>2, RankSteps DEF n
  <2>4. Rank(k) <= m
    BY <1>1, <1>2, <2>2, RankGrows
  <2>5. Rank(k) \in 1..m
    BY <1>2, <2>3, <2>4
  <2>. DEFINE i == CHOOSE i \in Kept : Cardinality(Kept \cap 1..i) = Rank(k)
  <2>6. i \in Kept /\ Rank(i) = Rank(k)
    BY DEF Rank
  <2>7. Collapsed[Rank(k)] = Plain(args.text[i])
    BY <2>5 DEF Collapsed, Plain
  <2>. HIDE DEF i
  <2>8. i \in 1..n
    BY <1>1, <2>6 DEF Kept
  <2>9. i \in Nat /\ i - 1 \in Nat
    BY <1>1, <2>8
  <2>10. Rank(i) = Rank(i - 1) + 1 /\ Rank(i - 1) \in Nat
    BY <2>6, <2>8, <2>9, RankSteps DEF n
  <2>11. ~(i < k)
    <3>1. i <= k - 1 => Rank(i) <= Rank(k - 1)
      BY <2>2, <2>9, RankGrows
    <3> QED BY <2>2, <2>3, <2>6, <2>9, <2>10, <3>1
  <2>12. ~(k < i)
    <3>1. k <= i - 1 => Rank(k) <= Rank(i - 1)
      BY <2>2, <2>9, RankGrows
    <3> QED BY <2>2, <2>3, <2>6, <2>9, <2>10, <3>1
  <2>13. i = k
    BY <2>2, <2>9, <2>11, <2>12
  <2> QED BY <2>5, <2>7, <2>13
<1>. DEFINE Good == {k \in Nat : k # 0 =>
       Rank(k) \in 1..m /\ Collapsed[Rank(k)] = Plain(args.text[k])}
<1>5. 0 \in Good
  OBVIOUS
<1>6. ASSUME NEW k \in Nat, k < n, k \in Good PROVE k + 1 \in Good
  <2>1. CASE k + 1 \in Kept
    BY <1>4, <2>1
  <2>2. CASE k + 1 \notin Kept
    <3>1. k + 1 \in 1..n /\ (k + 1) - 1 = k /\ k # 0
          /\ args.text[k + 1] \in Blanks /\ args.text[k] \in Blanks
      <4>1. k + 1 \in 1..n /\ (k + 1) - 1 = k
        BY <1>1, <1>6
      <4> QED BY <2>2, <4>1, KeptIs
    <3>2. Rank(k + 1) = Rank(k) + 0 /\ Rank(k) \in Nat
      BY <2>2, <3>1, RankSteps DEF n
    <3> QED BY <1>6, <3>1, <3>2 DEF Plain
  <2> QED BY <2>1, <2>2
<1>. HIDE DEF Good
<1>7. \A k \in 0..n : k \in Good
  BY <1>1, <1>5, <1>6, UpTo
<1>8. ASSUME NEW k \in 1..n
      PROVE  Rank(k) \in 1..m /\ Collapsed[Rank(k)] = Plain(args.text[k])
  <2>1. k \in Good /\ k # 0
    BY <1>1, <1>7
  <2> QED BY <2>1 DEF Good
<1> QED BY <1>2, <1>3, <1>8

-----------------------------------------------------------------------------
\* The buffer once it is filled, and the texts that are too long for it.
Filled ==
  [k \in 1..BufferSz |-> IF k \in DOMAIN Collapsed THEN Collapsed[k] ELSE "dot"]
Refused ==
  \/ Len(Collapsed) >= BufferSz
  \/ /\ Len(Collapsed) = BufferSz - 1
     /\ Len(args.text) \in DOMAIN args.text \ Kept

\* While it is copied, the buffer begins with what is to be kept of the text
\* so far, and is full only just after a character that took a place.
SoFar ==
  /\ pos <= Len(args.text) + 1
  /\ len = Rank(pos - 1)
  /\ \A j \in 1..len : buf[j] = Collapsed[j]
  /\ space <=> pos > 1 /\ args.text[pos - 1] \in Blanks
  /\ len = BufferSz - 1 /\ pos > 1 => pos - 1 \in Kept

Setup ==
  /\ TypeOK
  /\ pc = "idle" => args.opt = "other" /\ len = 0 /\ pos = 1 /\ space = FALSE
  /\ pc = "copy" => SoFar
  /\ pc = "run" => len = Cardinality(Kept) /\ ~Refused
  /\ pc = "run" /\ args.opt # "x" => buf = Filled
  /\ pc = "exit" /\ args.opt # "x" /\ status # 99 => (status = 3 <=> Refused)

LEMMA InitSetup == Init => Setup
<1>. SUFFICES ASSUME Init PROVE Setup
  OBVIOUS
<1>1. TypeOK
  BY InitTypeOK
<1>2. pc = "idle" /\ args.opt = "other" /\ len = 0 /\ pos = 1 /\ space = FALSE
  BY DEF Init
<1> QED BY <1>1, <1>2 DEF Setup

LEMMA CopySetup ==
  ASSUME Setup, Copy
  PROVE  pc' = "copy" /\ SoFar'
<1>. USE SizeAssumption
<1>1. /\ pc = "copy" /\ pc' = "copy" /\ pos <= Len(args.text)
      /\ len < BufferSz - 1 /\ args' = args /\ pos' = pos + 1
      /\ space' = (char \in Blanks)
  BY DEF Copy, Copying
<1>2. args \in CommandLines /\ SoFar /\ pos \in Nat \ {0} /\ len \in Nat
      /\ buf \in [1..BufferSz -> AllChars \cup {"junk"}]
      /\ BufferSz \in Nat
  BY <1>1 DEF Setup, TypeOK
<1>3. pos \in 1..Len(args.text) /\ pos - 1 \in Nat /\ Len(args.text) \in Nat
  BY <1>1, <1>2, ArgsType
<1>4. Kept' = Kept /\ Collapsed' = Collapsed /\ (\A k : Rank(k)' = Rank(k))
  BY <1>1 DEF Kept, Collapsed, Rank
<1>5. space <=> pos > 1 /\ args.text[pos - 1] \in Blanks
  BY <1>2 DEF SoFar
<1>6. pos \in Kept <=> ~(char \in Blanks /\ space)
  BY <1>3, <1>2, <1>5, KeptIs DEF char
<1>7. Rank(pos) = Rank(pos - 1) + IF pos \in Kept THEN 1 ELSE 0
  BY <1>2, <1>3, RankSteps
<1>8. len = Rank(pos - 1) /\ \A j \in 1..len : buf[j] = Collapsed[j]
  BY <1>2 DEF SoFar
<1>9. /\ len' = Rank(pos)
      /\ \A j \in 1..len' : buf'[j] = Collapsed[j]
      /\ len' = BufferSz - 1 => pos \in Kept
  <2>1. CASE pos \in Kept
    <3>1. len' = len + 1 /\ buf' = [buf EXCEPT ![len + 1] = Plain(char)]
      BY <1>6, <2>1 DEF Copy, Plain
    <3>2. Rank(pos) = len + 1
      BY <1>7, <1>8, <2>1
    <3>3. Collapsed[len + 1] = Plain(char)
      BY <1>2, <1>3, <3>2, CollapsedIs DEF char
    <3>4. len + 1 \in 1..BufferSz
      BY <1>1, <1>2
    <3>5. ASSUME NEW j \in 1..(len + 1) PROVE buf'[j] = Collapsed[j]
      <4>1. j \in 1..BufferSz
        BY <3>4, <1>2
      <4>2. CASE j = len + 1
        BY <4>1, <4>2, <3>1, <3>3, <1>2
      <4>3. CASE j # len + 1
        BY <4>1, <4>3, <3>1, <1>8, <1>2
      <4> QED BY <4>2, <4>3
    <3> QED BY <2>1, <3>1, <3>2, <3>5
  <2>2. CASE pos \notin Kept
    <3>1. len' = len /\ buf' = buf
      BY <1>6, <2>2 DEF Copy
    <3>2. Rank(pos) = len
      BY <1>2, <1>7, <1>8, <2>2
    <3>3. len' # BufferSz - 1
      BY <1>1, <1>2, <3>1
    <3> QED BY <1>8, <3>1, <3>2, <3>3
  <2> QED BY <2>1, <2>2
<1>10. pos' > 1 /\ pos' - 1 = pos /\ pos' <= Len(args'.text) + 1
  BY <1>1, <1>3
<1>11. len' = Rank(pos - 1)'
  <2>1. Kept' \cap 1..(pos' - 1) = Kept \cap 1..pos
    BY <1>4, <1>10
  <2> QED BY <1>9, <2>1 DEF Rank
<1>12. \A j \in 1..len' : buf'[j] = Collapsed'[j]
  BY <1>4, <1>9
<1>13. space' <=> pos' > 1 /\ args'.text[pos' - 1] \in Blanks
  BY <1>1, <1>10 DEF char
<1>14. len' = BufferSz - 1 /\ pos' > 1 => pos' - 1 \in Kept'
  BY <1>4, <1>9, <1>10
<1> QED BY <1>1, <1>10, <1>11, <1>12, <1>13, <1>14 DEF SoFar

\* What is given up at, with room for one character less than the buffer has.
LEMMA RefusedRight ==
  ASSUME Setup, TooLong
  PROVE  Refused
<1>. USE SizeAssumption
<1>1. pc = "copy" /\ pos <= Len(args.text) /\ len >= BufferSz - 1
  BY DEF TooLong, Copying
<1>2. /\ args \in CommandLines /\ SoFar /\ pos \in Nat \ {0}
      /\ len \in 0..(BufferSz - 1) /\ BufferSz \in Nat
  BY <1>1 DEF Setup, TypeOK
<1>. DEFINE n == Len(args.text)
<1>3. n \in Nat /\ pos - 1 \in Nat /\ DOMAIN args.text = 1..n /\ n \in 1..n
      /\ n - 1 \in Nat
  BY <1>1, <1>2, ArgsType
<1>4. len = BufferSz - 1 /\ len = Rank(pos - 1)
  BY <1>1, <1>2 DEF SoFar
<1>5. /\ Len(Collapsed) = Rank(n) /\ Rank(n) \in Nat /\ Rank(n - 1) \in Nat
      /\ Rank(n) = Rank(n - 1) + IF n \in Kept THEN 1 ELSE 0
  BY <1>2, <1>3, CollapsedIs, RankSteps
<1>6. Rank(pos - 1) <= Rank(n - 1) /\ Rank(n - 1) <= Rank(n)
  <2>1. pos - 1 <= n - 1 /\ n - 1 <= n
    BY <1>1, <1>2, <1>3
  <2> QED BY <1>2, <1>3, <2>1, RankGrows
<1>7. CASE n \in Kept
  <2>1. Len(Collapsed) >= BufferSz
    BY <1>2, <1>4, <1>5, <1>6, <1>7
  <2> QED BY <2>1 DEF Refused
<1>8. CASE n \notin Kept
  <2>1. Len(Collapsed) >= BufferSz \/ Len(Collapsed) = BufferSz - 1
    BY <1>2, <1>4, <1>5, <1>6
  <2> QED BY <1>3, <1>8, <2>1 DEF Refused
<1> QED BY <1>7, <1>8

LEMMA FillSetup ==
  ASSUME Setup, Fill
  PROVE  /\ len' = Cardinality(Kept') /\ ~Refused' /\ buf' = Filled'
<1>. USE SizeAssumption
<1>1. /\ pc = "copy" /\ pos > Len(args.text) /\ args' = args /\ len' = len
      /\ buf' = [k \in 1..BufferSz |-> IF k <= len THEN buf[k] ELSE "dot"]
  BY DEF Fill
<1>2. args \in CommandLines /\ SoFar /\ pos \in Nat \ {0}
      /\ len \in 0..(BufferSz - 1) /\ BufferSz \in Nat
  BY <1>1 DEF Setup, TypeOK
<1>. DEFINE n == Len(args.text)
<1>3. n \in Nat /\ DOMAIN args.text = 1..n
  BY <1>2, ArgsType
<1>4. pos - 1 = n
  BY <1>1, <1>2, <1>3 DEF SoFar
<1>5. len = Cardinality(Kept) /\ DOMAIN Collapsed = 1..len /\ Len(Collapsed) = len
  BY <1>2, <1>4, RankSteps, CollapsedIs DEF SoFar
<1>6. len = BufferSz - 1 /\ n > 0 => n \in Kept
  BY <1>2, <1>3, <1>4 DEF SoFar
<1>7. ~Refused
  BY <1>2, <1>3, <1>5, <1>6 DEF Refused
<1>8. buf' = Filled
  <2>1. \A k \in 1..BufferSz : k <= len => buf[k] = Collapsed[k]
    BY <1>2 DEF SoFar
  <2>2. \A k \in 1..BufferSz : k <= len <=> k \in DOMAIN Collapsed
    BY <1>2, <1>5
  <2> QED BY <1>1, <2>1, <2>2 DEF Filled
<1>9. Kept' = Kept /\ Refused' = Refused /\ Filled' = Filled
  BY <1>1 DEF Kept, Refused, Filled, Collapsed
<1> QED BY <1>1, <1>5, <1>7, <1>8, <1>9

LEMMA NextSetup == Setup /\ [Next]_vars => Setup'
<1>. SUFFICES ASSUME Setup, [Next]_vars PROVE Setup'
  OBVIOUS
<1>. USE SizeAssumption
<1>1. TypeOK'
  BY NextTypeOK DEF Setup
<1>2. CASE Invoke
  <2>1. /\ pc = "idle" /\ UNCHANGED <<buf, len, pos, space>>
        /\ args' \in CommandLines
        /\ pc' = "copy" \/ (pc' = "exit" /\ status' = 99)
    BY <1>2 DEF Invoke, Exit
  <2>2. len = 0 /\ pos = 1 /\ space = FALSE
    BY <2>1 DEF Setup
  <2>3. Len(args'.text) \in Nat
    <3>1. args'.text \in Texts
      BY <2>1 DEF CommandLines
    <3>2. args'.text \in Seq(AllChars)
      BY <3>1, InputsAssumption
    <3> QED BY <3>2
  <2>4. Rank(pos - 1)' = 0
    <3>1. Kept' \cap 1..(pos' - 1) = {}
      BY <2>1, <2>2
    <3> QED BY <3>1, FS_EmptySet DEF Rank
  <2>5. SoFar'
    BY <2>1, <2>2, <2>3, <2>4 DEF SoFar
  <2> QED BY <1>1, <2>1, <2>5 DEF Setup
<1>3. CASE TooLong
  <2>1. args' = args /\ pc' = "exit" /\ status' = 3
    BY <1>3 DEF TooLong, Exit
  <2>2. Kept' = Kept /\ Refused' = Refused
    BY <2>1 DEF Kept, Refused, Collapsed
  <2>3. Refused'
    BY <1>3, <2>2, RefusedRight
  <2> QED BY <1>1, <2>1, <2>3 DEF Setup
<1>4. CASE Copy
  BY <1>1, <1>4, CopySetup DEF Setup
<1>5. CASE Fill
  <2>1. pc' = "run"
    BY <1>5 DEF Fill
  <2> QED BY <1>1, <1>5, <2>1, FillSetup DEF Setup
<1>6. CASE Count \/ WordPrint \/ Usage
  <2>1. args' = args /\ pc = "run" /\ pc' = "exit" /\ status' \in {0, 1}
    BY <1>6 DEF Count, WordPrint, Usage, Exit
  <2>2. ~Refused'
    <3>1. Kept' = Kept /\ Refused' = Refused
      BY <2>1 DEF Kept, Refused, Collapsed
    <3> QED BY <2>1, <3>1 DEF Setup
  <2> QED BY <1>1, <2>1, <2>2 DEF Setup
<1>7. CASE ReverseString \/ NoRoom \/ OffTheEnd \/ Replaced
  <2>1. args' = args /\ pc' \in {"exit", "undefined"}
        /\ (args.opt # "x" => pc' = "undefined")
    BY <1>7 DEF ReverseString, NoRoom, OffTheEnd, Replaced, Turning, Exit
  <2> QED BY <1>1, <2>1 DEF Setup
<1>8. CASE Skip \/ Replace
  <2>1. /\ UNCHANGED <<args, pc, len, space, status>> /\ pc = "run"
        /\ args.opt = "x"
    BY <1>8 DEF Skip, Replace, Replacing, Turning
  <2>2. Kept' = Kept /\ Refused' = Refused
    BY <2>1 DEF Kept, Refused, Collapsed
  <2> QED BY <1>1, <2>1, <2>2 DEF Setup
<1>9. CASE UNCHANGED vars
  <2>1. /\ UNCHANGED <<args, pc, buf, len, pos, space, status>>
    BY <1>9 DEF vars
  <2>2. Kept' = Kept /\ Refused' = Refused /\ Filled' = Filled
    BY <2>1 DEF Kept, Refused, Collapsed, Filled
  <2>3. SoFar' <=> SoFar
    BY <2>1 DEF SoFar, Rank, Kept, Collapsed
  <2> QED BY <1>1, <2>1, <2>2, <2>3 DEF Setup
<1> QED BY <1>2, <1>3, <1>4, <1>5, <1>6, <1>7, <1>8, <1>9 DEF Next, Turn

\* For any size of the buffer and any text: setup_buff puts the text into the
\* buffer, its blanks collapsed and dots behind it, and refuses only what does
\* not fit so.
THEOREM SetupCopies == Spec => []SetupRight
<1>1. Setup => SetupRight
  BY DEF Setup, SetupRight, Filled, Refused
<1> QED BY <1>1, InitSetup, NextSetup, PTL DEF Spec

-----------------------------------------------------------------------------
(* The words of the text, and what the two passes have found of them.      *)

Lettered == {k \in DOMAIN args.text : args.text[k] \notin Blanks}
Words == {k \in DOMAIN args.text :
            /\ args.text[k] \notin Blanks
            /\ k = 1 \/ args.text[k - 1] \in Blanks}
WordsTo(k) == Cardinality(Words \cap 1..k)
Span(w) ==
  Cardinality({l \in Lettered : l >= w /\ \A j \in w..l : j \in Lettered})

LEMMA WordsRightIs ==
  WordsRight <=>
    /\ pc = "exit" /\ status = 0 /\ args.opt = "c" =>
         out = <<Cardinality(Words)>>
    /\ pc = "exit" /\ status = 0 /\ args.opt = "w"
         /\ "dot" \notin ToSet(args.text) =>
         /\ Len(out) = Cardinality(Words)
         /\ \A w \in Words : out[WordsTo(w)] = Span(w)
BY DEF WordsRight, Words, WordsTo, Span, Lettered

LEMMA NextWordsRightIs ==
  WordsRight' <=>
    /\ pc' = "exit" /\ status' = 0 /\ args'.opt = "c" =>
         out' = <<Cardinality(Words')>>
    /\ pc' = "exit" /\ status' = 0 /\ args'.opt = "w"
         /\ "dot" \notin ToSet(args'.text) =>
         /\ Len(out') = Cardinality(Words')
         /\ \A w \in Words' : out'[WordsTo(w)'] = Span(w)'
BY DEF WordsRight, Words, WordsTo, Span, Lettered

LEMMA WordSteps ==
  ASSUME args \in CommandLines
  PROVE  /\ Cardinality(Words) = WordsTo(Len(args.text)) /\ WordsTo(0) = 0
         /\ \A k \in Nat : WordsTo(k) \in Nat
         /\ \A k \in 1..Len(args.text) :
              WordsTo(k) = WordsTo(k - 1) + IF k \in Words THEN 1 ELSE 0
<1>1. Len(args.text) \in Nat /\ Words \subseteq 1..Len(args.text)
  BY ArgsType DEF Words
<1>. DEFINE n == Len(args.text)
<1>2. /\ IsFiniteSet(Words) /\ Cardinality(Words) = Cardinality(Words \cap 1..n)
      /\ Cardinality(Words \cap 1..0) = 0
  BY <1>1, Running, Zenon
<1>3. \A k \in Nat : Cardinality(Words \cap 1..k) \in Nat
  BY <1>1, Running, Zenon
<1>5. \A k : WordsTo(k) = Cardinality(Words \cap 1..k)
  BY DEF WordsTo
<1>6. ASSUME NEW k \in 1..n
      PROVE  WordsTo(k) = WordsTo(k - 1) + IF k \in Words THEN 1 ELSE 0
  <2>1. k \in Nat /\ k - 1 \in Nat
    BY <1>1
  <2>2. WordsTo(k) \in Nat /\ WordsTo(k - 1) \in Nat
    BY <1>3, <1>5, <2>1
  <2>3. /\ k \in Words => Cardinality(Words \cap 1..k) =
                        Cardinality(Words \cap 1..(k - 1)) + 1
        /\ k \notin Words => Cardinality(Words \cap 1..k) =
                           Cardinality(Words \cap 1..(k - 1))
    BY <1>1, RunningStep, Zenon
  <2>4. /\ k \in Words => WordsTo(k) = WordsTo(k - 1) + 1
        /\ k \notin Words => WordsTo(k) = WordsTo(k - 1)
    BY <2>3 DEF WordsTo
  <2> QED BY <2>2, <2>4
<1> QED BY <1>2, <1>3, <1>5, <1>6, Zenon

\* A character of the text, and what it is to the words.
LEMMA LetterIs ==
  ASSUME args \in CommandLines, NEW k \in 1..Len(args.text)
  PROVE  /\ args.text[k] \in AllChars
         /\ k \in Lettered <=> args.text[k] \notin Blanks
         /\ k \in Words <=> k \in Lettered /\ (k = 1 \/ k - 1 \notin Lettered)
         /\ k \in Kept <=> k \in Lettered \/ k = 1 \/ k - 1 \in Lettered
         /\ k \in Lettered => Plain(args.text[k]) = args.text[k]
         /\ k \notin Lettered => Plain(args.text[k]) = "space"
<1>1. Len(args.text) \in Nat /\ DOMAIN args.text = 1..Len(args.text)
      /\ args.text \in Seq(AllChars)
  BY ArgsType
<1>2. k # 1 => k - 1 \in 1..Len(args.text) /\ k > 1
  BY <1>1
<1>3. k \in Kept <=> ~(k > 1 /\ args.text[k] \in Blanks
                             /\ args.text[k - 1] \in Blanks)
  BY KeptIs
<1>4. args.text[k] \in AllChars
  BY <1>1
<1>5. k \in Words <=> k \in Lettered /\ (k = 1 \/ k - 1 \notin Lettered)
  BY <1>1, <1>2 DEF Words, Lettered
<1>6. k \in Kept <=> k \in Lettered \/ k = 1 \/ k - 1 \in Lettered
  BY <1>1, <1>2, <1>3 DEF Lettered
<1> QED BY <1>1, <1>4, <1>5, <1>6 DEF Lettered, Plain

\* The buffer that the pass of an operation finds.
LEMMA BufferIs ==
  ASSUME Setup, pc = "run", args.opt # "x"
  PROVE  /\ args \in CommandLines /\ Len(args.text) \in Nat
         /\ len \in Nat /\ len = Rank(Len(args.text))
         /\ buf[len + 1] = "dot"
         /\ \A k \in 1..Len(args.text) :
              Rank(k) \in 1..len /\ buf[Rank(k)] = Plain(args.text[k])
<1>. USE SizeAssumption
<1>1. /\ args \in CommandLines /\ len \in 0..(BufferSz - 1) /\ BufferSz \in Nat
      /\ buf = Filled /\ len = Cardinality(Kept)
  BY DEF Setup, TypeOK
<1>2. DOMAIN Collapsed = 1..len
  BY <1>1, CollapsedIs
<1>3. buf[len + 1] = "dot"
  BY <1>1, <1>2 DEF Filled
<1>4. ASSUME NEW k \in 1..Len(args.text)
      PROVE  Rank(k) \in 1..len /\ buf[Rank(k)] = Plain(args.text[k])
  <2>1. Rank(k) \in 1..len /\ Collapsed[Rank(k)] = Plain(args.text[k])
    BY <1>1, CollapsedIs
  <2>2. Rank(k) \in 1..BufferSz
    BY <1>1, <2>1
  <2> QED BY <1>1, <1>2, <2>1, <2>2 DEF Filled
<1> QED BY <1>1, <1>3, <1>4, RankSteps, ArgsType

\* count_words has counted the words that begin in what it has read.
LEMMA CountsWords ==
  ASSUME Setup, pc = "run", args.opt # "x"
  PROVE  \A k \in 0..Len(args.text) :
           LET s == CountedIn(buf, len, Rank(k)) IN
           s.count = WordsTo(k) /\ (s.word <=> k # 0 /\ k \in Lettered)
<1>. DEFINE n == Len(args.text)
            s(k) == CountedIn(buf, len, Rank(k))
            Good == {k \in Nat : s(k).count = WordsTo(k)
                                  /\ (s(k).word <=> k # 0 /\ k \in Lettered)}
<1>1. /\ args \in CommandLines /\ n \in Nat /\ len \in Nat /\ len = Rank(n)
  BY BufferIs
<1>2. 0 \in Good
  <2>1. Rank(0) = 0 /\ WordsTo(0) = 0
    BY <1>1, RankSteps, WordSteps
  <2>2. s(0) = Begun
    BY <1>1, <2>1, CountingSteps
  <2> QED BY <2>1, <2>2 DEF Begun
<1>3. ASSUME NEW k \in Nat, k < n, k \in Good PROVE k + 1 \in Good
  <2>1. k + 1 \in 1..n /\ (k + 1) - 1 = k /\ k + 1 # 0
        /\ (k = 0 <=> k + 1 = 1)
    BY <1>1, <1>3
  <2>2. /\ k + 1 \in Words <=> k + 1 \in Lettered /\ (k = 0 \/ k \notin Lettered)
        /\ k + 1 \in Kept <=> k + 1 \in Lettered \/ k = 0 \/ k \in Lettered
        /\ k + 1 \in Lettered <=> args.text[k + 1] \notin Blanks
        /\ k + 1 \in Lettered => Plain(args.text[k + 1]) = args.text[k + 1]
        /\ k + 1 \notin Lettered => Plain(args.text[k + 1]) = "space"
    BY <1>1, <2>1, LetterIs
  <2>3. /\ WordsTo(k + 1) = WordsTo(k) + IF k + 1 \in Words THEN 1 ELSE 0
        /\ WordsTo(k) \in Nat
    BY <1>1, <2>1, WordSteps DEF n
  <2>4. /\ Rank(k + 1) = Rank(k) + IF k + 1 \in Kept THEN 1 ELSE 0
        /\ Rank(k) \in Nat /\ Rank(k + 1) \in 1..len
        /\ buf[Rank(k + 1)] = Plain(args.text[k + 1])
    BY <1>1, <2>1, RankSteps, BufferIs DEF n
  <2>5. s(k).count = WordsTo(k) /\ (s(k).word <=> k # 0 /\ k \in Lettered)
    BY <1>3
  <2>6. s(k) \in [count : Nat, word : BOOLEAN]
    <3>1. Rank(k) \in 0..len
      BY <1>1, <2>4
    <3> QED BY <1>1, <3>1, CountedType
  <2>. HIDE DEF s
  <2>7. CASE k + 1 \notin Kept
    <3>1. Rank(k + 1) = Rank(k)
      BY <2>4, <2>7
    <3>2. s(k + 1) = s(k)
      BY <3>1 DEF s
    <3>3. WordsTo(k + 1) = WordsTo(k)
      BY <2>2, <2>3, <2>7
    <3>4. s(k + 1).count = WordsTo(k + 1)
          /\ (s(k + 1).word <=> k + 1 # 0 /\ k + 1 \in Lettered)
      BY <2>1, <2>2, <2>5, <2>7, <3>2, <3>3
    <3> QED BY <3>4
  <2>8. CASE k + 1 \in Kept
    <3>1. Rank(k + 1) = Rank(k) + 1 /\ Rank(k) < len
      BY <1>1, <2>4, <2>8
    <3>2. s(k + 1) = Counted(s(k), Plain(args.text[k + 1]))
      <4>1. CountedIn(buf, len, Rank(k) + 1) =
              Counted(CountedIn(buf, len, Rank(k)), buf[Rank(k) + 1])
        BY <1>1, <2>4, <3>1, CountingSteps
      <4> QED BY <2>4, <3>1, <4>1 DEF s
    <3>3. CASE k + 1 \in Lettered
      <4>1. s(k + 1) = [count |-> IF s(k).word THEN s(k).count
                                  ELSE s(k).count + 1, word |-> TRUE]
        BY <2>2, <3>2, <3>3 DEF Counted
      <4>2. s(k + 1).count = WordsTo(k + 1)
        BY <2>2, <2>3, <2>5, <3>3, <4>1
      <4> QED BY <2>1, <3>3, <4>1, <4>2
    <3>4. CASE k + 1 \notin Lettered
      <4>1. s(k + 1) = [s(k) EXCEPT !.word = FALSE]
        BY <2>2, <3>2, <3>4 DEF Counted, Blanks
      <4>2. s(k + 1).count = s(k).count /\ s(k + 1).word = FALSE
        BY <2>6, <4>1
      <4>3. s(k + 1).count = WordsTo(k + 1)
        BY <2>2, <2>3, <2>5, <3>4, <4>2
      <4> QED BY <2>1, <3>4, <4>2, <4>3
    <3> QED BY <3>3, <3>4
  <2> QED BY <2>7, <2>8
<1>. HIDE DEF Good
<1>4. \A k \in 0..n : k \in Good
  BY <1>1, <1>2, <1>3, UpTo
<1> QED BY <1>4 DEF Good

\* The word that begins at w goes on at k.
Open(w, k) == w \in Words /\ w <= k /\ \A j \in w..k : j \in Lettered

\* Two words do not overlap.
LEMMA OneOpen ==
  ASSUME args \in CommandLines, NEW k \in 1..Len(args.text),
         NEW v \in Words, NEW w \in Words, Open(v, k), Open(w, k)
  PROVE  v = w
<1>1. /\ Len(args.text) \in Nat /\ v \in 1..Len(args.text)
      /\ w \in 1..Len(args.text)
  BY ArgsType DEF Words
<1>2. ASSUME NEW i \in Words, NEW j \in Words, Open(i, k), Open(j, k), i < j,
             i \in 1..Len(args.text), j \in 1..Len(args.text)
      PROVE  FALSE
  <2>1. j # 1 /\ j - 1 \in i..k
    BY <1>1, <1>2 DEF Open
  <2>2. j - 1 \in Lettered
    BY <1>2, <2>1 DEF Open
  <2> QED BY <1>2, <2>1, <2>2, LetterIs
<1> QED BY <1>1, <1>2

\* A word that ends has the length it has in the text.
LEMMA SpanIs ==
  ASSUME args \in CommandLines, NEW k \in 1..Len(args.text), NEW w, Open(w, k),
         k = Len(args.text) \/ k + 1 \notin Lettered
  PROVE  Span(w) = k - w + 1
<1>1. /\ Len(args.text) \in Nat /\ Lettered \subseteq 1..Len(args.text)
      /\ w \in 1..Len(args.text) /\ w <= k
  BY ArgsType DEF Words, Lettered, Open
<1>2. \A l \in Lettered : l > k => k + 1 \in w..l /\ k + 1 \notin Lettered
  BY <1>1
<1>3. \A j \in w..k : j \in Lettered
  BY DEF Open
<1>. DEFINE T == {l \in Lettered : l >= w /\ \A j \in w..l : j \in Lettered}
<1>4. T = w..k
  <2>1. ASSUME NEW l \in T PROVE l \in w..k
    <3>1. ~(l > k)
      BY <1>2
    <3> QED BY <1>1, <3>1
  <2>2. ASSUME NEW l \in w..k PROVE l \in T
    BY <1>1, <1>3, <2>2
  <2> QED BY <2>1, <2>2
<1>5. w \in Int /\ k \in Int
  BY <1>1
<1>6. Cardinality(w..k) = k - w + 1
  BY <1>1, <1>5, FS_Interval
<1> QED BY <1>4, <1>6 DEF Span

\* word_print has printed the lengths of the words that have ended in what it
\* has read, and counts the letters of the one that goes on.
PrintsAs(p, k) ==
  /\ p \in [word : Nat, out : Seq(Nat)]
  /\ p.word = 0 <=> k = 0 \/ k \notin Lettered
  /\ Len(p.out) = WordsTo(k) - IF p.word = 0 THEN 0 ELSE 1
  /\ p.word # 0 => \E w \in Words : /\ Open(w, k) /\ p.word = k - w + 1
                                    /\ WordsTo(w) = WordsTo(k)
  /\ \A w \in Words : w <= k /\ ~Open(w, k) =>
       WordsTo(w) \in 1..Len(p.out) /\ p.out[WordsTo(w)] = Span(w)
PrintsTo(k) == PrintsAs(PrintedIn(buf, len + 1, Rank(k)), k)

\* A character more, of a word.
LEMMA LetterPrints ==
  ASSUME Setup, pc = "run", args.opt # "x", "dot" \notin ToSet(args.text),
         NEW k \in Nat, k < Len(args.text), PrintsTo(k), k + 1 \in Lettered
  PROVE  PrintsTo(k + 1)
<1>. DEFINE n == Len(args.text)
            p == PrintedIn(buf, len + 1, Rank(k))
            q == PrintedIn(buf, len + 1, Rank(k + 1))
            c == args.text[k + 1]
<1>1. /\ args \in CommandLines /\ n \in Nat /\ len \in Nat /\ len = Rank(n)
  BY BufferIs
<1>2. k + 1 \in 1..n /\ (k + 1) - 1 = k /\ (k = 0 <=> k + 1 = 1)
  BY <1>1
<1>3. /\ k + 1 \in Words <=> k = 0 \/ k \notin Lettered
      /\ k + 1 \in Kept /\ c \notin Blanks /\ Plain(c) = c
  BY <1>1, <1>2, LetterIs
<1>4. /\ WordsTo(k + 1) = WordsTo(k) + IF k + 1 \in Words THEN 1 ELSE 0
      /\ WordsTo(k) \in Nat
  BY <1>1, <1>2, WordSteps
<1>5. /\ Rank(k + 1) = Rank(k) + 1 /\ Rank(k) \in Nat
      /\ Rank(k + 1) \in 1..len /\ buf[Rank(k + 1)] = c
  BY <1>1, <1>2, <1>3, RankSteps, BufferIs
<1>6. c # "dot"
  <2>1. c \in ToSet(args.text)
    BY <1>1, <1>2, ArgsType DEF ToSet
  <2> QED BY <2>1
<1>7. q = Printed(p, c)
  <2>1. len + 1 \in Nat /\ Rank(k) < len + 1
    BY <1>1, <1>5
  <2>2. PrintedIn(buf, len + 1, Rank(k) + 1) =
          Printed(PrintedIn(buf, len + 1, Rank(k)), buf[Rank(k) + 1])
    BY <1>5, <2>1, PrintingSteps
  <2> QED BY <1>5, <2>2
<1>8. /\ p \in [word : Nat, out : Seq(Nat)]
      /\ p.word = 0 <=> k = 0 \/ k \notin Lettered
      /\ Len(p.out) = WordsTo(k) - IF p.word = 0 THEN 0 ELSE 1
      /\ p.word # 0 => \E w \in Words : /\ Open(w, k) /\ p.word = k - w + 1
                                        /\ WordsTo(w) = WordsTo(k)
      /\ \A w \in Words : w <= k /\ ~Open(w, k) =>
           WordsTo(w) \in 1..Len(p.out) /\ p.out[WordsTo(w)] = Span(w)
  BY DEF PrintsTo, PrintsAs
<1>. HIDE DEF p, q, c, n
<1>9. q = [p EXCEPT !.word = p.word + 1]
  BY <1>3, <1>6, <1>7 DEF Printed, Blanks
<1>10. /\ q \in [word : Nat, out : Seq(Nat)] /\ q.word = p.word + 1
       /\ q.out = p.out /\ q.word # 0
  BY <1>8, <1>9
<1>11. Len(q.out) = WordsTo(k + 1) - 1
  BY <1>3, <1>4, <1>8, <1>10
<1>12. \E w \in Words : /\ Open(w, k + 1) /\ q.word = (k + 1) - w + 1
                        /\ WordsTo(w) = WordsTo(k + 1)
  <2>1. CASE p.word = 0
    <3>1. k + 1 \in Words
      BY <1>3, <1>8, <2>1
    <3>2. Open(k + 1, k + 1)
      BY <1>2, <3>1 DEF Open
    <3>3. q.word = (k + 1) - (k + 1) + 1
      BY <1>10, <2>1
    <3> QED BY <3>1, <3>2, <3>3
  <2>2. CASE p.word # 0
    <3>1. PICK w \in Words : /\ Open(w, k) /\ p.word = k - w + 1
                             /\ WordsTo(w) = WordsTo(k)
      BY <1>8, <2>2
    <3>2. w \in 1..n /\ w <= k
      BY <1>1, <3>1, ArgsType DEF Words, Open, n
    <3>3. Open(w, k + 1)
      BY <1>1, <3>1, <3>2 DEF Open
    <3>4. k + 1 \notin Words
      BY <1>3, <1>8, <2>2
    <3>5. q.word = (k + 1) - w + 1
      BY <1>1, <1>10, <3>1, <3>2
    <3> QED BY <1>4, <3>1, <3>3, <3>4, <3>5
  <2> QED BY <2>1, <2>2
<1>13. ASSUME NEW w \in Words, w <= k + 1, ~Open(w, k + 1)
       PROVE  WordsTo(w) \in 1..Len(q.out) /\ q.out[WordsTo(w)] = Span(w)
  <2>1. w \in 1..n
    BY <1>1, ArgsType DEF Words, n
  <2>2. w # k + 1
    BY <1>13, <1>2 DEF Open
  <2>3. w <= k /\ ~Open(w, k)
    BY <1>1, <1>13, <2>1, <2>2 DEF Open
  <2> QED BY <1>8, <1>10, <2>3
<1>14. q.word = 0 <=> k + 1 = 0 \/ k + 1 \notin Lettered
  BY <1>2, <1>10
<1>15. Len(q.out) = WordsTo(k + 1) - IF q.word = 0 THEN 0 ELSE 1
  BY <1>10, <1>11
<1>16. PrintsAs(q, k + 1)
  BY <1>10, <1>12, <1>13, <1>14, <1>15, Zenon DEF PrintsAs
<1> QED BY <1>16 DEF PrintsTo, q

\* A character more, a blank.
LEMMA BlankPrints ==
  ASSUME Setup, pc = "run", args.opt # "x",
         NEW k \in Nat, k < Len(args.text), PrintsTo(k), k + 1 \notin Lettered
  PROVE  PrintsTo(k + 1)
<1>. DEFINE n == Len(args.text)
            p == PrintedIn(buf, len + 1, Rank(k))
            q == PrintedIn(buf, len + 1, Rank(k + 1))
<1>1. /\ args \in CommandLines /\ n \in Nat /\ len \in Nat /\ len = Rank(n)
  BY BufferIs
<1>2. k + 1 \in 1..n /\ (k + 1) - 1 = k /\ (k = 0 <=> k + 1 = 1)
  BY <1>1
<1>3. /\ k + 1 \notin Words
      /\ k + 1 \in Kept <=> k = 0 \/ k \in Lettered
      /\ Plain(args.text[k + 1]) = "space"
  BY <1>1, <1>2, LetterIs
<1>4. WordsTo(k + 1) = WordsTo(k) /\ WordsTo(k) \in Nat
  BY <1>1, <1>2, <1>3, WordSteps
<1>5. /\ Rank(k + 1) = Rank(k) + IF k + 1 \in Kept THEN 1 ELSE 0
      /\ Rank(k) \in Nat
      /\ Rank(k + 1) \in 1..len /\ buf[Rank(k + 1)] = "space"
  BY <1>1, <1>2, <1>3, RankSteps, BufferIs
<1>6. /\ p \in [word : Nat, out : Seq(Nat)]
      /\ p.word = 0 <=> k = 0 \/ k \notin Lettered
      /\ Len(p.out) = WordsTo(k) - IF p.word = 0 THEN 0 ELSE 1
      /\ p.word # 0 => \E w \in Words : /\ Open(w, k) /\ p.word = k - w + 1
                                        /\ WordsTo(w) = WordsTo(k)
      /\ \A w \in Words : w <= k /\ ~Open(w, k) =>
           WordsTo(w) \in 1..Len(p.out) /\ p.out[WordsTo(w)] = Span(w)
  BY DEF PrintsTo, PrintsAs
<1>7. k + 1 \in Kept => q = Printed(p, "space")
  <2>1. SUFFICES ASSUME k + 1 \in Kept PROVE q = Printed(p, "space")
    OBVIOUS
  <2>2. Rank(k + 1) = Rank(k) + 1 /\ Rank(k) < len + 1 /\ len + 1 \in Nat
    BY <1>1, <1>5, <2>1
  <2>3. PrintedIn(buf, len + 1, Rank(k) + 1) =
          Printed(PrintedIn(buf, len + 1, Rank(k)), buf[Rank(k) + 1])
    BY <1>5, <2>2, PrintingSteps
  <2> QED BY <1>5, <2>2, <2>3
<1>8. k + 1 \notin Kept => q = p
  BY <1>5
<1>. HIDE DEF p, q, n
<1>9. /\ q \in [word : Nat, out : Seq(Nat)] /\ q.word = 0
      /\ q.out = IF p.word > 0 THEN Append(p.out, p.word) ELSE p.out
  <2>1. CASE k + 1 \in Kept
    <3>1. q = [word |-> 0, out |-> IF p.word > 0 THEN Append(p.out, p.word)
                                   ELSE p.out]
      BY <1>7, <2>1 DEF Printed
    <3>2. (IF p.word > 0 THEN Append(p.out, p.word) ELSE p.out) \in Seq(Nat)
      BY <1>6
    <3> QED BY <3>1, <3>2
  <2>2. CASE k + 1 \notin Kept
    BY <1>3, <1>6, <1>8, <2>2
  <2> QED BY <2>1, <2>2
<1>10. /\ p.out \in Seq(Nat) /\ p.word \in Nat
       /\ Len(p.out) = WordsTo(k) - IF p.word = 0 THEN 0 ELSE 1
  BY <1>6
<1>11. Len(q.out) = WordsTo(k + 1)
  BY <1>4, <1>9, <1>10
<1>12. ASSUME NEW w \in Words, w <= k + 1, ~Open(w, k + 1)
       PROVE  WordsTo(w) \in 1..Len(q.out) /\ q.out[WordsTo(w)] = Span(w)
  <2>1. w \in 1..n
    BY <1>1, ArgsType DEF Words, n
  <2>2. w <= k
    BY <1>3, <1>12, <2>1
  <2>3. CASE ~Open(w, k)
    <3>1. WordsTo(w) \in 1..Len(p.out) /\ p.out[WordsTo(w)] = Span(w)
      BY <1>6, <2>2, <2>3
    <3>2. /\ Len(p.out) <= Len(q.out)
          /\ q.out[WordsTo(w)] = p.out[WordsTo(w)]
      BY <1>9, <1>10, <3>1
    <3> QED BY <1>4, <1>10, <1>11, <3>1, <3>2
  <2>4. CASE Open(w, k)
    <3>1. k \in w..k /\ k \in 1..n /\ k # 0
      BY <1>1, <2>1, <2>2 DEF n
    <3>2. k \in Lettered
      BY <2>4, <3>1 DEF Open
    <3>3. p.word # 0
      BY <1>6, <3>1, <3>2
    <3>4. PICK v \in Words : /\ Open(v, k) /\ p.word = k - v + 1
                             /\ WordsTo(v) = WordsTo(k)
      BY <1>6, <3>3
    <3>5. v = w
      BY <1>1, <2>4, <3>1, <3>4, OneOpen DEF n
    <3>6. Span(w) = k - w + 1
      BY <1>1, <2>4, <3>1, SpanIs DEF n
    <3>7. q.out = Append(p.out, p.word)
      BY <1>9, <1>10, <3>3
    <3>8. WordsTo(w) = Len(p.out) + 1
      BY <1>4, <1>10, <3>3, <3>4, <3>5
    <3>9. Span(w) = p.word
      BY <3>4, <3>5, <3>6
    <3>10. WordsTo(w) \in 1..Len(q.out) /\ q.out[WordsTo(w)] = p.word
      BY <1>10, <3>7, <3>8
    <3> QED BY <3>9, <3>10
  <2> QED BY <2>3, <2>4
<1>13. PrintsAs(q, k + 1)
  BY <1>2, <1>9, <1>11, <1>12 DEF PrintsAs
<1> QED BY <1>13 DEF PrintsTo, q

LEMMA PrintsWords ==
  ASSUME Setup, pc = "run", args.opt # "x", "dot" \notin ToSet(args.text)
  PROVE  \A k \in 0..Len(args.text) : PrintsTo(k)
<1>. DEFINE n == Len(args.text)
            Good == {k \in Nat : PrintsTo(k)}
<1>1. /\ args \in CommandLines /\ n \in Nat /\ len \in Nat
  BY BufferIs
<1>2. 0 \in Good
  <2>1. Rank(0) = 0 /\ WordsTo(0) = 0
    BY <1>1, RankSteps, WordSteps
  <2>2. PrintedIn(buf, len + 1, Rank(0)) = Started
    BY <1>1, <2>1, PrintingSteps
  <2>3. \A w \in Words : ~(w <= 0)
    BY <1>1, ArgsType DEF Words
  <2>4. Started \in [word : Nat, out : Seq(Nat)] /\ Started.word = 0
        /\ Len(Started.out) = 0
    BY DEF Started
  <2>5. PrintsTo(0)
    BY <2>1, <2>2, <2>3, <2>4 DEF PrintsTo, PrintsAs
  <2> QED BY <2>5
<1>3. ASSUME NEW k \in Nat, k < n, k \in Good PROVE k + 1 \in Good
  BY <1>3, LetterPrints, BlankPrints
<1>. HIDE DEF Good
<1>4. \A k \in 0..n : k \in Good
  BY <1>1, <1>2, <1>3, UpTo
<1> QED BY <1>4 DEF Good

\* What word_print has printed with the dot behind the text.
LEMMA WordPrintRight ==
  ASSUME Setup, WordPrint, "dot" \notin ToSet(args.text)
  PROVE  /\ Len(out') = Cardinality(Words)
         /\ \A w \in Words : out'[WordsTo(w)] = Span(w)
<1>. DEFINE n == Len(args.text)
            p == PrintedIn(buf, len + 1, len)
            q == PrintedIn(buf, len + 1, len + 1)
<1>1. pc = "run" /\ args.opt # "x"
  BY DEF WordPrint
<1>2. /\ args \in CommandLines /\ n \in Nat /\ len \in Nat /\ len = Rank(n)
      /\ buf[len + 1] = "dot"
  BY <1>1, BufferIs
<1>3. PrintsTo(n)
  BY <1>1, <1>2, PrintsWords
<1>4. out' = q.out
  BY WordPrintIs
<1>5. q = Printed(p, "dot")
  <2>1. len + 1 \in Nat /\ len < len + 1
    BY <1>2
  <2>2. PrintedIn(buf, len + 1, len + 1) =
          Printed(PrintedIn(buf, len + 1, len), buf[len + 1])
    BY <1>2, <2>1, PrintingSteps
  <2> QED BY <1>2, <2>2
<1>6. /\ p \in [word : Nat, out : Seq(Nat)]
      /\ p.word = 0 <=> n = 0 \/ n \notin Lettered
      /\ Len(p.out) = WordsTo(n) - IF p.word = 0 THEN 0 ELSE 1
      /\ p.word # 0 => \E w \in Words : /\ Open(w, n) /\ p.word = n - w + 1
                                        /\ WordsTo(w) = WordsTo(n)
      /\ \A w \in Words : w <= n /\ ~Open(w, n) =>
           WordsTo(w) \in 1..Len(p.out) /\ p.out[WordsTo(w)] = Span(w)
  BY <1>2, <1>3 DEF PrintsTo, PrintsAs
<1>. HIDE DEF p, q, n
<1>7. q.out = IF p.word > 0 THEN Append(p.out, p.word) ELSE p.out
  BY <1>5 DEF Printed
<1>8. Cardinality(Words) = WordsTo(n) /\ WordsTo(n) \in Nat
  BY <1>2, WordSteps DEF n
<1>9. p.out \in Seq(Nat) /\ p.word \in Nat
  BY <1>6
<1>10. Len(q.out) = WordsTo(n)
  BY <1>6, <1>7, <1>8, <1>9
<1>11. ASSUME NEW w \in Words PROVE q.out[WordsTo(w)] = Span(w)
  <2>1. w \in 1..n /\ w <= n
    BY <1>2, ArgsType DEF Words, n
  <2>2. CASE ~Open(w, n)
    <3>1. WordsTo(w) \in 1..Len(p.out) /\ p.out[WordsTo(w)] = Span(w)
      BY <1>6, <2>1, <2>2
    <3> QED BY <1>7, <1>9, <3>1
  <2>3. CASE Open(w, n)
    <3>1. n \in w..n /\ n \in 1..n /\ n # 0
      BY <1>2, <2>1
    <3>2. p.word # 0
      BY <1>6, <2>3, <3>1 DEF Open
    <3>3. PICK v \in Words : /\ Open(v, n) /\ p.word = n - v + 1
                             /\ WordsTo(v) = WordsTo(n)
      BY <1>6, <3>2
    <3>4. v = w
      BY <1>2, <2>3, <3>1, <3>3, OneOpen DEF n
    <3>5. Span(w) = n - w + 1
      BY <1>2, <2>3, <3>1, SpanIs DEF n
    <3>6. WordsTo(w) = Len(p.out) + 1 /\ q.out = Append(p.out, p.word)
      BY <1>6, <1>7, <1>8, <1>9, <3>2, <3>3, <3>4
    <3> QED BY <1>9, <3>3, <3>4, <3>5, <3>6
  <2> QED BY <2>2, <2>3
<1> QED BY <1>4, <1>8, <1>10, <1>11

LEMMA NextWords == Setup /\ WordsRight /\ [Next]_vars => WordsRight'
<1>. SUFFICES ASSUME Setup, WordsRight, [Next]_vars PROVE WordsRight'
  OBVIOUS
<1>1. CASE Count
  <2>1. args' = args /\ pc = "run" /\ args.opt = "c"
    BY <1>1 DEF Count
  <2>. DEFINE s == CountedIn(buf, len, len)
  <2>2. /\ args \in CommandLines /\ Len(args.text) \in Nat
        /\ len = Rank(Len(args.text))
    BY <2>1, BufferIs
  <2>3. s.count = WordsTo(Len(args.text))
    BY <2>1, <2>2, CountsWords
  <2>4. out' = <<s.count>>
    BY <1>1, CountIs
  <2>. HIDE DEF s
  <2>5. out' = <<Cardinality(Words)>>
    BY <2>2, <2>3, <2>4, WordSteps
  <2>6. Words' = Words
    BY <2>1 DEF Words
  <2> QED BY <2>1, <2>5, <2>6, NextWordsRightIs
<1>2. CASE WordPrint
  <2>1. args' = args /\ pc = "run" /\ args.opt = "w"
    BY <1>2 DEF WordPrint
  <2>2. /\ Words' = Words
        /\ \A w : WordsTo(w)' = WordsTo(w) /\ Span(w)' = Span(w)
    BY <2>1 DEF Words, WordsTo, Span, Lettered
  <2>3. "dot" \notin ToSet(args'.text) => "dot" \notin ToSet(args.text)
    BY <2>1
  <2>4. "dot" \notin ToSet(args.text) =>
          /\ Len(out') = Cardinality(Words)
          /\ \A w \in Words : out'[WordsTo(w)] = Span(w)
    BY <1>2, WordPrintRight
  <2> QED BY <2>1, <2>2, <2>3, <2>4, NextWordsRightIs
<1>3. CASE Invoke \/ Copy \/ Fill \/ ReverseString \/ Skip \/ Replace
           \/ OffTheEnd
  <2>1. pc' # "exit" \/ status' # 0
    BY <1>3 DEF Invoke, Exit, Copy, Fill, ReverseString, Skip, Replace,
         Replacing, OffTheEnd, Turning, Copying
  <2> QED BY <2>1, NextWordsRightIs
<1>4. CASE TooLong \/ Usage \/ NoRoom \/ Replaced
  <2>1. args' = args /\ (status' # 0 \/ args.opt = "x")
    BY <1>4 DEF TooLong, Usage, NoRoom, Replaced, Turning, Exit
  <2>2. status' = 0 => args'.opt # "c" /\ args'.opt # "w"
    BY <2>1
  <2> QED BY <2>2, NextWordsRightIs
<1>5. CASE UNCHANGED vars
  <2>1. UNCHANGED <<args, pc, out, status>>
    BY <1>5 DEF vars
  <2>2. /\ Words' = Words
        /\ \A w : WordsTo(w)' = WordsTo(w) /\ Span(w)' = Span(w)
    BY <2>1 DEF Words, WordsTo, Span, Lettered
  <2> QED BY <2>1, <2>2, WordsRightIs, NextWordsRightIs
<1> QED BY <1>1, <1>2, <1>3, <1>4, <1>5 DEF Next, Turn

\* For any size of the buffer and any text: count_words and word_print agree
\* with the words of the text as the user gave it.
THEOREM PassesAgree == Spec => []WordsRight
<1>1. Init => WordsRight
  BY DEF Init, WordsRight
<1> QED BY <1>1, InitSetup, NextSetup, NextWords, PTL DEF Spec

-----------------------------------------------------------------------------
(* The text with the old word replaced, from each place of it on.          *)

\* Every place of the collapsed text has a character.
LEMMA CollapsedType ==
  ASSUME args \in CommandLines
  PROVE  Collapsed \in Seq(AllChars)
<1>. DEFINE n == Len(args.text)
            m == Cardinality(Kept)
<1>1. n \in Nat /\ m \in Nat /\ m = Rank(n) /\ DOMAIN Collapsed = 1..m
  BY ArgsType, RankSteps, CollapsedIs
<1>2. ASSUME NEW j \in 1..m PROVE Collapsed[j] \in AllChars
  <2>. DEFINE T == {k \in 1..n : Rank(k) >= j}
  <2>1. n \in T
    <3>1. n # 0
      BY <1>1, RankSteps
    <3> QED BY <1>1, <3>1
  <2>2. T \subseteq Nat
    OBVIOUS
  <2>3. PICK k \in T : \A i \in T : k <= i
    <3>. HIDE DEF T
    <3> QED BY <2>1, <2>2, Smallest
  <2>4. k \in 1..n /\ k \in Nat /\ k - 1 \in Nat /\ Rank(k) >= j /\ Rank(0) = 0
    BY <1>1, <2>3, RankSteps
  <2>5. Rank(k) = Rank(k - 1) + (IF k \in Kept THEN 1 ELSE 0)
        /\ Rank(k) \in Nat /\ Rank(k - 1) \in Nat
    BY <2>4, RankSteps
  <2>6. k = 1 \/ k - 1 \in 1..n
    BY <1>1, <2>4
  <2>7. Rank(k - 1) < j
    BY <2>3, <2>4, <2>5, <2>6
  <2>8. Rank(k) = j
    BY <2>4, <2>5, <2>7
  <2>9. Collapsed[j] = Plain(args.text[k]) /\ args.text[k] \in AllChars
    BY <2>4, <2>8, CollapsedIs, LetterIs
  <2> QED BY <2>9 DEF Plain, AllChars, Blanks
<1>3. Collapsed = [j \in 1..m |-> Collapsed[j]]
  BY <1>1 DEF Collapsed
<1> QED BY <1>1, <1>2, <1>3

IsAhead(f, text, m) ==
  f = [k \in m..(Len(text) + 1) |->
         IF k = Len(text) + 1 THEN <<>>
         ELSE IF Fits(text, k) THEN args.new \o f[k + OldLen]
         ELSE <<text[k]>> \o f[k + 1]]
Ahead(text, k) == (CHOOSE f : IsAhead(f, text, 1))[k]

LEMMA AheadExists ==
  ASSUME NEW text \in Seq(AllChars), OldLen \in Nat, OldLen >= 1
  PROVE  \E f : IsAhead(f, text, 1)
<1>. DEFINE n == Len(text)
            Good == {j \in Nat : \E f : IsAhead(f, text, n + 1 - j)}
<1>1. n \in Nat
  OBVIOUS
<1>. HIDE DEF n
<1>2. 0 \in Good
  <2>. DEFINE f == [k \in (n + 1)..(n + 1) |-> <<>>]
  <2>1. IsAhead(f, text, n + 1)
    BY <1>1 DEF IsAhead, n
  <2>. HIDE DEF f
  <2>2. n + 1 - 0 = n + 1
    BY <1>1
  <2>3. \E g : IsAhead(g, text, n + 1 - 0)
    BY <2>1, <2>2
  <2> QED BY <2>3
<1>3. ASSUME NEW j \in Nat, j < n, j \in Good PROVE j + 1 \in Good
  <2>1. PICK g : IsAhead(g, text, n + 1 - j)
    BY <1>3
  <2>. DEFINE m == n - j
  <2>2. m \in 1..n /\ n + 1 - j = m + 1 /\ n + 1 - (j + 1) = m
    BY <1>1, <1>3
  <2>. HIDE DEF m
  <2>3. g = [k \in (m + 1)..(n + 1) |->
               IF k = n + 1 THEN <<>>
               ELSE IF Fits(text, k) THEN args.new \o g[k + OldLen]
               ELSE <<text[k]>> \o g[k + 1]]
    BY <2>1, <2>2 DEF IsAhead, n
  <2>. DEFINE h == [k \in m..(n + 1) |->
                 IF k = m THEN IF Fits(text, m) THEN args.new \o g[m + OldLen]
                               ELSE <<text[m]>> \o g[m + 1]
                 ELSE g[k]]
  <2>4. ASSUME NEW k \in 1..n, Fits(text, k)
        PROVE  k + OldLen \in (k + 1)..(n + 1)
    BY <1>1, <2>4 DEF Fits, n
  <2>5. ASSUME NEW k \in m..(n + 1)
        PROVE  h[k] = IF k = n + 1 THEN <<>>
                      ELSE IF Fits(text, k) THEN args.new \o h[k + OldLen]
                      ELSE <<text[k]>> \o h[k + 1]
    <3>1. k + 1 \in m..(n + 1) => h[k + 1] = g[k + 1]
      BY <2>2
    <3>2. ASSUME k # n + 1, Fits(text, k)
          PROVE  h[k + OldLen] = g[k + OldLen]
      <4>1. k \in 1..n
        BY <1>1, <2>2, <3>2
      <4>2. k + OldLen \in m..(n + 1) /\ k + OldLen # m
        BY <1>1, <2>2, <2>4, <3>2, <4>1
      <4> QED BY <4>2
    <3>3. CASE k = m
      <4>1. k # n + 1 /\ k + 1 \in m..(n + 1)
        BY <1>1, <2>2, <3>3
      <4>2. h[k] = IF Fits(text, k) THEN args.new \o g[k + OldLen]
                   ELSE <<text[k]>> \o g[k + 1]
        BY <3>3
      <4>. HIDE DEF h
      <4> QED BY <3>1, <3>2, <4>1, <4>2
    <3>4. CASE k # m
      <4>1. k \in (m + 1)..(n + 1) /\ h[k] = g[k]
        BY <1>1, <2>2, <3>4
      <4>2. g[k] = IF k = n + 1 THEN <<>>
                   ELSE IF Fits(text, k) THEN args.new \o g[k + OldLen]
                   ELSE <<text[k]>> \o g[k + 1]
        BY <2>3, <4>1
      <4>3. k # n + 1 => k + 1 \in m..(n + 1)
        BY <1>1, <2>2
      <4>. HIDE DEF h
      <4> QED BY <3>1, <3>2, <4>1, <4>2, <4>3
    <3> QED BY <3>3, <3>4
  <2>6. h = [k \in m..(n + 1) |-> h[k]]
    OBVIOUS
  <2>. HIDE DEF h
  <2>7. IsAhead(h, text, m)
    BY <2>5, <2>6 DEF IsAhead, n
  <2> QED BY <2>2, <2>7
<1>. HIDE DEF Good
<1>4. \A j \in 0..n : j \in Good
  BY <1>1, <1>2, <1>3, UpTo
<1>5. n \in Good /\ n + 1 - n = 1
  BY <1>1, <1>4
<1> QED BY <1>5 DEF Good

\* What becomes of the text from each place on: the new word where the old one
\* stands, and the character that is there otherwise.
LEMMA AheadSteps ==
  ASSUME NEW text \in Seq(AllChars), OldLen \in Nat, OldLen >= 1,
         args.new \in Seq(AllChars)
  PROVE  /\ Substituted(text) = Ahead(text, 1)
         /\ Ahead(text, Len(text) + 1) = <<>>
         /\ \A k \in 1..Len(text) :
              /\ Fits(text, k) =>
                   /\ k + OldLen \in (k + 1)..(Len(text) + 1)
                   /\ Ahead(text, k) = args.new \o Ahead(text, k + OldLen)
              /\ ~Fits(text, k) =>
                   Ahead(text, k) = <<text[k]>> \o Ahead(text, k + 1)
         /\ \A k \in 1..(Len(text) + 1) : Ahead(text, k) \in Seq(AllChars)
<1>. DEFINE f == CHOOSE f : IsAhead(f, text, 1)
            n == Len(text)
<1>1. IsAhead(f, text, 1)
  BY AheadExists
<1>2. Substituted(text) = Ahead(text, 1)
  BY DEF Substituted, Ahead, IsAhead
<1>3. \A k : Ahead(text, k) = f[k]
  BY DEF Ahead
<1>. HIDE DEF f
<1>4. n \in Nat
  OBVIOUS
<1>5. f = [k \in 1..(n + 1) |->
             IF k = n + 1 THEN <<>>
             ELSE IF Fits(text, k) THEN args.new \o f[k + OldLen]
             ELSE <<text[k]>> \o f[k + 1]]
  BY <1>1 DEF IsAhead
<1>6. f[n + 1] = <<>>
  <2>1. n + 1 \in 1..(n + 1)
    BY <1>4
  <2> QED BY <1>5, <2>1
<1>7. ASSUME NEW k \in 1..n
      PROVE  /\ Fits(text, k) => /\ k + OldLen \in (k + 1)..(n + 1)
                                 /\ f[k] = args.new \o f[k + OldLen]
             /\ ~Fits(text, k) => f[k] = <<text[k]>> \o f[k + 1]
  <2>1. k \in 1..(n + 1) /\ k # n + 1
    BY <1>4
  <2>2. f[k] = IF Fits(text, k) THEN args.new \o f[k + OldLen]
               ELSE <<text[k]>> \o f[k + 1]
    BY <1>5, <2>1
  <2>3. Fits(text, k) => k + OldLen \in (k + 1)..(n + 1)
    BY <1>4 DEF Fits
  <2> QED BY <2>2, <2>3
<1>8. ASSUME NEW k \in 1..(n + 1) PROVE f[k] \in Seq(AllChars)
  <2>. DEFINE Bad == {j \in 0..n : f[n + 1 - j] \notin Seq(AllChars)}
  <2>1. SUFFICES ASSUME Bad # {} PROVE FALSE
    <3>1. n + 1 - k \in 0..n /\ n + 1 - (n + 1 - k) = k
      BY <1>4
    <3>2. n + 1 - k \notin Bad
      BY <2>1
    <3> QED BY <3>1, <3>2
  <2>2. PICK j \in Bad : \A i \in Bad : j <= i
    <3>1. Bad \subseteq Nat
      BY <1>4
    <3>. HIDE DEF Bad
    <3> QED BY <2>1, <3>1, Smallest
  <2>. DEFINE m == n + 1 - j
  <2>3. j \in 0..n /\ m \in 1..(n + 1) /\ f[m] \notin Seq(AllChars)
    BY <1>4, <2>2
  <2>4. ASSUME NEW i \in (m + 1)..(n + 1) PROVE f[i] \in Seq(AllChars)
    <3>1. n + 1 - i \in 0..n /\ n + 1 - i < j /\ n + 1 - (n + 1 - i) = i
      BY <1>4, <2>3
    <3>2. n + 1 - i \notin Bad
      BY <1>4, <2>2, <2>3, <3>1
    <3> QED BY <3>1, <3>2
  <2>. HIDE DEF m, Bad
  <2>5. m \in 1..n
    <3>1. <<>> \in Seq(AllChars)
      OBVIOUS
    <3>2. m # n + 1
      BY <1>6, <2>3, <3>1, Zenon
    <3> QED BY <1>4, <2>3, <3>2
  <2>6. CASE Fits(text, m)
    <3>1. f[m] = args.new \o f[m + OldLen] /\ f[m + OldLen] \in Seq(AllChars)
      BY <1>7, <2>4, <2>5, <2>6
    <3> QED BY <2>3, <3>1
  <2>7. CASE ~Fits(text, m)
    <3>1. m + 1 \in (m + 1)..(n + 1)
      BY <1>4, <2>5
    <3>2. f[m] = <<text[m]>> \o f[m + 1] /\ f[m + 1] \in Seq(AllChars)
      BY <1>7, <2>4, <2>5, <2>7, <3>1
    <3>3. <<text[m]>> \in Seq(AllChars)
      BY <1>4, <2>5
    <3> QED BY <2>3, <3>2, <3>3
  <2> QED BY <2>6, <2>7
<1> QED BY <1>2, <1>3, <1>6, <1>7, <1>8

\* Where the old word does not stand any more the text stays as it is.
LEMMA AheadCopies ==
  ASSUME NEW text \in Seq(AllChars), OldLen \in Nat, OldLen >= 1,
         args.new \in Seq(AllChars),
         NEW m \in 1..(Len(text) + 1), \A k \in m..Len(text) : ~Fits(text, k)
  PROVE  /\ Len(Ahead(text, m)) = Len(text) + 1 - m
         /\ \A j \in 1..(Len(text) + 1 - m) : Ahead(text, m)[j] = text[m + j - 1]
<1>. DEFINE n == Len(text)
            Copies(k) == /\ Len(Ahead(text, k)) = n + 1 - k
                         /\ \A j \in 1..(n + 1 - k) :
                              Ahead(text, k)[j] = text[(k - 1) + j]
            Good == {i \in Nat : Copies(n + 1 - i)}
<1>1. n \in Nat
  OBVIOUS
<1>2. 0 \in Good
  <2>1. n + 1 - 0 = n + 1 /\ n + 1 - (n + 1) = 0
    BY <1>1
  <2>2. Copies(n + 1)
    <3>1. Ahead(text, n + 1) = <<>>
      BY AheadSteps
    <3> QED BY <2>1, <3>1
  <2> QED BY <2>1, <2>2
<1>3. ASSUME NEW i \in Nat, i < n + 1 - m, i \in Good PROVE i + 1 \in Good
  <2>. DEFINE k == n - i
  <2>1. /\ k \in m..n /\ k \in 1..n /\ n + 1 - i = k + 1 /\ n + 1 - (i + 1) = k
    BY <1>1, <1>3
  <2>. HIDE DEF k
  <2>2. Ahead(text, k) = <<text[k]>> \o Ahead(text, k + 1)
    BY <2>1, AheadSteps
  <2>3. Ahead(text, k + 1) \in Seq(AllChars) /\ <<text[k]>> \in Seq(AllChars)
    <3>1. k + 1 \in 1..(n + 1)
      BY <1>1, <2>1
    <3>2. Ahead(text, k + 1) \in Seq(AllChars)
      BY <3>1, AheadSteps
    <3>3. text[k] \in AllChars
      BY <2>1
    <3> QED BY <3>2, <3>3
  <2>4. Copies(k + 1)
    <3>. HIDE DEF Copies
    <3>1. Copies(n + 1 - i)
      BY <1>3
    <3> QED BY <2>1, <3>1
  <2>5. Len(Ahead(text, k)) = n + 1 - k
    <3>1. Len(Ahead(text, k + 1)) = n + 1 - (k + 1)
      BY <2>4
    <3>2. Len(Ahead(text, k)) = 1 + Len(Ahead(text, k + 1))
      BY <2>2, <2>3
    <3>3. n \in Int /\ k \in Int
      BY <1>1, <2>1
    <3> QED BY <3>1, <3>2, <3>3
  <2>6. ASSUME NEW j \in 1..(n + 1 - k)
        PROVE  Ahead(text, k)[j] = text[(k - 1) + j]
    <3>1. CASE j = 1
      BY <1>1, <2>1, <2>2, <2>3, <3>1
    <3>2. CASE j # 1
      <4>1. j - 1 \in 1..(n + 1 - (k + 1))
        BY <1>1, <2>1, <3>2
      <4>2. Ahead(text, k)[j] = Ahead(text, k + 1)[j - 1]
        BY <1>1, <2>1, <2>2, <2>3, <2>4, <3>2, <4>1
      <4>3. Ahead(text, k + 1)[j - 1] = text[((k + 1) - 1) + (j - 1)]
        BY <2>4, <4>1
      <4>4. ((k + 1) - 1) + (j - 1) = (k - 1) + j
        BY <1>1, <2>1
      <4> QED BY <4>2, <4>3, <4>4
    <3> QED BY <3>1, <3>2
  <2>7. Copies(k)
    BY <2>5, <2>6
  <2>. HIDE DEF Copies
  <2> QED BY <2>1, <2>7
<1>. HIDE DEF Good
<1>4. n + 1 - m \in Nat
  BY <1>1
<1>5. \A i \in 0..(n + 1 - m) : i \in Good
  BY <1>2, <1>3, <1>4, UpTo
<1>6. n + 1 - m \in Good /\ n + 1 - (n + 1 - m) = m
  BY <1>1, <1>4, <1>5
<1>7. Copies(m)
  BY <1>6 DEF Good
<1>8. \A j \in 1..(n + 1 - m) : m + j - 1 = (m - 1) + j
  BY <1>1
<1> QED BY <1>7, <1>8

-----------------------------------------------------------------------------
(* replace_word between two turns of its loop.  It is at the place i of the *)
(* text, and what lies before has become the beginning of the result; or it *)
(* is behind the result, which nothing changes any more.                   *)

Result == Substituted(Collapsed)

At(i) ==
  /\ i \in 1..(len + 1) /\ pos <= i
  /\ Growth > 0 => pos = i /\ buf = Filled
  /\ Len(Result) = (pos - 1) + Len(Ahead(Collapsed, i))
  /\ \A t \in 1..(pos - 1) : Result[t] = buf[t]
  /\ \A t \in 1..Len(Ahead(Collapsed, i)) :
       Result[(pos - 1) + t] = Ahead(Collapsed, i)[t]
  /\ \A t \in 0..(len - i) : buf[pos + t] = Collapsed[i + t]
  /\ buf[pos + (len - i) + 1] = "dot"

Over ==
  /\ Len(Result) <= BufferSz
  /\ \A t \in 1..Len(Result) : buf[t] = Result[t]
  /\ Len(Result) < BufferSz => buf[Len(Result) + 1] = "dot"
  /\ Growth <= 0 => Len(Result) < pos /\ Len(Result) < BufferSz
  /\ Growth > 0 =>
       /\ Len(Result) = len + Growth
       /\ \E k \in 1..len :
            /\ Fits(Collapsed, k) /\ k + NewLen <= pos
            /\ \A p \in (k + NewLen)..Len(Result) :
                 Result[p] = Collapsed[p - Growth]

\* What ReplaceRight is about.
Proper ==
  /\ args.opt = "x" /\ Regular
  /\ Growth <= 0 \/ Cardinality(Occurrences(Collapsed)) <= 1

Replaces ==
  /\ pc = "run" /\ Proper => Over \/ \E i \in 1..(len + 1) : At(i)
  /\ ReplaceRight

LEMMA SameWords ==
  ASSUME args' = args
  PROVE  /\ Kept' = Kept /\ Collapsed' = Collapsed /\ Filled' = Filled
         /\ OldLen' = OldLen /\ NewLen' = NewLen /\ Growth' = Growth
         /\ \A i : Fits(Collapsed, i)' <=> Fits(Collapsed, i)
         /\ \A i : Ahead(Collapsed, i)' = Ahead(Collapsed, i)
         /\ Result' = Result /\ (Proper' <=> Proper)
<1>1. Kept' = Kept
  BY DEF Kept
<1>2. Collapsed' = Collapsed
  BY <1>1 DEF Collapsed
<1>3. Filled' = Filled
  BY <1>2 DEF Filled
<1>4. OldLen' = OldLen /\ NewLen' = NewLen /\ Growth' = Growth
  BY DEF OldLen, NewLen, Growth
<1>5. \A i : Fits(Collapsed, i)' <=> Fits(Collapsed, i)
  BY <1>2, <1>4 DEF Fits
<1>6. \A i : Ahead(Collapsed, i)' = Ahead(Collapsed, i)
  BY <1>2, <1>4 DEF Ahead, IsAhead, Fits
<1>7. Result' = Result
  BY <1>2, <1>4 DEF Result, Substituted, Fits
<1>8. Occurrences(Collapsed)' = Occurrences(Collapsed)
  BY <1>2, <1>5 DEF Occurrences
<1>9. Proper' <=> Proper
  BY <1>4, <1>8 DEF Proper, Regular
<1> QED BY <1>1, <1>2, <1>3, <1>4, <1>5, <1>6, <1>7, <1>9

LEMMA NextAtIs ==
  ASSUME args' = args, len' = len, NEW i
  PROVE  At(i)' <=>
           /\ i \in 1..(len + 1) /\ pos' <= i
           /\ Growth > 0 => pos' = i /\ buf' = Filled
           /\ Len(Result) = (pos' - 1) + Len(Ahead(Collapsed, i))
           /\ \A t \in 1..(pos' - 1) : Result[t] = buf'[t]
           /\ \A t \in 1..Len(Ahead(Collapsed, i)) :
                Result[(pos' - 1) + t] = Ahead(Collapsed, i)[t]
           /\ \A t \in 0..(len - i) : buf'[pos' + t] = Collapsed[i + t]
           /\ buf'[pos' + (len - i) + 1] = "dot"
<1>1. /\ Collapsed' = Collapsed /\ Filled' = Filled /\ Growth' = Growth
      /\ Result' = Result /\ Ahead(Collapsed, i)' = Ahead(Collapsed, i)
  BY SameWords
<1> QED BY <1>1 DEF At

LEMMA NextOverIs ==
  ASSUME args' = args, len' = len
  PROVE  Over' <=>
           /\ Len(Result) <= BufferSz
           /\ \A t \in 1..Len(Result) : buf'[t] = Result[t]
           /\ Len(Result) < BufferSz => buf'[Len(Result) + 1] = "dot"
           /\ Growth <= 0 => Len(Result) < pos' /\ Len(Result) < BufferSz
           /\ Growth > 0 =>
                /\ Len(Result) = len + Growth
                /\ \E k \in 1..len :
                     /\ Fits(Collapsed, k) /\ k + NewLen <= pos'
                     /\ \A p \in (k + NewLen)..Len(Result) :
                          Result[p] = Collapsed[p - Growth]
BY SameWords, Zenon DEF Over

\* What a turn of the loop can rely on.
LEMMA TurnOf ==
  ASSUME Setup, pc = "run", Proper
  PROVE  /\ args \in CommandLines
         /\ OldLen \in Nat /\ OldLen >= 1 /\ NewLen \in Nat
         /\ Growth = NewLen - OldLen
         /\ args.old \in Seq(AllChars) /\ args.new \in Seq(AllChars)
         /\ \A j \in 1..OldLen : args.old[j] # "dot"
         /\ Collapsed \in Seq(AllChars) /\ Len(Collapsed) = len
         /\ len \in Nat /\ len < BufferSz /\ BufferSz \in Nat
         /\ pos \in Nat /\ pos >= 1
         /\ Result = Ahead(Collapsed, 1) /\ Len(Result) \in Nat
         /\ Ahead(Collapsed, len + 1) = <<>>
         /\ \A i \in 1..(len + 1) : Ahead(Collapsed, i) \in Seq(AllChars)
<1>. USE SizeAssumption
<1>1. /\ args \in CommandLines /\ len \in 0..(BufferSz - 1)
      /\ pos \in Nat \ {0} /\ len = Cardinality(Kept)
  BY DEF Setup, TypeOK
<1>2. args.old # <<>> /\ "dot" \notin ToSet(args.old)
  BY DEF Proper, Regular
<1>3. /\ args.old \in Seq(AllChars) /\ args.new \in Seq(AllChars)
      /\ OldLen \in Nat /\ NewLen \in Nat /\ Growth = NewLen - OldLen
  BY <1>1, ArgsType DEF Growth
<1>4. OldLen >= 1
  BY <1>2, <1>3 DEF OldLen
<1>5. \A j \in 1..OldLen : args.old[j] # "dot"
  BY <1>2, <1>3 DEF OldLen, ToSet
<1>6. Collapsed \in Seq(AllChars) /\ Len(Collapsed) = len
  BY <1>1, CollapsedType, CollapsedIs
<1>7. /\ Result = Ahead(Collapsed, 1) /\ Ahead(Collapsed, len + 1) = <<>>
      /\ \A i \in 1..(len + 1) : Ahead(Collapsed, i) \in Seq(AllChars)
  BY <1>3, <1>4, <1>6, AheadSteps DEF Result
<1>8. Len(Result) \in Nat
  <2>1. 1 \in 1..(len + 1)
    BY <1>1
  <2> QED BY <1>7, <2>1
<1> QED BY <1>1, <1>3, <1>4, <1>5, <1>6, <1>7, <1>8

\* The old word stands at a place when all its characters do.
LEMMA FitsIs ==
  ASSUME NEW text \in Seq(AllChars), NEW k \in 1..Len(text),
         args.old \in Seq(AllChars), OldLen \in Nat, OldLen >= 1
  PROVE  Fits(text, k) <=>
           /\ k + OldLen <= Len(text) + 1
           /\ \A j \in 1..OldLen : text[(k - 1) + j] = args.old[j]
<1>1. k + OldLen - 1 <= Len(text) <=> k + OldLen <= Len(text) + 1
  OBVIOUS
<1>2. SUFFICES ASSUME k + OldLen <= Len(text) + 1
      PROVE  SubSeq(text, k, k + OldLen - 1) = args.old <=>
               \A j \in 1..OldLen : text[(k - 1) + j] = args.old[j]
  BY <1>1 DEF Fits
<1>. DEFINE s == SubSeq(text, k, k + OldLen - 1)
<1>3. s \in Seq(AllChars) /\ Len(s) = OldLen
  BY <1>2
<1>4. \A j \in 1..OldLen : s[j] = text[(k - 1) + j]
  BY <1>2
<1>. HIDE DEF s
<1>5. ASSUME \A j \in 1..OldLen : s[j] = args.old[j] PROVE s = args.old
  BY <1>3, <1>5, SeqEqual DEF OldLen
<1> QED BY <1>4, <1>5 DEF s

\* A match within the buffer.
LEMMA MatchIs ==
  ASSUME Setup, pc = "run", Proper, Rest - 1 <= BufferSz
  PROVE  Matches <=> \A j \in 1..OldLen : buf[(pos - 1) + j] = args.old[j]
<1>1. /\ OldLen \in Nat /\ pos \in Nat /\ BufferSz \in Nat
      /\ Rest = pos + OldLen
  BY TurnOf DEF Rest
<1>2. ASSUME NEW j \in 1..OldLen
      PROVE  pos + j - 1 = (pos - 1) + j /\ pos + j - 1 <= BufferSz
  BY <1>1
<1> QED BY <1>2 DEF Matches, OldLen

\* Where the text still to come stands in the buffer, the old word matches
\* exactly where it stands in the text.
LEMMA MatchFits ==
  ASSUME Setup, pc = "run", Proper, NEW i \in 1..len, At(i)
  PROVE  /\ Fits(Collapsed, i) => Matches
         /\ Matches /\ Rest - 1 <= BufferSz => Fits(Collapsed, i)
<1>1. /\ OldLen \in Nat /\ OldLen >= 1 /\ args.old \in Seq(AllChars)
      /\ \A j \in 1..OldLen : args.old[j] # "dot"
      /\ Collapsed \in Seq(AllChars) /\ Len(Collapsed) = len
      /\ len \in Nat /\ len < BufferSz /\ BufferSz \in Nat
      /\ pos \in Nat /\ pos >= 1 /\ Rest = pos + OldLen
  BY TurnOf DEF Rest
<1>2. /\ pos <= i /\ \A t \in 0..(len - i) : buf[pos + t] = Collapsed[i + t]
      /\ buf[pos + (len - i) + 1] = "dot"
  BY DEF At
<1>3. Fits(Collapsed, i) <=>
        /\ i + OldLen <= len + 1
        /\ \A j \in 1..OldLen : Collapsed[(i - 1) + j] = args.old[j]
  BY <1>1, FitsIs
<1>4. ASSUME NEW j \in 1..OldLen, i + j <= len + 1
      PROVE  buf[(pos - 1) + j] = Collapsed[(i - 1) + j]
  <2>1. j - 1 \in 0..(len - i)
    BY <1>1, <1>4
  <2>2. buf[pos + (j - 1)] = Collapsed[i + (j - 1)]
    BY <1>2, <2>1
  <2>3. pos + (j - 1) = (pos - 1) + j /\ i + (j - 1) = (i - 1) + j
    BY <1>1
  <2> QED BY <2>2, <2>3
<1>5. ASSUME Fits(Collapsed, i) PROVE Matches
  <2>1. Rest - 1 <= BufferSz
    BY <1>1, <1>2, <1>3, <1>5
  <2>2. \A j \in 1..OldLen : i + j <= len + 1
    BY <1>1, <1>3, <1>5
  <2> QED BY <1>3, <1>4, <1>5, <2>1, <2>2, MatchIs
<1>6. ASSUME Matches, Rest - 1 <= BufferSz PROVE Fits(Collapsed, i)
  <2>1. \A j \in 1..OldLen : buf[(pos - 1) + j] = args.old[j]
    BY <1>6, MatchIs
  <2>2. i + OldLen <= len + 1
    <3>1. SUFFICES ASSUME i + OldLen > len + 1 PROVE FALSE
      BY <1>1
    <3>. DEFINE j == (len - i) + 2
    <3>2. j \in 1..OldLen /\ (pos - 1) + j = pos + (len - i) + 1
      <4>1. OldLen \in Nat /\ len \in Nat /\ pos \in Nat
        BY <1>1
      <4> QED BY <3>1, <4>1
    <3>3. buf[(pos - 1) + j] = args.old[j] /\ args.old[j] # "dot"
      BY <1>1, <2>1, <3>2
    <3>. HIDE DEF j
    <3> QED BY <1>2, <3>2, <3>3
  <2>3. \A j \in 1..OldLen : i + j <= len + 1
    BY <1>1, <2>2
  <2> QED BY <1>3, <1>4, <2>1, <2>2, <2>3
<1> QED BY <1>5, <1>6

\* A character that does not begin the old word stays.
LEMMA SkipAt ==
  ASSUME Setup, pc = "run", Proper, NEW i \in 1..len, At(i), Skip
  PROVE  At(i + 1)'
<1>1. /\ ~Matches /\ pos' = pos + 1 /\ args' = args /\ len' = len /\ buf' = buf
  BY DEF Skip
<1>2. /\ OldLen \in Nat /\ OldLen >= 1 /\ args.new \in Seq(AllChars)
      /\ Collapsed \in Seq(AllChars) /\ Len(Collapsed) = len
      /\ len \in Nat /\ pos \in Nat /\ pos >= 1
      /\ \A j \in 1..(len + 1) : Ahead(Collapsed, j) \in Seq(AllChars)
  BY TurnOf
<1>3. /\ pos <= i
      /\ Growth > 0 => pos = i /\ buf = Filled
  BY DEF At
<1>4. /\ Len(Result) = (pos - 1) + Len(Ahead(Collapsed, i))
      /\ \A t \in 1..(pos - 1) : Result[t] = buf[t]
      /\ \A t \in 1..Len(Ahead(Collapsed, i)) :
           Result[(pos - 1) + t] = Ahead(Collapsed, i)[t]
      /\ \A t \in 0..(len - i) : buf[pos + t] = Collapsed[i + t]
      /\ buf[pos + (len - i) + 1] = "dot"
  BY DEF At
<1>. DEFINE T == Ahead(Collapsed, i + 1)
<1>5. Ahead(Collapsed, i) = <<Collapsed[i]>> \o T
  <2>1. ~Fits(Collapsed, i)
    BY <1>1, MatchFits
  <2> QED BY <1>2, <2>1, AheadSteps
<1>6. T \in Seq(AllChars) /\ Collapsed[i] \in AllChars /\ i + 1 \in 1..(len + 1)
  BY <1>2
<1>. HIDE DEF T
<1>7. /\ Len(Ahead(Collapsed, i)) = Len(T) + 1 /\ Len(T) \in Nat
      /\ Ahead(Collapsed, i)[1] = Collapsed[i]
      /\ \A t \in 1..Len(T) : Ahead(Collapsed, i)[t + 1] = T[t]
  BY <1>5, <1>6
<1>8. Len(Result) = (pos' - 1) + Len(T)
  BY <1>1, <1>2, <1>4, <1>7
<1>9. ASSUME NEW t \in 1..(pos' - 1) PROVE Result[t] = buf'[t]
  <2>1. CASE t = pos
    <3>1. 1 \in 1..Len(Ahead(Collapsed, i)) /\ (pos - 1) + 1 = pos
          /\ 0 \in 0..(len - i) /\ pos + 0 = pos /\ i + 0 = i
      BY <1>2, <1>7
    <3>2. Result[pos] = Collapsed[i] /\ buf[pos] = Collapsed[i]
      BY <1>4, <1>7, <3>1
    <3> QED BY <1>1, <2>1, <3>2
  <2>2. CASE t # pos
    <3>1. t \in 1..(pos - 1)
      BY <1>1, <1>2, <2>2
    <3> QED BY <1>1, <1>4, <3>1
  <2> QED BY <2>1, <2>2
<1>10. ASSUME NEW t \in 1..Len(T) PROVE Result[(pos' - 1) + t] = T[t]
  <2>1. t + 1 \in 1..Len(Ahead(Collapsed, i))
        /\ (pos - 1) + (t + 1) = (pos' - 1) + t
    BY <1>1, <1>2, <1>7
  <2> QED BY <1>4, <1>7, <2>1
<1>11. ASSUME NEW t \in 0..(len - (i + 1))
       PROVE  buf'[pos' + t] = Collapsed[(i + 1) + t]
  <2>1. t + 1 \in 0..(len - i) /\ pos' + t = pos + (t + 1)
        /\ (i + 1) + t = i + (t + 1)
    BY <1>1, <1>2
  <2> QED BY <1>1, <1>4, <2>1
<1>12. buf'[pos' + (len - (i + 1)) + 1] = "dot"
  <2>1. pos' + (len - (i + 1)) + 1 = pos + (len - i) + 1
    BY <1>1, <1>2
  <2> QED BY <1>1, <1>4, <2>1
<1>13. pos' <= i + 1 /\ (Growth > 0 => pos' = i + 1 /\ buf' = Filled)
  BY <1>1, <1>2, <1>3
<1> QED BY <1>1, <1>6, <1>8, <1>9, <1>10, <1>11, <1>12, <1>13, NextAtIs DEF T

\* What a replacement leaves at each place of the buffer.
LEMMA ShiftIs ==
  ASSUME Setup, pc = "run", Proper, Replace
  PROVE  LET last == IF Growth > 0 THEN len ELSE len + 1 IN
         \A k \in 1..BufferSz :
           /\ k < pos => buf'[k] = buf[k]
           /\ k >= pos /\ k < pos + NewLen => buf'[k] = args.new[(k - pos) + 1]
           /\ k >= pos + NewLen /\ k - Growth <= last => buf'[k] = buf[k - Growth]
           /\ k >= pos + NewLen /\ k - Growth > last => buf'[k] = buf[k]
<1>. DEFINE last == IF Growth > 0 THEN len ELSE len + 1
<1>1. /\ OldLen \in Nat /\ NewLen \in Nat /\ Growth = NewLen - OldLen
      /\ len \in Nat /\ BufferSz \in Nat /\ pos \in Nat /\ pos >= 1
      /\ Rest = pos + OldLen
  BY TurnOf DEF Rest
<1>2. last \in Nat
  BY <1>1
<1>3. buf' = [k \in 1..BufferSz |->
         IF k \in pos..(pos + NewLen - 1) THEN args.new[k - pos + 1]
         ELSE IF Growth # 0 /\ k - Growth \in Rest..last THEN buf[k - Growth]
         ELSE buf[k]]
  BY DEF Replace
<1>. HIDE DEF last
<1>4. ASSUME NEW k \in 1..BufferSz
      PROVE  /\ k < pos => buf'[k] = buf[k]
             /\ k >= pos /\ k < pos + NewLen => buf'[k] = args.new[(k - pos) + 1]
             /\ k >= pos + NewLen /\ k - Growth <= last =>
                  buf'[k] = buf[k - Growth]
             /\ k >= pos + NewLen /\ k - Growth > last => buf'[k] = buf[k]
  <2>1. buf'[k] =
          IF k \in pos..(pos + NewLen - 1) THEN args.new[k - pos + 1]
          ELSE IF Growth # 0 /\ k - Growth \in Rest..last THEN buf[k - Growth]
          ELSE buf[k]
    BY <1>3
  <2>2. /\ k \in pos..(pos + NewLen - 1) <=> k >= pos /\ k < pos + NewLen
        /\ k - Growth \in Rest..last <=>
             k >= pos + NewLen /\ k - Growth <= last
        /\ Growth = 0 => k - Growth = k
        /\ k - pos + 1 = (k - pos) + 1
    BY <1>1, <1>2
  <2>3. ~(k < pos /\ k >= pos) /\ ~(k < pos + NewLen /\ k >= pos + NewLen)
        /\ ~(k < pos /\ k >= pos + NewLen)
        /\ ~(k - Growth <= last /\ k - Growth > last)
    BY <1>1, <1>2
  <2> QED BY <2>1, <2>2, <2>3
<1> QED BY <1>4 DEF last

\* The result, where the old word stands in the text.
LEMMA ReplacedAhead ==
  ASSUME Setup, pc = "run", Proper, NEW i \in 1..len, Fits(Collapsed, i)
  PROVE  /\ i + OldLen \in (i + 1)..(len + 1)
         /\ Ahead(Collapsed, i + OldLen) \in Seq(AllChars)
         /\ Len(Ahead(Collapsed, i)) = NewLen + Len(Ahead(Collapsed, i + OldLen))
         /\ \A t \in 1..NewLen : Ahead(Collapsed, i)[t] = args.new[t]
         /\ \A t \in 1..Len(Ahead(Collapsed, i + OldLen)) :
              Ahead(Collapsed, i)[NewLen + t] = Ahead(Collapsed, i + OldLen)[t]
<1>1. /\ OldLen \in Nat /\ OldLen >= 1 /\ args.new \in Seq(AllChars)
      /\ NewLen \in Nat /\ Collapsed \in Seq(AllChars) /\ Len(Collapsed) = len
      /\ len \in Nat
      /\ \A j \in 1..(len + 1) : Ahead(Collapsed, j) \in Seq(AllChars)
  BY TurnOf
<1>. DEFINE T == Ahead(Collapsed, i + OldLen)
<1>2. i + OldLen \in (i + 1)..(len + 1) /\ Ahead(Collapsed, i) = args.new \o T
  BY <1>1, AheadSteps
<1>3. T \in Seq(AllChars)
  BY <1>1, <1>2
<1>. HIDE DEF T
<1>4. /\ Len(args.new \o T) = NewLen + Len(T)
      /\ \A t \in 1..NewLen : (args.new \o T)[t] = args.new[t]
      /\ \A t \in 1..Len(T) : (args.new \o T)[NewLen + t] = T[t]
  BY <1>1, <1>3 DEF NewLen
<1> QED BY <1>2, <1>3, <1>4 DEF T

\* A new word that is not longer, and the text behind it drawn up to it.
LEMMA ShrinkAt ==
  ASSUME Setup, pc = "run", Proper, Growth <= 0,
         NEW i \in 1..len, At(i), Replace
  PROVE  \E h \in 1..(len + 1) : At(h)'
<1>1. /\ Matches /\ Rest - 1 <= BufferSz /\ pos + NewLen - 1 <= BufferSz
      /\ pos' = pos + NewLen /\ args' = args /\ len' = len
  BY DEF Replace, Replacing
<1>2. /\ OldLen \in Nat /\ OldLen >= 1 /\ NewLen \in Nat
      /\ Growth = NewLen - OldLen
      /\ len \in Nat /\ len < BufferSz /\ BufferSz \in Nat
      /\ pos \in Nat /\ pos >= 1
  BY TurnOf
<1>3. pos <= i
  BY DEF At
<1>4. /\ Len(Result) = (pos - 1) + Len(Ahead(Collapsed, i))
      /\ \A t \in 1..(pos - 1) : Result[t] = buf[t]
      /\ \A t \in 1..Len(Ahead(Collapsed, i)) :
           Result[(pos - 1) + t] = Ahead(Collapsed, i)[t]
      /\ \A t \in 0..(len - i) : buf[pos + t] = Collapsed[i + t]
      /\ buf[pos + (len - i) + 1] = "dot"
  BY DEF At
<1>5. Fits(Collapsed, i)
  BY <1>1, MatchFits
<1>. PICK h : h = i + OldLen
  OBVIOUS
<1>. DEFINE T == Ahead(Collapsed, h)
<1>6. /\ h = i + OldLen /\ h \in (i + 1)..(len + 1) /\ T \in Seq(AllChars)
      /\ Len(Ahead(Collapsed, i)) = NewLen + Len(T)
      /\ \A t \in 1..NewLen : Ahead(Collapsed, i)[t] = args.new[t]
      /\ \A t \in 1..Len(T) : Ahead(Collapsed, i)[NewLen + t] = T[t]
  BY <1>5, ReplacedAhead
<1>. HIDE DEF T
<1>7. Len(T) \in Nat
  BY <1>6
<1>8. \A k \in 1..BufferSz :
        /\ k < pos => buf'[k] = buf[k]
        /\ k >= pos /\ k < pos + NewLen => buf'[k] = args.new[(k - pos) + 1]
        /\ k >= pos + NewLen /\ k - Growth <= len + 1 => buf'[k] = buf[k - Growth]
  <2>1. ~(Growth > 0)
    BY <1>2
  <2> QED BY <2>1, ShiftIs
<1>9. Len(Result) = (pos' - 1) + Len(T)
  <2>1. /\ Len(Result) = (pos - 1) + Len(Ahead(Collapsed, i))
        /\ Len(Ahead(Collapsed, i)) = NewLen + Len(T) /\ pos' = pos + NewLen
    BY <1>1, <1>4, <1>6
  <2> QED BY <1>2, <1>7, <2>1
<1>10. ASSUME NEW t \in 1..(pos' - 1) PROVE Result[t] = buf'[t]
  <2>1. t \in 1..BufferSz
    BY <1>1, <1>2
  <2>2. CASE t < pos
    <3>1. t \in 1..(pos - 1)
      BY <1>2, <2>1, <2>2
    <3> QED BY <1>4, <1>8, <2>1, <2>2, <3>1
  <2>3. CASE t >= pos
    <3>1. t < pos + NewLen /\ (t - pos) + 1 \in 1..NewLen
          /\ (pos - 1) + ((t - pos) + 1) = t
          /\ (t - pos) + 1 \in 1..Len(Ahead(Collapsed, i))
      BY <1>1, <1>2, <1>6, <1>7, <2>1, <2>3
    <3>2. Result[t] = args.new[(t - pos) + 1]
      BY <1>4, <1>6, <3>1
    <3> QED BY <1>8, <2>1, <2>3, <3>1, <3>2
  <2> QED BY <1>2, <2>1, <2>2, <2>3
<1>11. ASSUME NEW t \in 1..Len(T) PROVE Result[(pos' - 1) + t] = T[t]
  <2>1. NewLen + t \in 1..Len(Ahead(Collapsed, i))
        /\ (pos - 1) + (NewLen + t) = (pos' - 1) + t
    BY <1>1, <1>2, <1>6, <1>7
  <2> QED BY <1>4, <1>6, <2>1
<1>12. ASSUME NEW t \in 0..(len - h) PROVE buf'[pos' + t] = Collapsed[h + t]
  <2>1. /\ pos' + t \in 1..BufferSz /\ pos' + t >= pos + NewLen
        /\ (pos' + t) - Growth <= len + 1
    BY <1>1, <1>2, <1>3, <1>6
  <2>2. buf'[pos' + t] = buf[(pos' + t) - Growth]
    BY <1>8, <2>1
  <2>3. /\ OldLen + t \in 0..(len - i) /\ (pos' + t) - Growth = pos + (OldLen + t)
        /\ h + t = i + (OldLen + t)
    BY <1>1, <1>2, <1>6
  <2> QED BY <1>4, <2>2, <2>3
<1>13. buf'[pos' + (len - h) + 1] = "dot"
  <2>. DEFINE k == pos' + (len - h) + 1
  <2>1. /\ k = (pos + NewLen) + (len - h) + 1 /\ h = i + OldLen
        /\ h \in Nat /\ h <= len + 1 /\ i \in Nat
    BY <1>1, <1>2, <1>6
  <2>. HIDE DEF k
  <2>2. k - Growth = pos + (len - i) + 1
    BY <1>2, <2>1
  <2>3. k \in 1..BufferSz /\ k >= pos + NewLen /\ k - Growth <= len + 1
    BY <1>2, <1>3, <2>1, <2>2
  <2>4. buf'[k] = buf[k - Growth]
    BY <1>8, <2>3
  <2> QED BY <1>4, <2>2, <2>4 DEF k
<1>14. pos' <= h /\ ~(Growth > 0) /\ h \in 1..(len + 1)
  BY <1>1, <1>2, <1>3, <1>6
<1>15. At(h)'
  <2>1. Growth > 0 => pos' = h /\ buf' = Filled
    BY <1>14
  <2> QED BY <1>1, <1>9, <1>10, <1>11, <1>12, <1>13, <1>14, <2>1, NextAtIs DEF T
<1> QED BY <1>14, <1>15

\* A longer word is only followed where the old one stands once.
LEMMA OnlyOne ==
  ASSUME Setup, pc = "run", Proper, Growth > 0,
         NEW i \in 1..len, Fits(Collapsed, i),
         NEW k \in 1..len, Fits(Collapsed, k)
  PROVE  k = i
<1>. DEFINE S == Occurrences(Collapsed)
<1>1. DOMAIN Collapsed = 1..len /\ len \in Nat
  BY TurnOf
<1>2. i \in S /\ k \in S /\ S \subseteq 1..len
  BY <1>1 DEF Occurrences
<1>3. Cardinality(S) <= 1
  <2>1. Growth \in Int
    <3>1. OldLen \in Nat /\ NewLen \in Nat /\ Growth = NewLen - OldLen
      BY TurnOf
    <3> QED BY <3>1
  <2> QED BY <2>1 DEF Proper
<1>. HIDE DEF S
<1>4. IsFiniteSet(S)
  <2>1. IsFiniteSet(1..len)
    BY <1>1, FS_Interval
  <2> QED BY <1>2, <2>1, FS_Subset
<1>5. SUFFICES ASSUME k # i PROVE FALSE
  OBVIOUS
<1>6. Cardinality({i} \cup {k}) = 2
  <2>1. IsFiniteSet({i}) /\ Cardinality({i}) = 1
    BY FS_Singleton
  <2>2. k \notin {i}
    BY <1>5
  <2>3. Cardinality({i} \cup {k}) = Cardinality({i}) + 1
    BY <2>1, <2>2, FS_AddElement
  <2> QED BY <2>1, <2>3
<1>7. {i} \cup {k} \subseteq S
  BY <1>2
<1>8. Cardinality({i} \cup {k}) <= Cardinality(S) /\ Cardinality(S) \in Nat
  BY <1>4, <1>7, FS_Subset, FS_CardinalityType
<1> QED BY <1>3, <1>6, <1>8

\* A new word that is longer, for the only old one.
LEMMA GrowOver ==
  ASSUME Setup, pc = "run", Proper, Growth > 0,
         NEW i \in 1..len, At(i), Replace
  PROVE  Over'
<1>1. /\ Matches /\ Rest - 1 <= BufferSz /\ pos + NewLen - 1 <= BufferSz
      /\ pos' = pos + NewLen /\ args' = args /\ len' = len
      /\ len + Growth <= BufferSz
  BY DEF Replace, Replacing
<1>2. /\ OldLen \in Nat /\ OldLen >= 1 /\ NewLen \in Nat
      /\ Growth = NewLen - OldLen
      /\ len \in Nat /\ len < BufferSz /\ BufferSz \in Nat
      /\ pos \in Nat /\ pos >= 1
      /\ Collapsed \in Seq(AllChars) /\ Len(Collapsed) = len
      /\ args.new \in Seq(AllChars) /\ args \in CommandLines
  BY TurnOf
<1>3. pos = i /\ buf = Filled
  BY DEF At
<1>4. /\ Len(Result) = (pos - 1) + Len(Ahead(Collapsed, i))
      /\ \A t \in 1..(pos - 1) : Result[t] = buf[t]
      /\ \A t \in 1..Len(Ahead(Collapsed, i)) :
           Result[(pos - 1) + t] = Ahead(Collapsed, i)[t]
  BY DEF At
<1>5. Fits(Collapsed, i)
  BY <1>1, MatchFits
<1>6. \A k \in 1..len : Fits(Collapsed, k) => k = i
  BY <1>5, OnlyOne
<1>. DEFINE T == Ahead(Collapsed, i + OldLen)
            h == i + OldLen
<1>7. /\ h \in (i + 1)..(len + 1) /\ T \in Seq(AllChars)
      /\ Len(Ahead(Collapsed, i)) = NewLen + Len(T)
      /\ \A t \in 1..NewLen : Ahead(Collapsed, i)[t] = args.new[t]
      /\ \A t \in 1..Len(T) : Ahead(Collapsed, i)[NewLen + t] = T[t]
  BY <1>5, ReplacedAhead
<1>8. /\ Len(T) = len + 1 - h
      /\ \A t \in 1..(len + 1 - h) : T[t] = Collapsed[h + t - 1]
  <2>1. h \in 1..(Len(Collapsed) + 1)
    BY <1>2, <1>7
  <2>2. \A k \in h..Len(Collapsed) : ~Fits(Collapsed, k)
    BY <1>2, <1>6, <1>7
  <2>. HIDE DEF h
  <2>3. /\ Len(Ahead(Collapsed, h)) = Len(Collapsed) + 1 - h
        /\ \A t \in 1..(Len(Collapsed) + 1 - h) :
             Ahead(Collapsed, h)[t] = Collapsed[h + t - 1]
    BY <1>2, <2>1, <2>2, AheadCopies
  <2> QED BY <1>2, <2>3 DEF h
<1>. HIDE DEF T
<1>9. Len(Result) = len + Growth /\ pos + NewLen = h + Growth
  BY <1>2, <1>3, <1>4, <1>7, <1>8
<1>10. \A k \in 1..BufferSz :
        /\ k < pos => buf'[k] = buf[k]
        /\ k >= pos /\ k < pos + NewLen => buf'[k] = args.new[(k - pos) + 1]
        /\ k >= pos + NewLen /\ k - Growth <= len => buf'[k] = buf[k - Growth]
        /\ k >= pos + NewLen /\ k - Growth > len => buf'[k] = buf[k]
  BY ShiftIs
<1>11. ASSUME NEW p \in (pos + NewLen)..Len(Result)
       PROVE  Result[p] = Collapsed[p - Growth] /\ p - Growth \in h..len
  <2>. DEFINE t == (p - (pos + NewLen)) + 1
  <2>1. /\ t \in 1..Len(T) /\ NewLen + t \in 1..Len(Ahead(Collapsed, i))
        /\ (pos - 1) + (NewLen + t) = p /\ h + t - 1 = p - Growth
        /\ p - Growth \in h..len
    BY <1>2, <1>7, <1>8, <1>9
  <2>2. Result[p] = T[t]
    BY <1>4, <1>7, <2>1
  <2> QED BY <1>8, <2>1, <2>2
<1>12. \A k \in 1..BufferSz :
         Filled[k] = IF k <= len THEN Collapsed[k] ELSE "dot"
  <2>1. DOMAIN Collapsed = 1..len
    BY <1>2
  <2> QED BY <1>2, <2>1 DEF Filled
<1>13. ASSUME NEW t \in 1..Len(Result) PROVE buf'[t] = Result[t]
  <2>1. t \in 1..BufferSz
    BY <1>1, <1>2, <1>9
  <2>2. CASE t < pos
    <3>1. t \in 1..(pos - 1)
      BY <1>2, <2>1, <2>2
    <3> QED BY <1>4, <1>10, <2>1, <2>2, <3>1
  <2>3. CASE t >= pos /\ t < pos + NewLen
    <3>1. /\ (t - pos) + 1 \in 1..NewLen /\ (pos - 1) + ((t - pos) + 1) = t
          /\ (t - pos) + 1 \in 1..Len(Ahead(Collapsed, i))
      BY <1>2, <1>7, <2>1, <2>3
    <3>2. Result[t] = args.new[(t - pos) + 1]
      BY <1>4, <1>7, <3>1
    <3> QED BY <1>10, <2>1, <2>3, <3>2
  <2>4. CASE t >= pos + NewLen
    <3>1. t \in (pos + NewLen)..Len(Result)
      BY <1>2, <1>9, <2>4
    <3>2. Result[t] = Collapsed[t - Growth] /\ t - Growth \in h..len
      BY <1>11, <3>1
    <3>3. t - Growth \in 1..BufferSz /\ t - Growth <= len
      BY <1>2, <1>7, <3>2
    <3>4. buf'[t] = buf[t - Growth]
      BY <1>10, <2>1, <2>4, <3>3
    <3> QED BY <1>3, <1>12, <3>2, <3>3, <3>4
  <2> QED BY <1>2, <2>1, <2>2, <2>3, <2>4
<1>14. ASSUME Len(Result) < BufferSz PROVE buf'[Len(Result) + 1] = "dot"
  <2>. DEFINE k == Len(Result) + 1
  <2>1. /\ k = (len + Growth) + 1 /\ pos + NewLen = h + Growth
        /\ h \in Nat /\ h <= len + 1 /\ k <= BufferSz
    BY <1>2, <1>7, <1>9, <1>14
  <2>2. /\ k \in 1..BufferSz /\ k >= pos + NewLen /\ k - Growth > len /\ k > len
    <3>. HIDE DEF k, h
    <3> QED BY <1>2, <2>1
  <2> QED BY <1>2, <1>3, <1>10, <1>12, <2>2
<1>15. /\ Fits(Collapsed, i) /\ i + NewLen <= pos'
       /\ \A p \in (i + NewLen)..Len(Result) : Result[p] = Collapsed[p - Growth]
  BY <1>1, <1>2, <1>3, <1>5, <1>11
<1>16. Len(Result) <= BufferSz /\ ~(Growth <= 0)
  BY <1>1, <1>2, <1>9
<1> QED BY <1>1, <1>9, <1>13, <1>14, <1>15, <1>16, NextOverIs

\* At the end of the text, after words that were not longer, it is behind the
\* result.
LEMMA EndOver ==
  ASSUME Setup, pc = "run", Proper, Growth <= 0, At(len + 1)
  PROVE  Over
<1>1. /\ Growth \in Int /\ len \in Nat /\ len < BufferSz /\ BufferSz \in Nat
      /\ pos \in Nat /\ pos >= 1 /\ Ahead(Collapsed, len + 1) = <<>>
  <2>1. OldLen \in Nat /\ NewLen \in Nat /\ Growth = NewLen - OldLen
    BY TurnOf
  <2> QED BY <2>1, TurnOf
<1>2. /\ pos <= len + 1
      /\ Len(Result) = (pos - 1) + Len(Ahead(Collapsed, len + 1))
      /\ \A t \in 1..(pos - 1) : Result[t] = buf[t]
      /\ buf[pos + (len - (len + 1)) + 1] = "dot"
  BY DEF At
<1>3. Len(Result) = pos - 1 /\ pos + (len - (len + 1)) + 1 = pos
      /\ Len(Result) + 1 = pos
  BY <1>1, <1>2
<1>4. ~(Growth > 0) /\ Len(Result) < pos /\ Len(Result) < BufferSz
      /\ Len(Result) <= BufferSz
  BY <1>1, <1>2, <1>3
<1> QED BY <1>2, <1>3, <1>4 DEF Over

\* Behind the result it only moves on, or replaces what is behind its dot.
LEMMA StaysOver ==
  ASSUME Setup, pc = "run", Proper, Over, Skip \/ Replace
  PROVE  Over'
<1>1. /\ OldLen \in Nat /\ OldLen >= 1 /\ NewLen \in Nat
      /\ Growth = NewLen - OldLen
      /\ len \in Nat /\ len < BufferSz /\ BufferSz \in Nat
      /\ pos \in Nat /\ pos >= 1 /\ Len(Result) \in Nat
      /\ Collapsed \in Seq(AllChars) /\ Len(Collapsed) = len
      /\ args.old \in Seq(AllChars)
      /\ \A j \in 1..OldLen : args.old[j] # "dot"
  BY TurnOf
<1>2. args' = args /\ len' = len /\ pos <= len
  BY DEF Skip, Replace, Replacing, Turning
<1>3. /\ Len(Result) <= BufferSz
      /\ \A t \in 1..Len(Result) : buf[t] = Result[t]
      /\ Len(Result) < BufferSz => buf[Len(Result) + 1] = "dot"
  BY DEF Over
<1>4. Growth <= 0 => Len(Result) < pos /\ Len(Result) < BufferSz
  BY DEF Over
<1>5. CASE Skip
  <2>1. buf' = buf /\ pos' = pos + 1
    BY <1>5 DEF Skip
  <2>2. Growth <= 0 => Len(Result) < pos' /\ Len(Result) < BufferSz
    BY <1>1, <1>4, <2>1
  <2>3. ASSUME Growth > 0
        PROVE  /\ Len(Result) = len + Growth
               /\ \E k \in 1..len :
                    /\ Fits(Collapsed, k) /\ k + NewLen <= pos'
                    /\ \A p \in (k + NewLen)..Len(Result) :
                         Result[p] = Collapsed[p - Growth]
    <3>1. /\ Len(Result) = len + Growth
          /\ \E k \in 1..len :
               /\ Fits(Collapsed, k) /\ k + NewLen <= pos
               /\ \A p \in (k + NewLen)..Len(Result) :
                    Result[p] = Collapsed[p - Growth]
      BY <2>3 DEF Over
    <3>2. PICK k \in 1..len :
            /\ Fits(Collapsed, k) /\ k + NewLen <= pos
            /\ \A p \in (k + NewLen)..Len(Result) :
                 Result[p] = Collapsed[p - Growth]
      BY <3>1
    <3>3. k + NewLen <= pos'
      BY <1>1, <2>1, <3>2
    <3> QED BY <3>1, <3>2, <3>3
  <2> QED BY <1>2, <1>3, <2>1, <2>2, <2>3, NextOverIs
<1>6. CASE Replace
  <2>1. /\ Matches /\ Rest - 1 <= BufferSz /\ pos' = pos + NewLen
        /\ Rest = pos + OldLen
    BY <1>6 DEF Replace, Replacing, Rest
  <2>2. \A j \in 1..OldLen : buf[(pos - 1) + j] = args.old[j]
    BY <2>1, MatchIs
  <2>3. CASE Growth <= 0
    <3>1. Len(Result) < pos /\ Len(Result) < BufferSz
      BY <1>4, <2>3
    <3>2. Len(Result) + 1 # pos
      <4>1. 1 \in 1..OldLen /\ (pos - 1) + 1 = pos
        BY <1>1
      <4>2. buf[pos] # "dot"
        BY <1>1, <2>2, <4>1
      <4> QED BY <1>3, <3>1, <4>2
    <3>3. Len(Result) + 1 < pos
      BY <1>1, <3>1, <3>2
    <3>4. \A k \in 1..BufferSz : k < pos => buf'[k] = buf[k]
      BY <1>6, ShiftIs
    <3>5. \A k \in 1..(Len(Result) + 1) : buf'[k] = buf[k]
      BY <1>1, <3>1, <3>3, <3>4
    <3>6. /\ \A t \in 1..Len(Result) : buf'[t] = Result[t]
          /\ buf'[Len(Result) + 1] = "dot"
      BY <1>1, <1>3, <3>1, <3>5
    <3>7. Len(Result) < pos' /\ ~(Growth > 0)
      BY <1>1, <2>1, <2>3, <3>1
    <3> QED BY <1>2, <1>3, <3>1, <3>6, <3>7, NextOverIs
  <2>4. CASE Growth > 0
    <3>1. /\ Len(Result) = len + Growth
          /\ \E k \in 1..len :
               /\ Fits(Collapsed, k) /\ k + NewLen <= pos
               /\ \A p \in (k + NewLen)..Len(Result) :
                    Result[p] = Collapsed[p - Growth]
      BY <2>4 DEF Over
    <3>2. PICK k \in 1..len :
            /\ Fits(Collapsed, k) /\ k + NewLen <= pos
            /\ \A p \in (k + NewLen)..Len(Result) :
                 Result[p] = Collapsed[p - Growth]
      BY <3>1
    <3>3. Rest - 1 <= Len(Result)
      <4>1. SUFFICES ASSUME Rest - 1 > Len(Result) PROVE FALSE
        BY <1>1, <2>1
      <4>. DEFINE j == (Len(Result) - pos) + 2
      <4>2. /\ j \in 1..OldLen /\ (pos - 1) + j = Len(Result) + 1
            /\ Len(Result) < BufferSz
        <5>1. /\ OldLen \in Nat /\ len \in Nat /\ pos \in Nat
              /\ Len(Result) \in Nat /\ BufferSz \in Nat /\ Growth \in Int
          BY <1>1
        <5>2. Len(Result) > len /\ pos <= len
          BY <1>2, <2>4, <3>1, <5>1
        <5>3. (pos + OldLen) - 1 > Len(Result) /\ (pos + OldLen) - 1 <= BufferSz
          BY <2>1, <4>1
        <5> QED BY <5>1, <5>2, <5>3
      <4>3. buf[Len(Result) + 1] = args.old[j]
        BY <2>2, <4>2
      <4> QED BY <1>1, <1>3, <4>2, <4>3
    <3>. DEFINE i == pos - Growth
    <3>4. i \in 1..len /\ i # k /\ i + OldLen <= len + 1
      <4>1. k + NewLen <= pos /\ Rest - 1 <= len + Growth
        BY <3>1, <3>2, <3>3
      <4>2. (pos + OldLen) - 1 <= len + Growth /\ Growth \in Int
        BY <1>1, <2>1, <4>1
      <4> QED BY <1>1, <1>2, <2>4, <4>1, <4>2
    <3>5. ASSUME NEW j \in 1..OldLen
          PROVE  Collapsed[(i - 1) + j] = args.old[j]
      <4>. DEFINE p == (pos - 1) + j
      <4>1. /\ p \in 1..Len(Result) /\ p \in (k + NewLen)..Len(Result)
            /\ p - Growth = (i - 1) + j
        BY <1>1, <2>1, <3>1, <3>2, <3>3
      <4>2. buf[p] = Result[p] /\ Result[p] = Collapsed[p - Growth]
            /\ buf[p] = args.old[j]
        BY <1>3, <2>2, <3>2, <4>1
      <4> QED BY <4>1, <4>2
    <3>. HIDE DEF i
    <3>6. Fits(Collapsed, i)
      BY <1>1, <3>4, <3>5, FitsIs
    <3> QED BY <1>1, <2>4, <3>2, <3>4, <3>6, OnlyOne
  <2> QED BY <1>1, <2>3, <2>4
<1> QED BY <1>5, <1>6

\* What replace_word has done when it is behind the text it was given.
LEMMA ReplacedRight ==
  ASSUME Setup, Replaces, Replaced
  PROVE  ReplaceRight'
<1>1. /\ pc = "run" /\ args.opt = "x" /\ pos > len /\ pc' = "exit"
      /\ args' = args /\ buf' = buf /\ len' = len
  BY DEF Replaced, Exit
<1>2. SUFFICES ASSUME Proper
      PROVE  /\ SubSeq(buf, 1, Len(Result)) = Result
             /\ Len(Result) < BufferSz => buf[Len(Result) + 1] = "dot"
  <2>1. /\ Proper' <=> Proper
        /\ Result' = Result
    BY <1>1, SameWords
  <2>2. (Regular /\ (Growth <= 0 \/ Cardinality(Occurrences(Collapsed)) <= 1)
          /\ args.opt = "x")' <=> Proper'
    BY DEF Proper
  <2> QED BY <1>1, <1>2, <2>1, <2>2 DEF ReplaceRight, Result
<1>3. /\ Len(Result) <= BufferSz
      /\ \A t \in 1..Len(Result) : buf[t] = Result[t]
      /\ Len(Result) < BufferSz => buf[Len(Result) + 1] = "dot"
  <2>1. CASE Over
    BY <2>1 DEF Over
  <2>2. ASSUME NEW i \in 1..(len + 1), At(i)
        PROVE  /\ Len(Result) <= BufferSz
               /\ \A t \in 1..Len(Result) : buf[t] = Result[t]
               /\ Len(Result) < BufferSz => buf[Len(Result) + 1] = "dot"
    <3>1. /\ len \in Nat /\ len < BufferSz /\ BufferSz \in Nat
          /\ pos \in Nat /\ pos >= 1 /\ Ahead(Collapsed, len + 1) = <<>>
      BY <1>1, <1>2, TurnOf
    <3>2. pos <= i
      BY <2>2 DEF At
    <3>3. i = len + 1 /\ pos = len + 1
      BY <1>1, <2>2, <3>1, <3>2
    <3>4. /\ Len(Result) = (pos - 1) + Len(Ahead(Collapsed, i))
          /\ \A t \in 1..(pos - 1) : Result[t] = buf[t]
          /\ buf[pos + (len - i) + 1] = "dot"
      BY <2>2 DEF At
    <3>5. Len(Result) = pos - 1 /\ pos + (len - i) + 1 = Len(Result) + 1
          /\ Len(Result) <= BufferSz
      BY <3>1, <3>3, <3>4
    <3> QED BY <3>4, <3>5
  <2> QED BY <1>1, <1>2, <2>1, <2>2 DEF Replaces
<1>4. Result \in Seq(AllChars)
  <2>1. 1 \in 1..(len + 1)
    BY <1>1, <1>2, TurnOf
  <2> QED BY <1>1, <1>2, <2>1, TurnOf
<1>5. SubSeq(buf, 1, Len(Result)) = Result
  <2>. DEFINE s == SubSeq(buf, 1, Len(Result))
  <2>. DEFINE S == AllChars \cup {"junk"}
  <2>1. BufferSz \in Nat /\ buf \in [1..BufferSz -> S]
    BY SizeAssumption DEF Setup, TypeOK
  <2>. HIDE DEF S
  <2>2. buf \in Seq(S) /\ Len(buf) = BufferSz
    BY <2>1
  <2>3. /\ s \in Seq(S) /\ Len(s) = Len(Result)
        /\ \A t \in 1..Len(Result) : s[t] = buf[t]
    BY <1>3, <1>4, <2>1, <2>2
  <2>. HIDE DEF s
  <2>4. \A t \in 1..Len(s) : s[t] = Result[t]
    BY <1>3, <2>3
  <2>5. s = Result
    BY <1>4, <2>3, <2>4, SeqEqual
  <2> QED BY <2>5 DEF s
<1> QED BY <1>3, <1>5

\* Before its first turn replace_word is at the beginning.
LEMMA FillAt ==
  ASSUME Setup, Fill, Setup', Proper'
  PROVE  At(1)'
<1>1. /\ pc' = "run" /\ pos' = 1 /\ args' = args /\ len' = len
  BY DEF Fill
<1>2. buf' = Filled /\ Filled' = Filled
  BY <1>1, FillSetup, SameWords
<1>3. Proper /\ len = Cardinality(Kept)
  BY <1>1, FillSetup, SameWords
<1>4. args \in CommandLines /\ len \in 0..(BufferSz - 1) /\ BufferSz \in Nat
  <2>1. pc = "copy"
    BY DEF Fill
  <2> QED BY <2>1, SizeAssumption DEF Setup, TypeOK
<1>5. Collapsed \in Seq(AllChars) /\ Len(Collapsed) = len
      /\ DOMAIN Collapsed = 1..len
  BY <1>3, <1>4, CollapsedType, CollapsedIs
<1>6. /\ OldLen \in Nat /\ OldLen >= 1 /\ args.new \in Seq(AllChars)
  <2>1. args.old \in Seq(AllChars) /\ OldLen \in Nat /\ args.new \in Seq(AllChars)
    BY <1>4, ArgsType
  <2>2. args.old # <<>>
    BY <1>3 DEF Proper, Regular
  <2> QED BY <2>1, <2>2 DEF OldLen
<1>7. Result = Ahead(Collapsed, 1) /\ Ahead(Collapsed, 1) \in Seq(AllChars)
  <2>1. 1 \in 1..(Len(Collapsed) + 1)
    BY <1>4, <1>5
  <2> QED BY <1>5, <1>6, <2>1, AheadSteps DEF Result
<1>8. /\ \A t \in 0..(len - 1) : buf'[1 + t] = Collapsed[1 + t]
      /\ buf'[1 + (len - 1) + 1] = "dot"
  <2>1. ASSUME NEW t \in 0..(len - 1) PROVE buf'[1 + t] = Collapsed[1 + t]
    <3>1. 1 + t \in 1..BufferSz /\ 1 + t \in 1..len
      BY <1>4
    <3> QED BY <1>2, <1>5, <3>1 DEF Filled
  <2>2. 1 + (len - 1) + 1 = len + 1 /\ len + 1 \in 1..BufferSz
        /\ len + 1 \notin 1..len
    BY <1>4
  <2>3. buf'[len + 1] = "dot"
    BY <1>2, <1>5, <2>2 DEF Filled
  <2> QED BY <2>1, <2>2, <2>3
<1>9. Len(Result) = (1 - 1) + Len(Ahead(Collapsed, 1)) /\ 1 \in 1..(len + 1)
  BY <1>4, <1>7
<1>10. \A t \in 1..Len(Ahead(Collapsed, 1)) :
         Result[(1 - 1) + t] = Ahead(Collapsed, 1)[t]
  BY <1>7
<1> QED BY <1>1, <1>2, <1>8, <1>9, <1>10, NextAtIs

LEMMA NextReplaces == Setup /\ Replaces /\ [Next]_vars => Replaces'
<1>. SUFFICES ASSUME Setup, Replaces, [Next]_vars PROVE Replaces'
  OBVIOUS
<1>1. Setup'
  BY NextSetup
<1>2. CASE Invoke \/ Copy
  <2>1. pc' = "copy" \/ (pc' = "exit" /\ status' = 99)
    BY <1>2 DEF Invoke, Exit, Copy, Copying
  <2> QED BY <2>1 DEF Replaces, ReplaceRight
<1>3. CASE Fill
  <2>1. pc' = "run" /\ len' = len /\ args' = args
    BY <1>3 DEF Fill
  <2>2. ASSUME Proper' PROVE \E i \in 1..(len' + 1) : At(i)'
    <3>1. At(1)'
      BY <1>1, <1>3, <2>2, FillAt
    <3>2. 1 \in 1..(len' + 1)
      BY <2>1, SizeAssumption DEF Setup, TypeOK
    <3> QED BY <3>1, <3>2
  <2> QED BY <2>1, <2>2 DEF Replaces, ReplaceRight
<1>4. CASE TooLong \/ NoRoom
  <2>1. pc' = "exit" /\ status' = 3
    BY <1>4 DEF TooLong, NoRoom, Exit
  <2> QED BY <2>1 DEF Replaces, ReplaceRight
<1>5. CASE Count \/ WordPrint \/ Usage
  <2>1. pc' = "exit" /\ args' = args /\ args.opt # "x"
    BY <1>5 DEF Count, WordPrint, Usage, Exit
  <2>2. args'.opt # "x"
    BY <2>1
  <2> QED BY <2>1, <2>2 DEF Replaces, ReplaceRight
<1>6. CASE ReverseString \/ OffTheEnd
  <2>1. pc' = "undefined"
    BY <1>6 DEF ReverseString, OffTheEnd
  <2> QED BY <2>1 DEF Replaces, ReplaceRight
<1>7. CASE Skip \/ Replace
  <2>1. /\ pc = "run" /\ pc' = "run" /\ args' = args /\ len' = len /\ pos <= len
    BY <1>7 DEF Skip, Replace, Replacing, Turning
  <2>2. ASSUME Proper PROVE Over' \/ \E i \in 1..(len' + 1) : At(i)'
    <3>1. /\ OldLen \in Nat /\ OldLen >= 1 /\ NewLen \in Nat
          /\ Growth = NewLen - OldLen /\ len \in Nat /\ pos \in Nat
      BY <2>1, <2>2, TurnOf
    <3>2. CASE Over
      BY <1>7, <2>1, <2>2, <3>2, StaysOver
    <3>3. ASSUME NEW i \in 1..(len + 1), At(i)
          PROVE  Over' \/ \E j \in 1..(len' + 1) : At(j)'
      <4>1. CASE i = len + 1
        <5>1. Growth <= 0
          <6>1. Growth > 0 => pos = i
            BY <3>3 DEF At
          <6> QED BY <2>1, <3>1, <4>1, <6>1
        <5>2. Over
          BY <2>1, <2>2, <3>3, <4>1, <5>1, EndOver
        <5> QED BY <1>7, <2>1, <2>2, <5>2, StaysOver
      <4>2. CASE i # len + 1
        <5>1. i \in 1..len /\ i + 1 \in 1..(len + 1)
          BY <3>1, <4>2
        <5>2. CASE Skip
          BY <2>1, <2>2, <3>3, <5>1, <5>2, SkipAt
        <5>3. CASE Replace /\ Growth > 0
          BY <2>1, <2>2, <3>3, <5>1, <5>3, GrowOver
        <5>4. CASE Replace /\ Growth <= 0
          <6>1. \E h \in 1..(len + 1) : At(h)'
            BY <2>1, <2>2, <3>3, <5>1, <5>4, ShrinkAt
          <6> QED BY <2>1, <6>1
        <5> QED BY <1>7, <3>1, <5>2, <5>3, <5>4
      <4> QED BY <4>1, <4>2
    <3> QED BY <2>1, <2>2, <3>2, <3>3 DEF Replaces
  <2>3. Proper' <=> Proper
    BY <2>1, SameWords
  <2> QED BY <2>1, <2>2, <2>3 DEF Replaces, ReplaceRight
<1>8. CASE Replaced
  <2>1. pc' = "exit"
    BY <1>8 DEF Replaced, Exit
  <2> QED BY <1>8, <2>1, ReplacedRight DEF Replaces
<1>9. CASE UNCHANGED vars
  <2>1. UNCHANGED <<args, pc, buf, len, pos, space, out, status>>
    BY <1>9 DEF vars
  <2>2. /\ Collapsed' = Collapsed /\ Filled' = Filled /\ Growth' = Growth
        /\ NewLen' = NewLen /\ Result' = Result /\ (Proper' <=> Proper)
        /\ \A i : Fits(Collapsed, i)' <=> Fits(Collapsed, i)
        /\ \A i : Ahead(Collapsed, i)' = Ahead(Collapsed, i)
    BY <2>1, SameWords
  <2>3. \A i : At(i)' <=> At(i)
    BY <2>1, <2>2 DEF At
  <2>4. Over' <=> Over
    BY <2>1, <2>2 DEF Over
  <2>5. ReplaceRight' <=> ReplaceRight
    BY <2>1, <2>2 DEF ReplaceRight, Proper, Result
  <2> QED BY <2>1, <2>2, <2>3, <2>4, <2>5 DEF Replaces
<1> QED BY <1>2, <1>3, <1>4, <1>5, <1>6, <1>7, <1>8, <1>9 DEF Next, Turn

\* For any size of the buffer, any text and words: replace_word ends with the
\* text in which every occurrence of the old word is replaced, and a dot behind
\* it, when the new word is not longer or the old one stands there once.
THEOREM ReplacesAll == Spec => []ReplaceRight
<1>1. Init => Replaces
  BY DEF Init, Replaces, ReplaceRight
<1>2. Replaces => ReplaceRight
  BY DEF Replaces
<1> QED BY <1>1, <1>2, InitSetup, NextSetup, NextReplaces, PTL DEF Spec

-----------------------------------------------------------------------------
(* replace_word stays inside the buffer.                                    *)

\* A replacement by a word that is not longer, of one without dots.
Safe == args.opt = "x" /\ "dot" \notin ToSet(args.old) /\ Growth <= 0

\* The dot behind the text stays where it is, and stops every comparison.
Inside ==
  /\ len \in Nat /\ len < BufferSz
  /\ pos \in Nat \ {0}
  /\ pc = "idle" => args.opt = "other"
  /\ pc # "idle" => args \in CommandLines
  /\ Safe /\ pc = "run" => buf[len + 1] = "dot"
  /\ StaysInside

\* The lengths of the two words.
LEMMA WordLengths ==
  ASSUME Inside, pc = "run", args.opt = "x"
  PROVE  /\ args.old \in Seq(AllChars) /\ args.new \in Seq(AllChars)
         /\ OldLen \in Nat /\ NewLen \in Nat /\ Growth \in Int
  <1>1. args.old \in OldWords /\ args.new \in NewWords
    BY DEF Inside, CommandLines
  <1>2. args.old \in Seq(AllChars) /\ args.new \in Seq(AllChars)
    BY <1>1, InputsAssumption
  <1> QED BY <1>2 DEF OldLen, NewLen, Growth

\* What matches an old word without dots ends before the dot behind the text.
LEMMA MatchEnds ==
  ASSUME Inside, Turning, Matches, Safe
  PROVE  Rest - 1 <= len
  <1> USE SizeAssumption
  <1>1. pc = "run" /\ args.opt = "x" /\ pos <= len
    BY DEF Turning
  <1>2. /\ len \in Nat /\ len < BufferSz /\ pos \in Nat \ {0}
        /\ buf[len + 1] = "dot"
    BY <1>1 DEF Inside
  <1>3. OldLen \in Nat /\ args.old \in Seq(AllChars)
    BY <1>1, WordLengths
  <1>4. SUFFICES ASSUME Rest - 1 > len PROVE FALSE
    BY <1>2, <1>3 DEF Rest
  <1> DEFINE j == len + 2 - pos
  <1>5. j \in 1..OldLen /\ pos + j - 1 = len + 1 /\ len + 1 <= BufferSz
    BY <1>1, <1>2, <1>3, <1>4 DEF Rest
  <1>6. args.old[j] = "dot"
    BY <1>2, <1>5 DEF Matches, OldLen
  <1>7. args.old[j] \in ToSet(args.old)
    BY <1>3, <1>5 DEF ToSet, OldLen
  <1> QED BY <1>6, <1>7 DEF Safe

LEMMA NextInside == Inside /\ [Next]_vars => Inside'
  <1> SUFFICES ASSUME Inside, [Next]_vars PROVE Inside'
    OBVIOUS
  <1> USE SizeAssumption
  <1>1. CASE Invoke
    BY <1>1 DEF Invoke, Exit, Inside, StaysInside
  <1>2. CASE TooLong \/ Count \/ WordPrint \/ ReverseString \/ Usage
    <2>1. /\ UNCHANGED <<args, len, pos>>
          /\ pc # "idle" /\ pc' \notin {"idle", "run"}
          /\ args.opt = "x" => pc' # "undefined"
      BY <1>2 DEF TooLong, Copying, Count, WordPrint, ReverseString, Usage, Exit
    <2> QED BY <2>1 DEF Inside, StaysInside
  <1>3. CASE Copy
    <2>1. /\ pc = "copy" /\ pc' = "copy" /\ args' = args
          /\ pos' = pos + 1 /\ len < BufferSz - 1
          /\ len' = len \/ len' = len + 1
      BY <1>3 DEF Copy, Copying
    <2> QED BY <2>1 DEF Inside, StaysInside
  <1>4. CASE Fill
    <2>1. /\ pc = "copy" /\ pc' = "run" /\ pos' = 1
          /\ UNCHANGED <<args, len>>
          /\ buf' = [k \in 1..BufferSz |-> IF k <= len THEN buf[k] ELSE "dot"]
      BY <1>4 DEF Fill
    <2>2. buf'[len + 1] = "dot"
      BY <2>1 DEF Inside
    <2> QED BY <2>1, <2>2 DEF Inside, StaysInside
  <1>5. CASE Skip
    <2>1. UNCHANGED <<args, pc, buf, len>> /\ pos' = pos + 1
      BY <1>5 DEF Skip
    <2> QED BY <2>1 DEF Inside, Safe, StaysInside, Growth, NewLen, OldLen
  <1>6. CASE NoRoom \/ Replaced
    <2>1. UNCHANGED <<args, len, pos>> /\ pc = "run" /\ pc' = "exit"
      BY <1>6 DEF NoRoom, Replaced, Turning, Exit
    <2> QED BY <2>1 DEF Inside, StaysInside
  <1>7. CASE OffTheEnd
    <2>1. /\ UNCHANGED <<args, len, pos>>
          /\ pc = "run" /\ args.opt = "x" /\ pc' = "undefined"
          /\ Turning /\ Matches
          /\ Rest - 1 > BufferSz \/ pos + NewLen - 1 > BufferSz
      BY <1>7 DEF OffTheEnd, Turning
    <2>2. ~Safe
      <3> SUFFICES ASSUME Safe PROVE FALSE
        OBVIOUS
      <3>1. Rest - 1 <= len /\ Growth <= 0
        BY <2>1, MatchEnds DEF Safe
      <3>2. OldLen \in Nat /\ NewLen \in Nat
        BY <2>1, WordLengths
      <3> QED BY <2>1, <3>1, <3>2 DEF Inside, Rest, Growth
    <2>3. ~Safe'
      BY <2>1, <2>2 DEF Safe, Growth, NewLen, OldLen
    <2> QED BY <2>1, <2>3 DEF Inside, Safe, StaysInside
  <1>8. CASE Replace
    <2>1. /\ UNCHANGED <<args, pc, len>> /\ pos' = pos + NewLen
          /\ pc = "run" /\ args.opt = "x" /\ Turning /\ Matches
      BY <1>8 DEF Replace, Replacing, Turning
    <2>2. OldLen \in Nat /\ NewLen \in Nat
      BY <2>1, WordLengths
    <2>3. ASSUME Safe PROVE buf'[len + 1] = "dot"
      <3>1. Rest - 1 <= len /\ Growth <= 0
        BY <2>1, <2>3, MatchEnds DEF Safe
      <3>2. len + 1 \in 1..BufferSz /\ buf[len + 1] = "dot"
        BY <2>1, <2>3 DEF Inside
      <3>3. len + 1 \notin pos..(pos + NewLen - 1)
        BY <2>2, <3>1 DEF Inside, Rest, Growth
      <3>4. Growth # 0 => (len + 1) - Growth \notin Rest..(len + 1)
        BY <2>2, <3>1 DEF Inside, Growth
      <3>5. buf' = [k \in 1..BufferSz |->
              IF k \in pos..(pos + NewLen - 1) THEN args.new[k - pos + 1]
              ELSE IF Growth # 0 /\ k - Growth \in Rest..(len + 1)
                THEN buf[k - Growth]
              ELSE buf[k]]
        BY <1>8, <2>2, <3>1 DEF Replace, Growth
      <3> QED BY <3>2, <3>3, <3>4, <3>5
    <2>4. Safe' <=> Safe
      BY <2>1 DEF Safe, Growth, NewLen, OldLen
    <2> QED BY <2>1, <2>2, <2>3, <2>4 DEF Inside, StaysInside
  <1>9. CASE UNCHANGED vars
    BY <1>9 DEF vars, Inside, Safe, StaysInside, Growth, NewLen, OldLen
  <1> QED BY <1>1, <1>2, <1>3, <1>4, <1>5, <1>6, <1>7, <1>8, <1>9
        DEF Next, Turn

\* For any buffer, texts and words: a replacement by a word that is not longer
\* of one without dots neither reads nor writes outside the buffer.
THEOREM ReplacementInside == Spec => []StaysInside
  <1>1. Init => Inside
    BY SizeAssumption DEF Init, Inside, StaysInside, Safe
  <1>2. Inside => StaysInside
    BY DEF Inside
  <1> QED BY <1>1, <1>2, NextInside, PTL DEF Spec
=============================================================================
