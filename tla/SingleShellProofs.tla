------------------------- MODULE SingleShellProofs -------------------------
(***************************************************************************)
(* The memory of the shell of assignment 4 is accounted for over any       *)
(* number of lines, of any length, whatever fails; so is its child.  And   *)
(* it cuts every line into its words.                                      *)
(***************************************************************************)
EXTENDS SingleShell, SequenceLemmas

USE DEF NULL, Signal, Unset

\* No word of a memory is in use, and no block but that of the buffer.
NoWords(m) ==
  /\ m.heap = {m.buf} \ {NULL}
  /\ m.argc = 0

Owned(m) ==
  /\ ~Garbage(m)
  /\ m.heap = Pointers(m)
  /\ \A j, k \in Given(m) :
       m.argv[j] # NULL => /\ m.argv[j] # m.buf
                           /\ m.argv[j] = m.argv[k] => j = k

\* free_cmd_buff frees all there is.
LEMMA FreedHasNone ==
  ASSUME NEW m \in Memories, Owned(m)
  PROVE  /\ Freed(m) \in Memories
         /\ NoWords(Freed(m))
         /\ Owned(Freed(m))
         /\ Freed(m).heap = {}
<1>. DEFINE F == Freed(m)
<1>1. F \in Memories
  <2>1. 0 \in Args
    BY SizesAssumption DEF Args
  <2> QED BY <2>1, SizesAssumption DEF Memories, Freed, Args
<1>2. F.argc = 0 /\ F.buf = NULL
  BY DEF Freed
<1>3. Given(F) = {}
  BY <1>2 DEF Given, Args
<1>4. F.heap = {}
  <2>1. Pointers(m) \subseteq
          {m.buf} \cup {m.argv[j] : j \in {i \in Args : i < m.argc}}
    BY DEF Pointers, Given
  <2> QED BY <2>1 DEF Freed, Owned
<1> HIDE DEF F
<1> QED BY <1>1, <1>2, <1>3, <1>4 DEF NoWords, Owned, Pointers, Garbage, F

\* After clear_cmd_buff there is the buffer, or nothing.
LEMMA AllocatedHasNone ==
  ASSUME NEW m \in Memories, NoWords(m), m.heap = {},
         NEW b \in Malloc({})
  PROVE  Allocated(m, b) \in Memories /\ NoWords(Allocated(m, b))
<1>1. b \in Blocks \cup {NULL}
  BY DEF Malloc
<1>2. 0 \in Args
  BY SizesAssumption DEF Args
<1>3. CASE b = NULL
  BY <1>3 DEF Allocated
<1>4. CASE b # NULL
  <2>1. b \in Blocks
    BY <1>1, <1>4
  <2> QED BY <1>2, <1>4, <2>1 DEF Allocated, Memories, NoWords
<1> QED BY <1>3, <1>4

\* strndup gives each word it copies a block of its own.
LEMMA FilledOwns ==
  ASSUME NEW m \in Memories, NoWords(m),
         NEW n \in 0..(ArgvMax - 1), NEW S \in SUBSET (0..(n - 1)),
         NEW f \in Fresh(S, m.heap)
  PROVE  Filled(m, n, f) \in Memories /\ Owned(Filled(m, n, f))
<1>. DEFINE F == Filled(m, n, f)
<1>1. /\ f \in [S -> Blocks \ m.heap]
      /\ \A j, k \in S : j < k => f[j] < f[k]
  BY DEF Fresh
<1>2. S \subseteq Args /\ n \in Args /\ DOMAIN f = S
  BY <1>1, SizesAssumption DEF Args
<1>3. \A k \in Args : k < n => F.argv[k] = IF k \in S THEN f[k] ELSE NULL
  BY <1>2 DEF Filled, Memories, Args
<1>4. /\ F.heap = m.heap \cup {f[k] : k \in S}
      /\ F.buf = m.buf
      /\ F.argc = n
  BY <1>2 DEF Filled, Memories
<1>5. F \in Memories
  <2>. DEFINE argv == [k \in Args |-> IF k \in S THEN f[k]
                                      ELSE IF k <= n THEN NULL ELSE m.argv[k]]
              heap == m.heap \cup {f[k] : k \in S}
  <2>1. argv \in [Args -> Blocks \cup {NULL, Wild}]
    BY <1>1 DEF Memories
  <2>2. heap \in SUBSET Blocks
    BY <1>1 DEF Memories
  <2>3. F = [m EXCEPT !.heap = heap, !.argc = n, !.argv = argv]
    BY <1>2 DEF Filled
  <2>. HIDE DEF argv, heap, F
  <2> QED BY <2>1, <2>2, <2>3, <1>2 DEF Memories
<1>6. Given(F) = {k \in Args : k < n} /\ S \subseteq Given(F)
  BY <1>2, <1>4 DEF Given, Args
<1>7. F.heap = Pointers(F)
  <2>1. \A k \in S : f[k] # NULL
    BY <1>1 DEF Blocks
  <2> QED BY <1>3, <1>4, <1>6, <2>1 DEF Pointers, NoWords
<1>8. ASSUME NEW j \in Given(F), NEW k \in Given(F), F.argv[j] # NULL
      PROVE  F.argv[j] # F.buf /\ (F.argv[j] = F.argv[k] => j = k)
  <2>1. j \in S /\ F.argv[j] = f[j]
    BY <1>3, <1>6, <1>8
  <2>2. f[j] \in Blocks \ m.heap
    BY <1>1, <2>1
  <2>3. f[j] # F.buf
    BY <1>4, <2>2 DEF NoWords, Blocks
  <2>4. ASSUME f[j] = F.argv[k] PROVE j = k
    <3>1. k \in S /\ F.argv[k] = f[k]
      BY <1>3, <1>6, <1>8, <2>1, <2>4
    <3>2. j \in Nat /\ k \in Nat /\ f[j] \in Nat /\ f[k] \in Nat
      BY <1>1, <1>6, <2>1, <3>1 DEF Args, Blocks
    <3>3. ~(j < k) /\ ~(k < j)
      BY <1>1, <2>1, <2>4, <3>1, <3>2
    <3> QED BY <3>2, <3>3
  <2> QED BY <2>1, <2>3, <2>4
<1>9. ~Garbage(F)
  <2>1. \A k \in S : f[k] \in 1..MaxBlocks
    BY <1>1 DEF Blocks
  <2>2. \A k \in S : f[k] # MaxBlocks + 1
    BY <2>1, SizesAssumption
  <2> QED BY <1>3, <1>6, <2>2, SizesAssumption DEF Garbage, Wild
<1> QED BY <1>5, <1>7, <1>8, <1>9 DEF Owned

-----------------------------------------------------------------------------
\* Where the child is, and whether it is known how it ended
Attended ==
  /\ pc = "waiting" <=> child # "none"
  /\ child = "dead" => status # Unset

\* The memory is owned, unless the first allocation failed and nothing was
\* done since.
Known ==
  IF Garbage(mem)
  THEN pc \in {"prompt", "crashed"} /\ mem.heap = {} /\ rc = 0
  ELSE Owned(mem)

Inv ==
  /\ TypeOK
  /\ Known
  /\ Attended
  /\ pc = "gone" => mem.heap = {}

LEMMA Initially == Init => Inv
<1>. SUFFICES ASSUME Init PROVE Inv
  OBVIOUS
<1>1. 0 \in Args
  BY SizesAssumption DEF Args
<1>2. PICK m \in Unwritten, b \in Malloc({}) : mem = Allocated(m, b)
  BY DEF Init
<1>3. /\ m \in Memories /\ m.heap = {} /\ m.buf = NULL
      /\ b \in Blocks \cup {NULL}
  BY DEF Unwritten, Memories, Malloc
<1>4. CASE b = NULL
  <2>1. mem = m
    BY <1>2, <1>4 DEF Allocated
  <2>2. ASSUME ~Garbage(m) PROVE Owned(m)
    <3>1. \A k \in Given(m) : m.argv[k] = NULL
      BY <2>2 DEF Garbage, Unwritten, Given
    <3> QED BY <1>3, <2>2, <3>1 DEF Owned, Pointers
  <2>3. Known
    BY <1>3, <2>1, <2>2 DEF Known, Init
  <2> QED BY <1>3, <2>1, <2>3 DEF Init, Inv, TypeOK, Attended
<1>5. CASE b # NULL
  <2>1. mem = [heap |-> {b}, buf |-> b, argc |-> 0, argv |-> [k \in Args |-> NULL]]
    BY <1>2, <1>3, <1>5 DEF Allocated
  <2>2. Given(mem) = {}
    BY <2>1 DEF Given, Args
  <2>3. mem \in Memories
    BY <1>1, <1>3, <1>5, <2>1 DEF Memories
  <2>4. Owned(mem) /\ ~Garbage(mem)
    BY <1>5, <2>1, <2>2 DEF Owned, Pointers, Garbage
  <2> QED BY <2>3, <2>4 DEF Init, Inv, TypeOK, Attended, Known
<1> QED BY <1>4, <1>5

LEMMA Inductive == Inv /\ [Next]_vars => Inv'
<1>. SUFFICES ASSUME Inv, [Next]_vars PROVE Inv'
  OBVIOUS
<1>. USE DEF Inv, TypeOK, Attended
<1>1. ASSUME ~Garbage(mem)
      PROVE  /\ Freed(mem) \in Memories
             /\ NoWords(Freed(mem))
             /\ Owned(Freed(mem))
             /\ Freed(mem).heap = {}
  BY <1>1, FreedHasNone DEF Known
<1>a. pc \notin {"prompt", "crashed"} => ~Garbage(mem)
  BY DEF Known
<1>b. CASE FreesGarbage
  BY <1>b DEF FreesGarbage, Known, Garbage, Given
<1>2. CASE BuildCommand
  <2>a. ~Garbage(mem)
    BY <1>2 DEF BuildCommand
  <2>1. PICK text \in Lines :
          /\ line' = text
          /\ LET count == Len(Words(text)) IN
             \E b \in Malloc(Freed(mem).heap) :
               LET m == Allocated(Freed(mem), b) IN
               \E S \in Copied(count) :
                 \E f \in Fresh(S, m.heap) : mem' = Filled(m, count, f)
    BY <1>2 DEF BuildCommand
  <2>. DEFINE count == Len(Words(text))
  <2>2. count \in 0..(ArgvMax - 1) /\ line' \in Seq(Chars)
    <3>1. PICK n \in 0..MaxLen : text \in [1..n -> Chars]
      BY DEF Lines
    <3> QED BY <2>1, <3>1 DEF Lines
  <2>. HIDE DEF count
  <2>3. PICK b \in Malloc({}) :
          \E S \in Copied(count) :
            \E f \in Fresh(S, Allocated(Freed(mem), b).heap) :
              mem' = Filled(Allocated(Freed(mem), b), count, f)
    BY <1>1, <2>a, <2>1 DEF count
  <2>. DEFINE m == Allocated(Freed(mem), b)
  <2>4. m \in Memories /\ NoWords(m)
    BY <1>1, <2>a, AllocatedHasNone
  <2>. HIDE DEF m
  <2>5. PICK S \in Copied(count) : \E f \in Fresh(S, m.heap) : mem' = Filled(m, count, f)
    BY <2>3 DEF m
  <2>6. S \in SUBSET (0..(count - 1))
    <3>1. CASE Faults
      BY <3>1 DEF Copied
    <3>2. CASE ~Faults
      BY <3>2 DEF Copied
    <3> QED BY <3>1, <3>2
  <2>7. mem' \in Memories /\ Owned(mem')
    <3>1. PICK f \in Fresh(S, m.heap) : mem' = Filled(m, count, f)
      BY <2>5
    <3>2. /\ Filled(m, count, f) \in Memories
          /\ Owned(Filled(m, count, f))
      BY <2>2, <2>4, <2>6, FilledOwns
    <3> QED BY <3>1, <3>2
  <2>8. Known'
    BY <2>7 DEF Known, Owned, Pointers, Garbage, Given
  <2> QED BY <1>2, <2>2, <2>7, <2>8 DEF BuildCommand
<1>3. ASSUME ~Garbage(mem), mem' = Freed(mem)
      PROVE  mem' \in Memories /\ Known' /\ mem'.heap = {}
  BY <1>1, <1>3 DEF Known, Owned, Pointers, Garbage, Given
<1>4. ASSUME mem' = mem, ~Garbage(mem) \/ UNCHANGED <<pc, rc>>
      PROVE  mem' \in Memories /\ Known'
  BY <1>4 DEF Known, Owned, Pointers, Garbage, Given
<1>5. <<>> \in Seq(Chars)
  OBVIOUS
<1>6. CASE EndOfInput
  BY <1>3, <1>5, <1>6 DEF EndOfInput, Leave
<1>7. CASE NoCommand
  BY <1>a, <1>4, <1>5, <1>7 DEF NoCommand, Prompt
<1>8. CASE NoName
  BY <1>a, <1>4, <1>8 DEF NoName
<1>9. CASE Exit
  BY <1>a, <1>3, <1>5, <1>9 DEF Exit, Named, Leave
<1>10. CASE Rc
  BY <1>a, <1>4, <1>5, <1>10 DEF Rc, Named, Prompt
<1>11. CASE Cd
  <2>1. rc' \in 0..255
    <3>1. rc' = ENOENT \/ rc' = rc \/ rc' = 0
      BY <1>11 DEF Cd
    <3>2. rc \in 0..255
      OBVIOUS
    <3>3. ENOENT \in 0..255 /\ 0 \in 0..255
      BY DEF ENOENT
    <3> QED BY <3>1, <3>2, <3>3
  <2>2. /\ pc = "built" /\ pc' = "prompt" /\ line' = <<>>
        /\ status' = status /\ mem' = mem /\ child' = child
    BY <1>11 DEF Cd, Named, Prompt
  <2> QED BY <1>a, <1>4, <1>5, <2>1, <2>2
<1>12. CASE ForkFails
  BY <1>a, <1>3, <1>5, <1>12 DEF ForkFails, Named, Prompt
<1>13. CASE Fork
  BY <1>a, <1>4, <1>13 DEF Fork, Named
<1>14. CASE Wait
  BY <1>a, <1>3, <1>5, <1>14 DEF Wait, Prompt
<1>15. CASE ExecFails
  BY <1>4, <1>15 DEF ExecFails, Dies, Errno, ENOENT, EACCES
<1>16. CASE Exec
  BY <1>4, <1>16 DEF Exec
<1>17. CASE Ends
  BY <1>4, <1>17, CodesAssumption DEF Ends, Dies
<1>18. CASE Kill
  BY <1>4, <1>18 DEF Kill, Dies
<1>19. CASE UNCHANGED vars
  BY <1>4, <1>19 DEF vars
<1> QED
  BY <1>b, <1>2, <1>6, <1>7, <1>8, <1>9, <1>10, <1>11, <1>12, <1>13, <1>14,
     <1>15, <1>16, <1>17, <1>18, <1>19 DEF Next, Shell, Child

LEMMA Always == Spec => []Inv
BY Initially, Inductive, PTL DEF Spec

\* The variables of the shell keep their types, over any number of lines.
THEOREM TypeCorrect == Spec => []TypeOK
BY Always, PTL DEF Inv

\* No block of memory is lost, shared, freed twice or used after it was freed,
\* whatever malloc, strndup and fork refuse; nor, if the very first allocation
\* is refused, once the first line is read.
THEOREM MemoryIsAccountedFor == Spec => []Accounted
<1>1. Inv => Accounted
  BY DEF Inv, Known, Owned, Accounted
<1> QED BY <1>1, Always, PTL

\* No child is left at the prompt, and no memory when the shell is left.
THEOREM NothingIsLeft == Spec => []NothingLeft
<1>1. Inv => NothingLeft
  BY DEF Inv, Attended, NothingLeft
<1> QED BY <1>1, Always, PTL

(***************************************************************************)
(* How build_cmd_buff cuts a line.  The function scan of Words is defined  *)
(* by recursion; that there is one, and that Scanned holds of each of its  *)
(* values, is shown for the smallest place where it would not.             *)
(***************************************************************************)

Begin == [start |-> 1, quoted |-> FALSE, words |-> <<>>]

\* The loop of build_cmd_buff over the first n characters of a text.
IsScan(scan, text, n) ==
  scan = [k \in 0..n |-> IF k = 0 THEN Begin
                         ELSE Turn(scan[k - 1], text[k], k)]

LEMMA ScanExists ==
  ASSUME NEW text
  PROVE  \A n \in Nat : \E scan : IsScan(scan, text, n)
<1>. DEFINE Bad == {n \in Nat : ~ \E scan : IsScan(scan, text, n)}
<1>. SUFFICES ASSUME Bad # {} PROVE FALSE
  OBVIOUS
<1>1. PICK n \in Bad : \A m \in Bad : n <= m
  <2>1. Bad \subseteq Nat
    OBVIOUS
  <2> HIDE DEF Bad
  <2> QED BY <2>1, Smallest
<1>2. CASE n = 0
  <2>1. IsScan([k \in 0..0 |-> Begin], text, 0)
    BY DEF IsScan
  <2> QED BY <1>2, <2>1
<1>3. CASE n # 0
  <2>1. n - 1 \in Nat /\ n - 1 \notin Bad
    BY <1>1, <1>3
  <2>2. PICK f : IsScan(f, text, n - 1)
    BY <2>1
  <2>. DEFINE g == [k \in 0..n |-> IF k = n THEN Turn(f[n - 1], text[n], n)
                                   ELSE f[k]]
  <2>3. ASSUME NEW k \in 0..n
        PROVE  g[k] = IF k = 0 THEN Begin ELSE Turn(g[k - 1], text[k], k)
    <3>1. CASE k = n
      <4>1. g[n - 1] = f[n - 1]
        BY <2>1
      <4> QED BY <1>3, <3>1, <4>1
    <3>2. CASE k # n
      <4>1. k \in 0..(n - 1) /\ g[k] = f[k] /\ (k # 0 => g[k - 1] = f[k - 1])
        BY <2>1, <3>2
      <4>2. f[k] = IF k = 0 THEN Begin ELSE Turn(f[k - 1], text[k], k)
        BY <2>2, <4>1 DEF IsScan
      <4> QED BY <4>1, <4>2
    <3> QED BY <3>1, <3>2
  <2>4. IsScan(g, text, n)
    BY <2>3 DEF IsScan
  <2> QED BY <2>4
<1> QED BY <1>2, <1>3

LEMMA WordsOfScan ==
  ASSUME NEW text \in Seq(Chars)
  PROVE  \E scan : /\ IsScan(scan, text, Len(text))
                   /\ Words(text) = Cut(scan[Len(text)], Len(text) + 1)
<1>. DEFINE scan == CHOOSE scan : IsScan(scan, text, Len(text))
<1>1. IsScan(scan, text, Len(text))
  BY ScanExists
<1>2. Words(text) = Cut(scan[Len(text)], Len(text) + 1)
  BY DEF Words, IsScan, Begin
<1>. QED BY <1>1, <1>2

-----------------------------------------------------------------------------
\* A stretch without quotes is between quotes altogether, or not at all.
LEMMA QuotedStep ==
  ASSUME NEW text \in Seq(Chars), NEW k \in 1..Len(text)
  PROVE  Quoted(text, k + 1) <=> ~(Quoted(text, k) <=> text[k] = "quote")
<1>. DEFINE Q(n) == {j \in 1..(n - 1) : text[j] = "quote"}
<1>1. IsFiniteSet(Q(k)) /\ Cardinality(Q(k)) \in Nat
  <2>1. IsFiniteSet(1..(k - 1))
    BY FS_Interval
  <2>2. IsFiniteSet(Q(k))
    BY <2>1, FS_Subset
  <2> QED BY <2>2, FS_CardinalityType
<1>2. CASE text[k] = "quote"
  <2>1. Q(k + 1) = Q(k) \cup {k} /\ k \notin Q(k)
    BY <1>2
  <2>2. Cardinality(Q(k + 1)) = Cardinality(Q(k)) + 1
    BY <1>1, <2>1, FS_AddElement
  <2> HIDE DEF Q
  <2>3. (Cardinality(Q(k + 1)) % 2 = 1) <=> ~(Cardinality(Q(k)) % 2 = 1)
    BY <1>1, <2>2
  <2> QED BY <1>2, <2>3 DEF Quoted, Q
<1>3. CASE text[k] # "quote"
  <2>1. Q(k + 1) = Q(k)
    BY <1>3
  <2> QED BY <1>3, <2>1 DEF Quoted
<1> QED BY <1>2, <1>3

LEMMA QuotedStretch ==
  ASSUME NEW text \in Seq(Chars),
         NEW a \in Nat \ {0}, NEW b \in Nat, a <= b + 1,
         \A k \in a..b : text[k] # "quote"
  PROVE  Quoted(text, b + 1) <=> Quoted(text, a)
<1>1. {j \in 1..((b + 1) - 1) : text[j] = "quote"} =
      {j \in 1..(a - 1) : text[j] = "quote"}
  OBVIOUS
<1> QED BY <1>1 DEF Quoted

Pairs == Nat \X Nat
Places(text) == (1..Len(text)) \X (1..Len(text))

\* The words of a text that end before k, and in their order.
EndBefore(text, k) ==
  {w \in Places(text) : w[1] <= w[2] /\ w[2] < k /\ IsWord(text, w[1], w[2])}
Found(text, k, words) ==
  /\ words \in Seq(Pairs)
  /\ {words[n] : n \in DOMAIN words} = EndBefore(text, k)
  /\ \A m, n \in DOMAIN words : m < n => words[m][2] < words[n][1]

\* After k characters: the words that were ended are found, and what follows
\* them up to k is the beginning of one more, or empty.
Scanned(text, k, s) ==
  /\ s \in [start : 1..(k + 1), quoted : BOOLEAN, words : Seq(Pairs)]
  /\ s.quoted <=> Quoted(text, s.start)
  /\ \A j \in s.start..k : /\ text[j] # "quote"
                           /\ s.quoted \/ text[j] = "letter"
  /\ IF s.quoted THEN s.start > 1 /\ text[s.start - 1] = "quote"
                 ELSE s.start = 1 \/ text[s.start - 1] # "letter"
  /\ Found(text, k, s.words)
  /\ \A n \in DOMAIN s.words : s.words[n][2] < s.start

\* The one word that may end at k.
LEMMA EndsAt ==
  ASSUME NEW text \in Seq(Chars), NEW k \in 0..Len(text), NEW s,
         Scanned(text, k, s)
  PROVE  LET ends == IF s.quoted THEN "quote" ELSE "space" IN
         \A a \in 1..k :
           IsWord(text, a, k) <=>
             a = s.start /\ (k = Len(text) \/ text[k + 1] = ends)
<1>. SUFFICES ASSUME NEW a \in 1..k
              PROVE  IsWord(text, a, k) <=>
                       /\ a = s.start
                       /\ \/ k = Len(text)
                          \/ text[k + 1] = IF s.quoted THEN "quote" ELSE "space"
  OBVIOUS
<1>1. /\ Len(text) \in Nat /\ s.start \in Nat \ {0} /\ s.start <= k + 1
      /\ s.quoted \in BOOLEAN /\ k \in Nat /\ a \in Nat \ {0} /\ a <= k
      /\ \A j \in 1..Len(text) : text[j] \in Chars
  BY DEF Scanned
<1>2. /\ s.quoted <=> Quoted(text, s.start)
      /\ \A j \in s.start..k : text[j] # "quote"
      /\ ~s.quoted => \A j \in s.start..k : text[j] = "letter"
      /\ s.quoted => s.start > 1 /\ text[s.start - 1] = "quote"
      /\ ~s.quoted => s.start = 1 \/ text[s.start - 1] # "letter"
  BY DEF Scanned
<1>3. Quoted(text, k + 1) <=> s.quoted
  BY <1>1, <1>2, QuotedStretch
<1>4. CASE a = s.start
  <2>1. CASE s.quoted
    BY <1>1, <1>2, <1>4, <2>1 DEF IsWord
  <2>2. CASE ~s.quoted
    BY <1>1, <1>2, <1>4, <2>2 DEF IsWord
  <2> QED BY <1>1, <2>1, <2>2
<1>5. CASE a # s.start
  <2> SUFFICES ASSUME IsWord(text, a, k) PROVE FALSE
    BY <1>5
  <2>1. \A j \in a..k : text[j] # "quote"
    BY DEF IsWord
  <2>2. Quoted(text, a) <=> s.quoted
    BY <1>1, <1>3, <2>1, QuotedStretch
  <2>3. CASE s.quoted
    <3>1. text[a - 1] = "quote"
      BY <2>2, <2>3 DEF IsWord
    <3>2. CASE a > s.start
      <4>1. a - 1 \in s.start..k
        BY <1>1, <3>2
      <4> QED BY <1>2, <3>1, <4>1
    <3>3. CASE a < s.start
      <4>1. s.start - 1 \in a..k
        BY <1>1, <3>3
      <4> QED BY <1>2, <2>1, <2>3, <4>1
    <3> QED BY <1>1, <1>5, <3>2, <3>3
  <2>4. CASE ~s.quoted
    <3>1. /\ \A j \in a..k : text[j] = "letter"
          /\ a = 1 \/ text[a - 1] # "letter"
      BY <2>2, <2>4 DEF IsWord
    <3>2. CASE a > s.start
      <4>1. a - 1 \in s.start..k /\ a # 1
        BY <1>1, <3>2
      <4> QED BY <1>2, <2>4, <3>1, <4>1
    <3>3. CASE a < s.start
      <4>1. s.start - 1 \in a..k /\ s.start # 1
        BY <1>1, <3>3
      <4> QED BY <1>2, <2>4, <3>1, <4>1
    <3> QED BY <1>1, <1>5, <3>2, <3>3
  <2> QED BY <1>1, <2>3, <2>4
<1> QED BY <1>4, <1>5

\* A word behind the others.
LEMMA AppendedWord ==
  ASSUME NEW q \in Seq(Pairs), NEW a \in Nat, NEW b \in Nat, a <= b,
         \A n \in DOMAIN q : q[n][2] < a,
         \A m, n \in DOMAIN q : m < n => q[m][2] < q[n][1]
  PROVE  LET r == Append(q, <<a, b>>) IN
         /\ r \in Seq(Pairs)
         /\ {r[n] : n \in DOMAIN r} = {q[n] : n \in DOMAIN q} \cup {<<a, b>>}
         /\ \A m, n \in DOMAIN r : m < n => r[m][2] < r[n][1]
         /\ \A n \in DOMAIN r : r[n][2] <= b
<1>. DEFINE w == <<a, b>>
            r == Append(q, w)
<1>1. w \in Pairs /\ w[1] = a /\ w[2] = b
  BY DEF Pairs
<1>. HIDE DEF w
<1>2. /\ r \in Seq(Pairs)
      /\ Len(q) \in Nat /\ DOMAIN q = 1..Len(q)
      /\ DOMAIN r = 1..(Len(q) + 1)
      /\ r[Len(q) + 1] = w
      /\ \A n \in 1..Len(q) : q[n] \in Pairs /\ r[n] = q[n]
      /\ {r[n] : n \in DOMAIN r} = {q[n] : n \in DOMAIN q} \cup {w}
  BY <1>1, Appended
<1>. HIDE DEF r
<1>3. ASSUME NEW m \in DOMAIN r, NEW n \in DOMAIN r, m < n
      PROVE  r[m][2] < r[n][1]
  <2>1. m \in 1..Len(q) /\ r[m] = q[m] /\ n \in 1..(Len(q) + 1)
    BY <1>2, <1>3
  <2>2. CASE n = Len(q) + 1
    BY <1>1, <1>2, <2>1, <2>2
  <2>3. CASE n \in 1..Len(q)
    BY <1>2, <1>3, <2>1, <2>3
  <2> QED BY <1>2, <2>1, <2>2, <2>3
<1>4. ASSUME NEW n \in DOMAIN r PROVE r[n][2] <= b
  <2>1. CASE n = Len(q) + 1
    BY <1>1, <1>2, <2>1
  <2>2. CASE n \in 1..Len(q)
    <3>1. r[n] = q[n] /\ q[n][2] < a /\ q[n][2] \in Nat
      BY <1>2, <2>2 DEF Pairs
    <3> QED BY <3>1
  <2> QED BY <1>2, <2>1, <2>2
<1> QED BY <1>2, <1>3, <1>4 DEF r, w

\* At what ends a word, strndup copies it; elsewhere no word ends.
LEMMA CutFinds ==
  ASSUME NEW text \in Seq(Chars), NEW k \in 0..Len(text), NEW s,
         Scanned(text, k, s),
         k = Len(text) \/ text[k + 1] = IF s.quoted THEN "quote" ELSE "space"
  PROVE  /\ Found(text, k + 1, Cut(s, k + 1))
         /\ \A n \in DOMAIN Cut(s, k + 1) : Cut(s, k + 1)[n][2] < k + 1
<1>. DEFINE words == Cut(s, k + 1)
<1>1. /\ Len(text) \in Nat /\ k \in Nat /\ s.start \in Nat \ {0}
      /\ s.start <= k + 1 /\ s.words \in Seq(Pairs)
  BY DEF Scanned
<1>2. /\ \A a \in 1..k : IsWord(text, a, k) <=> a = s.start
  BY EndsAt
<1>3. /\ {s.words[n] : n \in DOMAIN s.words} = EndBefore(text, k)
      /\ \A m, n \in DOMAIN s.words : m < n => s.words[m][2] < s.words[n][1]
      /\ \A n \in DOMAIN s.words : s.words[n][2] < s.start
  BY DEF Scanned, Found
<1>4. CASE s.start = k + 1
  <2>1. words = s.words
    BY <1>1, <1>4 DEF Cut
  <2>2. EndBefore(text, k + 1) = EndBefore(text, k)
    BY <1>1, <1>2, <1>4 DEF EndBefore, Places
  <2> QED BY <1>1, <1>3, <1>4, <2>1, <2>2 DEF Found
<1>5. CASE s.start <= k
  <2>. DEFINE q == s.words
              a == s.start
              w == <<a, k>>
  <2>1. words = Append(q, w)
    BY <1>1, <1>5 DEF Cut
  <2>5. /\ q \in Seq(Pairs) /\ a \in Nat /\ k \in Nat /\ a <= k
        /\ \A n \in DOMAIN q : q[n][2] < a
        /\ \A m, n \in DOMAIN q : m < n => q[m][2] < q[n][1]
    BY <1>1, <1>3, <1>5
  <2> HIDE DEF words, q, a
  <2>2. /\ words \in Seq(Pairs)
        /\ {words[n] : n \in DOMAIN words} =
             {q[n] : n \in DOMAIN q} \cup {w}
        /\ \A m, n \in DOMAIN words : m < n => words[m][2] < words[n][1]
        /\ \A n \in DOMAIN words : words[n][2] <= k
    <3>. DEFINE r == Append(q, <<a, k>>)
    <3>1. /\ r \in Seq(Pairs)
          /\ {r[n] : n \in DOMAIN r} = {q[n] : n \in DOMAIN q} \cup {<<a, k>>}
          /\ \A m, n \in DOMAIN r : m < n => r[m][2] < r[n][1]
          /\ \A n \in DOMAIN r : r[n][2] <= k
      BY <2>5, AppendedWord, Zenon
    <3> HIDE DEF r
    <3>2. words = r
      BY <2>1 DEF r
    <3> QED BY <3>1, <3>2
  <2>3. EndBefore(text, k + 1) = EndBefore(text, k) \cup {w}
    BY <1>1, <1>2, <1>5 DEF EndBefore, Places, a
  <2> HIDE DEF w
  <2>4. \A n \in DOMAIN words : words[n][2] < k + 1
    <3> SUFFICES ASSUME NEW n \in DOMAIN words PROVE words[n][2] < k + 1
      OBVIOUS
    <3>1. words[n] \in Pairs
      BY <2>2
    <3> QED BY <1>1, <2>2, <3>1 DEF Pairs
  <2> QED BY <1>3, <2>2, <2>3, <2>4 DEF Found, words, q
<1> QED BY <1>1, <1>4, <1>5

LEMMA KeepFinds ==
  ASSUME NEW text \in Seq(Chars), NEW k \in 0..Len(text), NEW s,
         Scanned(text, k, s), k < Len(text),
         text[k + 1] # IF s.quoted THEN "quote" ELSE "space"
  PROVE  Found(text, k + 1, s.words)
<1>1. \A a \in 1..k : ~IsWord(text, a, k)
  BY EndsAt
<1>2. EndBefore(text, k + 1) = EndBefore(text, k)
  BY <1>1 DEF EndBefore, Places
<1> QED BY <1>2 DEF Scanned, Found

LEMMA TurnScans ==
  ASSUME NEW text \in Seq(Chars), NEW k \in 0..Len(text), NEW s,
         Scanned(text, k, s), k < Len(text)
  PROVE  Scanned(text, k + 1, Turn(s, text[k + 1], k + 1))
<1>. DEFINE c == text[k + 1]
            t == Turn(s, c, k + 1)
<1>. SUFFICES Scanned(text, k + 1, t)
  OBVIOUS
<1>1. /\ Len(text) \in Nat /\ k \in Nat /\ k + 1 \in 1..Len(text)
      /\ s.start \in 1..(k + 1) /\ s.quoted \in BOOLEAN
      /\ s.words \in Seq(Pairs) /\ c \in Chars
      /\ s.quoted <=> Quoted(text, s.start)
      /\ \A j \in s.start..k : text[j] # "quote"
  BY DEF Scanned
<1>2. Quoted(text, k + 1) <=> s.quoted
  BY <1>1, QuotedStretch
<1>3. Quoted(text, k + 2) <=> ~(s.quoted <=> c = "quote")
  <2>1. (k + 1) + 1 = k + 2
    BY <1>1
  <2> QED BY <1>1, <1>2, <2>1, QuotedStep
<1>4. ASSUME NEW words,
             t = [start |-> k + 2, quoted |-> t.quoted, words |-> words],
             t.quoted \in BOOLEAN,
             t.quoted <=> Quoted(text, k + 2),
             IF t.quoted THEN c = "quote" ELSE c # "letter",
             Found(text, k + 1, words),
             \A n \in DOMAIN words : words[n][2] < k + 2
      PROVE  Scanned(text, k + 1, t)
  <2>1. words \in Seq(Pairs)
    BY <1>4 DEF Found
  <2>2. /\ (k + 1) + 1 = k + 2 /\ k + 2 \in 1..((k + 1) + 1)
        /\ (k + 2) - 1 = k + 1 /\ (k + 2)..(k + 1) = {} /\ k + 2 > 1
    BY <1>1
  <2> QED BY <1>4, <2>1, <2>2 DEF Scanned
<1>5. CASE c = IF s.quoted THEN "quote" ELSE "space"
  <2>1. /\ Found(text, k + 1, Cut(s, k + 1))
        /\ \A n \in DOMAIN Cut(s, k + 1) : Cut(s, k + 1)[n][2] < k + 1
    BY <1>5, CutFinds
  <2>2. t = [start |-> k + 2, quoted |-> FALSE, words |-> Cut(s, k + 1)]
    <3>1. CASE s.quoted
      <4>1. t = [start |-> (k + 1) + 1, quoted |-> ~s.quoted,
                 words |-> IF s.quoted THEN Cut(s, k + 1) ELSE s.words]
        BY <1>5, <3>1 DEF Turn
      <4> HIDE DEF t
      <4>2. (k + 1) + 1 = k + 2 /\ (~s.quoted) = FALSE
        BY <1>1, <3>1
      <4> QED BY <3>1, <4>1, <4>2
    <3>2. CASE ~s.quoted
      <4>1. /\ s = [start |-> s.start, quoted |-> s.quoted, words |-> s.words]
            /\ s.quoted = FALSE
        BY <1>1, <3>2 DEF Scanned
      <4>2. t = [s EXCEPT !.start = (k + 1) + 1, !.words = Cut(s, k + 1)]
        BY <1>5, <3>2 DEF Turn
      <4> HIDE DEF t
      <4>3. t = [start |-> (k + 1) + 1, quoted |-> s.quoted, words |-> Cut(s, k + 1)]
        BY <4>1, <4>2
      <4>4. (k + 1) + 1 = k + 2
        BY <1>1
      <4> QED BY <4>1, <4>3, <4>4
    <3> QED BY <1>1, <3>1, <3>2
  <2>3. \A n \in DOMAIN Cut(s, k + 1) : Cut(s, k + 1)[n][2] < k + 2
    <3> SUFFICES ASSUME NEW n \in DOMAIN Cut(s, k + 1)
                 PROVE  Cut(s, k + 1)[n][2] < k + 2
      OBVIOUS
    <3>1. Cut(s, k + 1)[n] \in Pairs
      BY <2>1 DEF Found
    <3> QED BY <1>1, <2>1, <3>1 DEF Pairs
  <2>4. ~Quoted(text, k + 2) /\ c # "letter"
    BY <1>1, <1>3, <1>5
  <2> HIDE DEF t, c
  <2>5. /\ t = [start |-> k + 2, quoted |-> t.quoted, words |-> Cut(s, k + 1)]
        /\ t.quoted = FALSE
    BY <2>2
  <2>6. t.quoted <=> Quoted(text, k + 2)
    BY <2>4, <2>5
  <2>7. t.quoted \in BOOLEAN /\ (IF t.quoted THEN c = "quote" ELSE c # "letter")
    BY <2>4, <2>5
  <2> QED BY <1>4, <2>1, <2>3, <2>5, <2>6, <2>7
<1>6. CASE c # IF s.quoted THEN "quote" ELSE "space"
  <2>1. Found(text, k + 1, s.words)
    BY <1>1, <1>6, KeepFinds
  <2>2. \A n \in DOMAIN s.words : s.words[n][2] < s.start /\ s.words[n][2] \in Nat
    <3>1. \A n \in DOMAIN s.words : s.words[n] \in Pairs
      BY <1>1
    <3> QED BY <3>1 DEF Scanned, Pairs
  <2>3. CASE c = "quote"
    <3>1. t = [start |-> k + 2, quoted |-> TRUE, words |-> s.words]
      <4>1. t = [start |-> (k + 1) + 1, quoted |-> ~s.quoted,
                 words |-> IF s.quoted THEN Cut(s, k + 1) ELSE s.words]
        BY <2>3 DEF Turn
      <4> HIDE DEF t
      <4>2. (k + 1) + 1 = k + 2 /\ (~s.quoted) = TRUE
        BY <1>1, <1>6, <2>3
      <4> QED BY <4>1, <4>2
    <3>2. \A n \in DOMAIN s.words : s.words[n][2] < k + 2
      BY <1>1, <2>2
    <3>3. Quoted(text, k + 2)
      BY <1>3, <1>6, <2>3
    <3> HIDE DEF t, c
    <3>4. /\ t = [start |-> k + 2, quoted |-> t.quoted, words |-> s.words]
          /\ t.quoted = TRUE
      BY <3>1
    <3>5. t.quoted <=> Quoted(text, k + 2)
      BY <3>3, <3>4
    <3>6. t.quoted \in BOOLEAN /\ (IF t.quoted THEN c = "quote" ELSE c # "letter")
      BY <2>3, <3>4 DEF c
    <3> QED BY <1>4, <2>1, <3>2, <3>4, <3>5, <3>6
  <2>4. CASE c # "quote"
    <3>1. t = s /\ (s.quoted \/ c = "letter")
      BY <1>1, <1>6, <2>4 DEF Turn, Chars
    <3>2. ASSUME NEW j \in s.start..(k + 1)
          PROVE  text[j] # "quote" /\ (s.quoted \/ text[j] = "letter")
      <4>1. CASE j = k + 1
        BY <2>4, <3>1, <4>1
      <4>2. CASE j # k + 1
        <5>1. j \in s.start..k
          BY <1>1, <4>2
        <5> QED BY <5>1 DEF Scanned
      <4> QED BY <4>1, <4>2
    <3>3. s \in [start : 1..((k + 1) + 1), quoted : BOOLEAN, words : Seq(Pairs)]
      <4>1. 1..(k + 1) \subseteq 1..((k + 1) + 1)
        BY <1>1
      <4> QED BY <4>1 DEF Scanned
    <3> QED BY <2>1, <3>1, <3>2, <3>3 DEF Scanned
  <2> QED BY <2>3, <2>4
<1> QED BY <1>5, <1>6

LEMMA ScanScans ==
  ASSUME NEW text \in Seq(Chars), NEW scan, IsScan(scan, text, Len(text))
  PROVE  \A k \in 0..Len(text) : Scanned(text, k, scan[k])
<1>. DEFINE Bad == {k \in 0..Len(text) : ~Scanned(text, k, scan[k])}
<1>. SUFFICES ASSUME Bad # {} PROVE FALSE
  OBVIOUS
<1>1. PICK k \in Bad : \A m \in Bad : k <= m
  <2>1. Bad \subseteq Nat
    OBVIOUS
  <2> HIDE DEF Bad
  <2> QED BY <2>1, Smallest
<1>2. k \in 0..Len(text) /\ Len(text) \in Nat /\ ~Scanned(text, k, scan[k])
  OBVIOUS
<1>3. CASE k = 0
  <2>1. scan[k] = Begin
    BY <1>2, <1>3 DEF IsScan
  <2>2. Cardinality({}) = 0
    BY FS_EmptySet
  <2>3. ~Quoted(text, 1)
    <3>1. {j \in 1..(1 - 1) : text[j] = "quote"} = {}
      OBVIOUS
    <3> QED BY <2>2, <3>1 DEF Quoted
  <2>4. Found(text, 0, <<>>)
    <3>1. EndBefore(text, 0) = {}
      BY DEF EndBefore, Places
    <3>2. <<>> \in Seq(Pairs) /\ DOMAIN <<>> = {}
      OBVIOUS
    <3> QED BY <3>1, <3>2 DEF Found
  <2>5. Begin \in [start : 1..(0 + 1), quoted : BOOLEAN, words : Seq(Pairs)]
    BY DEF Begin
  <2>6. /\ Begin.start = 1 /\ Begin.quoted = FALSE /\ Begin.words = <<>>
        /\ 1..0 = {} /\ DOMAIN <<>> = {}
    BY DEF Begin
  <2>7. Scanned(text, 0, Begin)
    BY <2>3, <2>4, <2>5, <2>6 DEF Scanned
  <2> QED BY <1>2, <1>3, <2>1, <2>7
<1>4. CASE k # 0
  <2>1. k - 1 \in 0..Len(text) /\ k - 1 \notin Bad /\ (k - 1) + 1 = k
    BY <1>1, <1>2, <1>4
  <2>2. Scanned(text, k - 1, scan[k - 1])
    BY <2>1
  <2>3. scan[k] = Turn(scan[k - 1], text[k], k)
    BY <1>2, <1>4 DEF IsScan
  <2>4. k - 1 < Len(text)
    BY <1>2
  <2>5. Scanned(text, (k - 1) + 1, Turn(scan[k - 1], text[(k - 1) + 1], (k - 1) + 1))
    BY <2>1, <2>2, <2>4, TurnScans
  <2> QED BY <1>2, <2>1, <2>3, <2>5
<1> QED BY <1>3, <1>4

LEMMA WordsFound ==
  ASSUME NEW text \in Seq(Chars)
  PROVE  Found(text, Len(text) + 1, Words(text))
<1>1. PICK scan : /\ IsScan(scan, text, Len(text))
                  /\ Words(text) = Cut(scan[Len(text)], Len(text) + 1)
  BY WordsOfScan
<1>2. Len(text) \in 0..Len(text)
  OBVIOUS
<1>3. Scanned(text, Len(text), scan[Len(text)])
  BY <1>1, <1>2, ScanScans
<1> QED BY <1>1, <1>2, <1>3, CutFinds

-----------------------------------------------------------------------------
\* As many arguments as the line has words, until the command is run.
Counted == pc = "built" => mem.argc = Len(Words(line))

LEMMA NextCounted ==
  ASSUME Inv, Counted, [Next]_vars
  PROVE  Counted'
<1>1. CASE BuildCommand
  <2>1. PICK text \in Lines :
          /\ line' = text
          /\ \E b \in Malloc(Freed(mem).heap) : \E S, f :
               mem' = Filled(Allocated(Freed(mem), b), Len(Words(text)), f)
    BY <1>1 DEF BuildCommand
  <2>1a. PICK b \in Malloc(Freed(mem).heap) : \E S, f :
          mem' = Filled(Allocated(Freed(mem), b), Len(Words(text)), f)
    BY <2>1
  <2>2. PICK S, f :
          mem' = Filled(Allocated(Freed(mem), b), Len(Words(text)), f)
    BY <2>1a
  <2>3. Allocated(Freed(mem), b) \in Memories
    <3>1. /\ Freed(mem) \in Memories /\ NoWords(Freed(mem))
          /\ Freed(mem).heap = {}
      BY <1>1, FreedHasNone DEF Inv, TypeOK, Known, BuildCommand
    <3> QED BY <3>1, AllocatedHasNone
  <2>4. mem'.argc = Len(Words(text))
    BY <2>2, <2>3 DEF Filled, Memories
  <2> QED BY <2>1, <2>4 DEF Counted
<1>2. CASE FreesGarbage \/ EndOfInput \/ Shell
  <2>1. pc' # "built"
    BY <1>2
    DEF FreesGarbage, EndOfInput, Leave, Shell, NoCommand, NoName, Exit, Rc,
        Cd, ForkFails, Fork, Wait, Prompt, Named
  <2> QED BY <2>1 DEF Counted
<1>3. CASE Child \/ Kill \/ UNCHANGED vars
  <2>1. UNCHANGED <<pc, line, mem>>
    BY <1>3 DEF Child, ExecFails, Exec, Ends, Kill, Dies, vars
  <2> QED BY <2>1 DEF Counted
<1> QED BY <1>1, <1>2, <1>3 DEF Next

\* For every line of any length, build_cmd_buff finds exactly the words the
\* documentation describes, in their order, and passes on as many arguments.
THEOREM SplitsRight == Spec => []SplitRight
<1>1. Init => Counted
  BY DEF Init, Counted
<1>2. Inv /\ Counted /\ [Next]_vars => Counted'
  BY NextCounted
<1>3. Inv /\ Counted => SplitRight
  <2> SUFFICES ASSUME Inv, Counted PROVE SplitRight
    OBVIOUS
  <2>1. line \in Seq(Chars) /\ Len(line) \in Nat
    BY DEF Inv, TypeOK
  <2>2. Found(line, Len(line) + 1, Words(line))
    BY <2>1, WordsFound
  <2>3. EndBefore(line, Len(line) + 1) =
          {w \in (1..Len(line)) \X (1..Len(line)) :
             w[1] <= w[2] /\ IsWord(line, w[1], w[2])}
    BY <2>1 DEF EndBefore, Places
  <2> QED BY <2>2, <2>3 DEF Found, SplitRight, Counted
<1> QED BY <1>1, <1>2, <1>3, Always, PTL DEF Spec
=============================================================================
