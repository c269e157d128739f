-------------------------- MODULE CommandListProofs --------------------------
(***************************************************************************)
(* Theorems of CommandList, for any lines and limits: what build_cmd_list  *)
(* puts into the list, which lines it refuses, which blocks it loses, and  *)
(* that the parser of 3-ShellP1 agrees.                                    *)
(***************************************************************************)
EXTENDS CommandList, CommandParserProofs

-----------------------------------------------------------------------------
(* The tokens of a line, and those that hold a command.                    *)

\* The elements of F that are among the first n of W.
Among(W, F, n) == {w \in F : Rank(W, w) <= n}

\* A part of some stretches keeps their order.
LEMMA AmongNext ==
  ASSUME NEW m \in Nat, NEW W, Apart(W, m), NEW F, F \subseteq W
  PROVE  /\ Apart(F, m)
         /\ \A n : IsFiniteSet(Among(W, F, n)) /\ Cardinality(Among(W, F, n)) \in Nat
         /\ Cardinality(Among(W, F, 0)) = 0
         /\ Among(W, F, Cardinality(W)) = F
         /\ \A n \in 1..Cardinality(W) :
              /\ InOrder(W)[n] \in F =>
                   /\ Cardinality(Among(W, F, n)) =
                        Cardinality(Among(W, F, n - 1)) + 1
                   /\ Cardinality(Among(W, F, n)) \in 1..Cardinality(F)
                   /\ InOrder(F)[Cardinality(Among(W, F, n))] = InOrder(W)[n]
              /\ InOrder(W)[n] \notin F =>
                   Cardinality(Among(W, F, n)) = Cardinality(Among(W, F, n - 1))
<1>1. Apart(F, m)
  BY DEF Apart
<1>2. \A n : IsFiniteSet(Among(W, F, n)) /\ Cardinality(Among(W, F, n)) \in Nat
  <2> SUFFICES ASSUME NEW n
               PROVE  IsFiniteSet(Among(W, F, n)) /\ Cardinality(Among(W, F, n)) \in Nat
    OBVIOUS
  <2>1. IsFiniteSet(F)
    BY <1>1, BelowStep
  <2>2. Among(W, F, n) \subseteq F
    BY DEF Among
  <2>3. IsFiniteSet(Among(W, F, n))
    BY <2>1, <2>2, FS_Subset
  <2> QED BY <2>3, FS_CardinalityType
<1>3. /\ Cardinality(W) \in Nat
      /\ \A w \in W : Rank(W, w) \in 1..Cardinality(W)
  BY Ordered, RankOf
<1>4. Among(W, F, 0) = {} /\ Among(W, F, Cardinality(W)) = F
  BY <1>3 DEF Among
<1>5. Cardinality(Among(W, F, 0)) = 0
  BY <1>4, FS_EmptySet
<1>6. ASSUME NEW n \in 1..Cardinality(W)
      PROVE  /\ InOrder(W)[n] \in F =>
                  /\ Cardinality(Among(W, F, n)) =
                       Cardinality(Among(W, F, n - 1)) + 1
                  /\ Cardinality(Among(W, F, n)) \in 1..Cardinality(F)
                  /\ InOrder(F)[Cardinality(Among(W, F, n))] = InOrder(W)[n]
             /\ InOrder(W)[n] \notin F =>
                  Cardinality(Among(W, F, n)) = Cardinality(Among(W, F, n - 1))
  <2>1. PICK w : w = InOrder(W)[n]
    OBVIOUS
  <2>2. w \in W /\ Rank(W, w) = n
    BY <2>1, Ordered
  <2>3. \A v \in W : Rank(W, v) = n => v = w
    BY <2>2, RankOf
  <2>4. \A v \in W : Rank(W, v) <= n <=> v = w \/ Rank(W, v) <= n - 1
    BY <1>3, <2>2, <2>3
  <2>5. CASE w \in F
    <3>1. Among(W, F, n) = Among(W, F, n - 1) \cup {w} /\ w \notin Among(W, F, n - 1)
      BY <1>3, <2>2, <2>4, <2>5 DEF Among
    <3>2. Cardinality(Among(W, F, n)) = Cardinality(Among(W, F, n - 1)) + 1
      BY <1>2, <3>1, FS_AddElement
    <3>3. \A v \in F : v[1] <= w[1] <=> Rank(W, v) <= n
      <4> SUFFICES ASSUME NEW v \in F PROVE v[1] <= w[1] <=> Rank(W, v) <= n
        OBVIOUS
      <4>1. v \in W /\ v[1] \in Nat /\ w[1] \in Nat /\ Rank(W, v) \in Nat
        BY <1>3, <2>2 DEF Apart
      <4>2. v[1] < w[1] => Rank(W, v) < n
        BY <2>2, <4>1, RankOf
      <4>3. w[1] < v[1] => n < Rank(W, v)
        BY <2>2, <4>1, RankOf
      <4>4. v[1] = w[1] => v = w
        BY <2>2, <4>1 DEF Apart
      <4> QED BY <2>2, <4>1, <4>2, <4>3, <4>4
    <3>4. Below(F, w[1]) = Among(W, F, n)
      BY <3>3 DEF Below, Among
    <3>5. Rank(F, w) = Cardinality(Among(W, F, n))
      BY <3>4 DEF Rank
    <3>6. Rank(F, w) \in 1..Cardinality(F)
      BY <1>1, <2>5, RankOf
    <3>7. InOrder(F)[Rank(F, w)] = w
      BY <1>1, <2>5, Ordered
    <3> QED BY <2>1, <2>5, <3>2, <3>5, <3>6, <3>7
  <2>6. CASE w \notin F
    <3>1. Among(W, F, n) = Among(W, F, n - 1)
      BY <2>4, <2>6 DEF Among
    <3> QED BY <2>1, <2>6, <3>1
  <2> QED BY <2>5, <2>6
<1> QED BY <1>1, <1>2, <1>4, <1>5, <1>6

\* A text of a line of characters that are no pipes is a piece.
LEMMA TextIs ==
  ASSUME NEW text \in Seq(Chars), NEW w \in Pieces(text)
  PROVE  SubSeq(text, w[1], w[2]) \in Piece /\ Len(SubSeq(text, w[1], w[2])) > 0
<1>. DEFINE S == {k \in DOMAIN text : text[k] # "pipe"}
<1>1. /\ Len(text) \in Nat /\ DOMAIN text = 1..Len(text)
      /\ \A k \in 1..Len(text) : text[k] \in Chars
      /\ S \subseteq 1..Len(text) /\ w \in Stretches(S)
  BY DEF Pieces
<1>2. /\ w \in (1..Len(text)) \X (1..Len(text)) /\ w[1] <= w[2]
      /\ \A k \in w[1]..w[2] : k \in S
  <2>. HIDE DEF S
  <2> QED BY <1>1, StretchesApart
<1>3. \A k \in w[1]..w[2] : text[k] \in Chars \ {"pipe"}
  BY <1>1, <1>2
<1>4. PICK a \in Nat, b \in Nat : a = w[1] /\ b = w[2]
  BY <1>2
<1>5. /\ SubSeq(text, a, b) \in Seq(Chars \ {"pipe"})
      /\ Len(SubSeq(text, a, b)) = IF a <= b THEN b - a + 1 ELSE 0
  <2>1. a \in Int /\ b \in Int /\ \A k \in a..b : text[k] \in Chars \ {"pipe"}
    BY <1>3, <1>4
  <2> QED BY <2>1, SubSeqProperties
<1> QED BY <1>2, <1>4, <1>5 DEF Piece

\* The pieces of a line, and those that hold a command.
Carrying(text) ==
  {w \in Pieces(text) : CommandOf(SubSeq(text, w[1], w[2])).args # <<>>}

\* How many of the first n tokens hold a command.
Carried(text, n) == Cardinality(Among(Pieces(text), Carrying(text), n))

\* The texts between pipes, and which of them is which command.
LEMMA TokensAre ==
  ASSUME NEW text \in Seq(Chars), NEW N, N = Len(Tokens(text))
  PROVE  /\ N \in Nat /\ Tokens(text) \in Seq(Piece) /\ DOMAIN Tokens(text) = 1..N
         /\ Len(Filled(text)) = Carried(text, N)
         /\ DOMAIN Filled(text) = 1..Carried(text, N)
         /\ \A n : Carried(text, n) \in Nat
         /\ Carried(text, 0) = 0
         /\ \A n \in 1..N :
              /\ CommandOf(Tokens(text)[n]).args # <<>> =>
                   /\ Carried(text, n) = Carried(text, n - 1) + 1
                   /\ Carried(text, n) \in 1..Carried(text, N)
                   /\ Filled(text)[Carried(text, n)] = Tokens(text)[n]
              /\ CommandOf(Tokens(text)[n]).args = <<>> =>
                   Carried(text, n) = Carried(text, n - 1)
<1>. DEFINE S == {k \in DOMAIN text : text[k] # "pipe"}
            P == Pieces(text)
            F == Carrying(text)
<1>1. Len(text) \in Nat /\ S \subseteq 1..Len(text) /\ P = Stretches(S)
  BY DEF Pieces
<1>2. Apart(P, Len(text)) /\ F \subseteq P
  <2>1. Apart(Stretches(S), Len(text))
    <3>. HIDE DEF S
    <3> QED BY <1>1, StretchesApart
  <2> QED BY <1>1, <2>1 DEF Carrying
<1>3. Apart(F, Len(text))
  BY <1>1, <1>2, AmongNext
<1>4. PICK w : w = InOrder(P)
  OBVIOUS
<1>5. PICK v : v = InOrder(F)
  OBVIOUS
<1>6. /\ Cardinality(P) \in Nat /\ DOMAIN w = 1..Cardinality(P)
      /\ \A n \in 1..Cardinality(P) : w[n] \in P
  BY <1>1, <1>2, <1>4, Ordered
<1>7. Cardinality(F) \in Nat /\ DOMAIN v = 1..Cardinality(F)
  BY <1>1, <1>3, <1>5, Ordered
<1>8. /\ Tokens(text) = [n \in 1..Cardinality(P) |-> SubSeq(text, w[n][1], w[n][2])]
      /\ Filled(text) = [n \in 1..Cardinality(F) |-> SubSeq(text, v[n][1], v[n][2])]
  BY <1>4, <1>5, <1>6, <1>7 DEF Tokens, Texts, Filled, Carrying
<1>9. \A n \in 1..Cardinality(P) : SubSeq(text, w[n][1], w[n][2]) \in Piece
  BY <1>6, TextIs
<1>10. /\ Tokens(text) \in Seq(Piece) /\ Len(Tokens(text)) = Cardinality(P)
       /\ DOMAIN Tokens(text) = 1..Cardinality(P)
  <2>. HIDE DEF P
  <2>1. Tokens(text) \in [1..Cardinality(P) -> Piece]
    BY <1>8, <1>9
  <2> QED BY <1>6, <2>1
<1>11. Len(Filled(text)) = Cardinality(F) /\ DOMAIN Filled(text) = 1..Cardinality(F)
  <2>. HIDE DEF F
  <2>1. PICK T : T = {SubSeq(text, v[n][1], v[n][2]) : n \in 1..Cardinality(F)}
    OBVIOUS
  <2>2. Filled(text) \in [1..Cardinality(F) -> T]
    BY <1>8, <2>1
  <2> QED BY <1>7, <2>2
<1>12. N = Cardinality(P) /\ Carried(text, N) = Cardinality(F)
  <2>1. Among(P, F, Cardinality(P)) = F
    BY <1>1, <1>2, AmongNext
  <2> QED BY <1>10, <2>1 DEF Carried
<1>13. Carried(text, 0) = 0 /\ \A n : Carried(text, n) \in Nat
  BY <1>1, <1>2, AmongNext DEF Carried
<1>14. ASSUME NEW n \in 1..N
       PROVE  /\ CommandOf(Tokens(text)[n]).args # <<>> =>
                   /\ Carried(text, n) = Carried(text, n - 1) + 1
                   /\ Carried(text, n) \in 1..Carried(text, N)
                   /\ Filled(text)[Carried(text, n)] = Tokens(text)[n]
              /\ CommandOf(Tokens(text)[n]).args = <<>> =>
                   Carried(text, n) = Carried(text, n - 1)
  <2>1. Tokens(text)[n] = SubSeq(text, w[n][1], w[n][2]) /\ w[n] \in P
    BY <1>6, <1>8, <1>12
  <2>2. CommandOf(Tokens(text)[n]).args # <<>> <=> w[n] \in F
    BY <2>1 DEF Carrying
  <2>3. /\ w[n] \in F =>
             /\ Carried(text, n) = Carried(text, n - 1) + 1
             /\ Carried(text, n) \in 1..Cardinality(F)
             /\ v[Carried(text, n)] = w[n]
        /\ w[n] \notin F => Carried(text, n) = Carried(text, n - 1)
    BY <1>1, <1>2, <1>4, <1>5, <1>12, AmongNext DEF Carried
  <2>4. w[n] \in F => Filled(text)[Carried(text, n)] = Tokens(text)[n]
    BY <1>8, <2>1, <2>3
  <2>. HIDE DEF F, P
  <2> QED BY <1>12, <2>2, <2>3, <2>4
<1> QED BY <1>10, <1>11, <1>12, <1>13, <1>14

\* The same, of one token of the line.
LEMMA CarriedNext ==
  ASSUME NEW text \in Seq(Chars), NEW N, N = Len(Tokens(text)), NEW n \in 1..N,
         NEW t, t = Tokens(text)[n]
  PROVE  /\ Carried(text, n) \in Nat /\ Carried(text, n - 1) \in Nat
         /\ CommandOf(t).args # <<>> =>
              /\ Carried(text, n) = Carried(text, n - 1) + 1
              /\ Filled(text)[Carried(text, n)] = t
         /\ CommandOf(t).args = <<>> => Carried(text, n) = Carried(text, n - 1)
         /\ \/ Carried(text, n) = Carried(text, n - 1) + 1
            \/ Carried(text, n) = Carried(text, n - 1)
<1>1. \A i : Carried(text, i) \in Nat
  BY TokensAre, Zenon
<1>2. /\ CommandOf(Tokens(text)[n]).args # <<>> =>
           /\ Carried(text, n) = Carried(text, n - 1) + 1
           /\ Filled(text)[Carried(text, n)] = Tokens(text)[n]
      /\ CommandOf(Tokens(text)[n]).args = <<>> =>
           Carried(text, n) = Carried(text, n - 1)
  <2>1. CommandOf(Tokens(text)[n]).args # <<>> =>
          /\ Carried(text, n) = Carried(text, n - 1) + 1
          /\ Filled(text)[Carried(text, n)] = Tokens(text)[n]
    BY TokensAre, SMTT(30)
  <2>2. CommandOf(Tokens(text)[n]).args = <<>> =>
          Carried(text, n) = Carried(text, n - 1)
    BY TokensAre, SMTT(30)
  <2> QED BY <2>1, <2>2
<1> QED BY <1>1, <1>2

-----------------------------------------------------------------------------
(* One token of build_cmd_list.                                            *)

Builts ==
  [slots : [1..CmdMax -> Slots], num : 0..CmdMax, rc : {"OK", "TOO_MANY"},
   lost : Nat]

\* A slot holds a command.
Holds(slot, command) == [w \in DOMAIN NoCommand |-> slot[w]] = command

\* A slot, field by field.
LEMMA SlotIs ==
  ASSUME NEW args \in Seq(Nat \X Nat), NEW in \in Nat \X Nat,
         NEW out \in Nat \X Nat, NEW append \in BOOLEAN,
         NEW c, c = [args |-> args, in |-> in, out |-> out, append |-> append],
         NEW slot,
         slot = [buf |-> TRUE, args |-> args, in |-> in, out |-> out,
                 append |-> append]
  PROVE  slot \in Slots /\ Holds(slot, c)
<1>1. slot \in Slots
  BY DEF Slots
<1>2. DOMAIN NoCommand = {"args", "in", "out", "append"}
  BY DEF NoCommand
<1>3. DOMAIN c = {"args", "in", "out", "append"}
  OBVIOUS
<1>4. c = [w \in {"args", "in", "out", "append"} |-> c[w]]
  BY <1>3
<1>5. \A w \in {"args", "in", "out", "append"} : slot[w] = c[w]
  OBVIOUS
<1>6. [w \in DOMAIN NoCommand |-> slot[w]] = c
  BY <1>2, <1>4, <1>5
<1> QED BY <1>1, <1>6 DEF Holds

\* The slot build_cmd_buff has filled holds the command.
LEMMA SlotFilled ==
  ASSUME NEW s \in Scans, NEW slot, slot = Slot(TRUE, Command(s))
  PROVE  slot \in Slots /\ Holds(slot, Command(s))
<1>1. PICK args, in, out, append :
        args = s.args /\ in = s.in /\ out = s.out /\ append = s.append
  OBVIOUS
<1>2. /\ args \in Seq(Nat \X Nat) /\ in \in Nat \X Nat /\ out \in Nat \X Nat
      /\ append \in BOOLEAN
  BY <1>1 DEF Scans, Files
<1>3. Command(s) = [args |-> args, in |-> in, out |-> out, append |-> append]
  BY <1>1 DEF Command
<1>4. slot = [buf |-> TRUE, args |-> args, in |-> in, out |-> out, append |-> append]
  BY <1>3 DEF Slot
<1> QED BY <1>2, <1>3, <1>4, SlotIs

\* A slot that was freed holds no block,
LEMMA NothingHeld ==
  /\ Garbage \in Slots /\ Empty \in Slots /\ Held(Garbage) = 0
<1>1. /\ Garbage = [buf |-> FALSE, args |-> <<>>, in |-> None, out |-> None,
                    append |-> FALSE]
      /\ Empty = [buf |-> TRUE, args |-> <<>>, in |-> None, out |-> None,
                  append |-> FALSE]
  BY DEF Garbage, Empty, NoCommand, Slot
<1>2. None \in Nat \X Nat /\ <<>> \in Seq(Nat \X Nat)
  BY DEF None
<1>3. Garbage \in Slots /\ Empty \in Slots
  BY <1>1, <1>2 DEF Slots
<1>4. {w \in {"in", "out"} : Garbage[w] # None} = {}
  BY <1>1
<1>5. Len(Garbage.args) = 0 /\ Garbage.buf = FALSE
  BY <1>1
<1>6. Cardinality({w \in {"in", "out"} : Garbage[w] # None}) = 0
  BY <1>4, FS_EmptySet
<1>. HIDE DEF Garbage
<1>7. Held(Garbage) = 0
  BY <1>5, <1>6 DEF Held
<1> QED BY <1>3, <1>7

\* and any other finitely many.
LEMMA HeldType ==
  ASSUME NEW slot \in Slots
  PROVE  Held(slot) \in Nat
<1>1. IsFiniteSet({"in", "out"})
  <2>1. IsFiniteSet({"in"}) /\ {"in", "out"} = {"in"} \cup {"out"}
    BY FS_Singleton
  <2> QED BY <2>1, FS_AddElement
<1>2. Cardinality({w \in {"in", "out"} : slot[w] # None}) \in Nat
  <2>1. {w \in {"in", "out"} : slot[w] # None} \subseteq {"in", "out"}
    OBVIOUS
  <2>2. IsFiniteSet({w \in {"in", "out"} : slot[w] # None})
    BY <1>1, <2>1, FS_Subset
  <2> QED BY <2>2, FS_CardinalityType
<1>3. Len(slot.args) \in Nat
  BY DEF Slots
<1> QED BY <1>2, <1>3 DEF Held

\* One token of build_cmd_list, case by case.
LEMMA BuildNextIs ==
  ASSUME NEW b \in Builts, NEW text \in Piece, NEW c, c = BuildNext(b, text),
         NEW s, s = Scan(text)
  PROVE  /\ c \in Builts
         /\ b.rc # "OK" => c = b
         /\ b.rc = "OK" /\ b.num = CmdMax =>
              c.rc = "TOO_MANY" /\ c.slots = b.slots /\ c.num = b.num /\ c.lost = b.lost
         /\ b.rc = "OK" /\ b.num # CmdMax =>
              /\ c.rc = "OK" /\ c.lost = b.lost + s.lost
              /\ Holds(c.slots[b.num + 1], CommandOf(text))
              /\ \A j \in 1..b.num : c.slots[j] = b.slots[j]
              /\ c.num = IF CommandOf(text).args = <<>> THEN b.num ELSE b.num + 1
<1>1. /\ b.slots \in [1..CmdMax -> Slots] /\ b.num \in 0..CmdMax
      /\ b.rc \in {"OK", "TOO_MANY"} /\ b.lost \in Nat
  BY DEF Builts
<1>2. CmdMax \in Nat /\ CmdMax > 0
  BY LimitsAssumption
<1>3. /\ s \in Scans /\ Command(s) = CommandOf(text)
      /\ s.args = CommandOf(text).args /\ s.lost \in Nat
  BY ScanFinds
<1>4. CASE b.rc # "OK"
  <2>1. c = b
    BY <1>4 DEF BuildNext
  <2> QED BY <1>4, <2>1
<1>5. CASE b.rc = "OK" /\ b.num = CmdMax
  <2>1. c = [b EXCEPT !.rc = "TOO_MANY"]
    BY <1>2, <1>5 DEF BuildNext
  <2>2. /\ c \in Builts /\ c.rc = "TOO_MANY" /\ c.slots = b.slots
        /\ c.num = b.num /\ c.lost = b.lost
    BY <2>1 DEF Builts
  <2> QED BY <1>5, <2>2
<1>6. CASE b.rc = "OK" /\ b.num # CmdMax
  <2>1. PICK n : n = b.num + 1
    OBVIOUS
  <2>2. PICK slot : slot = Slot(TRUE, Command(s))
    OBVIOUS
  <2>3. PICK num : num = IF s.args = <<>> THEN b.num ELSE n
    OBVIOUS
  <2>4. PICK l : l = b.lost + s.lost
    OBVIOUS
  <2>5. n \in 1..CmdMax /\ num \in 0..CmdMax /\ l \in Nat /\ ~(b.num >= CmdMax)
    BY <1>1, <1>2, <1>3, <1>6, <2>1, <2>3, <2>4
  <2>6. slot \in Slots /\ Holds(slot, CommandOf(text))
    BY <1>3, <2>2, SlotFilled
  <2>7. Held(Freed(b.slots[n])) = 0
    BY NothingHeld DEF Freed
  <2>8. l = b.lost + 0 + s.lost
    BY <1>1, <1>3, <2>4
  <2>9. c = [b EXCEPT !.slots[n] = slot, !.num = num, !.lost = l]
    BY <1>6, <2>1, <2>2, <2>3, <2>5, <2>7, <2>8 DEF BuildNext
  <2>10. PICK slots : slots = [b.slots EXCEPT ![n] = slot]
    OBVIOUS
  <2>11. /\ slots \in [1..CmdMax -> Slots] /\ slots[n] = slot
         /\ \A j \in 1..CmdMax : j # n => slots[j] = b.slots[j]
    BY <1>1, <2>5, <2>6, <2>10
  <2>12. c = [b EXCEPT !.slots = slots, !.num = num, !.lost = l]
    BY <2>9, <2>10 DEF Builts
  <2>13. /\ c \in Builts /\ c.slots = slots /\ c.num = num /\ c.lost = l
         /\ c.rc = "OK"
    BY <1>6, <2>5, <2>11, <2>12 DEF Builts
  <2>14. \A j \in 1..b.num : c.slots[j] = b.slots[j]
    BY <1>1, <1>2, <2>1, <2>11, <2>13
  <2> QED BY <1>3, <1>6, <2>1, <2>3, <2>4, <2>6, <2>11, <2>13, <2>14
<1> QED BY <1>4, <1>5, <1>6

-----------------------------------------------------------------------------
(* The list after n tokens.                                                *)

\* The names a later one of the same command replaces, token by token.
Passed(text) == Names(text) \ {CommandOf(text).in, CommandOf(text).out}
PassedIn(text, n) == UNION {{i} \X Passed(Tokens(text)[i]) : i \in 1..n}

\* Every token adds the names it replaces.
LEMMA PassedNext ==
  ASSUME NEW text \in Seq(Chars), NEW N, N = Len(Tokens(text))
  PROVE  /\ \A n \in 0..N : /\ IsFiniteSet(PassedIn(text, n))
                            /\ Cardinality(PassedIn(text, n)) \in Nat
         /\ Cardinality(PassedIn(text, 0)) = 0
         /\ Replaced(text) = Cardinality(PassedIn(text, N))
         /\ \A n \in 1..N :
              /\ Cardinality(Passed(Tokens(text)[n])) \in Nat
              /\ Cardinality(PassedIn(text, n)) =
                   Cardinality(PassedIn(text, n - 1))
                     + Cardinality(Passed(Tokens(text)[n]))
<1>1. /\ N \in Nat /\ Tokens(text) \in Seq(Piece) /\ DOMAIN Tokens(text) = 1..N
      /\ \A n \in 1..N : Tokens(text)[n] \in Piece
  BY TokensAre
<1>2. ASSUME NEW n \in 1..N
      PROVE  /\ IsFiniteSet(Passed(Tokens(text)[n]))
             /\ Cardinality(Passed(Tokens(text)[n])) \in Nat
  <2>1. PICK t \in Piece : t = Tokens(text)[n]
    BY <1>1
  <2>2. IsFiniteSet(Names(t))
    <3>1. PICK s : s = Scan(t)
      OBVIOUS
    <3> QED BY <3>1, ScanFinds
  <2>3. Passed(t) \subseteq Names(t)
    BY DEF Passed
  <2>4. IsFiniteSet(Passed(t))
    BY <2>2, <2>3, FS_Subset
  <2>5. Cardinality(Passed(t)) \in Nat
    BY <2>4, FS_CardinalityType
  <2> QED BY <2>1, <2>4, <2>5
<1>3. ASSUME NEW n \in 1..N, IsFiniteSet(PassedIn(text, n - 1))
      PROVE  /\ IsFiniteSet(PassedIn(text, n))
             /\ Cardinality(PassedIn(text, n)) =
                  Cardinality(PassedIn(text, n - 1))
                    + Cardinality(Passed(Tokens(text)[n]))
  <2>. DEFINE Old == PassedIn(text, n - 1)
              New == {n} \X Passed(Tokens(text)[n])
  <2>1. IsFiniteSet(New) /\ Cardinality(New) = Cardinality(Passed(Tokens(text)[n]))
    <3>1. IsFiniteSet({n}) /\ Cardinality({n}) = 1
      BY FS_Singleton
    <3> QED BY <1>2, <3>1, FS_Product
  <2>2. PassedIn(text, n) = Old \cup New
    <3>1. 1..n = 1..(n - 1) \cup {n}
      BY <1>1
    <3> QED BY <3>1 DEF PassedIn
  <2>3. Old \cap New = {}
    <3>1. \A e \in Old : e[1] \in 1..(n - 1)
      BY DEF PassedIn
    <3>2. n \notin 1..(n - 1)
      BY <1>1
    <3>3. \A e \in New : e[1] = n
      OBVIOUS
    <3> QED BY <3>1, <3>2, <3>3
  <2>4. IsFiniteSet(Old)
    BY <1>3
  <2>5. Cardinality(Old) \in Nat /\ Cardinality(New) \in Nat
    BY <2>1, <2>4, FS_CardinalityType
  <2>. HIDE DEF Old, New
  <2>6. IsFiniteSet(Old \cup New)
    BY <2>1, <2>4, FS_Union
  <2>7. Cardinality(Old \cup New) = Cardinality(Old) + Cardinality(New)
    <3>1. Cardinality(Old \cap New) = 0
      BY <2>3, FS_EmptySet
    <3>2. Cardinality(Old \cup New) =
            Cardinality(Old) + Cardinality(New) - Cardinality(Old \cap New)
      BY <2>1, <2>4, FS_Union
    <3> QED BY <2>5, <3>1, <3>2
  <2> QED BY <2>1, <2>2, <2>6, <2>7 DEF Old
<1>4. IsFiniteSet(PassedIn(text, 0)) /\ Cardinality(PassedIn(text, 0)) = 0
  <2>1. PassedIn(text, 0) = {}
    BY DEF PassedIn
  <2> QED BY <2>1, FS_EmptySet
<1>5. \A n \in 0..N : IsFiniteSet(PassedIn(text, n))
  <2>. DEFINE T == {n \in 0..N : IsFiniteSet(PassedIn(text, n))}
  <2>1. 0 \in T
    BY <1>1, <1>4
  <2>2. ASSUME NEW n \in Nat, n < N, n \in T PROVE n + 1 \in T
    <3>1. PICK k \in 1..N : k = n + 1 /\ k - 1 = n
      BY <1>1, <2>2
    <3>2. IsFiniteSet(PassedIn(text, k))
      BY <1>3, <2>2, <3>1
    <3> QED BY <1>1, <3>1, <3>2
  <2>. HIDE DEF T
  <2>3. \A n \in 0..N : n \in T
    BY <1>1, <2>1, <2>2, UpTo
  <2> QED BY <2>3 DEF T
<1>6. \A n \in 0..N : Cardinality(PassedIn(text, n)) \in Nat
  BY <1>5, FS_CardinalityType
<1>7. Replaced(text) = Cardinality(PassedIn(text, N))
  BY <1>1 DEF Replaced, PassedIn, Passed
<1>8. \A n \in 1..N : n - 1 \in 0..N
  BY <1>1
<1> QED BY <1>2, <1>3, <1>4, <1>5, <1>6, <1>7, <1>8

-----------------------------------------------------------------------------
\* The list after n tokens.
BuiltSoFar(text, n, b) ==
  /\ b \in Builts
  /\ b.rc = "OK" =>
       /\ b.num = Carried(text, n)
       /\ \A j \in 1..b.num : Holds(b.slots[j], CommandOf(Filled(text)[j]))
  /\ b.rc # "OK" <=> n > 0 /\ Carried(text, n - 1) >= CmdMax
  /\ b.lost <= Cardinality(PassedIn(text, n))

\* What one more token makes of the list.
LEMMA BuildSoFar ==
  ASSUME NEW text \in Seq(Chars), NEW n \in 1..Len(Tokens(text)),
         NEW b, BuiltSoFar(text, n - 1, b),
         NEW c, c = BuildNext(b, Tokens(text)[n])
  PROVE  BuiltSoFar(text, n, c)
<1>1. PICK N : N = Len(Tokens(text))
  OBVIOUS
<1>2. /\ N \in Nat /\ n \in 1..N /\ n \in Nat /\ n > 0 /\ n - 1 \in Nat
      /\ n - 1 \in 0..N
  BY <1>1, TokensAre
<1>3. PICK t \in Piece : t = Tokens(text)[n]
  <2>1. Tokens(text) \in Seq(Piece)
    BY <1>1, TokensAre
  <2> QED BY <1>1, <1>2, <2>1
<1>4. PICK s : s = Scan(t)
  OBVIOUS
<1>5. CmdMax \in Nat /\ CmdMax > 0
  BY LimitsAssumption
<1>6. /\ b \in Builts
      /\ b.rc = "OK" =>
           /\ b.num = Carried(text, n - 1)
           /\ \A j \in 1..b.num : Holds(b.slots[j], CommandOf(Filled(text)[j]))
      /\ b.rc # "OK" <=> n - 1 > 0 /\ Carried(text, n - 1 - 1) >= CmdMax
      /\ b.lost <= Cardinality(PassedIn(text, n - 1))
  BY DEF BuiltSoFar
<1>7. b.num \in 0..CmdMax /\ b.lost \in Nat /\ b.rc \in {"OK", "TOO_MANY"}
  BY <1>6 DEF Builts
<1>8. /\ Carried(text, n - 1) \in Nat /\ Carried(text, n) \in Nat
      /\ CommandOf(t).args # <<>> =>
           /\ Carried(text, n) = Carried(text, n - 1) + 1
           /\ Filled(text)[Carried(text, n)] = t
      /\ CommandOf(t).args = <<>> => Carried(text, n) = Carried(text, n - 1)
  BY <1>3, CarriedNext
<1>9. PICK p : p = Cardinality(Passed(t))
  OBVIOUS
<1>10. /\ p \in Nat /\ Cardinality(PassedIn(text, n - 1)) \in Nat
       /\ Cardinality(PassedIn(text, n)) = Cardinality(PassedIn(text, n - 1)) + p
  BY <1>1, <1>2, <1>3, <1>9, PassedNext
<1>11. s.lost = p
  BY <1>4, <1>9, ScanFinds DEF Passed
<1>12. CASE b.rc # "OK"
  <2>1. c = b
    BY <1>3, <1>4, <1>6, <1>12, BuildNextIs
  <2>2. n - 1 > 0 /\ n - 1 - 1 \in Nat /\ Carried(text, n - 1 - 1) >= CmdMax
    BY <1>2, <1>6, <1>12
  <2>3. Carried(text, n - 1) >= Carried(text, n - 1 - 1)
    <3>1. n - 1 \in 1..N
      BY <1>2, <2>2
    <3>2. PICK k \in 1..N : k = n - 1
      BY <3>1
    <3>3. /\ Carried(text, k) \in Nat /\ Carried(text, k - 1) \in Nat
          /\ \/ Carried(text, k) = Carried(text, k - 1) + 1
             \/ Carried(text, k) = Carried(text, k - 1)
      BY <1>1, CarriedNext
    <3> QED BY <3>2, <3>3
  <2>4. Carried(text, n - 1) >= CmdMax
    <3>1. Carried(text, n - 1 - 1) \in Nat
      BY <1>1, TokensAre
    <3> QED BY <1>5, <1>8, <2>2, <2>3, <3>1
  <2>5. c.lost <= Cardinality(PassedIn(text, n))
    BY <1>6, <1>7, <1>10, <2>1
  <2> QED BY <1>2, <1>6, <1>12, <2>1, <2>4, <2>5 DEF BuiltSoFar
<1>13. CASE b.rc = "OK" /\ b.num = CmdMax
  <2>1. /\ c.rc = "TOO_MANY" /\ c.lost = b.lost /\ c \in Builts
    BY <1>3, <1>4, <1>6, <1>13, BuildNextIs
  <2>2. Carried(text, n - 1) >= CmdMax
    BY <1>5, <1>6, <1>13
  <2>3. c.lost <= Cardinality(PassedIn(text, n))
    BY <1>6, <1>7, <1>10, <2>1
  <2> QED BY <1>2, <2>1, <2>2, <2>3 DEF BuiltSoFar
<1>14. CASE b.rc = "OK" /\ b.num # CmdMax
  <2>1. /\ c \in Builts
        /\ c.rc = "OK" /\ c.lost = b.lost + s.lost
        /\ Holds(c.slots[b.num + 1], CommandOf(t))
        /\ \A j \in 1..b.num : c.slots[j] = b.slots[j]
        /\ c.num = IF CommandOf(t).args = <<>> THEN b.num ELSE b.num + 1
    BY <1>3, <1>4, <1>6, <1>14, BuildNextIs
  <2>2. c.lost <= Cardinality(PassedIn(text, n))
    BY <1>6, <1>7, <1>10, <1>11, <2>1
  <2>3. ~(Carried(text, n - 1) >= CmdMax)
    BY <1>5, <1>6, <1>7, <1>14
  <2>4. c.num = Carried(text, n)
    BY <1>6, <1>8, <1>14, <2>1
  <2>5. ASSUME NEW j \in 1..c.num
        PROVE  Holds(c.slots[j], CommandOf(Filled(text)[j]))
    <3>1. CASE j \in 1..b.num
      BY <1>6, <1>14, <2>1, <3>1
    <3>2. CASE j \notin 1..b.num
      <4>1. CommandOf(t).args # <<>> /\ j = b.num + 1
        BY <1>7, <2>1, <3>2
      <4>2. Filled(text)[j] = t
        BY <1>6, <1>8, <1>14, <4>1
      <4> QED BY <2>1, <4>1, <4>2
    <3> QED BY <3>1, <3>2
  <2> QED BY <2>1, <2>2, <2>3, <2>4, <2>5 DEF BuiltSoFar
<1> QED BY <1>7, <1>12, <1>13, <1>14

-----------------------------------------------------------------------------
(* The whole line.                                                         *)

\* The loop of Built over the first m tokens.
Unbuilt(slots) == [slots |-> slots, num |-> 0, rc |-> "OK", lost |-> 0]
IsBuilt(f, slots, tokens, m) ==
  f = [n \in 0..m |-> IF n = 0 THEN Unbuilt(slots)
                      ELSE BuildNext(f[n - 1], tokens[n])]

\* The recursive function of Built exists,
LEMMA BuiltExists ==
  ASSUME NEW slots, NEW tokens, NEW m \in Nat
  PROVE  \E f : IsBuilt(f, slots, tokens, m)
<1>. DEFINE T == {n \in Nat : \E f : IsBuilt(f, slots, tokens, n)}
<1>1. 0 \in T
  <2>1. IsBuilt([n \in 0..0 |-> Unbuilt(slots)], slots, tokens, 0)
    BY DEF IsBuilt
  <2> QED BY <2>1
<1>2. ASSUME NEW n \in Nat, n < m, n \in T PROVE n + 1 \in T
  <2>1. PICK f : IsBuilt(f, slots, tokens, n)
    BY <1>2
  <2>. DEFINE V(g, k) == IF k = 0 THEN Unbuilt(slots)
                         ELSE BuildNext(g[k - 1], tokens[k])
              g == [k \in 0..(n + 1) |-> IF k = n + 1 THEN V(f, n + 1) ELSE f[k]]
  <2>2. \A k \in 0..n : f[k] = V(f, k)
    BY <2>1 DEF IsBuilt
  <2>3. \A k \in 0..n : g[k] = f[k]
    <3>. HIDE DEF V
    <3> QED OBVIOUS
  <2>4. g[n + 1] = V(f, n + 1)
    <3>. HIDE DEF V
    <3> QED OBVIOUS
  <2>5. g = [k \in 0..(n + 1) |-> g[k]]
    <3>. HIDE DEF V
    <3> QED OBVIOUS
  <2>. HIDE DEF g
  <2>6. ASSUME NEW k \in 0..(n + 1) PROVE g[k] = V(g, k)
    <3>1. CASE k = 0
      BY <2>2, <2>3, <3>1
    <3>2. CASE k # 0
      <4>1. k - 1 \in 0..n /\ g[k - 1] = f[k - 1]
        BY <2>3, <3>2
      <4>2. V(g, k) = V(f, k)
        BY <3>2, <4>1
      <4>. HIDE DEF V
      <4> QED BY <2>2, <2>3, <2>4, <4>2
    <3> QED BY <3>1, <3>2
  <2>7. IsBuilt(g, slots, tokens, n + 1)
    BY <2>5, <2>6 DEF IsBuilt
  <2> QED BY <2>7
<1>3. \A n \in 0..m : n \in T
  <2>. HIDE DEF T
  <2> QED BY <1>1, <1>2, UpTo
<1> QED BY <1>3

\* and Built is its last value.
LEMMA BuiltIs ==
  ASSUME NEW slots, NEW text, Len(Tokens(text)) \in Nat
  PROVE  \E f : /\ IsBuilt(f, slots, Tokens(text), Len(Tokens(text)))
                /\ Built(slots, text) = f[Len(Tokens(text))]
<1>1. \E f : IsBuilt(f, slots, Tokens(text), Len(Tokens(text)))
  BY BuiltExists
<1>. DEFINE g == CHOOSE f : IsBuilt(f, slots, Tokens(text), Len(Tokens(text)))
<1>2. IsBuilt(g, slots, Tokens(text), Len(Tokens(text)))
  BY <1>1
<1>3. Built(slots, text) = g[Len(Tokens(text))]
  BY DEF Built, IsBuilt, Unbuilt
<1> QED BY <1>2, <1>3

\* The list after all tokens.
LEMMA AllBuilt ==
  ASSUME NEW slots \in [1..CmdMax -> Slots], NEW text \in Seq(Chars),
         NEW b, b = Built(slots, text)
  PROVE  BuiltSoFar(text, Len(Tokens(text)), b)
<1>1. PICK N : N = Len(Tokens(text))
  OBVIOUS
<1>2. N \in Nat
  BY <1>1, TokensAre
<1>3. PICK f : IsBuilt(f, slots, Tokens(text), N) /\ b = f[N]
  BY <1>1, <1>2, BuiltIs
<1>. DEFINE T == {n \in 0..N : BuiltSoFar(text, n, f[n])}
<1>4. 0 \in T
  <2>1. PICK c : c = Unbuilt(slots)
    OBVIOUS
  <2>2. f[0] = c
    BY <1>2, <1>3, <2>1 DEF IsBuilt
  <2>3. CmdMax \in Nat
    BY LimitsAssumption
  <2>4. /\ c \in Builts /\ c.rc = "OK" /\ c.num = 0 /\ c.lost = 0
    BY <2>1, <2>3 DEF Unbuilt, Builts
  <2>5. Carried(text, 0) = 0 /\ Cardinality(PassedIn(text, 0)) = 0
    BY <1>1, TokensAre, PassedNext
  <2>6. BuiltSoFar(text, 0, c)
    BY <2>4, <2>5 DEF BuiltSoFar
  <2> QED BY <1>2, <2>2, <2>6
<1>5. ASSUME NEW n \in Nat, n < N, n \in T PROVE n + 1 \in T
  <2>1. PICK k \in 1..Len(Tokens(text)) : k = n + 1 /\ k - 1 = n
    BY <1>1, <1>2, <1>5
  <2>2. f[k] = BuildNext(f[k - 1], Tokens(text)[k])
    BY <1>1, <1>2, <1>3, <2>1 DEF IsBuilt
  <2>3. BuiltSoFar(text, k - 1, f[k - 1])
    BY <1>5, <2>1
  <2>4. BuiltSoFar(text, k, f[k])
    BY <2>2, <2>3, BuildSoFar
  <2> QED BY <1>1, <1>2, <2>1, <2>4
<1>6. \A n \in 0..N : n \in T
  <2>. HIDE DEF T
  <2> QED BY <1>2, <1>4, <1>5, UpTo
<1> QED BY <1>1, <1>2, <1>3, <1>6

\* A token follows the last command that fits.
LEMMA TooMany ==
  ASSUME NEW text \in Seq(Chars), NEW N, N = Len(Tokens(text)),
         NEW n, n = Carried(text, N)
  PROVE  (N > 0 /\ Carried(text, N - 1) >= CmdMax) <=>
           \/ n > CmdMax
           \/ n = CmdMax /\ CommandOf(Last(Tokens(text))).args = <<>>
<1>1. N \in Nat /\ n \in Nat
  BY TokensAre
<1>2. CmdMax \in Nat /\ CmdMax > 0
  BY LimitsAssumption
<1>3. CASE N = 0
  <2>1. n = 0
    BY <1>3, TokensAre
  <2> QED BY <1>2, <1>3, <2>1
<1>4. CASE N > 0
  <2>1. PICK k \in 1..N : k = N
    BY <1>1, <1>4
  <2>2. Last(Tokens(text)) = Tokens(text)[k]
    BY <2>1 DEF Last
  <2>3. /\ Carried(text, k - 1) \in Nat /\ Carried(text, k) \in Nat
        /\ CommandOf(Tokens(text)[k]).args # <<>> =>
             Carried(text, k) = Carried(text, k - 1) + 1
        /\ CommandOf(Tokens(text)[k]).args = <<>> =>
             Carried(text, k) = Carried(text, k - 1)
    BY TokensAre
  <2> QED BY <1>2, <1>4, <2>1, <2>2, <2>3
<1> QED BY <1>1, <1>3, <1>4

\* build_cmd_list refuses the lines it should, and fills the list with the
\* commands of any other.
LEMMA BuildListIs ==
  ASSUME NEW slots \in [1..CmdMax -> Slots], NEW text \in Seq(Chars),
         NEW l, l = BuildList(slots, text)
  PROVE  /\ l.rc = Verdict(text) /\ l.rc \in {"OK", "WARN_NO_CMDS", "TOO_MANY"}
         /\ l.slots \in [1..CmdMax -> Slots] /\ l.num \in 0..CmdMax
         /\ l.rc = "OK" =>
              /\ l.num = Len(Filled(text)) /\ DOMAIN Filled(text) = 1..l.num
              /\ \A j \in 1..l.num : Holds(l.slots[j], CommandOf(Filled(text)[j]))
         /\ l.lost \in Nat /\ Replaced(text) \in Nat /\ l.lost <= Replaced(text)
<1>1. PICK N : N = Len(Tokens(text))
  OBVIOUS
<1>2. /\ N \in Nat /\ Len(Filled(text)) = Carried(text, N)
      /\ DOMAIN Filled(text) = 1..Carried(text, N) /\ Carried(text, N) \in Nat
  BY <1>1, TokensAre
<1>3. PICK b : b = Built(slots, text)
  OBVIOUS
<1>4. /\ b \in Builts
      /\ b.rc = "OK" =>
           /\ b.num = Carried(text, N)
           /\ \A j \in 1..b.num : Holds(b.slots[j], CommandOf(Filled(text)[j]))
      /\ b.rc # "OK" <=> N > 0 /\ Carried(text, N - 1) >= CmdMax
      /\ b.lost <= Cardinality(PassedIn(text, N))
  <2>1. BuiltSoFar(text, N, b)
    BY <1>1, <1>3, AllBuilt
  <2> QED BY <2>1 DEF BuiltSoFar
<1>5. /\ b.slots \in [1..CmdMax -> Slots] /\ b.num \in 0..CmdMax
      /\ b.rc \in {"OK", "TOO_MANY"} /\ b.lost \in Nat
  BY <1>4 DEF Builts
<1>6. PICK rc : rc = IF b.rc = "OK" /\ b.num = 0 THEN "WARN_NO_CMDS" ELSE b.rc
  OBVIOUS
<1>7. PICK num : num = IF rc = "OK" THEN b.num ELSE 0
  OBVIOUS
<1>8. l = [rc |-> rc, num |-> num, slots |-> b.slots, lost |-> b.lost]
  BY <1>3, <1>6, <1>7 DEF BuildList
<1>9. CmdMax \in Nat /\ CmdMax > 0
  BY LimitsAssumption
<1>10. Replaced(text) \in Nat /\ b.lost <= Replaced(text)
  <2>1. /\ Replaced(text) = Cardinality(PassedIn(text, N))
        /\ Cardinality(PassedIn(text, N)) \in Nat
    BY <1>1, <1>2, PassedNext
  <2> QED BY <1>4, <2>1
<1>11. PICK n : n = Carried(text, N)
  OBVIOUS
<1>12. b.rc # "OK" <=>
         \/ n > CmdMax
         \/ n = CmdMax /\ CommandOf(Last(Tokens(text))).args = <<>>
  BY <1>1, <1>4, <1>11, TooMany
<1>13. b.rc = "OK" => b.num = n
  BY <1>4, <1>11
<1>14. n = Len(Filled(text)) /\ n \in Nat
  BY <1>2, <1>11
<1>15. rc = Verdict(text)
  <2>1. CASE b.rc # "OK"
    <3>1. rc = "TOO_MANY"
      BY <1>5, <1>6, <2>1
    <3> QED BY <1>9, <1>12, <1>14, <2>1, <3>1 DEF Verdict
  <2>2. CASE b.rc = "OK" /\ n = 0
    <3>1. rc = "WARN_NO_CMDS"
      BY <1>6, <1>13, <2>2
    <3> QED BY <1>12, <1>14, <2>2, <3>1 DEF Verdict
  <2>3. CASE b.rc = "OK" /\ n # 0
    <3>1. rc = "OK"
      BY <1>6, <1>13, <2>3
    <3> QED BY <1>12, <1>14, <2>3, <3>1 DEF Verdict
  <2> QED BY <2>1, <2>2, <2>3
<1>16. rc = "OK" => b.rc = "OK" /\ num = n
  BY <1>6, <1>7, <1>13
<1>17. rc \in {"OK", "WARN_NO_CMDS", "TOO_MANY"} /\ num \in 0..CmdMax
  BY <1>5, <1>6, <1>7, <1>9
<1>18. l.rc = rc /\ l.num = num /\ l.slots = b.slots /\ l.lost = b.lost
  BY <1>8
<1>19. rc = "OK" => \A j \in 1..num : Holds(b.slots[j], CommandOf(Filled(text)[j]))
  BY <1>4, <1>13, <1>16
<1> QED BY <1>2, <1>5, <1>10, <1>11, <1>14, <1>15, <1>16, <1>17, <1>18, <1>19

-----------------------------------------------------------------------------
(* The blocks the slots hold.                                              *)

\* An accepted line is in the list, command by command.
LEMMA RunsCommands ==
  ASSUME NEW slots \in [1..CmdMax -> Slots], NEW text \in Seq(Chars),
         NEW l, l = BuildList(slots, text), l.rc = "OK"
  PROVE  [n \in 1..l.num |-> [w \in DOMAIN NoCommand |-> l.slots[n][w]]] =
           Commands(text)
<1>1. /\ DOMAIN Filled(text) = 1..l.num
      /\ \A n \in 1..l.num : Holds(l.slots[n], CommandOf(Filled(text)[n]))
  BY BuildListIs
<1>2. \A n \in 1..l.num :
        [w \in DOMAIN NoCommand |-> l.slots[n][w]] = CommandOf(Filled(text)[n])
  BY <1>1 DEF Holds
<1>3. Commands(text) = [n \in 1..l.num |-> CommandOf(Filled(text)[n])]
  BY <1>1 DEF Commands
<1> QED BY <1>2, <1>3

-----------------------------------------------------------------------------
\* The sum of AllHeld over the first m slots.
IsHeld(f, slots, m) ==
  f = [n \in 0..m |-> IF n = 0 THEN 0 ELSE f[n - 1] + Held(slots[n])]

\* The recursive function of AllHeld exists,
LEMMA HeldExists ==
  ASSUME NEW slots, NEW m \in Nat
  PROVE  \E f : IsHeld(f, slots, m)
<1>. DEFINE T == {n \in Nat : \E f : IsHeld(f, slots, n)}
<1>1. 0 \in T
  <2>1. IsHeld([n \in 0..0 |-> 0], slots, 0)
    BY DEF IsHeld
  <2> QED BY <2>1
<1>2. ASSUME NEW n \in Nat, n < m, n \in T PROVE n + 1 \in T
  <2>1. PICK f : IsHeld(f, slots, n)
    BY <1>2
  <2>. DEFINE V(g, k) == IF k = 0 THEN 0 ELSE g[k - 1] + Held(slots[k])
              g == [k \in 0..(n + 1) |-> IF k = n + 1 THEN V(f, n + 1) ELSE f[k]]
  <2>2. \A k \in 0..n : f[k] = V(f, k)
    BY <2>1 DEF IsHeld
  <2>3. \A k \in 0..n : g[k] = f[k]
    <3>. HIDE DEF V
    <3> QED OBVIOUS
  <2>4. g[n + 1] = V(f, n + 1)
    <3>. HIDE DEF V
    <3> QED OBVIOUS
  <2>5. g = [k \in 0..(n + 1) |-> g[k]]
    <3>. HIDE DEF V
    <3> QED OBVIOUS
  <2>. HIDE DEF g
  <2>6. ASSUME NEW k \in 0..(n + 1) PROVE g[k] = V(g, k)
    <3>1. CASE k = 0
      BY <2>2, <2>3, <3>1
    <3>2. CASE k # 0
      <4>1. k - 1 \in 0..n /\ g[k - 1] = f[k - 1]
        BY <2>3, <3>2
      <4>2. V(g, k) = V(f, k)
        BY <3>2, <4>1
      <4>. HIDE DEF V
      <4> QED BY <2>2, <2>3, <2>4, <4>2
    <3> QED BY <3>1, <3>2
  <2>7. IsHeld(g, slots, n + 1)
    BY <2>5, <2>6 DEF IsHeld
  <2> QED BY <2>7
<1>3. \A n \in 0..m : n \in T
  <2>. HIDE DEF T
  <2> QED BY <1>1, <1>2, UpTo
<1> QED BY <1>3

\* and its last value is a number, 0 when nothing is held.
LEMMA AllHeldIs ==
  ASSUME NEW slots \in Seq(Slots)
  PROVE  /\ AllHeld(slots) \in Nat
         /\ (\A n \in 1..Len(slots) : slots[n] = Garbage) => AllHeld(slots) = 0
<1>1. PICK m \in Nat : m = Len(slots)
  OBVIOUS
<1>2. \E f : IsHeld(f, slots, m)
  BY HeldExists
<1>. DEFINE g == CHOOSE f : IsHeld(f, slots, m)
<1>3. IsHeld(g, slots, m)
  BY <1>2
<1>4. AllHeld(slots) = g[m]
  BY <1>1 DEF AllHeld, IsHeld
<1>. HIDE DEF g
<1>5. \A n \in 1..m : Held(slots[n]) \in Nat
  BY <1>1, HeldType
<1>6. g[m] \in Nat
  <2>. DEFINE T == {n \in 0..m : g[n] \in Nat}
  <2>1. 0 \in T
    BY <1>3 DEF IsHeld
  <2>2. ASSUME NEW n \in Nat, n < m, n \in T PROVE n + 1 \in T
    <3>1. n + 1 \in 1..m /\ (n + 1) - 1 = n
      BY <2>2
    <3>2. g[n + 1] = g[(n + 1) - 1] + Held(slots[n + 1])
      BY <1>3, <3>1 DEF IsHeld
    <3> QED BY <1>5, <2>2, <3>1, <3>2
  <2>3. \A n \in 0..m : n \in T
    <3>. HIDE DEF T
    <3> QED BY <2>1, <2>2, UpTo
  <2> QED BY <2>3
<1>7. ASSUME \A n \in 1..m : slots[n] = Garbage PROVE g[m] = 0
  <2>. DEFINE T == {n \in 0..m : g[n] = 0}
  <2>1. 0 \in T
    BY <1>3 DEF IsHeld
  <2>2. ASSUME NEW n \in Nat, n < m, n \in T PROVE n + 1 \in T
    <3>1. n + 1 \in 1..m /\ (n + 1) - 1 = n
      BY <2>2
    <3>2. g[n + 1] = g[(n + 1) - 1] + Held(slots[n + 1])
      BY <1>3, <3>1 DEF IsHeld
    <3>3. Held(slots[n + 1]) = 0
      BY <1>7, <3>1, NothingHeld
    <3> QED BY <2>2, <3>1, <3>2, <3>3
  <2>3. \A n \in 0..m : n \in T
    <3>. HIDE DEF T
    <3> QED BY <2>1, <2>2, UpTo
  <2> QED BY <2>3
<1> QED BY <1>1, <1>4, <1>6, <1>7

\* The blocks of commands that were freed.
LEMMA FreedHoldNothing ==
  ASSUME NEW l, l.num \in 0..CmdMax, l.slots \in [1..CmdMax -> Slots]
  PROVE  /\ AllHeld(FreedList(l)) \in Nat /\ AllHeld(l.slots) \in Nat
         /\ AllHeld(SubSeq(FreedList(l), 1, l.num)) = 0
<1>1. CmdMax \in Nat
  BY LimitsAssumption
<1>2. PICK f : f = FreedList(l)
  OBVIOUS
<1>3. f \in [1..CmdMax -> Slots] /\ \A n \in 1..l.num : f[n] = Garbage
  <2>1. Garbage \in Slots
    BY NothingHeld
  <2>. HIDE DEF Garbage
  <2> QED BY <1>1, <1>2, <2>1 DEF FreedList, Freed
<1>4. f \in Seq(Slots) /\ l.slots \in Seq(Slots)
  BY <1>1, <1>3
<1>5. PICK q : q = SubSeq(f, 1, l.num)
  OBVIOUS
<1>6. /\ q \in Seq(Slots)
      /\ Len(q) = IF 1 <= l.num THEN l.num - 1 + 1 ELSE 0
      /\ \A i \in 1..(l.num - 1 + 1) : q[i] = f[1 + i - 1]
  <2>1. 1 \in Int /\ l.num \in Int /\ \A i \in 1..l.num : f[i] \in Slots
    BY <1>1, <1>3
  <2> QED BY <1>5, <2>1, SubSeqProperties
<1>7. \A i \in 1..Len(q) : q[i] = Garbage
  BY <1>1, <1>3, <1>6
<1>8. AllHeld(q) = 0
  BY <1>6, <1>7, AllHeldIs
<1>9. AllHeld(f) \in Nat /\ AllHeld(l.slots) \in Nat
  BY <1>4, AllHeldIs
<1> QED BY <1>2, <1>5, <1>8, <1>9

-----------------------------------------------------------------------------
(* The loops of the shells.                                                *)

\* At the prompt the list is empty, refused lines notwithstanding.
Counted ==
  /\ pc = "prompt" => list.num = 0
  /\ EmptyIffNotCopied

\* What holds of every line: together they are inductive.
IInv == TypeOK /\ Counted /\ RunsItsLine /\ LocalLoses

\* build_cmd_list says OK of no empty list, and refuses no other.
LEMMA OkHasCommands ==
  ASSUME NEW slots, NEW text
  PROVE  BuildList(slots, text).rc = "OK" <=> BuildList(slots, text).num # 0
  BY DEF BuildList

\* The empty line.
LEMMA NothingLost ==
  Replaced(<<>>) \in Nat /\ <<>> \in Seq(Chars)
<1>1. <<>> \in Seq(Chars)
  OBVIOUS
<1>2. PICK slots \in [1..CmdMax -> Slots] : slots = [n \in 1..CmdMax |-> Garbage]
  BY NothingHeld
<1>3. PICK l : l = BuildList(slots, <<>>)
  OBVIOUS
<1> QED BY <1>1, <1>2, <1>3, BuildListIs

\* The invariant holds at first,
LEMMA InitIInv == Init => IInv
<1> SUFFICES ASSUME Init PROVE IInv
  OBVIOUS
<1>1. CmdMax \in Nat /\ CmdMax > 0
  BY LimitsAssumption
<1>2. list.num = 0 /\ list.slots \in [1..CmdMax -> Slots]
  <2>1. Garbage \in Slots /\ Empty \in Slots
    BY NothingHeld
  <2>. HIDE DEF Garbage, Empty
  <2> QED BY <2>1 DEF Init
<1>3. pc = "prompt" /\ line = <<>> /\ result = "OK" /\ lost = 0
      /\ side \in {"local", "server"}
  BY DEF Init
<1>4. TypeOK
  BY <1>1, <1>2, <1>3 DEF TypeOK
<1>5. Counted
  BY <1>2, <1>3 DEF Counted, EmptyIffNotCopied
<1>6. RunsItsLine
  BY <1>3 DEF RunsItsLine
<1>7. LocalLoses
  BY <1>3, NothingLost DEF LocalLoses
<1> QED BY <1>4, <1>5, <1>6, <1>7 DEF IInv

\* A line is built.
LEMMA BuildIInv ==
  ASSUME IInv, pc = "prompt", NEW text \in Lines, line' = text,
         NEW slots \in [1..CmdMax -> Slots], NEW before \in Nat,
         Build(slots, text, before), side' = side,
         side = "local" => before = 0
  PROVE  IInv'
<1>1. /\ list.num = 0 /\ side \in {"local", "server"} /\ CmdMax \in Nat
      /\ text \in Seq(Chars)
  BY LimitsAssumption, LinesAssumption DEF IInv, Counted, TypeOK
<1>2. PICK l : l = BuildList(slots, text)
  OBVIOUS
<1>3. /\ l.rc = Verdict(text) /\ l.rc \in {"OK", "WARN_NO_CMDS", "TOO_MANY"}
      /\ l.slots \in [1..CmdMax -> Slots] /\ l.num \in 0..CmdMax
      /\ l.lost \in Nat /\ Replaced(text) \in Nat /\ l.lost <= Replaced(text)
  BY <1>1, <1>2, BuildListIs
<1>4. l.rc = "OK" <=> l.num # 0
  BY <1>2, OkHasCommands
<1>5. CASE /\ result' = l.rc /\ list' = [num |-> l.num, slots |-> l.slots]
           /\ lost' = before + l.lost
           /\ pc' = IF l.rc = "OK" THEN "run" ELSE "prompt"
  <2>1. list'.num = l.num /\ list'.slots = l.slots
    BY <1>5
  <2>2. TypeOK'
    BY <1>1, <1>3, <1>5, <2>1 DEF TypeOK
  <2>3. Counted'
    BY <1>3, <1>4, <1>5, <2>1 DEF Counted, EmptyIffNotCopied
  <2>4. RunsItsLine'
    <3>1. result' = Verdict(line')
      BY <1>3, <1>5
    <3>2. ASSUME l.rc = "OK"
          PROVE  [n \in 1..l.num |-> [w \in DOMAIN NoCommand |-> l.slots[n][w]]] =
                   Commands(text)
      BY <1>1, <1>2, <3>2, RunsCommands
    <3>3. pc' = "run" => l.rc = "OK" /\ result' # "MEMORY"
      BY <1>5
    <3>4. pc' = "run" =>
            [n \in 1..list'.num |-> [w \in DOMAIN NoCommand |-> list'.slots[n][w]]] =
              Commands(line')
      BY <2>1, <3>2, <3>3
    <3> QED BY <3>1, <3>3, <3>4 DEF RunsItsLine
  <2>5. LocalLoses'
    BY <1>3, <1>5 DEF LocalLoses
  <2> QED BY <2>2, <2>3, <2>4, <2>5 DEF IInv
<1>6. CASE /\ result' = "MEMORY" /\ list' = [num |-> list.num, slots |-> slots]
           /\ lost' = before /\ pc' = "run"
  <2>1. list'.num = 0 /\ list'.slots = slots
    BY <1>1, <1>6
  <2>2. TypeOK'
    BY <1>1, <1>6, <2>1 DEF TypeOK
  <2>3. Counted'
    BY <1>6, <2>1 DEF Counted, EmptyIffNotCopied
  <2>4. RunsItsLine'
    <3>1. [n \in 1..list'.num |-> [w \in DOMAIN NoCommand |-> list'.slots[n][w]]] = <<>>
      <4>1. 1..list'.num = {}
        BY <2>1
      <4> QED BY <4>1
    <3> QED BY <1>6, <3>1 DEF RunsItsLine
  <2>5. LocalLoses'
    BY <1>3, <1>6 DEF LocalLoses
  <2> QED BY <2>2, <2>3, <2>4, <2>5 DEF IInv
<1>7. \/ /\ result' = l.rc /\ list' = [num |-> l.num, slots |-> l.slots]
         /\ lost' = before + l.lost
         /\ pc' = IF l.rc = "OK" THEN "run" ELSE "prompt"
      \/ /\ result' = "MEMORY" /\ list' = [num |-> list.num, slots |-> slots]
         /\ lost' = before /\ pc' = "run"
  BY <1>2 DEF Build
<1> QED BY <1>5, <1>6, <1>7

\* and after every step.
LEMMA NextIInv == IInv /\ [Next]_vars => IInv'
<1> SUFFICES ASSUME IInv, [Next]_vars PROVE IInv'
  OBVIOUS
<1>1. /\ TypeOK /\ Counted /\ RunsItsLine /\ LocalLoses
      /\ side \in {"local", "server"} /\ CmdMax \in Nat
      /\ list.num \in 0..CmdMax /\ list.slots \in [1..CmdMax -> Slots]
  BY LimitsAssumption DEF IInv, TypeOK
<1>2. /\ AllHeld(FreedList(list)) \in Nat /\ AllHeld(list.slots) \in Nat
      /\ AllHeld(SubSeq(FreedList(list), 1, list.num)) = 0
  BY <1>1, FreedHoldNothing
<1>3. Typed \subseteq Lines
  BY LinesAssumption DEF Typed
<1>4. Garbage \in Slots /\ Empty \in Slots
  BY NothingHeld
<1>. HIDE DEF Garbage, Empty
<1>5. CASE ReadLine
  <2>1. PICK text \in Lines : line' = text /\ Build(list.slots, text, 0)
    BY <1>3, <1>5 DEF ReadLine
  <2> QED BY <1>1, <1>5, <2>1, BuildIInv DEF ReadLine
<1>6. CASE Receive
  <2>1. PICK text \in Lines :
          /\ line' = text
          /\ Build([n \in 1..CmdMax |-> Empty], text, AllHeld(list.slots))
    BY <1>3, <1>6 DEF Receive
  <2>2. [n \in 1..CmdMax |-> Empty] \in [1..CmdMax -> Slots]
    BY <1>4
  <2>3. pc = "prompt" /\ side' = side /\ side # "local"
    BY <1>6 DEF Receive
  <2> QED BY <1>2, <2>1, <2>2, <2>3, BuildIInv
<1>7. CASE Done
  <2>1. /\ pc' = "prompt" /\ line' = <<>> /\ side' = side /\ result' = result
        /\ list'.num = 0 /\ lost' = 0
    BY <1>2, <1>7 DEF Done
  <2>2. list'.slots \in [1..CmdMax -> Slots]
    BY <1>1, <1>4, <1>7 DEF Done
  <2>3. TypeOK'
    BY <1>1, <2>1, <2>2 DEF TypeOK
  <2>4. Counted'
    BY <2>1 DEF Counted, EmptyIffNotCopied
  <2>5. RunsItsLine'
    BY <2>1 DEF RunsItsLine
  <2>6. LocalLoses'
    BY <2>1, NothingLost DEF LocalLoses
  <2> QED BY <2>3, <2>4, <2>5, <2>6 DEF IInv
<1>8. CASE NoPipes
  <2>1. /\ pc' = "undefined" /\ line' = line /\ side' = side /\ result' = result
        /\ list' = list /\ lost' = lost /\ side # "local" /\ pc = "run"
    BY <1>8 DEF NoPipes
  <2>2. TypeOK'
    BY <1>1, <2>1 DEF TypeOK
  <2>3. Counted'
    BY <2>1 DEF Counted, EmptyIffNotCopied
  <2>4. RunsItsLine'
    BY <1>1, <2>1 DEF RunsItsLine
  <2>5. LocalLoses'
    BY <2>1 DEF LocalLoses
  <2> QED BY <2>2, <2>3, <2>4, <2>5 DEF IInv
<1>9. CASE Exit \/ EndOfInput
  <2>1. /\ pc' = "over" /\ line' = <<>> /\ side' = side /\ result' = result
        /\ lost' \in Nat /\ list'.num = 0
    BY <1>2, <1>9 DEF Exit, EndOfInput, Over
  <2>2. list'.slots \in [1..CmdMax -> Slots]
    BY <1>4, <1>9 DEF Exit, EndOfInput, Over
  <2>3. TypeOK'
    BY <1>1, <2>1, <2>2 DEF TypeOK
  <2>4. Counted'
    BY <2>1 DEF Counted, EmptyIffNotCopied
  <2>5. RunsItsLine'
    BY <2>1 DEF RunsItsLine
  <2>6. LocalLoses'
    BY <2>1 DEF LocalLoses
  <2> QED BY <2>3, <2>4, <2>5, <2>6 DEF IInv
<1>10. CASE UNCHANGED vars
  BY <1>10 DEF vars, IInv, TypeOK, Counted, EmptyIffNotCopied, RunsItsLine, LocalLoses
<1> QED BY <1>5, <1>6, <1>7, <1>8, <1>9, <1>10 DEF Next

\* So it always holds.
LEMMA AlwaysIInv == Spec => []IInv
  BY InitIInv, NextIInv, PTL DEF Spec

\* Whatever is typed, and whether or not strdup fails, the variables have
\* their types: the list never holds more than CMD_MAX commands.
THEOREM TypeCorrect == Spec => []TypeOK
  BY AlwaysIInv, PTL DEF IInv

\* For any lines, the list that is run is empty exactly when the line could
\* not be copied.
THEOREM RunsNothingStale == Spec => []EmptyIffNotCopied
  BY AlwaysIInv, PTL DEF IInv, Counted

\* For lines of any length and number: a line is refused when it should be,
\* and what runs are the commands of the line, with nothing of an earlier one.
THEOREM RunsWhatIsTyped == Spec => []RunsItsLine
  BY AlwaysIInv, PTL DEF IInv

\* For any number of lines, the local loop loses the names of files that a
\* later redirection of the same command replaces, and no other block.
THEOREM LosesReplacedOnly == Spec => []LocalLoses
  BY AlwaysIInv, PTL DEF IInv

-----------------------------------------------------------------------------
(* Tokens without quotes and redirections.                                 *)

\* A token of a line without quotes or redirections.
Simple == Seq({"letter", "space"})

\* The places of its words.
Inked(text) == {k \in DOMAIN text : text[k] # "space"}

\* The words of such a token are what its spaces separate.
LEMMA SimpleWords ==
  ASSUME NEW text \in Simple
  PROVE  /\ text \in Piece /\ Words(text) = Blanked(text)
         /\ Words(text) = InOrder(Stretches(Inked(text)))
<1>1. /\ Len(text) \in Nat /\ DOMAIN text = 1..Len(text)
      /\ \A k \in 1..Len(text) : text[k] \in {"letter", "space"}
  BY DEF Simple
<1>2. text \in Piece
  <2>1. {"letter", "space"} \subseteq Chars \ {"pipe"}
    BY DEF Chars
  <2>2. \A k \in 1..Len(text) : text[k] \in Chars \ {"pipe"}
    BY <1>1, <2>1
  <2>3. text \in [1..Len(text) -> Chars \ {"pipe"}]
    BY <1>1, <2>2 DEF Simple
  <2> QED BY <1>1, <2>3 DEF Piece
<1>3. ASSUME NEW k \in 1..Len(text) PROVE ~Named(text, k)
  <2>1. \A j \in 1..(k - 1) : text[j] \notin Redirs
    BY <1>1 DEF Redirs
  <2> QED BY <2>1 DEF Named, InName
<1>4. ASSUME NEW k \in 1..Len(text) PROVE ~Between(text, k)
  <2>. DEFINE T == {n \in 0..Len(text) : ~Between(text, n + 1)}
  <2>1. 0 \in T
    BY <1>1, <1>2, BetweenNext
  <2>2. ASSUME NEW n \in Nat, n < Len(text), n \in T PROVE n + 1 \in T
    <3>1. PICK i \in 1..Len(text) : i = n + 1
      BY <1>1, <2>2
    <3>2. text[i] # "quote" /\ ~Between(text, i)
      BY <1>1, <2>2, <3>1
    <3>3. ~Between(text, i + 1)
      BY <1>2, <3>2, BetweenNext
    <3> QED BY <1>1, <3>1, <3>3
  <2>3. \A n \in 0..Len(text) : n \in T
    <3>. HIDE DEF T
    <3> QED BY <1>1, <2>1, <2>2, UpTo
  <2>4. k - 1 \in 0..Len(text) /\ (k - 1) + 1 = k
    BY <1>1
  <2>5. k - 1 \in T
    BY <2>3, <2>4
  <2> QED BY <2>4, <2>5
<1>5. Plain(text) = {}
  BY <1>1, <1>4 DEF Plain
<1>6. Loose(text) = Inked(text)
  <2>1. \A k : k \in Loose(text) <=> k \in Inked(text)
    BY <1>1, <1>3, <1>4 DEF Loose, Inked
  <2> QED BY <2>1
<1>7. Stretches({}) = {}
  BY DEF Stretches
<1>8. \A w \in Stretches(Inked(text)) : w[2] = Len(text) \/ text[w[2] + 1] # "quote"
  <2>1. Inked(text) \subseteq 1..Len(text)
    BY <1>1 DEF Inked
  <2>2. \A w \in Stretches(Inked(text)) : w[2] \in 1..Len(text)
    BY <1>1, <2>1, StretchesApart
  <2> QED BY <1>1, <2>2
<1>9. WordPlaces(text) =
        Stretches(Plain(text))
          \cup {w \in Stretches(Loose(text)) :
                  w[2] = Len(text) \/ text[w[2] + 1] # "quote"}
  BY DEF WordPlaces, Plain, Loose, Between, Named
<1>10. WordPlaces(text) = Stretches(Inked(text))
  BY <1>5, <1>6, <1>7, <1>8, <1>9
<1>11. Blanked(text) = InOrder(Stretches(Inked(text)))
  BY DEF Blanked, Inked
<1> QED BY <1>2, <1>10, <1>11 DEF Words

\* Some place makes a stretch.
LEMMA SomeStretch ==
  ASSUME NEW m \in Nat, NEW S, S \subseteq 1..m
  PROVE  Stretches(S) = {} <=> S = {}
<1>1. S = {} => Stretches(S) = {}
  BY DEF Stretches
<1>2. ASSUME S # {} PROVE Stretches(S) # {}
  <2>1. PICK a \in S : \A k \in S : a <= k
    <3>1. S \subseteq Nat
      OBVIOUS
    <3> QED BY <1>2, <3>1, Smallest
  <2>. DEFINE T == {b \in Nat : a <= b /\ b + 1 \notin S}
  <2>2. PICK b \in T : \A k \in T : b <= k
    <3>1. m \in T
      BY <2>1
    <3>2. T \subseteq Nat /\ T # {}
      BY <3>1
    <3>. HIDE DEF T
    <3> QED BY <3>2, Smallest
  <2>3. a \in Nat /\ b \in Nat /\ a <= b /\ b + 1 \notin S /\ a - 1 \notin S
    BY <2>1
  <2>. DEFINE U == {n \in 0..(b - a) : a + n \in S}
  <2>4. 0 \in U
    BY <2>1, <2>3
  <2>5. ASSUME NEW n \in Nat, n < b - a, n \in U PROVE n + 1 \in U
    <3>1. a + n \in Nat /\ a <= a + n /\ ~(b <= a + n)
      BY <2>3, <2>5
    <3>2. a + n \notin T
      BY <2>2, <3>1
    <3>3. (a + n) + 1 \in S
      BY <3>1, <3>2
    <3>4. (a + n) + 1 = a + (n + 1) /\ n + 1 \in 0..(b - a)
      BY <2>3, <2>5
    <3> QED BY <3>3, <3>4
  <2>6. \A n \in 0..(b - a) : n \in U
    <3>1. b - a \in Nat
      BY <2>3
    <3>. HIDE DEF U
    <3> QED BY <2>4, <2>5, <3>1, UpTo
  <2>7. \A k \in a..b : k \in S
    <3> SUFFICES ASSUME NEW k \in a..b PROVE k \in S
      OBVIOUS
    <3>1. k - a \in 0..(b - a) /\ a + (k - a) = k
      BY <2>3
    <3>2. k - a \in U
      BY <2>6, <3>1
    <3> QED BY <3>1, <3>2
  <2>. HIDE DEF T, U
  <2>8. <<a, b>> \in Stretches(S)
    BY <2>3, <2>7, StretchOf
  <2> QED BY <2>8
<1> QED BY <1>1, <1>2

\* A token of spaces is no command, for either parser.
LEMMA SpacesOnly ==
  ASSUME NEW text \in Simple
  PROVE  /\ CommandOf(text).args = <<>> <=> \A k \in DOMAIN text : text[k] = "space"
         /\ Len(Words(text)) \in Nat
         /\ CommandOf(text).args # <<>> => Len(Words(text)) > 0
<1>1. Len(text) \in Nat /\ Inked(text) \subseteq 1..Len(text)
  BY DEF Simple, Inked
<1>2. PICK words : words = Words(text)
  OBVIOUS
<1>3. PICK n : n = Cardinality(Stretches(Inked(text)))
  OBVIOUS
<1>4. Apart(Stretches(Inked(text)), Len(text))
  BY <1>1, StretchesApart
<1>5. words = InOrder(Stretches(Inked(text)))
  BY <1>2, SimpleWords
<1>6. n \in Nat /\ Len(words) = n /\ words \in Seq(Stretches(Inked(text)))
  BY <1>1, <1>3, <1>4, <1>5, Ordered
<1>7. n = 0 <=> Inked(text) = {}
  <2>1. IsFiniteSet(Stretches(Inked(text)))
    BY <1>1, <1>4, BelowStep
  <2>2. n = 0 <=> Stretches(Inked(text)) = {}
    BY <1>3, <2>1, FS_EmptySet
  <2> QED BY <1>1, <2>2, SomeStretch
<1>8. Inked(text) = {} <=> \A k \in DOMAIN text : text[k] = "space"
  BY DEF Inked
<1>9. PICK m : m = IF n < ArgvMax THEN n ELSE ArgvMax - 1
  OBVIOUS
<1>10. ArgvMax \in Nat /\ ArgvMax > 1
  BY LimitsAssumption
<1>11. m \in Nat /\ m <= n /\ (m = 0 <=> n = 0)
  BY <1>6, <1>9, <1>10
<1>12. PICK first : first = SubSeq(words, 1, m)
  OBVIOUS
<1>13. /\ first \in Seq(Stretches(Inked(text)))
       /\ Len(first) = IF 1 <= m THEN m - 1 + 1 ELSE 0
  <2>1. 1 \in Int /\ m \in Int /\ \A i \in 1..m : words[i] \in Stretches(Inked(text))
    BY <1>6, <1>11
  <2> QED BY <1>12, <2>1, SubSeqProperties
<1>14. first = <<>> <=> m = 0
  BY <1>11, <1>13
<1>15. CommandOf(text).args = first
  BY <1>2, <1>6, <1>9, <1>12 DEF CommandOf, First
<1> QED BY <1>2, <1>6, <1>7, <1>8, <1>11, <1>14, <1>15

-----------------------------------------------------------------------------
(* One token of 3-ShellP1.                                                 *)

SimpleLine == Seq({"letter", "space", "pipe"})

\* The tokens of such a line are letters and spaces.
LEMMA SimpleTokens ==
  ASSUME NEW text \in SimpleLine, NEW N, N = Len(Tokens(text))
  PROVE  /\ text \in Seq(Chars)
         /\ \A n \in 1..N : Tokens(text)[n] \in Simple
<1>. DEFINE S == {k \in DOMAIN text : text[k] # "pipe"}
<1>1. /\ Len(text) \in Nat /\ DOMAIN text = 1..Len(text)
      /\ \A k \in 1..Len(text) : text[k] \in {"letter", "space", "pipe"}
      /\ text \in [1..Len(text) -> {"letter", "space", "pipe"}]
  BY DEF SimpleLine
<1>2. text \in Seq(Chars)
  <2>1. {"letter", "space", "pipe"} \subseteq Chars
    BY DEF Chars
  <2>2. text \in [1..Len(text) -> Chars]
    BY <1>1, <2>1
  <2> QED BY <1>1, <2>2
<1>3. S \subseteq 1..Len(text) /\ Pieces(text) = Stretches(S)
  BY <1>1 DEF Pieces
<1>4. Apart(Pieces(text), Len(text))
  <2>. HIDE DEF S
  <2> QED BY <1>1, <1>3, StretchesApart
<1>5. PICK w : w = InOrder(Pieces(text))
  OBVIOUS
<1>6. /\ Cardinality(Pieces(text)) \in Nat /\ DOMAIN w = 1..Cardinality(Pieces(text))
      /\ \A n \in 1..Cardinality(Pieces(text)) : w[n] \in Pieces(text)
  BY <1>1, <1>4, <1>5, Ordered
<1>7. Tokens(text) = [n \in 1..Cardinality(Pieces(text)) |->
                        SubSeq(text, w[n][1], w[n][2])]
  BY <1>5, <1>6 DEF Tokens, Texts
<1>8. N = Cardinality(Pieces(text))
  <2>1. /\ N \in Nat /\ DOMAIN Tokens(text) = 1..N
    BY <1>2, TokensAre
  <2>2. DOMAIN Tokens(text) = 1..Cardinality(Pieces(text))
    BY <1>7
  <2> QED BY <1>6, <2>1, <2>2
<1>9. ASSUME NEW n \in 1..N PROVE Tokens(text)[n] \in Simple
  <2>1. PICK v : v = w[n]
    OBVIOUS
  <2>2. v \in Stretches(S)
    BY <1>3, <1>6, <1>8, <2>1
  <2>3. /\ v \in (1..Len(text)) \X (1..Len(text)) /\ \A k \in v[1]..v[2] : k \in S
    <3>. HIDE DEF S
    <3> QED BY <1>1, <1>3, <2>2, StretchesApart
  <2>4. \A k \in v[1]..v[2] : text[k] \in {"letter", "space"}
    BY <1>1, <2>3
  <2>5. PICK a \in Nat, b \in Nat : a = v[1] /\ b = v[2]
    BY <2>3
  <2>6. SubSeq(text, a, b) \in Simple
    <3>1. a \in Int /\ b \in Int /\ \A k \in a..b : text[k] \in {"letter", "space"}
      BY <2>4, <2>5
    <3> QED BY <3>1, SubSeqProperties DEF Simple
  <2> QED BY <1>7, <1>8, <2>1, <2>5, <2>6
<1> QED BY <1>2, <1>9

\* A program or its arguments are too long for the struct of 3-ShellP1.
TooBig(text) ==
  Size(Split(text).exe) >= ExeMax \/ Size(Split(text).args) >= ArgsMax

Answers == {"OK", "TOO_MANY", "TOO_BIG", "WARN_NO_CMDS"}

\* One token of build_cmd_list of 3-ShellP1, case by case.
LEMMA SplitNextIs ==
  ASSUME NEW S, NEW r \in [rc : Answers, list : Seq(S)], NEW text \in Simple,
         Split(text) \in S, NEW c, c = SplitNext(r, text)
  PROVE  /\ c \in [rc : Answers, list : Seq(S)] /\ Len(r.list) \in Nat
         /\ r.rc # "OK" => c = r
         /\ r.rc = "OK" =>
              /\ Len(r.list) >= CmdMax => c.rc = "TOO_MANY"
              /\ ~(Len(r.list) >= CmdMax) /\ CommandOf(text).args = <<>> => c = r
              /\ ~(Len(r.list) >= CmdMax) /\ CommandOf(text).args # <<>> =>
                   /\ TooBig(text) => c.rc = "TOO_BIG"
                   /\ ~TooBig(text) =>
                        c.rc = "OK" /\ c.list = Append(r.list, Split(text))
<1>. DEFINE full == Len(r.list) >= CmdMax
            blank == \A k \in DOMAIN text : text[k] = "space"
            big == TooBig(text)
<1>1. blank <=> CommandOf(text).args = <<>>
  BY SpacesOnly
<1>2. r.rc \in Answers /\ r.list \in Seq(S) /\ Len(r.list) \in Nat
  OBVIOUS
<1>3. CASE r.rc # "OK" \/ (~full /\ blank)
  <2>1. c = r
    BY <1>3 DEF SplitNext
  <2>. HIDE DEF full, blank
  <2> QED BY <1>1, <1>2, <1>3, <2>1 DEF full
<1>4. CASE r.rc = "OK" /\ full
  <2>1. c = [r EXCEPT !.rc = "TOO_MANY"]
    BY <1>4 DEF SplitNext
  <2>2. c.rc = "TOO_MANY" /\ c \in [rc : Answers, list : Seq(S)]
    BY <2>1 DEF Answers
  <2> QED BY <1>2, <1>4, <2>2
<1>5. CASE r.rc = "OK" /\ ~full /\ ~blank /\ big
  <2>1. c = [r EXCEPT !.rc = "TOO_BIG"]
    BY <1>5 DEF SplitNext, TooBig
  <2>2. c.rc = "TOO_BIG" /\ c \in [rc : Answers, list : Seq(S)]
    BY <2>1 DEF Answers
  <2>. HIDE DEF blank
  <2> QED BY <1>1, <1>2, <1>5, <2>2
<1>6. CASE r.rc = "OK" /\ ~full /\ ~blank /\ ~big
  <2>1. PICK q : q = Append(r.list, Split(text))
    OBVIOUS
  <2>2. c = [r EXCEPT !.list = q]
    BY <1>6, <2>1 DEF SplitNext, TooBig
  <2>3. q \in Seq(S)
    BY <1>2, <2>1
  <2>4. /\ c.rc = "OK" /\ c.list = q /\ c \in [rc : Answers, list : Seq(S)]
    BY <1>6, <2>2, <2>3
  <2>. HIDE DEF blank
  <2> QED BY <1>1, <1>2, <1>6, <2>1, <2>4
<1>. HIDE DEF full, blank, big
<1> QED BY <1>3, <1>4, <1>5, <1>6

-----------------------------------------------------------------------------
\* The loop of Split3 over the first m tokens.
Unsplit == [rc |-> "OK", list |-> <<>>]
IsSplit(f, tokens, m) ==
  f = [n \in 0..m |-> IF n = 0 THEN Unsplit ELSE SplitNext(f[n - 1], tokens[n])]

\* The recursive function of Split3 exists,
LEMMA SplitExists ==
  ASSUME NEW tokens, NEW m \in Nat
  PROVE  \E f : IsSplit(f, tokens, m)
<1>. DEFINE T == {n \in Nat : \E f : IsSplit(f, tokens, n)}
<1>1. 0 \in T
  <2>1. IsSplit([n \in 0..0 |-> Unsplit], tokens, 0)
    BY DEF IsSplit
  <2> QED BY <2>1
<1>2. ASSUME NEW n \in Nat, n < m, n \in T PROVE n + 1 \in T
  <2>1. PICK f : IsSplit(f, tokens, n)
    BY <1>2
  <2>. DEFINE V(g, k) == IF k = 0 THEN Unsplit ELSE SplitNext(g[k - 1], tokens[k])
              g == [k \in 0..(n + 1) |-> IF k = n + 1 THEN V(f, n + 1) ELSE f[k]]
  <2>2. \A k \in 0..n : f[k] = V(f, k)
    BY <2>1 DEF IsSplit
  <2>3. \A k \in 0..n : g[k] = f[k]
    <3>. HIDE DEF V
    <3> QED OBVIOUS
  <2>4. g[n + 1] = V(f, n + 1)
    <3>. HIDE DEF V
    <3> QED OBVIOUS
  <2>5. g = [k \in 0..(n + 1) |-> g[k]]
    <3>. HIDE DEF V
    <3> QED OBVIOUS
  <2>. HIDE DEF g
  <2>6. ASSUME NEW k \in 0..(n + 1) PROVE g[k] = V(g, k)
    <3>1. CASE k = 0
      BY <2>2, <2>3, <3>1
    <3>2. CASE k # 0
      <4>1. k - 1 \in 0..n /\ g[k - 1] = f[k - 1]
        BY <2>3, <3>2
      <4>2. V(g, k) = V(f, k)
        BY <3>2, <4>1
      <4>. HIDE DEF V
      <4> QED BY <2>2, <2>3, <2>4, <4>2
    <3> QED BY <3>1, <3>2
  <2>7. IsSplit(g, tokens, n + 1)
    BY <2>5, <2>6 DEF IsSplit
  <2> QED BY <2>7
<1>3. \A n \in 0..m : n \in T
  <2>. HIDE DEF T
  <2> QED BY <1>1, <1>2, UpTo
<1> QED BY <1>3

\* and Split3 is its last value.
LEMMA SplitIs ==
  ASSUME NEW text, text # <<>>, Len(Tokens(text)) \in Nat
  PROVE  \E f : /\ IsSplit(f, Tokens(text), Len(Tokens(text)))
                /\ Split3(text) = f[Len(Tokens(text))]
<1>1. \E f : IsSplit(f, Tokens(text), Len(Tokens(text)))
  BY SplitExists
<1>. DEFINE g == CHOOSE f : IsSplit(f, Tokens(text), Len(Tokens(text)))
<1>2. IsSplit(g, Tokens(text), Len(Tokens(text)))
  BY <1>1
<1>3. Split3(text) = g[Len(Tokens(text))]
  BY DEF Split3, IsSplit, Unsplit
<1> QED BY <1>2, <1>3

-----------------------------------------------------------------------------
(* What 3-ShellP1 has after n tokens.                                      *)

\* What 3-ShellP1 has of a line after n tokens.
SplitSoFar(text, n, r) ==
  /\ \A j \in 1..Carried(text, n) : Filled(text)[j] \in Simple
  /\ \E parts : r \in [rc : Answers, list : Seq(parts)]
  /\ r.rc \in {"OK", "TOO_MANY", "TOO_BIG"}
  /\ r.rc = "OK" =>
       /\ Len(r.list) = Carried(text, n) /\ Carried(text, n) <= CmdMax
       /\ \A j \in 1..Carried(text, n) :
            r.list[j] = Split(Filled(text)[j]) /\ ~TooBig(Filled(text)[j])
       /\ ~(n > 0 /\ Carried(text, n - 1) >= CmdMax)
  /\ r.rc = "TOO_BIG" =>
       \E j \in 1..Carried(text, n) : j <= CmdMax /\ TooBig(Filled(text)[j])
  /\ r.rc = "TOO_MANY" =>
       /\ n > 0 /\ Carried(text, n - 1) >= CmdMax
       /\ \A j \in 1..CmdMax : ~TooBig(Filled(text)[j])

\* What one more token makes of the list of 3-ShellP1.
LEMMA SplitStep ==
  ASSUME NEW text \in SimpleLine, NEW n \in 1..Len(Tokens(text)),
         NEW r, SplitSoFar(text, n - 1, r),
         NEW c, c = SplitNext(r, Tokens(text)[n])
  PROVE  SplitSoFar(text, n, c)
<1>1. PICK N : N = Len(Tokens(text))
  OBVIOUS
<1>2. text \in Seq(Chars) /\ \A i \in 1..N : Tokens(text)[i] \in Simple
  BY <1>1, SimpleTokens
<1>3. N \in Nat /\ n \in 1..N /\ n \in Nat /\ n > 0
  BY <1>1, <1>2, TokensAre
<1>4. PICK t \in Simple : t = Tokens(text)[n]
  BY <1>1, <1>2
<1>5. CmdMax \in Nat /\ CmdMax > 0
  BY LimitsAssumption
<1>6. PICK m, p : m = Carried(text, n) /\ p = Carried(text, n - 1)
  OBVIOUS
<1>7. /\ m \in Nat /\ p \in Nat
      /\ CommandOf(t).args # <<>> => m = p + 1 /\ Filled(text)[m] = t
      /\ CommandOf(t).args = <<>> => m = p
  BY <1>2, <1>4, <1>6, CarriedNext
<1>8. /\ \A j \in 1..p : Filled(text)[j] \in Simple
      /\ \E parts : r \in [rc : Answers, list : Seq(parts)]
      /\ r.rc \in {"OK", "TOO_MANY", "TOO_BIG"}
      /\ r.rc = "OK" =>
           /\ Len(r.list) = p /\ p <= CmdMax
           /\ \A j \in 1..p :
                r.list[j] = Split(Filled(text)[j]) /\ ~TooBig(Filled(text)[j])
      /\ r.rc = "TOO_BIG" =>
           \E j \in 1..p : j <= CmdMax /\ TooBig(Filled(text)[j])
      /\ r.rc = "TOO_MANY" =>
           /\ n - 1 > 0 /\ Carried(text, n - 1 - 1) >= CmdMax
           /\ \A j \in 1..CmdMax : ~TooBig(Filled(text)[j])
  BY <1>6 DEF SplitSoFar
<1>9. PICK old : r \in [rc : Answers, list : Seq(old)]
  BY <1>8
<1>10. PICK parts : parts = old \cup {Split(t)}
  OBVIOUS
<1>11. r \in [rc : Answers, list : Seq(parts)] /\ Split(t) \in parts
  <2>1. old \subseteq parts
    BY <1>10
  <2>2. r.list \in Seq(parts)
    <3>1. r.list \in Seq(old)
      BY <1>9
    <3> QED BY <2>1, <3>1
  <2>3. r.rc \in Answers /\ r = [rc |-> r.rc, list |-> r.list]
    BY <1>9
  <2> QED BY <1>10, <2>2, <2>3
<1>12. /\ c \in [rc : Answers, list : Seq(parts)]
       /\ r.rc # "OK" => c = r
       /\ r.rc = "OK" =>
            /\ Len(r.list) >= CmdMax => c.rc = "TOO_MANY"
            /\ ~(Len(r.list) >= CmdMax) /\ CommandOf(t).args = <<>> => c = r
            /\ ~(Len(r.list) >= CmdMax) /\ CommandOf(t).args # <<>> =>
                 /\ TooBig(t) => c.rc = "TOO_BIG"
                 /\ ~TooBig(t) =>
                      c.rc = "OK" /\ c.list = Append(r.list, Split(t))
  BY <1>4, <1>11, SplitNextIs
<1>13. \E q : c \in [rc : Answers, list : Seq(q)]
  BY <1>12
<1>14. \A j \in 1..m : Filled(text)[j] \in Simple
  <2>1. \A j \in 1..m : j \in 1..p \/ (j = m /\ CommandOf(t).args # <<>>)
    BY <1>7
  <2> QED BY <1>7, <1>8, <2>1
<1>15. CASE r.rc = "TOO_BIG"
  <2>1. \E j \in 1..m : j <= CmdMax /\ TooBig(Filled(text)[j])
    BY <1>7, <1>8, <1>15
  <2>2. c.rc = "TOO_BIG"
    BY <1>12, <1>15
  <2> QED BY <1>6, <1>13, <1>14, <2>1, <2>2 DEF SplitSoFar
<1>16. CASE r.rc = "TOO_MANY"
  <2>1. n - 1 \in 1..N /\ Carried(text, n - 1 - 1) >= CmdMax
    BY <1>3, <1>8, <1>16
  <2>2. PICK k \in 1..N : k = n - 1
    BY <2>1
  <2>3. /\ Carried(text, k) \in Nat /\ Carried(text, k - 1) \in Nat
        /\ \/ Carried(text, k) = Carried(text, k - 1) + 1
           \/ Carried(text, k) = Carried(text, k - 1)
    BY <1>1, <1>2, CarriedNext
  <2>4. Carried(text, n - 1) >= CmdMax
    BY <1>5, <2>1, <2>2, <2>3
  <2>5. c.rc = "TOO_MANY"
    BY <1>12, <1>16
  <2>6. \A j \in 1..CmdMax : ~TooBig(Filled(text)[j])
    BY <1>8, <1>16
  <2> QED BY <1>3, <1>6, <1>13, <1>14, <2>4, <2>5, <2>6 DEF SplitSoFar
<1>17. CASE r.rc = "OK" /\ p >= CmdMax
  <2>1. c.rc = "TOO_MANY"
    BY <1>8, <1>12, <1>17
  <2>2. \A j \in 1..CmdMax : ~TooBig(Filled(text)[j])
    BY <1>5, <1>7, <1>8, <1>17
  <2> QED BY <1>3, <1>6, <1>13, <1>14, <1>17, <2>1, <2>2 DEF SplitSoFar
<1>18. CASE r.rc = "OK" /\ ~(p >= CmdMax) /\ CommandOf(t).args = <<>>
  <2>1. c = r
    BY <1>8, <1>12, <1>18
  <2>2. m = p
    BY <1>7, <1>18
  <2> QED BY <1>6, <1>8, <1>13, <1>14, <1>18, <2>1, <2>2 DEF SplitSoFar
<1>19. CASE r.rc = "OK" /\ ~(p >= CmdMax) /\ CommandOf(t).args # <<>> /\ TooBig(t)
  <2>1. c.rc = "TOO_BIG"
    BY <1>8, <1>12, <1>19
  <2>2. m \in 1..m /\ m <= CmdMax /\ TooBig(Filled(text)[m])
    BY <1>5, <1>7, <1>19
  <2> QED BY <1>6, <1>13, <1>14, <2>1, <2>2 DEF SplitSoFar
<1>20. CASE r.rc = "OK" /\ ~(p >= CmdMax) /\ CommandOf(t).args # <<>> /\ ~TooBig(t)
  <2>1. c.rc = "OK" /\ c.list = Append(r.list, Split(t))
    BY <1>8, <1>12, <1>20
  <2>2. m = p + 1 /\ Filled(text)[m] = t /\ m <= CmdMax
    BY <1>5, <1>7, <1>20
  <2>3. r.list \in Seq(parts) /\ Len(r.list) = p
    BY <1>8, <1>11, <1>20
  <2>4. /\ Len(c.list) = m /\ c.list[m] = Split(t)
        /\ \A j \in 1..p : c.list[j] = r.list[j]
    BY <1>7, <2>1, <2>2, <2>3, <1>11
  <2>5. \A j \in 1..m : c.list[j] = Split(Filled(text)[j]) /\ ~TooBig(Filled(text)[j])
    <3>1. \A j \in 1..m : j \in 1..p \/ j = m
      BY <1>7, <2>2
    <3> QED BY <1>8, <1>20, <2>2, <2>4, <3>1
  <2> QED BY <1>6, <1>13, <1>14, <1>20, <2>1, <2>2, <2>4, <2>5 DEF SplitSoFar
<1> QED BY <1>8, <1>15, <1>16, <1>17, <1>18, <1>19, <1>20

\* Its list after all tokens.
LEMMA AllSplit ==
  ASSUME NEW text \in SimpleLine, text # <<>>, NEW r, r = Split3(text)
  PROVE  SplitSoFar(text, Len(Tokens(text)), r)
<1>1. PICK N : N = Len(Tokens(text))
  OBVIOUS
<1>2. N \in Nat /\ text \in Seq(Chars)
  BY <1>1, SimpleTokens, TokensAre
<1>3. PICK f : IsSplit(f, Tokens(text), N) /\ r = f[N]
  BY <1>1, <1>2, SplitIs
<1>. DEFINE T == {n \in 0..N : SplitSoFar(text, n, f[n])}
<1>4. 0 \in T
  <2>1. PICK c : c = Unsplit
    OBVIOUS
  <2>2. f[0] = c
    BY <1>2, <1>3, <2>1 DEF IsSplit
  <2>3. CmdMax \in Nat
    BY LimitsAssumption
  <2>4. c.rc = "OK" /\ c.list = <<>> /\ Len(c.list) = 0
    BY <2>1 DEF Unsplit
  <2>5. c \in [rc : Answers, list : Seq({})]
    BY <2>1 DEF Unsplit, Answers
  <2>6. Carried(text, 0) = 0
    BY <1>1, <1>2, TokensAre
  <2>7. SplitSoFar(text, 0, c)
    BY <2>3, <2>4, <2>5, <2>6 DEF SplitSoFar
  <2> QED BY <1>2, <2>2, <2>7
<1>5. ASSUME NEW n \in Nat, n < N, n \in T PROVE n + 1 \in T
  <2>1. PICK k \in 1..Len(Tokens(text)) : k = n + 1 /\ k - 1 = n
    BY <1>1, <1>2, <1>5
  <2>2. f[k] = SplitNext(f[k - 1], Tokens(text)[k])
    BY <1>1, <1>2, <1>3, <2>1 DEF IsSplit
  <2>3. SplitSoFar(text, k - 1, f[k - 1])
    BY <1>5, <2>1
  <2>4. SplitSoFar(text, k, f[k])
    BY <2>2, <2>3, SplitStep
  <2> QED BY <1>1, <1>2, <2>1, <2>4
<1>6. \A n \in 0..N : n \in T
  <2>. HIDE DEF T
  <2> QED BY <1>2, <1>4, <1>5, UpTo
<1> QED BY <1>1, <1>2, <1>3, <1>6

-----------------------------------------------------------------------------
(* The two parsers agree.                                                  *)

\* The empty line has no token.
LEMMA NoTokens ==
  Len(Tokens(<<>>)) = 0 /\ Len(Filled(<<>>)) = 0
<1>1. <<>> \in Seq(Chars) /\ DOMAIN <<>> = {}
  OBVIOUS
<1>2. Pieces(<<>>) = {}
  BY <1>1 DEF Pieces, Stretches
<1>3. PICK w : w = InOrder({})
  OBVIOUS
<1>4. DOMAIN w = {}
  <2>1. Cardinality({}) = 0 /\ 1..0 = {}
    BY FS_EmptySet
  <2> QED BY <1>3, <2>1 DEF InOrder
<1>5. DOMAIN Tokens(<<>>) = {}
  BY <1>2, <1>3, <1>4 DEF Tokens, Texts
<1>6. PICK N : N = Len(Tokens(<<>>))
  OBVIOUS
<1>7. N \in Nat /\ DOMAIN Tokens(<<>>) = 1..N
  BY <1>1, <1>6, TokensAre
<1>8. N = 0
  BY <1>5, <1>7
<1> QED BY <1>1, <1>6, <1>8, TokensAre

\* The words of a token as 3-ShellP1 keeps them.
ArgsOf(words) == IF Len(words) = 1 THEN None ELSE <<words[2][1], Last(words)[2]>>
WordsOf(text) == [n \in DOMAIN Filled(text) |-> Words(Filled(text)[n])]
BigIn(text) ==
  \E n \in DOMAIN WordsOf(text) :
    /\ n <= CmdMax
    /\ \/ Size(WordsOf(text)[n][1]) >= ExeMax
       \/ Size(ArgsOf(WordsOf(text)[n])) >= ArgsMax

\* What 3-ShellP1 answers, in terms of the words of the commands.
LEMMA SplitSays ==
  ASSUME NEW text \in SimpleLine, NEW r, r = Split3(text)
  PROVE  /\ r.rc = CASE BigIn(text) -> "TOO_BIG"
                     [] ~BigIn(text) /\ Verdict(text) = "TOO_MANY" -> "TOO_MANY"
                     [] text = <<>> -> "WARN_NO_CMDS"
                     [] OTHER -> "OK"
         /\ r.rc = "OK" =>
              r.list = [n \in DOMAIN WordsOf(text) |->
                          [exe |-> WordsOf(text)[n][1],
                           args |-> ArgsOf(WordsOf(text)[n])]]
<1>1. text \in Seq(Chars)
  BY SimpleTokens
<1>2. PICK N : N = Len(Tokens(text))
  OBVIOUS
<1>3. PICK m : m = Carried(text, N)
  OBVIOUS
<1>4. /\ N \in Nat /\ m \in Nat /\ Len(Filled(text)) = m /\ DOMAIN Filled(text) = 1..m
  BY <1>1, <1>2, <1>3, TokensAre
<1>5. CmdMax \in Nat /\ CmdMax > 0
  BY LimitsAssumption
<1>6. Verdict(text) = "TOO_MANY" <=> N > 0 /\ Carried(text, N - 1) >= CmdMax
  <2>1. (N > 0 /\ Carried(text, N - 1) >= CmdMax) <=>
          \/ m > CmdMax
          \/ m = CmdMax /\ CommandOf(Last(Tokens(text))).args = <<>>
    BY <1>1, <1>2, <1>3, TooMany
  <2>2. Verdict(text) = "TOO_MANY" <=>
          \/ m > CmdMax
          \/ m = CmdMax /\ CommandOf(Last(Tokens(text))).args = <<>>
    <3>1. CASE \/ m > CmdMax
               \/ m = CmdMax /\ CommandOf(Last(Tokens(text))).args = <<>>
      <4>1. m # 0
        BY <1>5, <3>1
      <4> QED BY <1>4, <3>1, <4>1 DEF Verdict
    <3>2. CASE ~(\/ m > CmdMax
                 \/ m = CmdMax /\ CommandOf(Last(Tokens(text))).args = <<>>)
      BY <1>4, <3>2 DEF Verdict
    <3> QED BY <3>1, <3>2
  <2> QED BY <2>1, <2>2
<1>7. CASE text = <<>>
  <2>1. N = 0 /\ m = 0
    BY <1>2, <1>4, <1>7, NoTokens
  <2>2. ~BigIn(text)
    BY <1>4, <2>1 DEF BigIn, WordsOf
  <2>3. Verdict(text) # "TOO_MANY"
    BY <1>6, <2>1
  <2>4. r.rc = "WARN_NO_CMDS"
    BY <1>7 DEF Split3
  <2> QED BY <1>7, <2>2, <2>3, <2>4
<1>8. CASE text # <<>>
  <2>1. SplitSoFar(text, N, r)
    BY <1>2, <1>8, AllSplit
  <2>2. /\ \A j \in 1..m : Filled(text)[j] \in Simple
        /\ \E parts : r \in [rc : Answers, list : Seq(parts)]
        /\ r.rc \in {"OK", "TOO_MANY", "TOO_BIG"}
        /\ r.rc = "OK" =>
             /\ Len(r.list) = m /\ m <= CmdMax
             /\ \A j \in 1..m :
                  r.list[j] = Split(Filled(text)[j]) /\ ~TooBig(Filled(text)[j])
             /\ ~(N > 0 /\ Carried(text, N - 1) >= CmdMax)
        /\ r.rc = "TOO_BIG" =>
             \E j \in 1..m : j <= CmdMax /\ TooBig(Filled(text)[j])
        /\ r.rc = "TOO_MANY" =>
             /\ N > 0 /\ Carried(text, N - 1) >= CmdMax
             /\ \A j \in 1..CmdMax : ~TooBig(Filled(text)[j])
    BY <1>3, <2>1 DEF SplitSoFar
  <2>3. ASSUME NEW j \in 1..m
        PROVE  /\ Split(Filled(text)[j]) = [exe |-> WordsOf(text)[j][1],
                                            args |-> ArgsOf(WordsOf(text)[j])]
               /\ TooBig(Filled(text)[j]) <=>
                    \/ Size(WordsOf(text)[j][1]) >= ExeMax
                    \/ Size(ArgsOf(WordsOf(text)[j])) >= ArgsMax
    <3>1. PICK t \in Simple : t = Filled(text)[j]
      BY <2>2
    <3>2. WordsOf(text)[j] = Blanked(t)
      BY <1>4, <3>1, SimpleWords DEF WordsOf
    <3>3. Split(t) = [exe |-> Blanked(t)[1], args |-> ArgsOf(Blanked(t))]
      BY DEF Split, ArgsOf
    <3>4. Split(t).exe = Blanked(t)[1] /\ Split(t).args = ArgsOf(Blanked(t))
      BY <3>3
    <3> QED BY <3>1, <3>2, <3>3, <3>4 DEF TooBig
  <2>4. DOMAIN WordsOf(text) = 1..m
    BY <1>4 DEF WordsOf
  <2>5. BigIn(text) <=> \E j \in 1..m : j <= CmdMax /\ TooBig(Filled(text)[j])
    BY <2>3, <2>4 DEF BigIn
  <2>6. CASE r.rc = "TOO_BIG"
    <3>1. BigIn(text)
      BY <2>2, <2>5, <2>6
    <3>2. "TOO_BIG" = CASE BigIn(text) -> "TOO_BIG"
                        [] ~BigIn(text) /\ Verdict(text) = "TOO_MANY" -> "TOO_MANY"
                        [] text = <<>> -> "WARN_NO_CMDS"
                        [] OTHER -> "OK"
      BY <1>8, <3>1
    <3> QED BY <2>6, <3>2
  <2>7. CASE r.rc = "TOO_MANY"
    <3>1. ~BigIn(text)
      BY <1>4, <1>5, <2>2, <2>5, <2>7
    <3>2. Verdict(text) = "TOO_MANY"
      BY <1>6, <2>2, <2>7
    <3> QED BY <1>8, <2>7, <3>1, <3>2
  <2>8. CASE r.rc = "OK"
    <3>1. ~BigIn(text)
      BY <1>4, <1>5, <2>2, <2>5, <2>8
    <3>2. Verdict(text) # "TOO_MANY"
      BY <1>6, <2>2, <2>8
    <3>3. r.list = [n \in 1..m |-> r.list[n]]
      <4>1. PICK parts : r \in [rc : Answers, list : Seq(parts)]
        BY <2>2
      <4>2. r.list \in Seq(parts) /\ Len(r.list) = m
        BY <2>2, <2>8, <4>1
      <4> QED BY <4>2
    <3>4. \A n \in 1..m : r.list[n] = [exe |-> WordsOf(text)[n][1],
                                      args |-> ArgsOf(WordsOf(text)[n])]
      BY <2>2, <2>3, <2>8
    <3>5. r.list = [n \in DOMAIN WordsOf(text) |->
                      [exe |-> WordsOf(text)[n][1],
                       args |-> ArgsOf(WordsOf(text)[n])]]
      BY <2>4, <3>3, <3>4
    <3> QED BY <1>8, <2>8, <3>1, <3>2, <3>5
  <2> QED BY <2>2, <2>6, <2>7, <2>8
<1> QED BY <1>7, <1>8

\* For every line the shell may have.
LEMMA SplitsAlike == TypeOK => SplitAgrees
<1> SUFFICES ASSUME TypeOK PROVE SplitAgrees
  OBVIOUS
<1>1. CASE ~(ToSet(line) \subseteq {"letter", "space", "pipe"})
  BY <1>1, PTL DEF SplitAgrees
<1>2. CASE ToSet(line) \subseteq {"letter", "space", "pipe"}
  <2>1. line \in Seq(Chars)
    BY LinesAssumption, NothingLost DEF TypeOK
  <2>2. PICK text \in SimpleLine : text = line
    <3>1. \A n \in 1..Len(line) : line[n] \in {"letter", "space", "pipe"}
      BY <1>2, <2>1 DEF ToSet
    <3>2. /\ line \in [1..Len(line) -> {"letter", "space", "pipe"}]
          /\ Len(line) \in Nat
      BY <2>1, <3>1
    <3> QED BY <3>2 DEF SimpleLine
  <2>3. PICK r : r = Split3(text)
    OBVIOUS
  <2>4. /\ r.rc = CASE BigIn(text) -> "TOO_BIG"
                    [] ~BigIn(text) /\ Verdict(text) = "TOO_MANY" -> "TOO_MANY"
                    [] text = <<>> -> "WARN_NO_CMDS"
                    [] OTHER -> "OK"
        /\ r.rc = "OK" =>
             r.list = [n \in DOMAIN WordsOf(text) |->
                         [exe |-> WordsOf(text)[n][1],
                          args |-> ArgsOf(WordsOf(text)[n])]]
    BY <2>3, SplitSays
  <2> QED BY <2>2, <2>3, <2>4 DEF SplitAgrees, BigIn, WordsOf, ArgsOf
<1> QED BY <1>1, <1>2

\* For any line without quotes and redirections the parser of 3-ShellP1 and
\* that of its successors find the same commands, up to their limits.
THEOREM ParsersAgree == Spec => []SplitAgrees
<1>1. IInv => SplitAgrees
  BY SplitsAlike DEF IInv
<1> QED BY <1>1, AlwaysIInv, PTL
=============================================================================
