------------------------- MODULE CommandParserProofs -------------------------
(***************************************************************************)
(* What build_cmd_buff finds in a text of any length: the words, the file  *)
(* names and the names a later one replaces.  The loop is followed from    *)
(* character to character (Mode: where it is; SoFar: what it has), next to *)
(* what CommandParser says of the text without a loop.                     *)
(***************************************************************************)
EXTENDS CommandParser, SequenceLemmas, TLAPS

-----------------------------------------------------------------------------
(* Stretches of places in their order.                                     *)

\* Stretches of places up to m no two of which begin at the same place.
Apart(W, m) ==
  /\ W \subseteq (1..m) \X (1..m)
  /\ \A v, w \in W : v[1] = w[1] => v = w

\* Those that begin up to k.
Below(W, k) == {v \in W : v[1] <= k}

\* How many stretches begin up to a place.
LEMMA BelowStep ==
  ASSUME NEW m \in Nat, NEW W, Apart(W, m)
  PROVE  /\ IsFiniteSet(W) /\ Cardinality(W) \in Nat
         /\ \A k \in Nat : /\ IsFiniteSet(Below(W, k))
                           /\ Cardinality(Below(W, k)) \in Nat
         /\ Cardinality(Below(W, 0)) = 0
         /\ Below(W, m) = W
         /\ \A j, k \in Nat : j <= k =>
              Cardinality(Below(W, j)) <= Cardinality(Below(W, k))
         /\ \A k \in Nat : \A w \in W : w[1] = k + 1 =>
              Cardinality(Below(W, k + 1)) = Cardinality(Below(W, k)) + 1
         /\ \A k \in Nat : (\A w \in W : w[1] # k + 1) =>
              Cardinality(Below(W, k + 1)) = Cardinality(Below(W, k))
<1>1. \A w \in W : w[1] \in 1..m /\ w[2] \in 1..m
  BY DEF Apart
<1>2. IsFiniteSet(W)
  <2>1. IsFiniteSet(1..m)
    BY FS_Interval
  <2>2. IsFiniteSet((1..m) \X (1..m))
    BY <2>1, FS_Product
  <2> QED BY <2>2, FS_Subset DEF Apart
<1>3. ASSUME NEW k \in Nat
      PROVE  IsFiniteSet(Below(W, k)) /\ Cardinality(Below(W, k)) \in Nat
  <2>1. Below(W, k) \subseteq W
    BY DEF Below
  <2>2. IsFiniteSet(Below(W, k))
    BY <1>2, <2>1, FS_Subset
  <2> QED BY <2>2, FS_CardinalityType
<1>4. Cardinality(Below(W, 0)) = 0
  <2>1. Below(W, 0) = {}
    BY <1>1 DEF Below
  <2> QED BY <2>1, FS_EmptySet
<1>5. Below(W, m) = W
  BY <1>1 DEF Below
<1>6. ASSUME NEW j \in Nat, NEW k \in Nat, j <= k
      PROVE  Cardinality(Below(W, j)) <= Cardinality(Below(W, k))
  <2>1. Below(W, j) \subseteq Below(W, k)
    BY <1>1, <1>6 DEF Below
  <2> QED BY <1>3, <2>1, FS_Subset
<1>7. ASSUME NEW k \in Nat, NEW w \in W, w[1] = k + 1
      PROVE  Cardinality(Below(W, k + 1)) = Cardinality(Below(W, k)) + 1
  <2>1. Below(W, k + 1) = Below(W, k) \cup {w} /\ w \notin Below(W, k)
    BY <1>1, <1>7 DEF Below, Apart
  <2> QED BY <1>3, <2>1, FS_AddElement
<1>8. ASSUME NEW k \in Nat, \A w \in W : w[1] # k + 1
      PROVE  Cardinality(Below(W, k + 1)) = Cardinality(Below(W, k))
  <2>1. Below(W, k + 1) = Below(W, k)
    BY <1>1, <1>8 DEF Below
  <2> QED BY <2>1
<1>9. Cardinality(W) \in Nat
  BY <1>2, FS_CardinalityType
<1> QED BY <1>2, <1>3, <1>4, <1>5, <1>6, <1>7, <1>8, <1>9

\* How many stretches begin up to the end of one: its place in the order.
Rank(W, w) == Cardinality(Below(W, w[1]))

\* Every rank belongs to one stretch.
LEMMA RankOf ==
  ASSUME NEW m \in Nat, NEW W, Apart(W, m)
  PROVE  /\ \A w \in W : Rank(W, w) \in 1..Cardinality(W)
         /\ \A v, w \in W : v[1] < w[1] => Rank(W, v) < Rank(W, w)
         /\ \A v, w \in W : Rank(W, v) = Rank(W, w) => v = w
         /\ \A n \in 1..Cardinality(W) : \E w \in W : Rank(W, w) = n
<1>1. \A w \in W : w[1] \in 1..m /\ w[2] \in 1..m
  BY DEF Apart
<1>2. ASSUME NEW v \in W, NEW w \in W, v[1] < w[1]
      PROVE  Rank(W, v) < Rank(W, w)
  <2>1. w[1] - 1 \in Nat /\ (w[1] - 1) + 1 = w[1] /\ v[1] \in Nat /\ v[1] <= w[1] - 1
    BY <1>1, <1>2
  <2>2. Cardinality(Below(W, w[1])) = Cardinality(Below(W, w[1] - 1)) + 1
    BY <2>1, BelowStep
  <2>3. Cardinality(Below(W, v[1])) <= Cardinality(Below(W, w[1] - 1))
    BY <2>1, BelowStep
  <2>4. Cardinality(Below(W, w[1] - 1)) \in Nat /\ Cardinality(Below(W, v[1])) \in Nat
    BY <2>1, BelowStep
  <2> QED BY <2>2, <2>3, <2>4 DEF Rank
<1>3. ASSUME NEW w \in W
      PROVE  Rank(W, w) \in 1..Cardinality(W)
  <2>1. w[1] - 1 \in Nat /\ (w[1] - 1) + 1 = w[1] /\ w[1] \in Nat /\ w[1] <= m
    BY <1>1
  <2>2. Cardinality(Below(W, w[1])) = Cardinality(Below(W, w[1] - 1)) + 1
    BY <2>1, BelowStep
  <2>3. Cardinality(Below(W, w[1])) <= Cardinality(Below(W, m))
    BY <2>1, BelowStep
  <2>4. /\ Cardinality(Below(W, w[1] - 1)) \in Nat
        /\ Cardinality(Below(W, w[1])) \in Nat /\ Below(W, m) = W
        /\ Cardinality(W) \in Nat
    BY <2>1, BelowStep
  <2> QED BY <2>2, <2>3, <2>4 DEF Rank
<1>4. ASSUME NEW v \in W, NEW w \in W, Rank(W, v) = Rank(W, w)
      PROVE  v = w
  <2>1. ~(v[1] < w[1]) /\ ~(w[1] < v[1])
    <3>1. Rank(W, v) \in Nat /\ Rank(W, w) \in Nat
      BY <1>3, BelowStep
    <3> QED BY <1>2, <1>4, <3>1
  <2>2. v[1] = w[1]
    BY <1>1, <2>1
  <2> QED BY <2>2 DEF Apart
<1>5. ASSUME NEW n \in 1..Cardinality(W)
      PROVE  \E w \in W : Rank(W, w) = n
  <2>. DEFINE T == {k \in Nat : Cardinality(Below(W, k)) >= n}
  <2>1. Cardinality(W) \in Nat /\ n \in Nat /\ n > 0
    BY BelowStep
  <2>2. m \in T
    BY <2>1, BelowStep
  <2>3. PICK k \in T : \A j \in T : k <= j
    <3>1. T \subseteq Nat /\ T # {}
      BY <2>2
    <3>. HIDE DEF T
    <3> QED BY <3>1, Smallest
  <2>4. k \in Nat /\ Cardinality(Below(W, k)) >= n /\ Cardinality(Below(W, k)) \in Nat
    BY BelowStep
  <2>5. k # 0
    BY <2>1, <2>4, BelowStep
  <2>6. k - 1 \in Nat /\ (k - 1) + 1 = k /\ k - 1 \notin T
    BY <2>3, <2>4, <2>5
  <2>7. Cardinality(Below(W, k - 1)) \in Nat /\ Cardinality(Below(W, k - 1)) < n
    <3>1. Cardinality(Below(W, k - 1)) \in Nat
      BY <2>6, BelowStep
    <3> QED BY <2>1, <2>6, <3>1
  <2>. HIDE DEF T
  <2>8. PICK w \in W : w[1] = k
    <3>1. SUFFICES ASSUME \A w \in W : w[1] # (k - 1) + 1 PROVE FALSE
      BY <2>6
    <3>2. Cardinality(Below(W, (k - 1) + 1)) = Cardinality(Below(W, k - 1))
      BY <2>6, <3>1, BelowStep
    <3> QED BY <2>1, <2>4, <2>6, <2>7, <3>2
  <2>9. Cardinality(Below(W, (k - 1) + 1)) = Cardinality(Below(W, k - 1)) + 1
    BY <2>6, <2>8, BelowStep
  <2> QED BY <2>1, <2>4, <2>6, <2>7, <2>8, <2>9 DEF Rank
<1> QED BY <1>2, <1>3, <1>4, <1>5

\* InOrder(W) has every stretch of W at its rank.
LEMMA Ordered ==
  ASSUME NEW m \in Nat, NEW W, Apart(W, m)
  PROVE  /\ Cardinality(W) \in Nat
         /\ InOrder(W) \in Seq(W)
         /\ DOMAIN InOrder(W) = 1..Cardinality(W)
         /\ Len(InOrder(W)) = Cardinality(W)
         /\ \A n \in 1..Cardinality(W) :
              InOrder(W)[n] \in W /\ Rank(W, InOrder(W)[n]) = n
         /\ \A w \in W : InOrder(W)[Rank(W, w)] = w
<1>1. Cardinality(W) \in Nat
  BY BelowStep
<1>2. InOrder(W) = [n \in 1..Cardinality(W) |-> CHOOSE w \in W : Rank(W, w) = n]
  BY DEF InOrder, Rank, Below
<1>3. ASSUME NEW n \in 1..Cardinality(W)
      PROVE  InOrder(W)[n] \in W /\ Rank(W, InOrder(W)[n]) = n
  <2>1. \E w \in W : Rank(W, w) = n
    BY RankOf
  <2>2. InOrder(W)[n] = CHOOSE w \in W : Rank(W, w) = n
    BY <1>2
  <2> QED BY <2>1, <2>2
<1>4. DOMAIN InOrder(W) = 1..Cardinality(W)
  BY <1>2
<1>5. InOrder(W) \in [1..Cardinality(W) -> W]
  BY <1>2, <1>3
<1>6. InOrder(W) \in Seq(W) /\ Len(InOrder(W)) = Cardinality(W)
  BY <1>1, <1>5
<1>7. ASSUME NEW w \in W
      PROVE  InOrder(W)[Rank(W, w)] = w
  <2>1. Rank(W, w) \in 1..Cardinality(W)
    BY RankOf
  <2>2. /\ InOrder(W)[Rank(W, w)] \in W
        /\ Rank(W, InOrder(W)[Rank(W, w)]) = Rank(W, w)
    BY <1>3, <2>1
  <2> QED BY <2>2, RankOf
<1> QED BY <1>1, <1>3, <1>4, <1>6, <1>7

-----------------------------------------------------------------------------
(* The stretches of a set of places, and what is between quotes.           *)

\* The longest stretches of a set of places.
LEMMA StretchesApart ==
  ASSUME NEW m \in Nat, NEW S, S \subseteq 1..m
  PROVE  /\ Apart(Stretches(S), m)
         /\ \A w \in Stretches(S) :
              /\ w \in (1..m) \X (1..m) /\ w = <<w[1], w[2]>> /\ w[1] <= w[2]
              /\ \A k \in w[1]..w[2] : k \in S
              /\ w[1] - 1 \notin S /\ w[2] + 1 \notin S
         /\ \A v, w \in Stretches(S) : v[1] < w[1] => v[2] < w[1]
         /\ \A v, w \in Stretches(S) : v[2] = w[2] => v = w
<1>1. ASSUME NEW w \in Stretches(S)
      PROVE  /\ w \in (1..m) \X (1..m) /\ w = <<w[1], w[2]>> /\ w[1] <= w[2]
             /\ \A k \in w[1]..w[2] : k \in S
             /\ w[1] - 1 \notin S /\ w[2] + 1 \notin S
             /\ w[1] \in 1..m /\ w[2] \in 1..m
  <2>1. w \in S \X S /\ w[1] <= w[2] /\ w[1]..w[2] \subseteq S
    BY DEF Stretches
  <2>2. {w[1] - 1, w[2] + 1} \cap S = {}
    BY DEF Stretches
  <2>3. w = <<w[1], w[2]>> /\ w[1] \in S /\ w[2] \in S
    BY <2>1
  <2> QED BY <2>1, <2>2, <2>3
<1>2. ASSUME NEW v \in Stretches(S), NEW w \in Stretches(S), v[1] < w[1]
      PROVE  v[2] < w[1]
  <2>1. v[1] \in Nat /\ v[2] \in Nat /\ w[1] \in Nat /\ w[2] \in Nat
    BY <1>1
  <2>2. SUFFICES ASSUME w[1] <= v[2] PROVE FALSE
    BY <2>1
  <2>3. w[1] - 1 \in v[1]..v[2]
    BY <1>2, <2>1, <2>2
  <2> QED BY <1>1, <2>3
<1>3. ASSUME NEW v \in Stretches(S), NEW w \in Stretches(S),
             v[1] = w[1] \/ v[2] = w[2]
      PROVE  v = w
  <2>1. v[1] \in Nat /\ v[2] \in Nat /\ w[1] \in Nat /\ w[2] \in Nat
    BY <1>1
  <2>2. v[1] = w[1]
    BY <1>1, <1>2, <1>3, <2>1
  <2>3. ~(v[2] < w[2])
    <3>1. SUFFICES ASSUME v[2] < w[2] PROVE FALSE
      OBVIOUS
    <3>2. v[2] + 1 \in w[1]..w[2]
      BY <1>1, <2>1, <2>2, <3>1
    <3> QED BY <1>1, <3>2
  <2>4. ~(w[2] < v[2])
    <3>1. SUFFICES ASSUME w[2] < v[2] PROVE FALSE
      OBVIOUS
    <3>2. w[2] + 1 \in v[1]..v[2]
      BY <1>1, <2>1, <2>2, <3>1
    <3> QED BY <1>1, <3>2
  <2>5. v[2] = w[2]
    BY <2>1, <2>3, <2>4
  <2>6. v = <<v[1], v[2]>> /\ w = <<w[1], w[2]>>
    BY <1>1
  <2> QED BY <2>2, <2>5, <2>6
<1>4. Apart(Stretches(S), m)
  BY <1>1, <1>3 DEF Apart
<1> QED BY <1>1, <1>2, <1>3, <1>4

\* What makes a stretch.
LEMMA StretchOf ==
  ASSUME NEW m \in Nat, NEW S, S \subseteq 1..m,
         NEW a \in Nat, NEW b \in Nat, a <= b,
         \A k \in a..b : k \in S, a - 1 \notin S, b + 1 \notin S
  PROVE  <<a, b>> \in Stretches(S)
<1>1. a \in S /\ b \in S /\ a..b \subseteq S
  OBVIOUS
<1> QED BY <1>1 DEF Stretches

-----------------------------------------------------------------------------
\* Quoted, for the places before m.
IsQuoted(q, text, m) ==
  q = [k \in 1..m |->
         /\ k > 1
         /\ q[k - 1] # (text[k - 1] = "quote" /\ ~InName(text, q, k - 1))]

\* What is in a name at a place depends on the quotes before it.
LEMMA InNameLocal ==
  ASSUME NEW text, NEW k \in Nat, NEW p, NEW q, \A j \in 1..(k - 1) : p[j] = q[j]
  PROVE  InName(text, p, k) <=> InName(text, q, k)
  BY DEF InName

\* The recursive definition of Quoted has a solution,
LEMMA QuotedExists ==
  ASSUME NEW text, NEW m \in Nat
  PROVE  \E q : IsQuoted(q, text, m)
<1>. DEFINE T == {n \in Nat : \E q : IsQuoted(q, text, n)}
<1>1. 0 \in T
  <2>. DEFINE e == [k \in 1..0 |-> FALSE]
  <2>1. IsQuoted(e, text, 0)
    BY DEF IsQuoted
  <2> QED BY <2>1
<1>2. ASSUME NEW n \in Nat, n \in T
      PROVE  n + 1 \in T
  <2>1. PICK q : IsQuoted(q, text, n)
    BY <1>2
  <2>. DEFINE V(f, k) ==
         /\ k > 1
         /\ f[k - 1] # (text[k - 1] = "quote" /\ ~InName(text, f, k - 1))
       p == [k \in 1..(n + 1) |-> IF k = n + 1 THEN V(q, n + 1) ELSE q[k]]
  <2>4. \A k \in 1..n : q[k] = V(q, k)
    BY <2>1 DEF IsQuoted
  <2>1a. V(p, 1) = FALSE /\ V(q, 1) = FALSE
    OBVIOUS
  <2>. HIDE DEF V
  <2>2. \A k \in 1..n : p[k] = q[k]
    OBVIOUS
  <2>3. p[n + 1] = V(q, n + 1)
    OBVIOUS
  <2>5. DOMAIN p = 1..(n + 1) /\ p = [k \in 1..(n + 1) |-> p[k]]
    OBVIOUS
  <2>. HIDE DEF p
  <2>6. ASSUME NEW k \in 1..(n + 1) PROVE p[k] = V(p, k)
    <3>1. CASE k = 1
      <4>2. p[1] = V(q, 1)
        <5>1. CASE n = 0
          BY <2>3, <2>1a, <5>1
        <5>2. CASE n # 0
          BY <2>2, <2>4, <2>1a, <5>2
        <5> QED BY <5>1, <5>2
      <4> QED BY <2>1a, <3>1, <4>2
    <3>2. CASE k # 1
      <4>1. k - 1 \in 1..n /\ k - 1 \in Nat /\ \A j \in 1..(k - 1 - 1) : p[j] = q[j]
        BY <2>2, <3>2
      <4>2. InName(text, p, k - 1) <=> InName(text, q, k - 1)
        BY <4>1, InNameLocal
      <4>3. p[k - 1] = q[k - 1]
        BY <2>2, <4>1
      <4>4. V(p, k) = V(q, k)
        BY <4>2, <4>3 DEF V
      <4>5. p[k] = V(q, k)
        BY <2>2, <2>3, <2>4
      <4> QED BY <4>4, <4>5
    <3> QED BY <3>1, <3>2
  <2>7. p = [k \in 1..(n + 1) |-> V(p, k)]
    BY <2>5, <2>6
  <2>8. IsQuoted(p, text, n + 1)
    BY <2>7 DEF IsQuoted, V
  <2> QED BY <2>8
<1>3. \A n \in 0..m : n \in T
  <2>. HIDE DEF T
  <2> QED BY <1>1, <1>2, UpTo
<1> QED BY <1>3

\* which Quoted is.
LEMMA QuotedIs ==
  ASSUME NEW text, Len(text) \in Nat
  PROVE  IsQuoted(Quoted(text), text, Len(text) + 1)
<1>1. \E q : IsQuoted(q, text, Len(text) + 1)
  BY QuotedExists
<1>2. Quoted(text) = CHOOSE q : IsQuoted(q, text, Len(text) + 1)
  BY DEF Quoted, IsQuoted
<1> QED BY <1>1, <1>2

-----------------------------------------------------------------------------
(* What follows an operator, and what is in a name.                        *)

\* The texts the commands are cut from.
Piece == Seq(Chars \ {"pipe"})

\* Whether a place is between quotes, in the name of a file, or no more than
\* spaces behind an operator; and a place that is an operator.
Between(text, k) == Quoted(text)[k]
Named(text, k) == InName(text, Quoted(text), k)
Op(text, j) == text[j] \in Redirs /\ ~Between(text, j)
BehindOp(text, j, k) == Op(text, j) /\ \A x \in (j + 1)..k : text[x] = "space"
Behind(text, k) == \E j \in 1..k : BehindOp(text, j, k)

\* A quote outside a name opens or closes.
LEMMA BetweenNext ==
  ASSUME NEW text \in Piece
  PROVE  /\ Len(text) \in Nat
         /\ ~Between(text, 1)
         /\ \A k \in 1..(Len(text) + 1) : Between(text, k) \in BOOLEAN
         /\ \A k \in 1..Len(text) :
              Between(text, k + 1) <=>
                (Between(text, k) # (text[k] = "quote" /\ ~Named(text, k)))
<1>1. Len(text) \in Nat
  BY DEF Piece
<1>. DEFINE V(q, k) ==
       /\ k > 1
       /\ q[k - 1] # (text[k - 1] = "quote" /\ ~InName(text, q, k - 1))
<1>2. \A k \in 1..(Len(text) + 1) : Quoted(text)[k] = V(Quoted(text), k)
  <2>1. IsQuoted(Quoted(text), text, Len(text) + 1)
    BY <1>1, QuotedIs
  <2>2. Quoted(text) = [k \in 1..(Len(text) + 1) |-> V(Quoted(text), k)]
    BY <2>1 DEF IsQuoted
  <2>. HIDE DEF V
  <2> QED BY <2>2
<1>3. ASSUME NEW k \in 1..Len(text)
      PROVE  Between(text, k + 1) <=>
               (Between(text, k) # (text[k] = "quote" /\ ~Named(text, k)))
  <2>1. k + 1 \in 1..(Len(text) + 1) /\ k + 1 > 1 /\ (k + 1) - 1 = k
    BY <1>1
  <2>2. Quoted(text)[k + 1] = V(Quoted(text), k + 1)
    BY <1>2, <2>1
  <2>3. Quoted(text)[k + 1] =
          (Quoted(text)[k] # (text[k] = "quote" /\ ~InName(text, Quoted(text), k)))
    BY <2>1, <2>2
  <2> QED BY <2>3 DEF Between, Named
<1>4. ~Between(text, 1)
  <2>1. 1 \in 1..(Len(text) + 1) /\ ~(1 > 1)
    BY <1>1
  <2> QED BY <1>2, <2>1 DEF Between
<1>5. \A k \in 1..(Len(text) + 1) : Between(text, k) \in BOOLEAN
  BY <1>2 DEF Between
<1> QED BY <1>1, <1>3, <1>4, <1>5

\* A name goes on up to a space or an operator.
LEMMA NamedNext ==
  ASSUME NEW text \in Piece
  PROVE  /\ ~Named(text, 0)
         /\ \A k \in 1..Len(text) :
              Named(text, k) <=> /\ text[k] \notin Redirs \cup {"space"}
                                 /\ Behind(text, k - 1) \/ Named(text, k - 1)
<1>1. Len(text) \in Nat
  BY DEF Piece
<1>2. ~Named(text, 0)
  BY DEF Named, InName
<1>3. ASSUME NEW k \in 1..Len(text), Named(text, k)
      PROVE  /\ text[k] \notin Redirs \cup {"space"}
             /\ Behind(text, k - 1) \/ Named(text, k - 1)
  <2>1. PICK j \in 1..(k - 1) : \E m \in j..(k - 1) :
          /\ Op(text, j) /\ \A x \in (j + 1)..m : text[x] = "space"
          /\ \A x \in (m + 1)..k : text[x] \notin Redirs \cup {"space"}
    BY <1>3 DEF Named, InName, Op, Between
  <2>2. PICK m \in j..(k - 1) :
          /\ Op(text, j) /\ \A x \in (j + 1)..m : text[x] = "space"
          /\ \A x \in (m + 1)..k : text[x] \notin Redirs \cup {"space"}
    BY <2>1
  <2>3. k \in (m + 1)..k
    BY <1>1, <2>2
  <2>4. CASE m = k - 1
    BY <2>2, <2>3, <2>4 DEF Behind, BehindOp
  <2>5. CASE m # k - 1
    <3>1. /\ j \in 1..((k - 1) - 1) /\ m \in j..((k - 1) - 1)
          /\ \A x \in (m + 1)..(k - 1) : x \in (m + 1)..k
      BY <1>1, <2>5
    <3>2. Named(text, k - 1)
      BY <2>2, <3>1 DEF Named, InName, Op, Between
    <3> QED BY <2>2, <2>3, <3>2
  <2> QED BY <2>4, <2>5
<1>4. ASSUME NEW k \in 1..Len(text), text[k] \notin Redirs \cup {"space"},
             Behind(text, k - 1)
      PROVE  Named(text, k)
  <2>1. PICK j \in 1..(k - 1) : BehindOp(text, j, k - 1)
    BY <1>4 DEF Behind
  <2>2. /\ k - 1 \in j..(k - 1)
        /\ \A x \in ((k - 1) + 1)..k : text[x] \notin Redirs \cup {"space"}
    BY <1>1, <1>4
  <2> QED BY <2>1, <2>2 DEF Named, InName, BehindOp, Op, Between
<1>5. ASSUME NEW k \in 1..Len(text), text[k] \notin Redirs \cup {"space"},
             Named(text, k - 1)
      PROVE  Named(text, k)
  <2>1. PICK j \in 1..((k - 1) - 1) : \E m \in j..((k - 1) - 1) :
          /\ Op(text, j) /\ \A x \in (j + 1)..m : text[x] = "space"
          /\ \A x \in (m + 1)..(k - 1) : text[x] \notin Redirs \cup {"space"}
    BY <1>5 DEF Named, InName, Op, Between
  <2>2. PICK m \in j..((k - 1) - 1) :
          /\ Op(text, j) /\ \A x \in (j + 1)..m : text[x] = "space"
          /\ \A x \in (m + 1)..(k - 1) : text[x] \notin Redirs \cup {"space"}
    BY <2>1
  <2>3. j \in 1..(k - 1) /\ m \in j..(k - 1)
    BY <1>1
  <2>4. \A x \in (m + 1)..k : text[x] \notin Redirs \cup {"space"}
    <3>1. \A x \in (m + 1)..k : x = k \/ x \in (m + 1)..(k - 1)
      BY <1>1
    <3> QED BY <1>5, <2>2, <3>1
  <2> QED BY <2>2, <2>3, <2>4 DEF Named, InName, Op, Between
<1> QED BY <1>2, <1>3, <1>4, <1>5

\* Spaces behind an operator.
LEMMA BehindNext ==
  ASSUME NEW text \in Piece
  PROVE  /\ ~Behind(text, 0)
         /\ \A k \in 1..Len(text) :
              Behind(text, k) <=>
                \/ Op(text, k)
                \/ text[k] = "space" /\ Behind(text, k - 1)
<1>1. Len(text) \in Nat
  BY DEF Piece
<1>2. ~Behind(text, 0)
  BY DEF Behind
<1>3. ASSUME NEW k \in 1..Len(text), Behind(text, k)
      PROVE  Op(text, k) \/ (text[k] = "space" /\ Behind(text, k - 1))
  <2>1. PICK j \in 1..k : BehindOp(text, j, k)
    BY <1>3 DEF Behind
  <2>2. CASE j = k
    BY <2>1, <2>2 DEF BehindOp, Op
  <2>3. CASE j # k
    <3>1. /\ j \in 1..(k - 1) /\ k \in (j + 1)..k
          /\ \A x \in (j + 1)..(k - 1) : x \in (j + 1)..k
      BY <1>1, <2>3
    <3> QED BY <2>1, <3>1 DEF BehindOp, Behind
  <2> QED BY <2>2, <2>3
<1>4. ASSUME NEW k \in 1..Len(text), Op(text, k)
      PROVE  BehindOp(text, k, k) /\ Behind(text, k)
  <2>1. k \in 1..k /\ (k + 1)..k = {}
    BY <1>1
  <2> QED BY <1>4, <2>1 DEF Behind, BehindOp
<1>5. ASSUME NEW k \in 1..Len(text), NEW j \in 1..(k - 1), text[k] = "space",
             BehindOp(text, j, k - 1)
      PROVE  BehindOp(text, j, k)
  <2>1. \A x \in (j + 1)..k : x = k \/ x \in (j + 1)..(k - 1)
    BY <1>1
  <2> QED BY <1>5, <2>1 DEF BehindOp
<1>6. ASSUME NEW k \in 1..Len(text), text[k] = "space", Behind(text, k - 1)
      PROVE  Behind(text, k)
  <2>1. PICK j \in 1..(k - 1) : BehindOp(text, j, k - 1)
    BY <1>6 DEF Behind
  <2>2. j \in 1..k
    BY <1>1
  <2> QED BY <1>5, <1>6, <2>1, <2>2 DEF Behind
<1> QED BY <1>2, <1>3, <1>4, <1>6

\* Nothing behind an operator or in a name is between quotes.
LEMMA NoQuotes ==
  ASSUME NEW text \in Piece
  PROVE  \A k \in 0..Len(text) :
           /\ Behind(text, k) \/ Named(text, k) =>
                ~Between(text, k + 1) /\ (k > 0 => ~Between(text, k))
           /\ ~(Behind(text, k) /\ Named(text, k))
<1>1. Len(text) \in Nat
  BY DEF Piece
<1>. DEFINE P(k) ==
       /\ Behind(text, k) \/ Named(text, k) =>
            ~Between(text, k + 1) /\ (k > 0 => ~Between(text, k))
       /\ ~(Behind(text, k) /\ Named(text, k))
     T == {k \in Nat : P(k)}
<1>2. 0 \in T
  BY BetweenNext, NamedNext, BehindNext
<1>3. ASSUME NEW n \in Nat, n < Len(text), n \in T
      PROVE  n + 1 \in T
  <2>1. n + 1 \in 1..Len(text) /\ (n + 1) - 1 = n /\ n + 1 > 0 /\ n + 1 \in 1..(Len(text) + 1)
    BY <1>1, <1>3
  <2>2. P(n)
    BY <1>3
  <2>. HIDE DEF P
  <2>3. /\ Between(text, (n + 1) + 1) <=>
             (Between(text, n + 1) # (text[n + 1] = "quote" /\ ~Named(text, n + 1)))
        /\ Between(text, n + 1) \in BOOLEAN
    BY <2>1, BetweenNext
  <2>4. Named(text, n + 1) <=> /\ text[n + 1] \notin Redirs \cup {"space"}
                               /\ Behind(text, n) \/ Named(text, n)
    BY <2>1, NamedNext
  <2>5. Behind(text, n + 1) <=> \/ Op(text, n + 1)
                                \/ text[n + 1] = "space" /\ Behind(text, n)
    BY <2>1, BehindNext
  <2>6. P(n + 1)
    <3>1. CASE Op(text, n + 1)
      <4>1. text[n + 1] \in Redirs /\ ~Between(text, n + 1)
        BY <3>1 DEF Op
      <4>2. text[n + 1] # "quote"
        BY <4>1 DEF Redirs
      <4> QED BY <2>1, <2>3, <2>4, <4>1, <4>2 DEF P
    <3>2. CASE ~Op(text, n + 1)
      <4>1. ~Between(text, n + 1) \/ ~(Behind(text, n) \/ Named(text, n))
        BY <2>2 DEF P
      <4> QED BY <2>1, <2>3, <2>4, <2>5, <3>2, <4>1 DEF P
    <3> QED BY <3>1, <3>2
  <2> QED BY <2>6
<1>4. \A k \in 0..Len(text) : k \in T
  <2>. HIDE DEF T
  <2> QED BY <1>1, <1>2, <1>3, UpTo
<1> QED BY <1>4

-----------------------------------------------------------------------------
\* Whether the `>` that end at a place are even in number.
Even(text, j) ==
  \E n \in 1..j : /\ n % 2 = 0
                  /\ \A x \in (j - n + 1)..j : text[x] = "out"
                  /\ j = n \/ text[j - n] # "out"
OpOf(text, j) ==
  IF text[j] = "in" THEN "in" ELSE IF Even(text, j) THEN "append" ELSE "out"

\* No second `>` yet.
LEMMA EvenFirst ==
  ASSUME NEW text, NEW j \in Nat, j = 1 \/ text[j - 1] # "out"
  PROVE  ~Even(text, j)
<1>1. SUFFICES ASSUME NEW n \in 1..j, n % 2 = 0,
                      \A x \in (j - n + 1)..j : text[x] = "out"
               PROVE  FALSE
  BY DEF Even
<1>2. n # 1
  BY <1>1
<1>3. j # 1 /\ j - 1 \in (j - n + 1)..j
  BY <1>2
<1> QED BY <1>1, <1>3

\* Whether the operator is the second of a pair, from one `>` to the next.
LEMMA EvenNext ==
  ASSUME NEW text, NEW j \in Nat, j > 1, text[j] = "out", text[j - 1] = "out"
  PROVE  Even(text, j) <=> ~Even(text, j - 1)
<1>. DEFINE Run(r) == /\ \A x \in (j - r)..(j - 1) : text[x] = "out"
                      /\ j - 1 = r \/ text[(j - 1) - r] # "out"
            T == {a \in Nat : a <= j - 1 /\ \A x \in (a + 1)..(j - 1) : text[x] = "out"}
<1>1. PICK r \in 1..(j - 1) : Run(r)
  <2>1. j - 1 \in T
    OBVIOUS
  <2>2. PICK a \in T : \A b \in T : a <= b
    <3>1. T \subseteq Nat /\ T # {}
      BY <2>1
    <3>. HIDE DEF T
    <3> QED BY <3>1, Smallest
  <2>3. a \in Nat /\ a <= j - 1 /\ \A x \in (a + 1)..(j - 1) : text[x] = "out"
    OBVIOUS
  <2>4. j - 2 \in T
    OBVIOUS
  <2>5. a <= j - 2
    BY <2>2, <2>4
  <2>6. a = 0 \/ text[a] # "out"
    <3>1. SUFFICES ASSUME a # 0, text[a] = "out" PROVE FALSE
      OBVIOUS
    <3>2. a - 1 \in Nat /\ a - 1 <= j - 1
      BY <2>3, <3>1
    <3>3. \A x \in ((a - 1) + 1)..(j - 1) : x = a \/ x \in (a + 1)..(j - 1)
      BY <2>3, <3>1
    <3>4. a - 1 \in T
      BY <2>3, <3>1, <3>2, <3>3
    <3> QED BY <2>2, <2>3, <3>4
  <2>7. /\ j - 1 - a \in 1..(j - 1) /\ j - (j - 1 - a) = a + 1
        /\ (j - 1) - (j - 1 - a) = a /\ (j - 1 = j - 1 - a <=> a = 0)
    BY <2>3, <2>5
  <2>8. Run(j - 1 - a)
    BY <2>3, <2>6, <2>7
  <2> QED BY <2>7, <2>8
<1>2. ASSUME NEW n \in 1..(j - 1), Run(n)
      PROVE  n = r
  <2>1. ~(n < r)
    <3>1. SUFFICES ASSUME n < r PROVE FALSE
      OBVIOUS
    <3>2. (j - 1) - n \in (j - r)..(j - 1) /\ j - 1 # n
      BY <3>1
    <3> QED BY <1>1, <1>2, <3>2
  <2>2. ~(r < n)
    <3>1. SUFFICES ASSUME r < n PROVE FALSE
      OBVIOUS
    <3>2. (j - 1) - r \in (j - n)..(j - 1) /\ j - 1 # r
      BY <3>1
    <3> QED BY <1>1, <1>2, <3>2
  <2> QED BY <2>1, <2>2
<1>3. Even(text, j - 1) <=> r % 2 = 0
  <2>1. \A n \in 1..(j - 1) : (j - 1) - n + 1 = j - n
    OBVIOUS
  <2>2. Even(text, j - 1) <=> \E n \in 1..(j - 1) : n % 2 = 0 /\ Run(n)
    BY <2>1 DEF Even
  <2>. HIDE DEF Run
  <2> QED BY <1>1, <1>2, <2>2
<1>4. Even(text, j) <=> (r + 1) % 2 = 0
  <2>1. ASSUME Even(text, j) PROVE (r + 1) % 2 = 0
    <3>1. PICK n \in 1..j : /\ n % 2 = 0
                            /\ \A x \in (j - n + 1)..j : text[x] = "out"
                            /\ j = n \/ text[j - n] # "out"
      BY <2>1 DEF Even
    <3>2. n # 1
      BY <3>1
    <3>3. /\ n - 1 \in 1..(j - 1) /\ (j - 1) - (n - 1) = j - n
          /\ \A x \in (j - (n - 1))..(j - 1) : x \in (j - n + 1)..j
      BY <3>2
    <3>4. Run(n - 1)
      BY <3>1, <3>3
    <3>5. n - 1 = r
      <4>. HIDE DEF Run
      <4> QED BY <1>2, <3>3, <3>4
    <3> QED BY <3>1, <3>3, <3>5
  <2>2. ASSUME (r + 1) % 2 = 0 PROVE Even(text, j)
    <3>1. /\ r + 1 \in 1..j /\ j - (r + 1) = (j - 1) - r
          /\ \A x \in (j - (r + 1) + 1)..j : x = j \/ x \in (j - r)..(j - 1)
      BY <1>1
    <3>2. /\ \A x \in (j - (r + 1) + 1)..j : text[x] = "out"
          /\ j = r + 1 \/ text[j - (r + 1)] # "out"
      BY <1>1, <3>1
    <3> QED BY <2>2, <3>1, <3>2 DEF Even
  <2> QED BY <2>1, <2>2
<1>5. r % 2 = 0 <=> ~((r + 1) % 2 = 0)
  <2>1. r \in Nat
    OBVIOUS
  <2>. HIDE DEF Run
  <2> QED BY <2>1
<1> QED BY <1>3, <1>4, <1>5

\* The operators there are.
LEMMA OpOfIs ==
  ASSUME NEW text, NEW j \in Nat
  PROVE  OpOf(text, j) \in {"in", "out", "append"}
  BY DEF OpOf

-----------------------------------------------------------------------------
(* The turns of the loop of build_cmd_buff.                                *)

Files == Nat \X Nat
Scans ==
  [mode : {"arg", "op", "gap", "name"}, op : {"in", "out", "append"},
   start : Nat, quoted : BOOLEAN, args : Seq(Files), in : Files, out : Files,
   append : BOOLEAN, lost : Nat]

\* What the loop of build_cmd_buff has put in the command.
Same(s, t) ==
  /\ s.args = t.args /\ s.in = t.in /\ s.out = t.out
  /\ s.append = t.append /\ s.lost = t.lost

\* Whether an argument ends before k.
Taken(s, k) == s.mode = "arg" /\ k > s.start /\ Len(s.args) < ArgvMax - 1

\* What ends before a place, case by case.
LEMMA EndsIs ==
  ASSUME NEW s \in Scans, NEW k \in Nat, k > 0, NEW e, e = Ends(s, k),
         NEW w, w = <<s.start, k - 1>>
  PROVE  /\ w \in Files /\ e \in Scans
         /\ e.mode = s.mode /\ e.op = s.op /\ e.start = s.start
         /\ e.quoted = s.quoted
         /\ Taken(s, k) => e.args = Append(s.args, w)
         /\ ~Taken(s, k) => e.args = s.args
         /\ s.mode # "name" =>
              /\ e.in = s.in /\ e.out = s.out /\ e.append = s.append
              /\ e.lost = s.lost
         /\ s.mode = "name" /\ s.op = "in" =>
              /\ e.in = w /\ e.out = s.out /\ e.append = s.append
              /\ e.lost = s.lost + (IF s.in = None THEN 0 ELSE 1)
         /\ s.mode = "name" /\ s.op # "in" =>
              /\ e.out = w /\ e.in = s.in /\ e.append = (s.op = "append")
              /\ e.lost = s.lost + (IF s.out = None THEN 0 ELSE 1)
<1>1. /\ w \in Files /\ s.start \in Nat /\ s.lost \in Nat /\ s.args \in Seq(Files)
      /\ Append(s.args, w) \in Seq(Files)
  BY DEF Scans, Files
<1>2. CASE Taken(s, k)
  <2>1. s.mode = "arg" /\ e = [s EXCEPT !.args = Append(@, w)]
    BY <1>2 DEF Ends, Taken
  <2>2. e \in Scans
    BY <1>1, <2>1 DEF Scans
  <2> QED BY <1>1, <1>2, <2>1, <2>2 DEF Scans
<1>3. CASE s.mode = "name" /\ s.op = "in"
  <2>0. PICK l : l = s.lost + (IF s.in = None THEN 0 ELSE 1)
    OBVIOUS
  <2>1. e = [s EXCEPT !.in = w, !.lost = l]
    BY <1>3, <2>0 DEF Ends, Scans
  <2>1a. l \in Nat
    BY <1>1, <2>0
  <2>2. ~Taken(s, k) /\ s.mode = "name" /\ s.op = "in"
    BY <1>3 DEF Taken
  <2>3. e \in Scans
    BY <1>1, <2>1, <2>1a DEF Scans
  <2>4. /\ e.mode = s.mode /\ e.op = s.op /\ e.start = s.start
        /\ e.quoted = s.quoted /\ e.args = s.args /\ e.in = w
        /\ e.out = s.out /\ e.append = s.append /\ e.lost = l
    BY <2>1 DEF Scans
  <2> QED BY <1>1, <2>0, <2>2, <2>3, <2>4
<1>4. CASE s.mode = "name" /\ s.op # "in"
  <2>. DEFINE a == s.op = "append"
  <2>0. PICK l : l = s.lost + (IF s.out = None THEN 0 ELSE 1)
    OBVIOUS
  <2>1. e = [s EXCEPT !.out = w, !.append = a, !.lost = l]
    BY <1>4, <2>0 DEF Ends, Scans
  <2>1a. l \in Nat
    BY <1>1, <2>0
  <2>2. ~Taken(s, k) /\ s.mode = "name" /\ s.op # "in"
    BY <1>4 DEF Taken
  <2>3. a \in BOOLEAN
    OBVIOUS
  <2>4. SUFFICES /\ e \in Scans /\ e.mode = s.mode /\ e.op = s.op
                 /\ e.start = s.start /\ e.quoted = s.quoted
                 /\ e.args = s.args /\ e.out = w /\ e.in = s.in /\ e.append = a
                 /\ e.lost = s.lost + (IF s.out = None THEN 0 ELSE 1)
    BY <1>1, <2>2
  <2>. HIDE DEF a
  <2>5. e \in Scans
    BY <1>1, <2>1, <2>1a, <2>3 DEF Scans
  <2>6. /\ e.mode = s.mode /\ e.op = s.op /\ e.start = s.start
        /\ e.quoted = s.quoted /\ e.args = s.args /\ e.out = w
        /\ e.in = s.in /\ e.append = a /\ e.lost = l
    BY <2>1, <2>3 DEF Scans
  <2> QED BY <2>0, <2>5, <2>6
<1>5. CASE ~Taken(s, k) /\ s.mode # "name"
  <2>1. e = s
    BY <1>5 DEF Ends, Taken
  <2> QED BY <1>1, <1>5, <2>1
<1> QED BY <1>2, <1>3, <1>4, <1>5 DEF Taken

\* The turns of the loop.
Second(s, c) == s.mode = "op" /\ s.op = "out" /\ c = "out"
Redirects(s, c) == c \in Redirs /\ ~s.quoted /\ ~Second(s, c)
Blank(s, c) == c = "space" /\ ~s.quoted
Begins(s, c) ==
  /\ s.mode \in {"op", "gap"}
  /\ ~Second(s, c) /\ ~Redirects(s, c) /\ ~Blank(s, c)
Turns(s, c) == c = "quote" /\ s.mode = "arg"
Goes(s, c) ==
  /\ ~Second(s, c) /\ ~Redirects(s, c) /\ ~Blank(s, c) /\ ~Begins(s, c)
  /\ ~Turns(s, c)

\* Those that put what came before into the command.
Ending(s, c) == Redirects(s, c) \/ Blank(s, c) \/ (Turns(s, c) /\ s.quoted)

\* One turn of the loop, case by case.
LEMMA TurnIs ==
  ASSUME NEW s \in Scans, NEW k \in Nat, k > 0, NEW c \in Chars,
         NEW e, e = Ends(s, k), NEW t, t = Turn(s, c, k)
  PROVE  /\ t \in Scans
         /\ Ending(s, c) => Same(t, e)
         /\ ~Ending(s, c) => Same(t, s)
         /\ Second(s, c) => /\ t.mode = "gap" /\ t.op = "append"
                            /\ t.start = s.start /\ t.quoted = s.quoted
         /\ Redirects(s, c) => /\ t.mode = "op" /\ t.op = c
                               /\ t.start = s.start /\ t.quoted = s.quoted
         /\ Blank(s, c) =>
              /\ t.mode = IF s.mode \in {"op", "gap"} THEN "gap" ELSE "arg"
              /\ t.op = s.op /\ t.start = k + 1 /\ t.quoted = s.quoted
         /\ Begins(s, c) => /\ t.mode = "name" /\ t.op = s.op
                            /\ t.start = k /\ t.quoted = s.quoted
         /\ Turns(s, c) => /\ t.mode = "arg" /\ t.op = s.op
                           /\ t.start = k + 1 /\ t.quoted = ~s.quoted
         /\ Goes(s, c) => t = s
<1>1. /\ e \in Scans /\ e.mode = s.mode /\ e.op = s.op /\ e.start = s.start
      /\ e.quoted = s.quoted
  <2>1. PICK w : w = <<s.start, k - 1>>
    OBVIOUS
  <2> QED BY <2>1, EndsIs
<1>2. CASE Second(s, c)
  <2>1. t = [s EXCEPT !.mode = "gap", !.op = "append"]
    BY <1>2 DEF Turn, Second
  <2>2. ~Ending(s, c) /\ ~Redirects(s, c) /\ ~Blank(s, c) /\ ~Begins(s, c) /\ ~Turns(s, c)
    BY <1>2 DEF Ending, Second, Redirects, Blank, Begins, Turns
  <2>3. ~Goes(s, c)
    BY <1>2 DEF Goes
  <2>4. /\ t \in Scans /\ Same(t, s) /\ t.mode = "gap" /\ t.op = "append"
        /\ t.start = s.start /\ t.quoted = s.quoted
    BY <2>1 DEF Scans, Same
  <2> QED BY <2>2, <2>3, <2>4
<1>3. CASE Redirects(s, c)
  <2>1. t = [e EXCEPT !.mode = "op", !.op = c]
    <3>1. ~Second(s, c) /\ c \in Redirs /\ ~s.quoted
      BY <1>3 DEF Redirects
    <3>2. c # "space" /\ c # "quote"
      BY <3>1 DEF Redirs
    <3> QED BY <3>1, <3>2 DEF Turn, Second
  <2>2. Ending(s, c) /\ ~Second(s, c) /\ ~Blank(s, c) /\ ~Begins(s, c) /\ ~Turns(s, c)
    BY <1>3 DEF Ending, Second, Redirects, Blank, Begins, Turns, Redirs
  <2>3. ~Goes(s, c)
    BY <1>3 DEF Goes
  <2>4. c \in {"in", "out", "append"}
    BY <1>3 DEF Redirects, Redirs
  <2>5. t \in Scans /\ t.mode = "op" /\ t.op = c /\ t.start = e.start
        /\ t.quoted = e.quoted /\ Same(t, e)
    BY <1>1, <2>1, <2>4 DEF Scans, Same
  <2> QED BY <1>1, <2>2, <2>3, <2>5
<1>4. CASE Blank(s, c)
  <2>1. PICK m : m = IF s.mode \in {"op", "gap"} THEN "gap" ELSE "arg"
    OBVIOUS
  <2>2. t = [e EXCEPT !.mode = m, !.start = k + 1]
    BY <1>4, <2>1 DEF Turn, Blank, Redirs
  <2>3. Ending(s, c) /\ ~Second(s, c) /\ ~Redirects(s, c) /\ ~Begins(s, c) /\ ~Turns(s, c)
    BY <1>4 DEF Ending, Second, Redirects, Blank, Begins, Turns, Redirs
  <2>4. ~Goes(s, c)
    BY <1>4 DEF Goes
  <2>5. m \in {"arg", "op", "gap", "name"} /\ k + 1 \in Nat
    BY <2>1
  <2>6. /\ t \in Scans /\ t.mode = m /\ t.op = e.op /\ t.start = k + 1
        /\ t.quoted = e.quoted /\ Same(t, e)
    BY <1>1, <2>2, <2>5 DEF Scans, Same
  <2> QED BY <1>1, <2>1, <2>3, <2>4, <2>6
<1>5. CASE Begins(s, c)
  <2>1. t = [s EXCEPT !.mode = "name", !.start = k]
    BY <1>5 DEF Turn, Begins, Second, Redirects, Blank
  <2>2. ~Ending(s, c) /\ ~Second(s, c) /\ ~Redirects(s, c) /\ ~Blank(s, c) /\ ~Turns(s, c)
    BY <1>5 DEF Ending, Begins, Turns
  <2>3. ~Goes(s, c)
    BY <1>5 DEF Goes
  <2>4. /\ t \in Scans /\ Same(t, s) /\ t.mode = "name" /\ t.op = s.op
        /\ t.start = k /\ t.quoted = s.quoted
    BY <2>1 DEF Scans, Same
  <2> QED BY <2>2, <2>3, <2>4
<1>6. CASE Turns(s, c)
  <2>1. PICK b : b = IF s.quoted THEN e ELSE s
    OBVIOUS
  <2>2. PICK q : q = ~b.quoted
    OBVIOUS
  <2>3. t = [b EXCEPT !.start = k + 1, !.quoted = ~@]
    BY <1>6, <2>1 DEF Turn, Turns, Redirs
  <2>4. b \in Scans /\ b.mode = s.mode /\ b.op = s.op /\ b.quoted = s.quoted
    BY <1>1, <2>1
  <2>5. t = [b EXCEPT !.start = k + 1, !.quoted = q] /\ q \in BOOLEAN
    BY <2>2, <2>3, <2>4 DEF Scans
  <2>6. /\ ~Second(s, c) /\ ~Redirects(s, c) /\ ~Blank(s, c) /\ ~Begins(s, c)
        /\ Ending(s, c) <=> s.quoted
    BY <1>6 DEF Ending, Second, Redirects, Blank, Begins, Turns, Redirs
  <2>7. ~Goes(s, c) /\ s.mode = "arg"
    BY <1>6 DEF Goes, Turns
  <2>8. /\ t \in Scans /\ t.mode = b.mode /\ t.op = b.op /\ t.start = k + 1
        /\ t.quoted = q /\ Same(t, b)
    <3>1. k + 1 \in Nat
      OBVIOUS
    <3>2. t \in Scans
      BY <2>4, <2>5, <3>1 DEF Scans
    <3> QED BY <2>4, <2>5, <3>1, <3>2 DEF Scans, Same
  <2>9. /\ Ending(s, c) => Same(t, e)
        /\ ~Ending(s, c) => Same(t, s)
    BY <2>1, <2>6, <2>8
  <2>10. t.quoted = ~s.quoted
    BY <2>2, <2>4, <2>8
  <2> QED BY <2>4, <2>6, <2>7, <2>8, <2>9, <2>10
<1>7. CASE Goes(s, c)
  <2>1. t = s
    BY <1>7 DEF Turn, Goes, Turns, Begins, Second, Redirects, Blank
  <2>2. /\ ~Ending(s, c) /\ ~Second(s, c) /\ ~Redirects(s, c) /\ ~Blank(s, c)
        /\ ~Begins(s, c) /\ ~Turns(s, c)
    BY <1>7 DEF Goes, Ending
  <2> QED BY <2>1, <2>2 DEF Same
<1> QED BY <1>2, <1>3, <1>4, <1>5, <1>6, <1>7 DEF Goes

-----------------------------------------------------------------------------
\* The loop of Scan, up to m.
IsScan(f, text, m) ==
  f = [k \in 0..m |-> IF k = 0 THEN Start ELSE Turn(f[k - 1], text[k], k)]

\* The recursive function of Scan exists,
LEMMA ScanExists ==
  ASSUME NEW text, NEW m \in Nat
  PROVE  \E f : IsScan(f, text, m)
<1>. DEFINE T == {n \in Nat : \E f : IsScan(f, text, n)}
<1>1. 0 \in T
  <2>. DEFINE e == [k \in 0..0 |-> Start]
  <2>1. e = [k \in 0..0 |-> IF k = 0 THEN Start ELSE Turn(e[k - 1], text[k], k)]
    OBVIOUS
  <2>2. IsScan(e, text, 0)
    BY <2>1 DEF IsScan
  <2> QED BY <2>2
<1>2. ASSUME NEW n \in Nat, n \in T
      PROVE  n + 1 \in T
  <2>1. PICK f : IsScan(f, text, n)
    BY <1>2
  <2>. DEFINE V(g, k) == IF k = 0 THEN Start ELSE Turn(g[k - 1], text[k], k)
              g == [k \in 0..(n + 1) |-> IF k = n + 1 THEN V(f, n + 1) ELSE f[k]]
  <2>2. \A k \in 0..n : f[k] = V(f, k)
    BY <2>1 DEF IsScan
  <2>3. \A k \in 0..n : g[k] = f[k]
    <3>. HIDE DEF V
    <3> QED OBVIOUS
  <2>4. g[n + 1] = V(f, n + 1)
    <3>. HIDE DEF V
    <3> QED OBVIOUS
  <2>5. g = [k \in 0..(n + 1) |-> g[k]]
    <3>. HIDE DEF V
    <3> QED OBVIOUS
  <2>. HIDE DEF g
  <2>6. ASSUME NEW k \in 0..(n + 1) PROVE g[k] = V(g, k)
    <3>1. CASE k = 0
      BY <2>2, <2>3, <3>1
    <3>2. CASE k # 0
      <4>1. k - 1 \in 0..n /\ g[k - 1] = f[k - 1]
        BY <2>3, <3>2
      <4>2. V(g, k) = V(f, k)
        BY <3>2, <4>1
      <4>. HIDE DEF V
      <4> QED BY <2>2, <2>3, <2>4, <4>2
    <3> QED BY <3>1, <3>2
  <2>7. IsScan(g, text, n + 1)
    BY <2>5, <2>6 DEF IsScan
  <2> QED BY <2>7
<1>3. \A n \in 0..m : n \in T
  <2>. HIDE DEF T
  <2> QED BY <1>1, <1>2, UpTo
<1> QED BY <1>3

\* and Scan is its last value.
LEMMA ScanIs ==
  ASSUME NEW text, Len(text) \in Nat
  PROVE  \E f : /\ IsScan(f, text, Len(text))
                /\ Scan(text) = Ends(f[Len(text)], Len(text) + 1)
<1>1. \E f : IsScan(f, text, Len(text))
  BY ScanExists
<1>. DEFINE g == CHOOSE f : IsScan(f, text, Len(text))
<1>2. IsScan(g, text, Len(text))
  BY <1>1
<1>3. Scan(text) = Ends(g[Len(text)], Len(text) + 1)
  BY DEF Scan, IsScan
<1> QED BY <1>2, <1>3

-----------------------------------------------------------------------------
(* Where the loop is after k characters.                                   *)

\* Where the loop of build_cmd_buff is after k characters.
InFile(text, k, s) ==
  /\ s.start <= k
  /\ \A x \in s.start..k : Named(text, x)
  /\ \E j \in 1..(s.start - 1) :
       BehindOp(text, j, s.start - 1) /\ s.op = OpOf(text, j)
InArgument(text, k, s) ==
  /\ \A x \in s.start..k :
       /\ text[x] # "quote" /\ ~Named(text, x) /\ (Between(text, x) <=> s.quoted)
       /\ s.quoted \/ text[x] = "letter"
  /\ \/ s.start = 1
     \/ text[s.start - 1] = "quote"
     \/ (text[s.start - 1] = "space" /\ ~Between(text, s.start - 1))
Mode(text, k, s) ==
  /\ s \in Scans /\ s.start \in 1..(k + 1)
  /\ s.quoted <=> Between(text, k + 1)
  /\ s.mode = "name" <=> Named(text, k)
  /\ s.mode \in {"op", "gap"} <=> Behind(text, k)
  /\ s.mode \in {"op", "gap"} =>
       \E j \in 1..k : BehindOp(text, j, k) /\ s.op = OpOf(text, j)
  /\ s.mode = "op" <=> k > 0 /\ Op(text, k) /\ s.op # "append"
  /\ s.mode = "name" => InFile(text, k, s)
  /\ s.mode = "arg" => InArgument(text, k, s)

\* The loop begins in an argument,
LEMMA StartMode ==
  ASSUME NEW text \in Piece
  PROVE  Mode(text, 0, Start)
<1>1. Start \in Scans
  BY DEF Start, Scans, Files, None
<1>2. /\ Start.start = 1 /\ Start.quoted = FALSE /\ Start.mode = "arg"
  BY DEF Start
<1>3. ~Between(text, 1) /\ ~Named(text, 0) /\ ~Behind(text, 0)
  BY BetweenNext, NamedNext, BehindNext
<1>4. InArgument(text, 0, Start)
  BY <1>2 DEF InArgument
<1> QED BY <1>1, <1>2, <1>3, <1>4 DEF Mode

\* and every turn leads where the text says.
LEMMA TurnMode ==
  ASSUME NEW text \in Piece, NEW k \in 1..Len(text), NEW s, Mode(text, k - 1, s),
         NEW t, t = Turn(s, text[k], k)
  PROVE  Mode(text, k, t)
<1>. DEFINE c == text[k]
<1>1. /\ Len(text) \in Nat /\ k \in Nat /\ k > 0 /\ k - 1 \in 0..Len(text)
      /\ (k - 1) + 1 = k /\ k \in 0..Len(text) /\ k \in 1..(Len(text) + 1)
      /\ c \in Chars \ {"pipe"}
  BY DEF Piece
<1>2. s \in Scans /\ s.start \in 1..k /\ (s.quoted <=> Between(text, k))
  BY <1>1 DEF Mode
<1>3. /\ Between(text, k + 1) <=>
           (Between(text, k) # (c = "quote" /\ ~Named(text, k)))
      /\ Between(text, k) \in BOOLEAN /\ s.quoted \in BOOLEAN
  BY <1>1, <1>2, BetweenNext DEF Scans
<1>4. Named(text, k) <=> /\ c \notin Redirs \cup {"space"}
                         /\ Behind(text, k - 1) \/ Named(text, k - 1)
  BY NamedNext
<1>5. Behind(text, k) <=> Op(text, k) \/ (c = "space" /\ Behind(text, k - 1))
  BY BehindNext
<1>6. /\ Behind(text, k - 1) \/ Named(text, k - 1) => ~Between(text, k)
      /\ Behind(text, k) \/ Named(text, k) =>
           ~Between(text, k + 1) /\ ~Between(text, k)
  BY <1>1, NoQuotes
<1>7. Op(text, k) <=> c \in Redirs /\ ~Between(text, k)
  BY DEF Op
<1>8. /\ s.mode = "name" <=> Named(text, k - 1)
      /\ s.mode \in {"op", "gap"} <=> Behind(text, k - 1)
      /\ s.mode \in {"op", "gap"} =>
           \E j \in 1..(k - 1) : BehindOp(text, j, k - 1) /\ s.op = OpOf(text, j)
      /\ s.mode = "op" <=> k - 1 > 0 /\ Op(text, k - 1) /\ s.op # "append"
      /\ s.mode = "name" => InFile(text, k - 1, s)
      /\ s.mode = "arg" => InArgument(text, k - 1, s)
      /\ s.mode \in {"arg", "op", "gap", "name"}
  BY DEF Mode, Scans
<1>9. PICK e : e = Ends(s, k)
  OBVIOUS
<1>10. c # "pipe" /\ c \in Chars
  BY <1>1
<1>. HIDE DEF c
<1>11. t = Turn(s, c, k)
  BY DEF c
<1>12. t \in Scans
  BY <1>1, <1>2, <1>9, <1>10, <1>11, TurnIs
<1>13. Redirs = {"in", "out"} /\ (c \in {"letter", "space", "quote"} \/ c \in Redirs)
  BY <1>10 DEF Redirs, Chars
\* The operator two `>` before, if there is one.
<1>14. ASSUME Behind(text, k - 1), text[k - 1] = "out"
       PROVE  k - 1 > 0 /\ Op(text, k - 1) /\ s.op = OpOf(text, k - 1)
  <2>1. PICK j \in 1..(k - 1) : BehindOp(text, j, k - 1) /\ s.op = OpOf(text, j)
    BY <1>8, <1>14
  <2>2. j = k - 1
    <3>1. SUFFICES ASSUME j # k - 1 PROVE FALSE
      OBVIOUS
    <3>2. k - 1 \in (j + 1)..(k - 1)
      BY <1>1, <3>1
    <3>3. text[k - 1] = "space"
      BY <2>1, <3>2 DEF BehindOp
    <3> QED BY <1>14, <3>3
  <2>3. k - 1 > 0
    BY <1>1, <2>2
  <2>4. Op(text, j)
    BY <2>1 DEF BehindOp
  <2>5. k - 1 > 0 /\ Op(text, j) /\ s.op = OpOf(text, j)
    BY <2>1, <2>3, <2>4
  <2> QED BY <2>2, <2>5
<1>15. Op(text, k) => BehindOp(text, k, k) /\ ~Named(text, k) /\ c # "quote"
                      /\ ~Between(text, k + 1)
  <2>1. (k + 1)..k = {}
    BY <1>1
  <2> QED BY <1>4, <1>5, <1>6, <1>7, <1>13, <2>1 DEF BehindOp
<1>16. CASE Second(s, c)
  <2>1. /\ s.mode = "op" /\ s.op = "out" /\ c = "out"
        /\ t.mode = "gap" /\ t.op = "append" /\ t.start = s.start /\ t.quoted = s.quoted
    BY <1>1, <1>2, <1>9, <1>10, <1>11, <1>16, TurnIs DEF Second
  <2>2. Op(text, k) /\ ~s.quoted /\ Behind(text, k)
    BY <1>2, <1>5, <1>6, <1>7, <1>8, <1>13, <2>1
  <2>3. k - 1 > 0 /\ Op(text, k - 1)
    BY <1>8, <2>1
  <2>4. text[k - 1] = "out"
    <3>1. PICK j \in 1..(k - 1) : BehindOp(text, j, k - 1) /\ s.op = OpOf(text, j)
      BY <1>8, <2>1
    <3>2. text[k - 1] \in Redirs /\ text[k - 1] # "space"
      BY <2>3 DEF Op, Redirs
    <3>3. j = k - 1
      <4>1. SUFFICES ASSUME j # k - 1 PROVE FALSE
        OBVIOUS
      <4>2. k - 1 \in (j + 1)..(k - 1)
        BY <1>1, <4>1
      <4> QED BY <3>1, <3>2, <4>2 DEF BehindOp
    <3>4. s.op = OpOf(text, j)
      BY <3>1
    <3>5. OpOf(text, k - 1) = "out"
      BY <2>1, <3>3, <3>4
    <3> QED BY <3>2, <3>5 DEF OpOf, Redirs
  <2>5. OpOf(text, k - 1) = "out"
    BY <1>8, <1>14, <2>1, <2>4
  <2>6. ~Even(text, k - 1)
    BY <2>4, <2>5 DEF OpOf
  <2>7. k > 1 /\ text[k] = "out"
    BY <1>1, <2>1, <2>3 DEF c
  <2>8. Even(text, k)
    BY <1>1, <2>4, <2>6, <2>7, EvenNext
  <2>9. OpOf(text, k) = "append"
    BY <2>7, <2>8 DEF OpOf
  <2>10. k \in 1..k /\ k \in 1..(k + 1) /\ t.start \in 1..(k + 1)
    BY <1>1, <1>2, <2>1
  <2> QED BY <1>2, <1>12, <1>15, <2>1, <2>2, <2>9, <2>10 DEF Mode
<1>17. CASE Redirects(s, c)
  <2>1. /\ c \in Redirs /\ ~s.quoted /\ ~Second(s, c)
        /\ t.mode = "op" /\ t.op = c /\ t.start = s.start /\ t.quoted = s.quoted
    BY <1>1, <1>2, <1>9, <1>10, <1>11, <1>17, TurnIs DEF Redirects
  <2>2. Op(text, k) /\ Behind(text, k)
    BY <1>2, <1>5, <1>7, <2>1
  <2>3. OpOf(text, k) = c
    <3>1. CASE c = "in"
      BY <3>1 DEF OpOf, c
    <3>2. CASE c = "out"
      <4>1. SUFFICES ~Even(text, k)
        BY <3>2 DEF OpOf, c
      <4>2. CASE k = 1 \/ text[k - 1] # "out"
        BY <1>1, <4>2, EvenFirst
      <4>3. CASE k # 1 /\ text[k - 1] = "out"
        <5>1. k - 1 \in 1..Len(text) /\ k - 1 > 0 /\ k > 1 /\ (k - 1) - 1 = k - 2
              /\ k - 2 \in 0..Len(text) /\ k - 1 \in 1..(Len(text) + 1)
          BY <1>1, <4>3
        <5>2. Op(text, k - 1)
          <6>1. Between(text, k) <=>
                  (Between(text, k - 1)
                     # (text[k - 1] = "quote" /\ ~Named(text, k - 1)))
            BY <1>1, <5>1, BetweenNext
          <6>2. Between(text, k - 1) \in BOOLEAN
            BY <5>1, BetweenNext
          <6>3. ~Between(text, k - 1)
            BY <1>2, <1>3, <2>1, <4>3, <6>1, <6>2
          <6> QED BY <4>3, <6>3 DEF Op, Redirs
        <5>3. Behind(text, k - 1)
          BY <5>1, <5>2, BehindNext
        <5>4. s.op = OpOf(text, k - 1)
          BY <1>14, <4>3, <5>3
        <5>5. s.op = "append"
          <6>1. SUFFICES ASSUME s.op # "append" PROVE FALSE
            OBVIOUS
          <6>2. s.mode = "op"
            BY <1>8, <5>1, <5>2, <6>1
          <6>3. s.op = "out"
            BY <4>3, <5>4, <6>1 DEF OpOf
          <6> QED BY <2>1, <3>2, <6>2, <6>3 DEF Second
        <5>6. Even(text, k - 1)
          BY <4>3, <5>4, <5>5 DEF OpOf
        <5>7. text[k] = "out"
          BY <3>2 DEF c
        <5> QED BY <1>1, <4>3, <5>1, <5>6, <5>7, EvenNext
      <4> QED BY <4>2, <4>3
    <3> QED BY <1>13, <2>1, <3>1, <3>2
  <2>4. /\ k \in 1..k /\ t.start \in 1..(k + 1)
        /\ t.op # "append"
    BY <1>1, <1>2, <1>13, <2>1
  <2> QED BY <1>1, <1>2, <1>12, <1>15, <2>1, <2>2, <2>3, <2>4 DEF Mode
<1>18. CASE Blank(s, c)
  <2>1. /\ c = "space" /\ ~s.quoted
        /\ t.mode = IF s.mode \in {"op", "gap"} THEN "gap" ELSE "arg"
        /\ t.op = s.op /\ t.start = k + 1 /\ t.quoted = s.quoted
    <3>1. Blank(s, c) =>
            /\ t.mode = IF s.mode \in {"op", "gap"} THEN "gap" ELSE "arg"
            /\ t.op = s.op /\ t.start = k + 1 /\ t.quoted = s.quoted
      BY <1>1, <1>2, <1>9, <1>10, <1>11, TurnIs, ZenonT(30)
    <3>2. c = "space" /\ ~s.quoted
      BY <1>18 DEF Blank
    <3> QED BY <1>18, <3>1, <3>2
  <2>2. /\ ~Between(text, k) /\ ~Named(text, k) /\ ~Op(text, k)
        /\ Behind(text, k) <=> Behind(text, k - 1)
        /\ ~Between(text, k + 1)
    BY <1>2, <1>3, <1>4, <1>5, <1>7, <1>13, <2>1
  <2>3. t.start \in 1..(k + 1)
    BY <1>1, <2>1
  <2>4. CASE Behind(text, k - 1)
    <3>1. t.mode = "gap"
      BY <1>8, <2>1, <2>4
    <3>2. PICK j \in 1..(k - 1) : BehindOp(text, j, k - 1) /\ s.op = OpOf(text, j)
      BY <1>8, <2>4
    <3>3. BehindOp(text, j, k) /\ j \in 1..k
      <4>1. \A x \in (j + 1)..k : x = k \/ x \in (j + 1)..(k - 1)
        BY <1>1
      <4>2. j \in 1..k
        BY <1>1
      <4>3. text[k] = "space"
        BY <2>1 DEF c
      <4> QED BY <3>2, <4>1, <4>2, <4>3 DEF BehindOp
    <3>4. \E i \in 1..k : BehindOp(text, i, k) /\ t.op = OpOf(text, i)
      BY <2>1, <3>2, <3>3
    <3> QED BY <1>12, <2>1, <2>2, <2>3, <2>4, <3>1, <3>4 DEF Mode
  <2>5. CASE ~Behind(text, k - 1)
    <3>1. t.mode = "arg"
      BY <1>8, <2>1, <2>5
    <3>2. InArgument(text, k, t)
      <4>1. t.start..k = {} /\ t.start - 1 = k
        BY <1>1, <2>1
      <4>2. text[t.start - 1] = "space" /\ ~Between(text, t.start - 1)
        BY <2>1, <2>2, <4>1 DEF c
      <4> QED BY <4>1, <4>2 DEF InArgument
    <3> QED BY <1>12, <2>1, <2>2, <2>3, <2>5, <3>1, <3>2 DEF Mode
  <2> QED BY <2>4, <2>5
<1>19. CASE Begins(s, c)
  <2>1. /\ s.mode \in {"op", "gap"}
        /\ ~Second(s, c) /\ ~Redirects(s, c) /\ ~Blank(s, c)
        /\ t.mode = "name" /\ t.op = s.op /\ t.start = k /\ t.quoted = s.quoted
    BY <1>1, <1>2, <1>9, <1>10, <1>11, <1>19, TurnIs DEF Begins
  <2>2. Behind(text, k - 1) /\ ~Between(text, k) /\ ~s.quoted
    BY <1>2, <1>6, <1>8, <2>1
  <2>3. c \notin Redirs /\ c # "space"
    BY <2>1, <2>2 DEF Redirects, Blank
  <2>4. Named(text, k) /\ ~Between(text, k + 1) /\ ~Op(text, k) /\ ~Behind(text, k)
    BY <1>4, <1>5, <1>6, <1>7, <2>2, <2>3
  <2>5. InFile(text, k, t)
    <3>1. \A x \in t.start..k : x = k
      BY <1>1, <2>1
    <3>2. PICK j \in 1..(k - 1) : BehindOp(text, j, k - 1) /\ s.op = OpOf(text, j)
      BY <1>8, <2>1
    <3>3. t.start <= k
      BY <1>1, <2>1
    <3> QED BY <2>1, <2>4, <3>1, <3>2, <3>3 DEF InFile
  <2>6. t.start \in 1..(k + 1)
    BY <1>1, <2>1
  <2> QED BY <1>12, <2>1, <2>2, <2>4, <2>5, <2>6 DEF Mode
<1>20. CASE Turns(s, c)
  <2>1. /\ c = "quote" /\ s.mode = "arg"
        /\ t.mode = "arg" /\ t.op = s.op /\ t.start = k + 1 /\ t.quoted = ~s.quoted
    <3>1. Turns(s, c) => /\ t.mode = "arg" /\ t.op = s.op
                         /\ t.start = k + 1 /\ t.quoted = ~s.quoted
      BY <1>1, <1>2, <1>9, <1>10, <1>11, TurnIs, Zenon
    <3>2. c = "quote" /\ s.mode = "arg"
      BY <1>20 DEF Turns
    <3> QED BY <1>20, <3>1, <3>2
  <2>2. /\ ~Named(text, k) /\ ~Behind(text, k) /\ ~Op(text, k)
        /\ Between(text, k + 1) <=> ~Between(text, k)
    BY <1>3, <1>4, <1>5, <1>7, <1>8, <1>13, <2>1
  <2>3. InArgument(text, k, t)
    <3>1. t.start..k = {} /\ t.start - 1 = k
      BY <1>1, <2>1
    <3>2. text[t.start - 1] = "quote"
      BY <2>1, <3>1 DEF c
    <3> QED BY <3>1, <3>2 DEF InArgument
  <2>4. t.start \in 1..(k + 1)
    BY <1>1, <2>1
  <2>5. t.quoted <=> Between(text, k + 1)
    BY <1>2, <1>3, <2>1, <2>2
  <2> QED BY <1>12, <2>1, <2>2, <2>3, <2>4, <2>5 DEF Mode
<1>21. CASE Goes(s, c)
  <2>1. /\ ~Second(s, c) /\ ~Redirects(s, c) /\ ~Blank(s, c) /\ ~Begins(s, c)
        /\ ~Turns(s, c) /\ t = s
    BY <1>1, <1>2, <1>9, <1>10, <1>11, <1>21, TurnIs DEF Goes
  <2>2. s.mode \in {"name", "arg"}
    BY <1>8, <2>1 DEF Begins
  <2>3. /\ s.quoted \/ (c \notin Redirs /\ c # "space")
        /\ ~Op(text, k)
    BY <1>2, <1>7, <2>1, <2>2 DEF Redirects, Blank, Second
  <2>4. t.start \in 1..(k + 1)
    BY <1>1, <1>2, <2>1
  <2>5. CASE s.mode = "name"
    <3>1. Named(text, k - 1) /\ ~Between(text, k) /\ ~s.quoted
      BY <1>2, <1>6, <1>8, <2>5
    <3>2. Named(text, k) /\ ~Between(text, k + 1) /\ ~Behind(text, k)
      BY <1>4, <1>5, <1>6, <2>3, <3>1
    <3>3. InFile(text, k, t)
      <4>1. InFile(text, k - 1, s) /\ s.start \in Nat
        BY <1>2, <1>8, <2>5
      <4>2. \A x \in s.start..k : x = k \/ x \in s.start..(k - 1)
        BY <1>1, <4>1
      <4>3. s.start <= k
        BY <1>1, <1>2
      <4> QED BY <2>1, <3>2, <4>1, <4>2, <4>3 DEF InFile
    <3> QED BY <1>12, <2>1, <2>3, <2>4, <2>5, <3>1, <3>2, <3>3 DEF Mode
  <2>6. CASE s.mode = "arg"
    <3>1. ~Named(text, k - 1) /\ ~Behind(text, k - 1)
      BY <1>8, <2>6
    <3>2. ~Named(text, k) /\ ~Behind(text, k) /\ c # "quote"
      BY <1>4, <1>5, <2>1, <2>3, <2>6, <3>1 DEF Turns
    <3>3. Between(text, k + 1) <=> Between(text, k)
      BY <1>3, <3>2
    <3>4. s.quoted \/ c = "letter"
      BY <1>13, <2>3, <3>2
    <3>5. InArgument(text, k, t)
      <4>1. InArgument(text, k - 1, s) /\ s.start \in Nat
        BY <1>2, <1>8, <2>6
      <4>2. \A x \in s.start..k : x = k \/ x \in s.start..(k - 1)
        BY <1>1, <4>1
      <4>3. /\ text[k] # "quote" /\ ~Named(text, k) /\ (Between(text, k) <=> s.quoted)
            /\ s.quoted \/ text[k] = "letter"
        BY <1>2, <3>2, <3>4 DEF c
      <4> QED BY <2>1, <4>1, <4>2, <4>3 DEF InArgument
    <3> QED BY <1>2, <1>12, <2>1, <2>3, <2>4, <2>6, <3>2, <3>3, <3>5 DEF Mode
  <2> QED BY <2>2, <2>5, <2>6
<1> QED BY <1>16, <1>17, <1>18, <1>19, <1>20, <1>21 DEF Goes

-----------------------------------------------------------------------------
(* The words and the names as stretches.                                   *)

\* The places of words between quotes, and of those outside.
Plain(text) == {k \in DOMAIN text : text[k] # "quote" /\ Between(text, k)}
Loose(text) ==
  {k \in DOMAIN text : /\ text[k] = "letter" /\ ~Between(text, k)
                       /\ ~Named(text, k)}

\* The words lie behind one another.
LEMMA WordsAre ==
  ASSUME NEW text \in Piece, NEW W, W = WordPlaces(text)
  PROVE  /\ Apart(W, Len(text))
         /\ \A w \in W : /\ w \in Files /\ w[1] \in 1..Len(text)
                         /\ w[2] \in 1..Len(text) /\ w[1] <= w[2]
         /\ \A v, w \in W : v[1] < w[1] => v[2] < w[1]
         /\ \A v, w \in W : v[2] = w[2] => v = w
         /\ \A w \in W :
              \/ w[2] \in Plain(text) /\ w[2] + 1 \notin Plain(text)
              \/ /\ w[2] \in Loose(text) /\ w[2] + 1 \notin Loose(text)
                 /\ w[2] = Len(text) \/ text[w[2] + 1] # "quote"
         /\ Stretches(Plain(text)) \subseteq W
         /\ {w \in Stretches(Loose(text)) :
               w[2] = Len(text) \/ text[w[2] + 1] # "quote"} \subseteq W
<1>. DEFINE P == Plain(text)
            L == Loose(text)
            Closed(w) == w[2] = Len(text) \/ text[w[2] + 1] # "quote"
<1>1. /\ Len(text) \in Nat /\ DOMAIN text = 1..Len(text)
      /\ P \subseteq 1..Len(text) /\ L \subseteq 1..Len(text)
  BY DEF Piece, Plain, Loose
<1>2. W = Stretches(P) \cup {w \in Stretches(L) : Closed(w)}
  BY DEF WordPlaces, Plain, Loose, Between, Named
<1>3. \A k \in P : k \notin L
  BY DEF Plain, Loose
<1>4. ASSUME NEW S, S \in {P, L}, NEW w \in Stretches(S)
      PROVE  /\ w \in Files /\ w[1] \in 1..Len(text) /\ w[2] \in 1..Len(text)
             /\ w[1] <= w[2] /\ \A k \in w[1]..w[2] : k \in S
             /\ w[1] \in S /\ w[2] \in S /\ w[2] + 1 \notin S
  <2>1. /\ w \in (1..Len(text)) \X (1..Len(text)) /\ w[1] <= w[2]
        /\ \A k \in w[1]..w[2] : k \in S
        /\ w[2] + 1 \notin S
    BY <1>1, <1>4, StretchesApart
  <2>2. w[1] \in 1..Len(text) /\ w[2] \in 1..Len(text) /\ w \in Files
    BY <1>1, <2>1 DEF Files
  <2>3. w[1] \in w[1]..w[2] /\ w[2] \in w[1]..w[2]
    BY <1>1, <2>1, <2>2
  <2> QED BY <2>1, <2>2, <2>3
<1>5. ASSUME NEW w \in W
      PROVE  \E S \in {P, L} : w \in Stretches(S)
  BY <1>2
<1>. HIDE DEF P, L
<1>6. ASSUME NEW v \in W, NEW w \in W, v[1] < w[1]
      PROVE  v[2] < w[1]
  <2>1. PICK S \in {P, L} : v \in Stretches(S)
    BY <1>5
  <2>2. PICK R \in {P, L} : w \in Stretches(R)
    BY <1>5
  <2>3. CASE S = R
    BY <1>1, <1>6, <2>1, <2>2, <2>3, StretchesApart
  <2>4. CASE S # R
    <3>1. w[1] \in R /\ w[1] \in Nat
      BY <1>1, <1>4, <2>2
    <3>2. w[1] \notin S
      BY <1>3, <2>4, <3>1
    <3>3. \A k \in v[1]..v[2] : k \in S
      BY <1>4, <2>1
    <3>4. v[1] \in Nat /\ v[2] \in Nat
      BY <1>1, <1>4, <2>1
    <3>5. w[1] \notin v[1]..v[2]
      BY <3>2, <3>3
    <3> QED BY <1>6, <3>1, <3>4, <3>5
  <2> QED BY <2>3, <2>4
<1>7. ASSUME NEW v \in W, NEW w \in W, v[1] = w[1] \/ v[2] = w[2]
      PROVE  v = w
  <2>1. PICK S \in {P, L} : v \in Stretches(S)
    BY <1>5
  <2>2. PICK R \in {P, L} : w \in Stretches(R)
    BY <1>5
  <2>3. v[1] \in S /\ v[2] \in S /\ w[1] \in R /\ w[2] \in R
    BY <1>4, <2>1, <2>2
  <2>4. S = R
    BY <1>3, <1>7, <2>3
  <2>5. S \subseteq 1..Len(text)
    BY <1>1
  <2>6. Apart(Stretches(S), Len(text))
    BY <1>1, <2>5, StretchesApart
  <2>7. v[1] = w[1] => v = w
    BY <2>1, <2>2, <2>4, <2>6 DEF Apart
  <2>8. v[2] = w[2] => v = w
    BY <1>1, <2>1, <2>2, <2>4, <2>5, StretchesApart
  <2> QED BY <1>7, <2>7, <2>8
<1>8. \A w \in W : /\ w \in Files /\ w[1] \in 1..Len(text)
                   /\ w[2] \in 1..Len(text) /\ w[1] <= w[2]
  BY <1>4, <1>5
<1>9. Apart(W, Len(text))
  <2>1. W \subseteq (1..Len(text)) \X (1..Len(text))
    BY <1>8 DEF Files
  <2> QED BY <1>7, <2>1 DEF Apart
<1>10. ASSUME NEW w \in W
       PROVE  \/ w[2] \in P /\ w[2] + 1 \notin P
              \/ w[2] \in L /\ w[2] + 1 \notin L /\ Closed(w)
  BY <1>2, <1>4
<1> QED BY <1>2, <1>6, <1>7, <1>8, <1>9, <1>10 DEF P, L

\* So do the names.
LEMMA NamesAre ==
  ASSUME NEW text \in Piece, NEW W, W = Names(text)
  PROVE  /\ Apart(W, Len(text))
         /\ \A w \in W : /\ w \in Files /\ w[1] \in 1..Len(text)
                         /\ w[2] \in 1..Len(text) /\ w[1] <= w[2]
                         /\ Named(text, w[2])
                         /\ w[2] < Len(text) => ~Named(text, w[2] + 1)
         /\ \A v, w \in W : v[1] < w[1] => v[2] < w[1]
         /\ \A v, w \in W : v[2] = w[2] => v = w
         /\ None \notin W
         /\ W = Stretches({k \in DOMAIN text : Named(text, k)})
<1>. DEFINE S == {k \in DOMAIN text : Named(text, k)}
<1>1. Len(text) \in Nat /\ DOMAIN text = 1..Len(text) /\ S \subseteq 1..Len(text)
  BY DEF Piece
<1>2. W = Stretches(S)
  BY DEF Names, Named
<1>3. ASSUME NEW w \in W
      PROVE  /\ w \in Files /\ w[1] \in 1..Len(text)
             /\ w[2] \in 1..Len(text) /\ w[1] <= w[2]
             /\ w[2] \in S /\ w[2] + 1 \notin S
  <2>. HIDE DEF S
  <2>1. /\ w \in (1..Len(text)) \X (1..Len(text)) /\ w[1] <= w[2]
        /\ \A k \in w[1]..w[2] : k \in S
        /\ w[2] + 1 \notin S
    BY <1>1, <1>2, StretchesApart
  <2>2. w[1] \in 1..Len(text) /\ w[2] \in 1..Len(text) /\ w \in Files
    BY <1>1, <2>1 DEF Files
  <2>3. w[2] \in w[1]..w[2]
    BY <1>1, <2>1, <2>2
  <2> QED BY <2>1, <2>2, <2>3
<1>4. \A w \in W : /\ Named(text, w[2])
                   /\ w[2] < Len(text) => ~Named(text, w[2] + 1)
  <2> TAKE w \in W
  <2>1. w[2] < Len(text) => w[2] + 1 \in 1..Len(text)
    BY <1>1, <1>3
  <2> QED BY <1>1, <1>3, <2>1
<1>. HIDE DEF S
<1>5. /\ Apart(W, Len(text))
      /\ \A v, w \in W : v[1] < w[1] => v[2] < w[1]
      /\ \A v, w \in W : v[2] = w[2] => v = w
  BY <1>1, <1>2, StretchesApart
<1>6. None \notin W
  <2>1. None[1] = 1 /\ None[2] = 0
    BY DEF None
  <2> QED BY <1>3, <2>1
<1> QED BY <1>2, <1>3, <1>4, <1>5, <1>6 DEF S

-----------------------------------------------------------------------------
\* Words and names end where the loop puts them into the command.
Closes(text, k, s) == k = Len(text) + 1 \/ Ending(s, text[k])

\* No word reaches behind an operator or into a name,
LEMMA NoWordBehind ==
  ASSUME NEW text \in Piece, NEW k \in 0..Len(text),
         Behind(text, k) \/ Named(text, k)
  PROVE  k \notin Plain(text) /\ k \notin Loose(text)
<1>1. Len(text) \in Nat /\ DOMAIN text = 1..Len(text)
  BY DEF Piece
<1>2. CASE k = 0
  BY <1>1, <1>2 DEF Plain, Loose
<1>3. CASE k > 0
  <2>1. ~Between(text, k)
    BY <1>3, NoQuotes
  <2>2. Behind(text, k) => text[k] # "letter"
    <3>1. k \in 1..Len(text)
      BY <1>1, <1>3
    <3> QED BY <3>1, BehindNext DEF Op, Redirs
  <2> QED BY <2>1, <2>2 DEF Plain, Loose
<1> QED BY <1>1, <1>2, <1>3

\* nor up to where an argument begins.
LEMMA NoWordBefore ==
  ASSUME NEW text \in Piece, NEW k \in 0..Len(text), NEW s, InArgument(text, k, s),
         s.start = k + 1
  PROVE  k \notin Plain(text) /\ k \notin Loose(text)
<1>1. Len(text) \in Nat /\ DOMAIN text = 1..Len(text) /\ s.start - 1 = k
  BY DEF Piece
<1>2. k = 0 \/ text[k] = "quote" \/ (text[k] = "space" /\ ~Between(text, k))
  BY <1>1 DEF InArgument
<1> QED BY <1>1, <1>2 DEF Plain, Loose

\* What the loop takes as an argument is a word, and the only one to end there.
LEMMA WordEnds ==
  ASSUME NEW text \in Piece, NEW k \in 1..(Len(text) + 1), NEW s,
         Mode(text, k - 1, s), Closes(text, k, s)
  PROVE  /\ s.mode = "arg" /\ k > s.start => <<s.start, k - 1>> \in WordPlaces(text)
         /\ ~(s.mode = "arg" /\ k > s.start) =>
              \A w \in WordPlaces(text) : w[2] # k - 1
<1>. DEFINE n == Len(text)
<1>1. /\ n \in Nat /\ DOMAIN text = 1..n /\ k - 1 \in 0..n /\ k \in Nat
      /\ (k - 1) + 1 = k
      /\ Plain(text) \subseteq 1..n /\ Loose(text) \subseteq 1..n
  BY DEF Piece, Plain, Loose
<1>2. /\ s \in Scans /\ s.start \in 1..k /\ s.quoted \in BOOLEAN
      /\ s.mode \in {"arg", "op", "gap", "name"}
  BY <1>1 DEF Mode, Scans
<1>3. ASSUME s.mode = "arg", k > s.start
      PROVE  <<s.start, k - 1>> \in WordPlaces(text)
  <2>1. InArgument(text, k - 1, s)
    BY <1>3 DEF Mode
  <2>2. /\ s.start \in Nat /\ k - 1 \in Nat /\ s.start <= k - 1
        /\ s.start - 1 \in 0..n /\ \A x \in s.start..(k - 1) : x \in 1..n
    BY <1>1, <1>2, <1>3
  <2>3. /\ s.start - 1 \notin Plain(text) /\ s.start - 1 \notin Loose(text)
    <3>1. \/ s.start - 1 = 0
          \/ text[s.start - 1] = "quote"
          \/ (text[s.start - 1] = "space" /\ ~Between(text, s.start - 1))
      BY <2>1, <2>2 DEF InArgument
    <3> QED BY <1>1, <3>1 DEF Plain, Loose
  <2>4. CASE s.quoted
    <3>1. \A x \in s.start..(k - 1) : x \in Plain(text)
      BY <1>1, <2>1, <2>2, <2>4 DEF InArgument, Plain
    <3>2. k \notin Plain(text)
      <4>1. CASE k = n + 1
        BY <1>1, <4>1
      <4>2. CASE Ending(s, text[k])
        <5>1. text[k] = "quote"
          BY <2>4, <4>2 DEF Ending, Redirects, Blank, Turns
        <5> QED BY <5>1 DEF Plain
      <4> QED BY <4>1, <4>2 DEF Closes
    <3>3. <<s.start, k - 1>> \in Stretches(Plain(text))
      BY <1>1, <2>2, <2>3, <3>1, <3>2, StretchOf
    <3> QED BY <3>3, WordsAre
  <2>5. CASE ~s.quoted
    <3>1. \A x \in s.start..(k - 1) : x \in Loose(text)
      BY <1>1, <2>1, <2>2, <2>5 DEF InArgument, Loose
    <3>2. k \notin Loose(text) /\ (k = n + 1 \/ text[k] # "quote")
      <4>1. CASE k = n + 1
        BY <1>1, <4>1
      <4>2. CASE Ending(s, text[k])
        <5>1. text[k] \notin {"letter", "quote"}
          BY <2>5, <4>2 DEF Ending, Redirects, Blank, Turns, Redirs
        <5> QED BY <5>1 DEF Loose
      <4> QED BY <4>1, <4>2 DEF Closes
    <3>3. <<s.start, k - 1>> \in Stretches(Loose(text))
      BY <1>1, <2>2, <2>3, <3>1, <3>2, StretchOf
    <3>4. PICK w : w = <<s.start, k - 1>>
      OBVIOUS
    <3>5. w[2] = n \/ text[w[2] + 1] # "quote"
      BY <1>1, <3>2, <3>4
    <3>6. w \in WordPlaces(text)
      BY <3>3, <3>4, <3>5, WordsAre
    <3> QED BY <3>4, <3>6
  <2> QED BY <1>2, <2>4, <2>5
<1>4. ASSUME ~(s.mode = "arg" /\ k > s.start), NEW w \in WordPlaces(text)
      PROVE  w[2] # k - 1
  <2>1. k - 1 \notin Plain(text) /\ k - 1 \notin Loose(text)
    <3>1. CASE s.mode = "arg"
      <4>1. s.start = (k - 1) + 1 /\ InArgument(text, k - 1, s)
        BY <1>1, <1>2, <1>4, <3>1 DEF Mode
      <4> QED BY <1>1, <4>1, NoWordBefore
    <3>2. CASE s.mode # "arg"
      <4>1. Behind(text, k - 1) \/ Named(text, k - 1)
        BY <1>2, <3>2 DEF Mode
      <4> QED BY <1>1, <4>1, NoWordBehind
    <3> QED BY <3>1, <3>2
  <2> QED BY <2>1, WordsAre
<1> QED BY <1>3, <1>4

\* Where the loop takes nothing, no word ends.
LEMMA NoWordEnds ==
  ASSUME NEW text \in Piece, NEW k \in 1..(Len(text) + 1), NEW s,
         Mode(text, k - 1, s), ~Closes(text, k, s), NEW w \in WordPlaces(text)
  PROVE  w[2] # k - 1
<1>. DEFINE n == Len(text)
            c == text[k]
<1>1. /\ n \in Nat /\ DOMAIN text = 1..n /\ k - 1 \in 0..n /\ k \in 1..n
      /\ (k - 1) + 1 = k /\ c \in Chars \ {"pipe"}
  BY DEF Piece, Closes
<1>2. /\ s \in Scans /\ s.start \in 1..k /\ s.quoted \in BOOLEAN
      /\ s.mode \in {"arg", "op", "gap", "name"} /\ (s.quoted <=> Between(text, k))
  BY <1>1 DEF Mode, Scans
<1>3. ~Ending(s, c)
  BY DEF Closes
<1>4. CASE s.mode # "arg"
  <2>1. Behind(text, k - 1) \/ Named(text, k - 1)
    BY <1>2, <1>4 DEF Mode
  <2> QED BY <1>1, <2>1, NoWordBehind, WordsAre
<1>5. CASE s.mode = "arg" /\ s.start = k
  <2>1. s.start = (k - 1) + 1 /\ InArgument(text, k - 1, s)
    BY <1>1, <1>5 DEF Mode
  <2> QED BY <1>1, <2>1, NoWordBefore, WordsAre
<1>6. CASE s.mode = "arg" /\ s.start < k
  <2>1. InArgument(text, k - 1, s) /\ k - 1 \in s.start..(k - 1) /\ k - 1 \in 1..n
    BY <1>1, <1>2, <1>6 DEF Mode
  <2>2. /\ text[k - 1] # "quote" /\ ~Named(text, k - 1)
        /\ Between(text, k - 1) <=> s.quoted
        /\ s.quoted \/ text[k - 1] = "letter"
    BY <2>1 DEF InArgument
  <2>3. CASE s.quoted
    <3>1. c # "quote"
      BY <1>3, <1>6, <2>3 DEF Ending, Turns
    <3>2. k \in Plain(text) /\ k - 1 \notin Loose(text)
      BY <1>1, <1>2, <2>2, <2>3, <3>1 DEF Plain, Loose
    <3> QED BY <1>1, <3>2, WordsAre
  <2>4. CASE ~s.quoted
    <3>1. k - 1 \notin Plain(text)
      BY <2>2, <2>4 DEF Plain
    <3>2. c \in {"letter", "quote"}
      BY <1>1, <1>3, <1>6, <2>4
      DEF Ending, Redirects, Blank, Second, Chars, Redirs
    <3>3. ~Named(text, k)
      <4>1. ~Behind(text, k - 1) /\ ~Named(text, k - 1)
        BY <1>6 DEF Mode
      <4> QED BY <1>1, <4>1, NamedNext
    <3>4. k \in Loose(text) \/ text[k] = "quote"
      BY <1>1, <1>2, <2>4, <3>2, <3>3 DEF Loose
    <3>5. k - 1 # n
      BY <1>1
    <3> QED BY <1>1, <3>1, <3>4, <3>5, WordsAre
  <2> QED BY <1>2, <2>3, <2>4
<1> QED BY <1>1, <1>2, <1>4, <1>5, <1>6

-----------------------------------------------------------------------------
(* The word or the name that ends before k.                                *)

\* The operator of a name.
LEMMA OperatorIs ==
  ASSUME NEW text \in Piece, NEW w, NEW j \in 1..(w[1] - 1), w[1] \in Nat,
         BehindOp(text, j, w[1] - 1)
  PROVE  /\ Operator(text, w) = j
         /\ text[j] \in Redirs
         /\ Appends(text, w) <=> Even(text, j)
<1>1. text[j] \in Redirs /\ \A x \in (j + 1)..(w[1] - 1) : text[x] = "space"
  BY DEF BehindOp, Op
<1>2. ASSUME NEW i \in 1..(w[1] - 1), text[i] \in Redirs,
             \A x \in (i + 1)..(w[1] - 1) : text[x] = "space"
      PROVE  i = j
  <2>1. ~(i < j)
    <3>1. SUFFICES ASSUME i < j PROVE FALSE
      OBVIOUS
    <3>2. j \in (i + 1)..(w[1] - 1)
      BY <3>1
    <3> QED BY <1>1, <1>2, <3>2 DEF Redirs
  <2>2. ~(j < i)
    <3>1. SUFFICES ASSUME j < i PROVE FALSE
      OBVIOUS
    <3>2. i \in (j + 1)..(w[1] - 1)
      BY <3>1
    <3> QED BY <1>1, <1>2, <3>2 DEF Redirs
  <2> QED BY <2>1, <2>2
<1>3. Operator(text, w) = j
  BY <1>1, <1>2 DEF Operator
<1> QED BY <1>1, <1>3 DEF Appends, Even

\* What the loop takes as a name is one.
LEMMA NameEnds ==
  ASSUME NEW text \in Piece, NEW k \in 1..(Len(text) + 1), NEW s,
         Mode(text, k - 1, s), Closes(text, k, s), s.mode = "name",
         NEW w, w = <<s.start, k - 1>>
  PROVE  /\ w \in Names(text)
         /\ s.op = "in" => text[Operator(text, w)] = "in"
         /\ s.op # "in" => text[Operator(text, w)] = "out"
         /\ s.op # "in" => (s.op = "append" <=> Appends(text, w))
<1>. DEFINE n == Len(text)
            S == {x \in DOMAIN text : Named(text, x)}
<1>1. /\ n \in Nat /\ DOMAIN text = 1..n /\ k - 1 \in 0..n /\ k \in Nat
      /\ (k - 1) + 1 = k /\ S \subseteq 1..n
  BY DEF Piece
<1>2. /\ s \in Scans /\ s.start \in 1..k /\ InFile(text, k - 1, s)
      /\ Named(text, k - 1) /\ (s.quoted <=> Between(text, k))
  BY <1>1 DEF Mode
<1>3. PICK j \in 1..(s.start - 1) :
        BehindOp(text, j, s.start - 1) /\ s.op = OpOf(text, j)
  BY <1>2 DEF InFile
<1>4. s.start <= k - 1 /\ s.start \in Nat /\ s.start > 1 /\ k - 1 \in Nat
  BY <1>1, <1>2, <1>3 DEF InFile
<1>5. w[1] = s.start /\ w[2] = k - 1
  OBVIOUS
<1>6. w \in Names(text)
  <2>1. \A x \in s.start..(k - 1) : x \in S
    BY <1>1, <1>2, <1>4 DEF InFile
  <2>2. s.start - 1 \notin S
    <3>1. Behind(text, s.start - 1)
      <4>1. j \in 1..(s.start - 1)
        OBVIOUS
      <4> QED BY <1>3, <4>1 DEF Behind
    <3>2. s.start - 1 \in 0..n
      BY <1>1, <1>4
    <3> QED BY <3>1, <3>2, NoQuotes
  <2>3. k \notin S
    <3>1. CASE k = n + 1
      BY <1>1, <3>1
    <3>2. CASE Ending(s, text[k])
      <4>1. text[k] \in Redirs \cup {"space"}
        BY <3>2 DEF Ending, Redirects, Blank, Turns
      <4>2. k \in 1..n => ~Named(text, k)
        BY <4>1, NamedNext
      <4> QED BY <1>1, <4>2
    <3> QED BY <3>1, <3>2 DEF Closes
  <2>4. <<s.start, k - 1>> \in Stretches(S)
    <3>. HIDE DEF S
    <3> QED BY <1>1, <1>4, <2>1, <2>2, <2>3, StretchOf
  <2> QED BY <2>4, NamesAre
<1>7. /\ Operator(text, w) = j /\ text[j] \in Redirs
      /\ Appends(text, w) <=> Even(text, j)
  <2>1. j \in 1..(w[1] - 1) /\ w[1] \in Nat /\ BehindOp(text, j, w[1] - 1)
    BY <1>3, <1>4, <1>5
  <2> QED BY <2>1, OperatorIs
<1>8. /\ s.op = "in" => text[j] = "in"
      /\ s.op # "in" => text[j] = "out"
      /\ s.op # "in" => (s.op = "append" <=> Even(text, j))
  BY <1>3, <1>7 DEF OpOf, Redirs
<1> QED BY <1>6, <1>7, <1>8

\* Where the loop takes no name, none ends.
LEMMA NoNameEnds ==
  ASSUME NEW text \in Piece, NEW k \in 1..(Len(text) + 1), NEW s,
         Mode(text, k - 1, s), ~(Closes(text, k, s) /\ s.mode = "name"),
         NEW w \in Names(text)
  PROVE  w[2] # k - 1
<1>. DEFINE n == Len(text)
            c == text[k]
<1>1. /\ n \in Nat /\ k - 1 \in 0..n /\ k \in Nat /\ (k - 1) + 1 = k
  BY DEF Piece
<1>2. SUFFICES ASSUME Named(text, k - 1), k - 1 < n => ~Named(text, k)
               PROVE  FALSE
  <2>1. Named(text, w[2]) /\ (w[2] < n => ~Named(text, w[2] + 1))
    BY NamesAre, Zenon
  <2> QED BY <1>1, <2>1
<1>3. s.mode = "name" /\ s \in Scans /\ (s.quoted <=> Between(text, k))
  <2>1. /\ s \in Scans
        /\ s.mode = "name" <=> Named(text, k - 1)
        /\ s.quoted <=> Between(text, (k - 1) + 1)
    BY DEF Mode
  <2> QED BY <1>1, <1>2, <2>1
<1>4. ~Closes(text, k, s)
  BY <1>3
<1>5. k \in 1..n /\ k - 1 < n /\ ~Ending(s, c)
  BY <1>1, <1>4 DEF Closes
<1>6. ~Between(text, k)
  BY <1>1, <1>2, NoQuotes
<1>7. c \notin Redirs \cup {"space"}
  BY <1>3, <1>5, <1>6 DEF Ending, Redirects, Blank, Second
<1> QED BY <1>2, <1>5, <1>7, NamedNext

-----------------------------------------------------------------------------
\* What ended before k.
Before(W, k) == {w \in W : w[2] < k}

\* One behind the other.
InARow(W, n) ==
  /\ Apart(W, n)
  /\ \A v, w \in W : v[1] < w[1] => v[2] < w[1]
  /\ \A w \in W : w[1] <= w[2]

\* At most one of a row ends before each place.
LEMMA BeforeNext ==
  ASSUME NEW n \in Nat, NEW W, InARow(W, n),
         NEW k \in Nat, k > 0
  PROVE  /\ \A w \in W : w[2] = k - 1 =>
              /\ Before(W, k) = Before(W, k - 1) \cup {w}
              /\ w \notin Before(W, k - 1)
              /\ Cardinality(Before(W, k)) = Cardinality(Before(W, k - 1)) + 1
         /\ (\A w \in W : w[2] # k - 1) => Before(W, k) = Before(W, k - 1)
         /\ Before(W, 0) = {}
         /\ Before(W, n + 1) = W
         /\ IsFiniteSet(Before(W, k - 1)) /\ Cardinality(Before(W, k - 1)) \in Nat
<1>0. /\ Apart(W, n)
      /\ \A v, w \in W : v[1] < w[1] => v[2] < w[1]
      /\ \A w \in W : w[1] <= w[2]
  BY DEF InARow
<1>1. \A w \in W : w[1] \in 1..n /\ w[2] \in 1..n
  BY <1>0 DEF Apart
<1>2. IsFiniteSet(Before(W, k - 1)) /\ Cardinality(Before(W, k - 1)) \in Nat
  <2>1. IsFiniteSet(W)
    BY <1>0, BelowStep
  <2>2. Before(W, k - 1) \subseteq W
    BY DEF Before
  <2>3. IsFiniteSet(Before(W, k - 1))
    BY <2>1, <2>2, FS_Subset
  <2> QED BY <2>3, FS_CardinalityType
<1>3. ASSUME NEW w \in W, w[2] = k - 1
      PROVE  /\ Before(W, k) = Before(W, k - 1) \cup {w}
             /\ w \notin Before(W, k - 1)
             /\ Cardinality(Before(W, k)) = Cardinality(Before(W, k - 1)) + 1
  <2>1. \A v \in W : v[2] = k - 1 => v = w
    <3> SUFFICES ASSUME NEW v \in W, v[2] = k - 1 PROVE v = w
      OBVIOUS
    <3>1. ~(v[1] < w[1])
      BY <1>0, <1>1, <1>3
    <3>2. ~(w[1] < v[1])
      BY <1>0, <1>1, <1>3
    <3> QED BY <1>0, <1>1, <3>1, <3>2 DEF Apart
  <2>2. /\ Before(W, k) = Before(W, k - 1) \cup {w}
        /\ w \notin Before(W, k - 1)
    BY <1>1, <1>3, <2>1 DEF Before
  <2>4. Cardinality(Before(W, k)) = Cardinality(Before(W, k - 1)) + 1
    BY <1>2, <2>2, FS_AddElement
  <2> QED BY <2>2, <2>4
<1>4. ASSUME \A w \in W : w[2] # k - 1
      PROVE  Before(W, k) = Before(W, k - 1)
  BY <1>1, <1>4 DEF Before
<1>5. Before(W, 0) = {} /\ Before(W, n + 1) = W
  BY <1>1 DEF Before
<1> QED BY <1>2, <1>3, <1>4, <1>5

\* The rank of what ends is the number of those that have.
LEMMA RankBefore ==
  ASSUME NEW n \in Nat, NEW W, InARow(W, n), NEW k \in Nat, k > 0,
         NEW w \in W, w[2] = k - 1
  PROVE  Rank(W, w) = Cardinality(Before(W, k))
<1>0. /\ Apart(W, n)
      /\ \A u, v \in W : u[1] < v[1] => u[2] < v[1]
      /\ \A v \in W : v[1] <= v[2]
  BY DEF InARow
<1>1. \A v \in W : v[1] \in 1..n /\ v[2] \in 1..n
  BY <1>0 DEF Apart
<1>2. ASSUME NEW v \in W PROVE v[1] <= w[1] <=> v[2] < k
  <2>1. v[1] \in Nat /\ v[2] \in Nat /\ w[1] \in Nat /\ w[2] \in Nat
    BY <1>1
  <2>2. v[1] < w[1] => v[2] < k
    BY <1>0, <2>1
  <2>3. v[1] = w[1] => v = w
    BY <1>0 DEF Apart
  <2>4. w[1] < v[1] => ~(v[2] < k)
    BY <1>0, <2>1
  <2> QED BY <2>1, <2>2, <2>3, <2>4
<1>3. Below(W, w[1]) = Before(W, k)
  BY <1>2 DEF Below, Before
<1> QED BY <1>3 DEF Rank

\* The first words, as many as fit.
FirstWords(args, W, k) ==
  /\ Len(args) = IF Cardinality(Before(W, k)) < ArgvMax
                 THEN Cardinality(Before(W, k)) ELSE ArgvMax - 1
  /\ \A n \in 1..Len(args) : args[n] = InOrder(W)[n]

\* A word that ends is the next, as long as there is room.
LEMMA WordTaken ==
  ASSUME NEW n \in Nat, NEW W, InARow(W, n),
         NEW k \in Nat, k > 0, NEW w \in W, w[2] = k - 1, w \in Files,
         NEW args \in Seq(Files), FirstWords(args, W, k - 1)
  PROVE  FirstWords(IF Len(args) < ArgvMax - 1 THEN Append(args, w) ELSE args,
                    W, k)
<1>. DEFINE m == Cardinality(Before(W, k - 1))
<1>1. /\ Rank(W, w) = m + 1 /\ Cardinality(Before(W, k)) = m + 1 /\ m \in Nat
  <2>1. m \in Nat
    BY BeforeNext
  <2>2. Cardinality(Before(W, k)) = m + 1
    BY BeforeNext
  <2>3. Rank(W, w) = Cardinality(Before(W, k))
    BY RankBefore
  <2> QED BY <2>1, <2>2, <2>3
<1>2. InOrder(W)[m + 1] = w
  BY <1>1, Ordered DEF InARow
<1>3. ArgvMax \in Nat /\ ArgvMax > 0
  BY LimitsAssumption
<1>. HIDE DEF m
<1>4. /\ Len(args) = IF m < ArgvMax THEN m ELSE ArgvMax - 1
      /\ \A i \in 1..Len(args) : args[i] = InOrder(W)[i]
      /\ Len(args) \in Nat
  BY DEF FirstWords, m
<1>5. CASE Len(args) < ArgvMax - 1
  <2>1. Len(args) = m /\ m + 1 < ArgvMax
    BY <1>1, <1>3, <1>4, <1>5
  <2>2. PICK a : a = Append(args, w)
    OBVIOUS
  <2>3. Len(a) = m + 1 /\ a[m + 1] = w /\ \A i \in 1..m : a[i] = args[i]
    BY <1>1, <2>1, <2>2
  <2>4. \A i \in 1..Len(a) : a[i] = InOrder(W)[i]
    <3>1. \A i \in 1..(m + 1) : i = m + 1 \/ i \in 1..m
      BY <1>1
    <3> QED BY <1>2, <1>4, <2>1, <2>3, <3>1
  <2>5. FirstWords(a, W, k)
    BY <1>1, <2>1, <2>3, <2>4 DEF FirstWords
  <2> QED BY <1>5, <2>2, <2>5
<1>6. CASE ~(Len(args) < ArgvMax - 1)
  <2>1. Len(args) = ArgvMax - 1 /\ ~(m + 1 < ArgvMax)
    BY <1>1, <1>3, <1>4, <1>6
  <2>2. FirstWords(args, W, k)
    BY <1>1, <1>4, <2>1 DEF FirstWords
  <2> QED BY <1>6, <2>2
<1> QED BY <1>5, <1>6

\* The last of a set of names, if there is one.
Latest(w, W) == IF W = {} THEN w = None ELSE w \in W /\ \A v \in W : v[1] <= w[1]
NamesOf(text, c) == {w \in Names(text) : text[Operator(text, w)] = c}

\* The names of the command that were replaced.
LEMMA OneMoreLost ==
  ASSUME NEW B, IsFiniteSet(B), None \notin B, NEW w, w \notin B, w # None,
         NEW a, a \in B \cup {None}, NEW b, b \in B \cup {None},
         a # b \/ a = None
  PROVE  Cardinality((B \cup {w}) \ {w, b}) =
           Cardinality(B \ {a, b}) + (IF a = None THEN 0 ELSE 1)
<1>1. IsFiniteSet(B \ {a, b}) /\ Cardinality(B \ {a, b}) \in Nat
  <2>1. B \ {a, b} \subseteq B
    OBVIOUS
  <2>2. IsFiniteSet(B \ {a, b})
    BY <2>1, FS_Subset
  <2> QED BY <2>2, FS_CardinalityType
<1>2. CASE a = None
  <2>1. (B \cup {w}) \ {w, b} = B \ {a, b}
    <3>1. \A x : x \in (B \cup {w}) \ {w, b} <=> x \in B \ {a, b}
      BY <1>2
    <3> QED BY <3>1
  <2>2. Cardinality((B \cup {w}) \ {w, b}) = Cardinality(B \ {a, b})
    BY <2>1, Zenon
  <2> QED BY <1>1, <1>2, <2>2
<1>3. CASE a # None
  <2>1. (B \cup {w}) \ {w, b} = (B \ {a, b}) \cup {a} /\ a \notin B \ {a, b}
    BY <1>3
  <2>2. Cardinality((B \ {a, b}) \cup {a}) = Cardinality(B \ {a, b}) + 1
    BY <1>1, <2>1, FS_AddElement
  <2> QED BY <1>3, <2>1, <2>2
<1> QED BY <1>2, <1>3

\* The command so far: the words and the names that ended before k.
SoFar(text, k, s) ==
  /\ FirstWords(s.args, WordPlaces(text), k)
  /\ Latest(s.in, Before(NamesOf(text, "in"), k))
  /\ Latest(s.out, Before(NamesOf(text, "out"), k))
  /\ s.append <=> s.out # None /\ Appends(text, s.out)
  /\ s.lost = Cardinality(Before(Names(text), k) \ {s.in, s.out})

-----------------------------------------------------------------------------
(* What the loop has in the command after k characters.                    *)

\* Nothing changes where nothing ends.
LEMMA NothingEnds ==
  ASSUME NEW text \in Piece, NEW k \in 1..(Len(text) + 1), NEW s
  PROVE  /\ ((\A w \in WordPlaces(text) : w[2] # k - 1)
              /\ FirstWords(s.args, WordPlaces(text), k - 1)) =>
              FirstWords(s.args, WordPlaces(text), k)
         /\ (\A w \in Names(text) : w[2] # k - 1) =>
              /\ Before(Names(text), k) = Before(Names(text), k - 1)
              /\ \A c \in Redirs :
                   Before(NamesOf(text, c), k) = Before(NamesOf(text, c), k - 1)
<1>1. Len(text) \in Nat /\ k \in Nat
  BY DEF Piece
<1>2. ASSUME NEW W, \A w \in W : w[2] \in 1..Len(text), \A w \in W : w[2] # k - 1
      PROVE  Before(W, k) = Before(W, k - 1)
  BY <1>1, <1>2 DEF Before
<1>3. \A w \in WordPlaces(text) : w[2] \in 1..Len(text)
  BY WordsAre
<1>4. \A w \in Names(text) : w[2] \in 1..Len(text)
  BY NamesAre
<1>5. \A c \in Redirs : NamesOf(text, c) \subseteq Names(text)
  BY DEF NamesOf
<1>6. (\A w \in WordPlaces(text) : w[2] # k - 1) =>
        Before(WordPlaces(text), k) = Before(WordPlaces(text), k - 1)
  BY <1>2, <1>3
<1>7. (\A w \in Names(text) : w[2] # k - 1) =>
        Before(Names(text), k) = Before(Names(text), k - 1)
  BY <1>2, <1>4
<1>8. ASSUME \A w \in Names(text) : w[2] # k - 1, NEW c \in Redirs
      PROVE  Before(NamesOf(text, c), k) = Before(NamesOf(text, c), k - 1)
  <2>1. \A w \in NamesOf(text, c) : w[2] \in 1..Len(text) /\ w[2] # k - 1
    BY <1>4, <1>5, <1>8
  <2> QED BY <1>2, <2>1
<1> QED BY <1>6, <1>7, <1>8 DEF FirstWords

\* The arguments after the loop has taken one.
LEMMA WordSoFar ==
  ASSUME NEW text \in Piece, NEW k \in 1..(Len(text) + 1), NEW s,
         Mode(text, k - 1, s), FirstWords(s.args, WordPlaces(text), k - 1),
         Closes(text, k, s), NEW e, e = Ends(s, k)
  PROVE  FirstWords(e.args, WordPlaces(text), k)
<1>1. Len(text) \in Nat /\ k \in Nat /\ k > 0 /\ s \in Scans
  BY DEF Piece, Mode
<1>2. PICK w : w = <<s.start, k - 1>>
  OBVIOUS
<1>3. /\ w \in Files
      /\ Taken(s, k) => e.args = Append(s.args, w)
      /\ ~Taken(s, k) => e.args = s.args
  BY <1>1, <1>2, EndsIs
<1>4. CASE s.mode = "arg" /\ k > s.start
  <2>1. w \in WordPlaces(text)
    BY <1>2, <1>4, WordEnds
  <2>2. e.args = IF Len(s.args) < ArgvMax - 1 THEN Append(s.args, w) ELSE s.args
    BY <1>3, <1>4 DEF Taken
  <2>3. s.args \in Seq(Files) /\ w[2] = k - 1
    BY <1>1, <1>2 DEF Scans
  <2>4. InARow(WordPlaces(text), Len(text))
    BY WordsAre DEF InARow
  <2> QED BY <1>1, <1>3, <2>1, <2>2, <2>3, <2>4, WordTaken
<1>5. CASE ~(s.mode = "arg" /\ k > s.start)
  <2>1. e.args = s.args
    BY <1>3, <1>5 DEF Taken
  <2>2. \A v \in WordPlaces(text) : v[2] # k - 1
    BY <1>5, WordEnds
  <2> QED BY <2>1, <2>2, NothingEnds
<1> QED BY <1>4, <1>5

\* A name that ends is the latest of its kind.
LEMMA NameLatest ==
  ASSUME NEW text \in Piece, NEW k \in 1..(Len(text) + 1), NEW w \in Names(text),
         w[2] = k - 1, NEW c \in Redirs, text[Operator(text, w)] = c,
         NEW d \in Redirs, c # d
  PROVE  /\ Latest(w, Before(NamesOf(text, c), k))
         /\ Before(NamesOf(text, d), k) = Before(NamesOf(text, d), k - 1)
         /\ Before(Names(text), k) = Before(Names(text), k - 1) \cup {w}
         /\ w \notin Before(Names(text), k - 1)
         /\ IsFiniteSet(Before(Names(text), k - 1))
<1>1. Len(text) \in Nat /\ k \in Nat /\ k > 0
  BY DEF Piece
<1>2. InARow(Names(text), Len(text))
  BY NamesAre DEF InARow
<1>3. /\ Before(Names(text), k) = Before(Names(text), k - 1) \cup {w}
      /\ w \notin Before(Names(text), k - 1)
      /\ IsFiniteSet(Before(Names(text), k - 1))
  BY <1>1, <1>2, BeforeNext
<1>4. \A v \in Names(text) : /\ v[1] \in 1..Len(text) /\ v[2] \in 1..Len(text)
                             /\ v[1] <= v[2]
  BY NamesAre
<1>5. \A v \in Before(Names(text), k) : v[1] <= w[1]
  <2> SUFFICES ASSUME NEW v \in Before(Names(text), k), ~(v[1] <= w[1]) PROVE FALSE
    OBVIOUS
  <2>1. v \in Names(text) /\ v[2] < k
    BY DEF Before
  <2>2. w[1] < v[1]
    BY <1>4, <2>1
  <2>3. w[2] < v[1]
    BY <2>1, <2>2, NamesAre
  <2> QED BY <1>1, <1>4, <2>1, <2>3
<1>6. w \in Before(NamesOf(text, c), k)
  BY <1>1 DEF Before, NamesOf
<1>7. \A v \in Before(NamesOf(text, c), k) : v \in Before(Names(text), k)
  BY DEF Before, NamesOf
<1>8. Latest(w, Before(NamesOf(text, c), k))
  BY <1>5, <1>6, <1>7 DEF Latest
<1>9. Before(NamesOf(text, d), k) = Before(NamesOf(text, d), k - 1)
  <2>1. \A v : v \in Before(NamesOf(text, d), k) <=> v \in Before(NamesOf(text, d), k - 1)
    <3> TAKE v
    <3>1. w \notin NamesOf(text, d)
      BY DEF NamesOf
    <3>2. /\ v \in Before(NamesOf(text, d), k) <=>
               v \in NamesOf(text, d) /\ v \in Before(Names(text), k)
          /\ v \in Before(NamesOf(text, d), k - 1) <=>
               v \in NamesOf(text, d) /\ v \in Before(Names(text), k - 1)
      BY DEF Before, NamesOf
    <3> QED BY <1>3, <3>1, <3>2
  <2> QED BY <2>1
<1> QED BY <1>3, <1>8, <1>9

\* A command has the names of its text.
LEMMA LatestIn ==
  ASSUME NEW text \in Piece, NEW k, NEW c \in Redirs, NEW w,
         Latest(w, Before(NamesOf(text, c), k))
  PROVE  /\ w \in Before(Names(text), k) \cup {None}
         /\ w # None => text[Operator(text, w)] = c
         /\ None \notin Before(Names(text), k)
  BY NamesAre DEF Latest, Before, NamesOf

\* The command after the loop has taken a word or a name,
LEMMA EndsSoFar ==
  ASSUME NEW text \in Piece, NEW k \in 1..(Len(text) + 1), NEW s,
         Mode(text, k - 1, s), SoFar(text, k - 1, s), Closes(text, k, s),
         NEW e, e = Ends(s, k)
  PROVE  SoFar(text, k, e)
<1>1. /\ Len(text) \in Nat /\ k \in Nat /\ k > 0 /\ s \in Scans
      /\ "in" \in Redirs /\ "out" \in Redirs /\ "in" # "out"
  BY DEF Piece, Mode, Redirs
<1>2. PICK w : w = <<s.start, k - 1>>
  OBVIOUS
<1>3. FirstWords(e.args, WordPlaces(text), k)
  BY WordSoFar DEF SoFar
<1>. DEFINE B == Before(Names(text), k - 1)
<1>4. /\ Latest(s.in, Before(NamesOf(text, "in"), k - 1))
      /\ Latest(s.out, Before(NamesOf(text, "out"), k - 1))
      /\ s.append <=> s.out # None /\ Appends(text, s.out)
      /\ s.lost = Cardinality(B \ {s.in, s.out})
  BY DEF SoFar
<1>5. /\ s.in \in B \cup {None} /\ s.out \in B \cup {None} /\ None \notin B
      /\ s.in # s.out \/ s.in = None
      /\ s.in # None => text[Operator(text, s.in)] = "in"
      /\ s.out # None => text[Operator(text, s.out)] = "out"
  BY <1>1, <1>4, LatestIn
<1>6. CASE s.mode # "name"
  <2>1. /\ e.in = s.in /\ e.out = s.out /\ e.append = s.append
        /\ e.lost = s.lost
    BY <1>1, <1>2, <1>6, EndsIs
  <2>2. \A v \in Names(text) : v[2] # k - 1
    BY <1>6, NoNameEnds
  <2>3. /\ Before(Names(text), k) = B
        /\ Before(NamesOf(text, "in"), k) = Before(NamesOf(text, "in"), k - 1)
        /\ Before(NamesOf(text, "out"), k) = Before(NamesOf(text, "out"), k - 1)
    BY <1>1, <2>2, NothingEnds
  <2> QED BY <1>3, <1>4, <2>1, <2>3 DEF SoFar
<1>7. CASE s.mode = "name"
  <2>1. /\ w \in Names(text)
        /\ s.op = "in" => text[Operator(text, w)] = "in"
        /\ s.op # "in" => text[Operator(text, w)] = "out"
        /\ s.op # "in" => (s.op = "append" <=> Appends(text, w))
    BY <1>2, <1>7, NameEnds
  <2>2. w[2] = k - 1 /\ w # None
    BY <1>2, <2>1, NamesAre
  <2>3. CASE s.op = "in"
    <3>1. /\ e.in = w /\ e.out = s.out /\ e.append = s.append
          /\ e.lost = s.lost + (IF s.in = None THEN 0 ELSE 1)
      BY <1>1, <1>2, <1>7, <2>3, EndsIs
    <3>2. /\ Latest(w, Before(NamesOf(text, "in"), k))
          /\ Before(NamesOf(text, "out"), k) = Before(NamesOf(text, "out"), k - 1)
          /\ Before(Names(text), k) = B \cup {w}
          /\ w \notin B /\ IsFiniteSet(B)
      BY <1>1, <2>1, <2>2, <2>3, NameLatest
    <3>. HIDE DEF B
    <3>3. Cardinality((B \cup {w}) \ {w, s.out}) =
            Cardinality(B \ {s.in, s.out}) + (IF s.in = None THEN 0 ELSE 1)
      BY <1>5, <2>2, <3>2, OneMoreLost
    <3>4. e.lost = Cardinality(Before(Names(text), k) \ {e.in, e.out})
      BY <1>4, <3>1, <3>2, <3>3
    <3> QED BY <1>3, <1>4, <3>1, <3>2, <3>4 DEF SoFar
  <2>4. CASE s.op # "in"
    <3>1. /\ e.out = w /\ e.in = s.in /\ e.append = (s.op = "append")
          /\ e.lost = s.lost + (IF s.out = None THEN 0 ELSE 1)
      BY <1>1, <1>2, <1>7, <2>4, EndsIs
    <3>2. /\ Latest(w, Before(NamesOf(text, "out"), k))
          /\ Before(NamesOf(text, "in"), k) = Before(NamesOf(text, "in"), k - 1)
          /\ Before(Names(text), k) = B \cup {w}
          /\ w \notin B /\ IsFiniteSet(B)
      BY <1>1, <2>1, <2>2, <2>4, NameLatest
    <3>. HIDE DEF B
    <3>3. Cardinality((B \cup {w}) \ {w, s.in}) =
            Cardinality(B \ {s.out, s.in}) + (IF s.out = None THEN 0 ELSE 1)
      BY <1>5, <2>2, <3>2, OneMoreLost
    <3>4. {w, s.in} = {s.in, w} /\ {s.out, s.in} = {s.in, s.out}
      OBVIOUS
    <3>5. e.lost = Cardinality(Before(Names(text), k) \ {e.in, e.out})
      BY <1>4, <3>1, <3>2, <3>3, <3>4
    <3>6. e.append <=> e.out # None /\ Appends(text, e.out)
      BY <2>1, <2>2, <2>4, <3>1
    <3> QED BY <1>3, <1>4, <3>1, <3>2, <3>5, <3>6 DEF SoFar
  <2> QED BY <2>3, <2>4
<1> QED BY <1>6, <1>7

\* or neither.
LEMMA KeepsSoFar ==
  ASSUME NEW text \in Piece, NEW k \in 1..(Len(text) + 1), NEW s,
         Mode(text, k - 1, s), SoFar(text, k - 1, s), ~Closes(text, k, s)
  PROVE  SoFar(text, k, s)
<1>1. \A w \in WordPlaces(text) : w[2] # k - 1
  BY NoWordEnds
<1>2. \A w \in Names(text) : w[2] # k - 1
  BY NoNameEnds
<1>3. "in" \in Redirs /\ "out" \in Redirs
  BY DEF Redirs
<1>4. FirstWords(s.args, WordPlaces(text), k)
  BY <1>1, NothingEnds DEF SoFar
<1>5. /\ Before(Names(text), k) = Before(Names(text), k - 1)
      /\ Before(NamesOf(text, "in"), k) = Before(NamesOf(text, "in"), k - 1)
      /\ Before(NamesOf(text, "out"), k) = Before(NamesOf(text, "out"), k - 1)
  BY <1>2, <1>3, NothingEnds
<1> QED BY <1>4, <1>5 DEF SoFar

-----------------------------------------------------------------------------
(* The whole loop.                                                         *)

\* What the loop has found does not depend on where it is.
LEMMA SameSoFar ==
  ASSUME NEW text, NEW k, NEW s, SoFar(text, k, s), NEW t, Same(t, s)
  PROVE  SoFar(text, k, t)
  BY DEF SoFar, Same

\* At first it has found nothing,
LEMMA StartSoFar ==
  ASSUME NEW text \in Piece
  PROVE  SoFar(text, 0, Start)
<1>1. Len(text) \in Nat /\ 1 \in 1..(Len(text) + 1) /\ 1 \in Nat
  BY DEF Piece
<1>2. InARow(WordPlaces(text), Len(text)) /\ InARow(Names(text), Len(text))
  BY WordsAre, NamesAre DEF InARow
<1>3. Before(WordPlaces(text), 0) = {} /\ Before(Names(text), 0) = {}
  BY <1>1, <1>2, BeforeNext
<1>4. \A c : Before(NamesOf(text, c), 0) = {}
  <2> SUFFICES ASSUME NEW c PROVE Before(NamesOf(text, c), 0) = {}
    OBVIOUS
  <2>1. Before(NamesOf(text, c), 0) \subseteq Before(Names(text), 0)
    BY DEF Before, NamesOf
  <2> QED BY <1>3, <2>1
<1>5. Cardinality({}) = 0
  BY FS_EmptySet
<1>6. /\ Start.args = <<>> /\ Start.in = None /\ Start.out = None
      /\ Start.append = FALSE /\ Start.lost = 0
  BY DEF Start
<1>7. FirstWords(Start.args, WordPlaces(text), 0)
  <2>1. ArgvMax \in Nat \ {0}
    BY LimitsAssumption
  <2>2. Cardinality(Before(WordPlaces(text), 0)) = 0
    BY <1>3, <1>5
  <2>3. Len(Start.args) = 0
    BY <1>6
  <2> QED BY <2>1, <2>2, <2>3 DEF FirstWords
<1>8. Before(Names(text), 0) \ {Start.in, Start.out} = {}
  BY <1>3
<1> QED BY <1>4, <1>5, <1>6, <1>7, <1>8 DEF SoFar, Latest

\* and every turn finds what ends there.
LEMMA TurnSoFar ==
  ASSUME NEW text \in Piece, NEW k \in 1..Len(text), NEW s,
         Mode(text, k - 1, s), SoFar(text, k - 1, s),
         NEW t, t = Turn(s, text[k], k)
  PROVE  SoFar(text, k, t)
<1>1. /\ Len(text) \in Nat /\ k \in Nat /\ k > 0 /\ k \in 1..(Len(text) + 1)
      /\ s \in Scans /\ text[k] \in Chars /\ k # Len(text) + 1
  BY DEF Piece, Mode
<1>2. PICK e : e = Ends(s, k)
  OBVIOUS
<1>3. /\ Ending(s, text[k]) => Same(t, e)
      /\ ~Ending(s, text[k]) => Same(t, s)
  BY <1>1, <1>2, TurnIs
<1>4. CASE Ending(s, text[k])
  <2>1. SoFar(text, k, e)
    BY <1>1, <1>2, <1>4, EndsSoFar DEF Closes
  <2> QED BY <1>3, <1>4, <2>1, SameSoFar
<1>5. CASE ~Ending(s, text[k])
  <2>1. SoFar(text, k, s)
    BY <1>1, <1>5, KeepsSoFar DEF Closes
  <2> QED BY <1>3, <1>5, <2>1, SameSoFar
<1> QED BY <1>4, <1>5

\* At every place the loop is where it should be, with what it should have.
LEMMA ScanSoFar ==
  ASSUME NEW text \in Piece, NEW f, IsScan(f, text, Len(text))
  PROVE  \A k \in 0..Len(text) : Mode(text, k, f[k]) /\ SoFar(text, k, f[k])
<1>. DEFINE m == Len(text)
            T == {k \in 0..m : Mode(text, k, f[k]) /\ SoFar(text, k, f[k])}
<1>1. m \in Nat
  BY DEF Piece
<1>2. 0 \in T
  <2>1. f[0] = Start
    BY <1>1 DEF IsScan
  <2>2. Mode(text, 0, Start) /\ SoFar(text, 0, Start)
    BY StartMode, StartSoFar
  <2> QED BY <1>1, <2>1, <2>2
<1>3. ASSUME NEW n \in Nat, n < m, n \in T PROVE n + 1 \in T
  <2>1. n + 1 \in 1..Len(text) /\ (n + 1) - 1 = n
    BY <1>1, <1>3
  <2>2. PICK k \in 1..Len(text) : k = n + 1
    BY <2>1
  <2>3. PICK s : s = f[k - 1]
    OBVIOUS
  <2>4. Mode(text, k - 1, s) /\ SoFar(text, k - 1, s)
    BY <1>3, <2>1, <2>2, <2>3
  <2>5. f[k] = Turn(s, text[k], k)
    BY <1>1, <2>2, <2>3 DEF IsScan
  <2>6. Mode(text, k, f[k])
    BY <2>4, <2>5, TurnMode
  <2>7. SoFar(text, k, f[k])
    BY <2>4, <2>5, TurnSoFar
  <2>8. k \in 0..m
    OBVIOUS
  <2>9. k \in T
    BY <2>6, <2>7, <2>8
  <2> QED BY <2>2, <2>9
<1>4. \A n \in 0..m : n \in T
  <2>. HIDE DEF T, m
  <2> QED BY <1>1, <1>2, <1>3, UpTo
<1> QED BY <1>4

-----------------------------------------------------------------------------
(* What build_cmd_buff finds.                                              *)

\* The last of all names is the one of the command.
LEMMA LatestIs ==
  ASSUME NEW text \in Piece, NEW c, NEW w, Latest(w, NamesOf(text, c))
  PROVE  LastName(text, c) = w
<1>. DEFINE names == NamesOf(text, c)
<1>1. LastName(text, c) = IF names = {} THEN None
                          ELSE CHOOSE u \in names : \A v \in names : v[1] <= u[1]
  BY DEF LastName, NamesOf
<1>2. \A u, v \in names : u[1] \in Nat /\ (u[1] = v[1] => u = v)
  <2>1. /\ Apart(Names(text), Len(text))
        /\ \A u \in Names(text) : u[1] \in 1..Len(text)
    BY NamesAre
  <2>2. names \subseteq Names(text)
    BY DEF NamesOf
  <2>3. \A u, v \in Names(text) : u[1] = v[1] => u = v
    BY <2>1 DEF Apart
  <2> QED BY <2>1, <2>2, <2>3
<1>. HIDE DEF names
<1>3. CASE names = {}
  BY <1>1, <1>3 DEF Latest, names
<1>4. CASE names # {}
  <2>1. w \in names /\ \A v \in names : v[1] <= w[1]
    BY <1>4 DEF Latest, names
  <2>2. ASSUME NEW u \in names, \A v \in names : v[1] <= u[1] PROVE u = w
    <3>1. u[1] = w[1]
      BY <1>2, <2>1, <2>2
    <3> QED BY <1>2, <2>1, <3>1
  <2> QED BY <1>1, <1>4, <2>1, <2>2
<1> QED BY <1>3, <1>4

\* The words that fit, once all have ended.
LEMMA AllWords ==
  ASSUME NEW text \in Piece, NEW args \in Seq(Files),
         FirstWords(args, WordPlaces(text), Len(text) + 1)
  PROVE  args = First(Words(text))
<1>1. Len(text) \in Nat /\ Len(text) + 1 \in Nat /\ Len(text) + 1 > 0
  BY DEF Piece
<1>. DEFINE W == WordPlaces(text)
            n == Cardinality(W)
<1>2. InARow(W, Len(text)) /\ Apart(W, Len(text)) /\ \A w \in W : w \in Files
  BY WordsAre DEF InARow
<1>3. Before(W, Len(text) + 1) = W
  BY <1>1, <1>2, BeforeNext
<1>4. PICK words : words = InOrder(W)
  OBVIOUS
<1>5. /\ n \in Nat /\ Len(words) = n
      /\ \A i \in 1..n : words[i] \in W
  BY <1>1, <1>2, <1>4, Ordered
<1>6. ArgvMax \in Nat /\ ArgvMax > 0
  BY LimitsAssumption
<1>7. PICK m : m = IF n < ArgvMax THEN n ELSE ArgvMax - 1
  OBVIOUS
<1>8. m \in Nat /\ m <= n
  BY <1>5, <1>6, <1>7
<1>9. Len(args) = m /\ \A i \in 1..m : args[i] = words[i]
  <2>1. /\ Len(args) = IF Cardinality(Before(W, Len(text) + 1)) < ArgvMax
                       THEN Cardinality(Before(W, Len(text) + 1)) ELSE ArgvMax - 1
        /\ \A i \in 1..Len(args) : args[i] = InOrder(W)[i]
    BY DEF FirstWords
  <2> QED BY <1>3, <1>4, <1>7, <2>1
<1>10. PICK first : first = SubSeq(words, 1, m)
  OBVIOUS
<1>11. \A i \in 1..m : words[i] \in Files
  BY <1>2, <1>5, <1>8
<1>12. /\ first \in Seq(Files)
       /\ Len(first) = IF 1 <= m THEN m - 1 + 1 ELSE 0
       /\ \A i \in 1..(m - 1 + 1) : first[i] = words[1 + i - 1]
  <2>1. 1 \in Int /\ m \in Int
    BY <1>8
  <2> QED BY <1>10, <1>11, <2>1, SubSeqProperties
<1>13. Len(first) = m /\ \A i \in 1..m : first[i] = words[i]
  BY <1>8, <1>12
<1>14. args = first
  BY <1>8, <1>9, <1>12, <1>13, SeqEqual
<1>15. First(Words(text)) = first
  BY <1>4, <1>5, <1>7, <1>10 DEF First, Words
<1> QED BY <1>14, <1>15

\* build_cmd_buff puts into a command what its text says, and loses the names
\* that are replaced.
LEMMA ScanFinds ==
  ASSUME NEW text \in Piece, NEW s, s = Scan(text)
  PROVE  /\ s \in Scans
         /\ Command(s) = CommandOf(text)
         /\ s.args = CommandOf(text).args
         /\ s.lost = Cardinality(Names(text)
                                   \ {CommandOf(text).in, CommandOf(text).out})
         /\ IsFiniteSet(Names(text)) /\ s.lost \in Nat
<1>1. Len(text) \in Nat
  BY DEF Piece
<1>2. PICK f : IsScan(f, text, Len(text)) /\ s = Ends(f[Len(text)], Len(text) + 1)
  BY <1>1, ScanIs
<1>3. PICK m : m = Len(text) + 1
  OBVIOUS
<1>4. PICK t : t = f[Len(text)]
  OBVIOUS
<1>5. /\ m \in 1..(Len(text) + 1) /\ m - 1 = Len(text) /\ m \in Nat /\ m > 0
      /\ Len(text) \in 0..Len(text)
  BY <1>1, <1>3
<1>6. Mode(text, m - 1, t) /\ SoFar(text, m - 1, t)
  <2>1. Mode(text, Len(text), t) /\ SoFar(text, Len(text), t)
    BY <1>2, <1>4, <1>5, ScanSoFar
  <2> QED BY <1>5, <2>1
<1>7. s = Ends(t, m)
  BY <1>2, <1>3, <1>4
<1>8. SoFar(text, m, s)
  BY <1>3, <1>5, <1>6, <1>7, EndsSoFar DEF Closes
<1>9. s \in Scans
  <2>1. t \in Scans
    BY <1>6 DEF Mode
  <2>2. PICK w : w = <<t.start, m - 1>>
    OBVIOUS
  <2> QED BY <1>5, <1>7, <2>1, <2>2, EndsIs
<1>10. s.args = First(Words(text))
  <2>1. s.args \in Seq(Files)
    BY <1>9 DEF Scans
  <2>2. FirstWords(s.args, WordPlaces(text), Len(text) + 1)
    BY <1>3, <1>8 DEF SoFar
  <2> QED BY <2>1, <2>2, AllWords
<1>11. \A w \in Names(text) : w[2] \in 1..Len(text)
  BY NamesAre
<1>12. /\ Before(Names(text), m) = Names(text)
       /\ \A c : Before(NamesOf(text, c), m) = NamesOf(text, c)
  BY <1>1, <1>3, <1>11 DEF Before, NamesOf
<1>13. /\ Latest(s.in, NamesOf(text, "in")) /\ Latest(s.out, NamesOf(text, "out"))
       /\ s.append <=> s.out # None /\ Appends(text, s.out)
       /\ s.lost = Cardinality(Names(text) \ {s.in, s.out})
  BY <1>8, <1>12 DEF SoFar
<1>14. s.in = LastName(text, "in") /\ s.out = LastName(text, "out")
  BY <1>13, LatestIs
<1>15. PICK a \in BOOLEAN : a = (s.out # None /\ Appends(text, s.out))
  OBVIOUS
<1>16. s.append = a
  <2>1. s.append \in BOOLEAN
    BY <1>9 DEF Scans
  <2> QED BY <1>13, <1>15, <2>1
<1>17. CommandOf(text) = [args |-> First(Words(text)), in |-> LastName(text, "in"),
                          out |-> LastName(text, "out"), append |-> a]
  BY <1>14, <1>15 DEF CommandOf
<1>18. Command(s) = CommandOf(text)
  BY <1>10, <1>14, <1>16, <1>17 DEF Command
<1>19. /\ CommandOf(text).in = s.in /\ CommandOf(text).out = s.out
       /\ CommandOf(text).args = s.args
  BY <1>10, <1>14, <1>17
<1>20. IsFiniteSet(Names(text))
  BY <1>1, NamesAre, BelowStep
<1>21. s.lost \in Nat
  BY <1>9 DEF Scans
<1> QED BY <1>9, <1>13, <1>18, <1>19, <1>20, <1>21
=============================================================================
