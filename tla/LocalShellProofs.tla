-------------------------- MODULE LocalShellProofs --------------------------
(***************************************************************************)
(* Theorems of LocalShell: its types, what a pipeline that is over leaves  *)
(* behind, and which stages can see end-of-file or SIGPIPE, whatever       *)
(* fails.                                                                  *)
(***************************************************************************)
EXTENDS LocalShell, TLAPS

\* A child that is over has an exit status.
Coded == \A k \in Kids : Over(k) => status[k] # "none"

Base == TypeOK /\ Forking /\ Coded

LEMMA Lengths ==
  ASSUME TypeOK, NEW r \in 1..Rounds
  PROVE  /\ lists[r] \in Seq(Programs \cup BuiltIns)
         /\ Len(lists[r]) \in 0..CmdMax
  <1>1. lists[r] \in Lines \cup {<<>>}
    BY DEF TypeOK
  <1>2. CASE lists[r] \in Lines
    BY <1>2, LinesAssumption, SizesAssumption
  <1>3. CASE lists[r] = <<>>
    BY <1>3, SizesAssumption
  <1> QED BY <1>1, <1>2, <1>3

\* The child a busy shell looks at.
LEMMA Current ==
  ASSUME TypeOK, Forking, spc \in {"pipe", "fork", "close", "wait"}
  PROVE  /\ round \in 1..Rounds
         /\ i \in 1..Num
         /\ Num \in 0..CmdMax
         /\ <<round, i>> \in Kids
  <1>1. round \in 1..Rounds /\ i \in 1..Num
    BY DEF Forking
  <1>2. Num \in 0..CmdMax
    BY <1>1, Lengths DEF Num, clist
  <1>3. i \in 1..CmdMax
    BY <1>1, <1>2, SizesAssumption
  <1> QED BY <1>1, <1>2, <1>3 DEF Kids

\* Counting down a counter of natural numbers that is not zero.
LEMMA CountDown ==
  ASSUME NEW S, NEW f \in [S -> Nat], NEW x \in S, f[x] > 0
  PROVE  [f EXCEPT ![x] = @ - 1] \in [S -> Nat]
  <1>1. f[x] - 1 \in Nat
    OBVIOUS
  <1> QED BY <1>1

LEMMA InitBase == Init => Base
  <1> SUFFICES ASSUME Init PROVE Base
    OBVIOUS
  <1> USE DEF Init
  <1>1. TypeOK
    BY SizesAssumption DEF TypeOK, Codes
  <1>2. Forking
    BY SizesAssumption DEF Forking, Kids
  <1>3. Coded
    BY DEF Coded, Over
  <1> QED BY <1>1, <1>2, <1>3 DEF Base

\* Every step keeps the types; that an exit code is one needs Coded, and that
\* the loops stay inside the list needs Forking.
LEMMA NextType == Base /\ [Next]_vars => TypeOK'
  <1> SUFFICES ASSUME Base, [Next]_vars PROVE TypeOK'
    OBVIOUS
  <1>0. TypeOK /\ Forking /\ Coded
    BY DEF Base
  <1> USE SizesAssumption
  <1>1. CASE Type
    <2>1. PICK l \in Lines :
            \/ BuiltIn(l) /\ UNCHANGED <<lists, round, i>>
            \/ /\ round < Rounds
               /\ round' = round + 1
               /\ lists' = [lists EXCEPT ![round + 1] = l]
               /\ i' = 1
               /\ spc' = IF Len(l) = 1 THEN "fork" ELSE "pipe"
               /\ UNCHANGED <<rc, shellFds>>
      BY <1>1 DEF Type
    <2>2. UNCHANGED <<kidVars, data>>
      BY <1>1 DEF Type
    <2>3. CASE BuiltIn(l) /\ UNCHANGED <<lists, round, i>>
      <3>1. /\ spc' \in {spc, "exited"}
            /\ rc' \in {rc, "0", "errno"} /\ shellFds' \in {shellFds, {}}
        BY <2>3 DEF BuiltIn
      <3> QED BY <1>0, <2>2, <2>3, <3>1 DEF TypeOK, Codes, kidVars
    <2>4. CASE /\ round < Rounds
               /\ round' = round + 1
               /\ lists' = [lists EXCEPT ![round + 1] = l]
               /\ i' = 1
               /\ spc' = IF Len(l) = 1 THEN "fork" ELSE "pipe"
               /\ UNCHANGED <<rc, shellFds>>
      <3>1. lists' \in [1..Rounds -> Lines \cup {<<>>}]
        BY <1>0, <2>4 DEF TypeOK
      <3>2. round' \in 0..Rounds /\ i' \in 1..CmdMax
        BY <1>0, <2>4 DEF TypeOK
      <3>3. spc' \in {"fork", "pipe"}
        BY <2>4
      <3> QED BY <1>0, <2>2, <2>4, <3>1, <3>2, <3>3 DEF TypeOK, kidVars
    <2> QED BY <2>1, <2>3, <2>4
  <1>2. CASE Quit
    BY <1>0, <1>2 DEF Quit, TypeOK, kidVars
  <1>3. CASE Pipe
    <2>1. spc = "pipe" /\ UNCHANGED <<lists, round, rc, kidVars, data>>
      BY <1>3 DEF Pipe
    <2>2. i \in Nat /\ i < Num /\ Num \in 0..CmdMax /\ <<round, i>> \in Pipes
      BY <2>1, <1>0, Current DEF Forking, Pipes
    <2>3. Both(<<round, i>>) \subseteq Ends
      BY <2>2 DEF Both, Ends
    <2>4. i' \in 1..CmdMax
      BY <1>0, <1>3, <2>2 DEF Pipe, TypeOK
    <2>5. /\ spc' \in {"fork", "pipe", "prompt"}
          /\ shellFds' \in {shellFds, shellFds \cup Both(<<round, i>>)}
      BY <1>3, <2>1 DEF Pipe
    <2> QED BY <1>0, <2>1, <2>3, <2>4, <2>5 DEF TypeOK, kidVars
  <1>4. CASE ForkFails
    BY <1>0, <1>4 DEF ForkFails, TypeOK, Codes, kidVars
  <1>5. CASE Fork
    <2>1. spc = "fork" /\ i \in 1..Num /\ Num \in 0..CmdMax
      BY <1>0, <1>5, Current DEF Fork
    <2>2. i' \in 1..CmdMax /\ spc' \in {"fork", "wait", "close"}
      BY <1>0, <1>5, <2>1 DEF Fork, TypeOK
    <2>3. kid' \in [Kids -> {"none", "forked", "run", "dead", "reaped"}]
      BY <1>0, <1>5 DEF Fork, Forked, TypeOK
    <2>4. kidFds' \in [Kids -> SUBSET Ends]
      BY <1>0, <1>5 DEF Fork, Forked, TypeOK
    <2>5. work' \in [Kids -> Nat]
      BY <1>0, <1>5 DEF Fork, Forked, TypeOK
    <2> QED BY <1>0, <1>5, <2>2, <2>3, <2>4, <2>5 DEF Fork, Forked, TypeOK
  <1>6. CASE Close
    BY <1>0, <1>6 DEF Close, TypeOK, kidVars
  <1>7. CASE Wait
    <2>1. spc = "wait" /\ i \in 1..Num /\ Num \in 0..CmdMax
          /\ <<round, i>> \in Kids
      BY <1>0, <1>7, Current DEF Wait
    <2>2. status[<<round, i>>] \in {"sig"} \cup Codes
      BY <1>0, <1>7, <2>1 DEF Wait, Coded, Over, TypeOK
    <2>3. CodeOf(status[<<round, i>>]) \in Codes
      BY <2>2 DEF CodeOf, Codes
    <2> QED BY <1>0, <1>7, <2>1, <2>3 DEF Wait, TypeOK
  <1>8. ASSUME NEW k \in Kids, Exec(k) PROVE TypeOK'
    <2>1. CASE Program(k) = "nofile" /\ Ended(k, "errno")
      BY <1>0, <1>8, <2>1 DEF Exec, Ended, TypeOK, Codes, shellVars
    <2>2. CASE Program(k) = "missing"
               /\ Ended(k, IF Len(lists[k[1]]) = 1 THEN "errno" ELSE "1")
      BY <1>0, <1>8, <2>2 DEF Exec, Ended, TypeOK, Codes, shellVars
    <2>3. CASE Program(k) \in {"gen", "copy", "take"}
      <3>1. k[1] \in 1..Rounds /\ k[2] \in 1..CmdMax /\ k = <<k[1], k[2]>>
        BY DEF Kids
      <3>1a. kid[k] # "none"
        BY <1>8 DEF Exec
      <3>2. StdEnds(k) \subseteq Ends
        <4>1. Len(lists[k[1]]) \in 0..CmdMax
          BY <1>0, <3>1, Lengths
        <4> QED BY <3>1, <4>1 DEF StdEnds, StdIn, StdOut, Ends, Pipes
      <3>3. /\ kid' = [kid EXCEPT ![k] = "run"]
            /\ kidFds' = [kidFds EXCEPT ![k] =
                            (@ \ PipesOf(k[1])) \cup StdEnds(k)]
            /\ UNCHANGED <<shellVars, status, work, data>>
        BY <1>8, <2>3 DEF Exec
      <3> QED BY <1>0, <3>2, <3>3 DEF TypeOK, shellVars
    <2> QED BY <1>8, <2>1, <2>2, <2>3 DEF Exec
  <1>9. ASSUME NEW k \in Kids, Read(k) PROVE TypeOK'
    <2>1. StdIn(k)[1] \in Pipes
      <3>1. StdIn(k) \in Ends
        BY <1>0, <1>9 DEF Read, FromPipe, TypeOK
      <3> QED BY <3>1 DEF Ends
    <2> QED BY <1>0, <1>9, <2>1 DEF Read, TypeOK, shellVars
  <1>10. ASSUME NEW k \in Kids, Write(k) PROVE TypeOK'
    <2>1. CASE Broken(k) /\ Ended(k, "sig") /\ UNCHANGED <<work, data>>
      BY <1>0, <2>1 DEF Ended, TypeOK, Codes, shellVars
    <2>2. CASE ToPipe(k) /\ ~Broken(k)
      <3>1. StdOut(k)[1] \in Pipes
        <4>1. StdOut(k) \in Ends
          BY <1>0, <2>2 DEF ToPipe, TypeOK
        <4> QED BY <4>1 DEF Ends
      <3>2. /\ work[k] > 0 /\ work' = [work EXCEPT ![k] = @ - 1]
            /\ data[StdOut(k)[1]] < Cap
            /\ data' = [data EXCEPT ![StdOut(k)[1]] = @ + 1]
            /\ UNCHANGED <<shellVars, kid, status, kidFds>>
        BY <1>10, <2>2 DEF Write
      <3>3. work' \in [Kids -> Nat]
        BY <1>0, <3>2, CountDown DEF TypeOK
      <3>4. data' \in [Pipes -> 0..Cap]
        BY <1>0, <3>1, <3>2 DEF TypeOK
      <3> QED BY <1>0, <3>2, <3>3, <3>4 DEF TypeOK, shellVars
    <2>3. CASE ~ToPipe(k)
      <3>1. /\ work[k] > 0 /\ work' = [work EXCEPT ![k] = @ - 1]
            /\ UNCHANGED <<shellVars, kid, status, kidFds, data>>
        BY <1>10, <2>3 DEF Write, Broken
      <3>2. work' \in [Kids -> Nat]
        BY <1>0, <3>1, CountDown DEF TypeOK
      <3> QED BY <1>0, <3>1, <3>2 DEF TypeOK, shellVars
    <2> QED BY <1>10, <2>1, <2>2, <2>3 DEF Write
  <1>11. ASSUME NEW k \in Kids, Exit(k) PROVE TypeOK'
    BY <1>0, <1>11 DEF Exit, Ended, TypeOK, Codes, shellVars
  <1>12. ASSUME NEW k \in Kids, Kill(k) PROVE TypeOK'
    BY <1>0, <1>12 DEF Kill, Ended, TypeOK, Codes, shellVars
  <1>13. CASE UNCHANGED vars
    BY <1>0, <1>13 DEF vars, TypeOK
  <1> QED BY <1>1, <1>2, <1>3, <1>4, <1>5, <1>6, <1>7, <1>8, <1>9, <1>10,
             <1>11, <1>12, <1>13 DEF Next, ShellStep, KidStep

LEMMA NextCoded == Base /\ [Next]_vars => Coded'
  <1> SUFFICES ASSUME Base, [Next]_vars, NEW k \in Kids PROVE Over(k)' => status'[k] # "none"
    BY DEF Coded
  <1>0. TypeOK /\ Coded
    BY DEF Base
  <1>1. CASE UNCHANGED <<kid, status>>
    BY <1>0, <1>1 DEF Coded, Over
  <1>2. CASE Fork
    BY <1>0, <1>2 DEF Fork, Forked, Coded, Over, TypeOK
  <1>3. CASE Wait
    BY <1>0, <1>3 DEF Wait, Coded, Over, TypeOK
  <1>4. ASSUME NEW c \in Kids, NEW st, Ended(c, st), st # "none"
        PROVE  Over(k)' => status'[k] # "none"
    BY <1>0, <1>4 DEF Ended, Coded, Over, TypeOK
  <1>5. ASSUME NEW c \in Kids, KidStep(c) \/ Kill(c)
        PROVE  Over(k)' => status'[k] # "none"
    <2>1. CASE UNCHANGED <<kid, status>>
      BY <1>1, <2>1
    <2>2. CASE kid' = [kid EXCEPT ![c] = "run"] /\ UNCHANGED status
      BY <1>0, <2>2 DEF Coded, Over, TypeOK
    <2>3. CASE \E st \in {"0", "1", "errno", "sig"} : Ended(c, st)
      BY <1>4, <2>3
    <2> QED BY <1>5, <2>1, <2>2, <2>3
          DEF KidStep, Kill, Exec, Read, Write, Exit
  <1> QED BY <1>1, <1>2, <1>3, <1>5
        DEF Next, ShellStep, Type, Quit, Pipe, Close, ForkFails, kidVars, vars

\* A step that forks nobody and leaves the shell where it is.
LEMMA SameForking ==
  ASSUME TypeOK, Forking, UNCHANGED <<spc, lists, round, i, shellFds>>,
         \A k \in Kids : kid'[k] = "none" <=> kid[k] = "none"
  PROVE  Forking'
  <1>1. UNCHANGED Num /\ \A r : PipesOf(r)' = PipesOf(r)
    BY DEF Num, clist, PipesOf
  <1>2. spc \in {"pipe", "fork", "close", "wait"} =>
          /\ \A j \in 1..CmdMax : <<round, j>> \in Kids
          /\ \A j \in 1..Num : <<round, j>> \in Kids
    BY Current, SizesAssumption DEF Kids
  <1>3. \A k \in Kids : k[2] > 1 => <<k[1], k[2] - 1>> \in Kids
    BY SizesAssumption DEF Kids
  <1> QED BY <1>1, <1>2, <1>3 DEF Forking

LEMMA NextForking == Base /\ [Next]_vars => Forking'
  <1> SUFFICES ASSUME Base, [Next]_vars PROVE Forking'
    OBVIOUS
  <1>0. TypeOK /\ Forking /\ Coded
    BY DEF Base
  <1> USE SizesAssumption
  <1>a. \A k \in Kids : k[2] > 1 => <<k[1], k[2] - 1>> \in Kids
    BY DEF Kids
  <1>1. CASE Type
    <2>1. PICK l \in Lines :
            \/ BuiltIn(l) /\ UNCHANGED <<lists, round, i>>
            \/ /\ round < Rounds
               /\ round' = round + 1
               /\ lists' = [lists EXCEPT ![round + 1] = l]
               /\ i' = 1
               /\ spc' = IF Len(l) = 1 THEN "fork" ELSE "pipe"
               /\ UNCHANGED <<rc, shellFds>>
      BY <1>1 DEF Type
    <2>2. spc = "prompt" /\ UNCHANGED kid
      BY <1>1 DEF Type, kidVars
    <2>3. CASE BuiltIn(l) /\ UNCHANGED <<lists, round, i>>
      <3>1. spc' \in {"prompt", "exited"}
        BY <2>2, <2>3 DEF BuiltIn
      <3> QED BY <1>0, <2>2, <2>3, <3>1 DEF Forking
    <2>4. CASE /\ round < Rounds
               /\ round' = round + 1
               /\ lists' = [lists EXCEPT ![round + 1] = l]
               /\ i' = 1
               /\ spc' = IF Len(l) = 1 THEN "fork" ELSE "pipe"
               /\ UNCHANGED <<rc, shellFds>>
      <3>1. /\ round \in 0..Rounds /\ round' \in 1..Rounds
            /\ lists'[round'] = l /\ Num' = Len(l) /\ Num' \in 1..CmdMax
            /\ \A r \in 1..Rounds : r <= round => lists'[r] = lists[r]
        BY <1>0, <2>4, LinesAssumption DEF TypeOK, Num, clist
      <3>2. \A k \in Kids : k[1] > round => kid'[k] = "none"
        BY <1>0, <2>2 DEF Forking
      <3>3. \A j \in 1..CmdMax : kid'[<<round', j>>] = "none"
        BY <2>4, <3>1, <3>2 DEF Kids
      <3>4. \A k \in Kids : kid'[k] # "none" =>
              /\ k[2] <= Len(lists'[k[1]])
              /\ k[2] > 1 => kid'[<<k[1], k[2] - 1>>] # "none"
        <4> SUFFICES ASSUME NEW k \in Kids, kid'[k] # "none"
                     PROVE  /\ k[2] <= Len(lists'[k[1]])
                            /\ k[2] > 1 => kid'[<<k[1], k[2] - 1>>] # "none"
          OBVIOUS
        <4>1. k[1] \in 1..Rounds /\ k[1] <= round
          BY <3>1, <3>2 DEF Kids
        <4> QED BY <1>0, <2>2, <3>1, <4>1 DEF Forking
      <3>5. CASE spc' = "fork"
        <4>1. Num' = 1
          BY <2>4, <3>1, <3>5
        <4>2. PipesOf(round)' = {}
          BY <3>1, <4>1 DEF PipesOf, Num, clist, Ends, Pipes
        <4> QED BY <2>4, <3>1, <3>2, <3>3, <3>4, <3>5, <4>1, <4>2 DEF Forking, Kids
      <3>6. CASE spc' = "pipe"
        <4>1. i' < Num' /\ i' = 1
          BY <2>4, <3>1, <3>6
        <4>2. \A e \in PipesOf(round)' : ~ (e[1][2] < i')
          BY <4>1 DEF PipesOf, Ends, Pipes
        <4> QED BY <2>4, <3>1, <3>2, <3>3, <3>4, <3>6, <4>1, <4>2 DEF Forking, Kids
      <3> QED BY <2>4, <3>5, <3>6
    <2> QED BY <2>1, <2>3, <2>4
  <1>2. CASE Quit
    BY <1>0, <1>2 DEF Quit, Forking, kidVars
  <1>3. CASE Pipe
    <2>1. /\ spc = "pipe" /\ UNCHANGED <<lists, round, kid>>
          /\ i \in 1..Num /\ Num \in 0..CmdMax /\ i < Num
          /\ round \in 1..Rounds
          /\ \A j \in 1..CmdMax : kid[<<round, j>>] = "none"
          /\ Num' = Num /\ PipesOf(round)' = PipesOf(round)
      BY <1>0, <1>3, Current DEF Pipe, Forking, kidVars, Num, clist, PipesOf
    <2>2. CASE spc' = "prompt"
      BY <1>0, <2>1, <2>2 DEF Forking
    <2>3. CASE /\ shellFds' = shellFds \cup Both(<<round, i>>)
               /\ i' = IF i = Num - 1 THEN 1 ELSE i + 1
               /\ spc' = IF i = Num - 1 THEN "fork" ELSE "pipe"
      <3>1. \A e \in PipesOf(round) : e[1][2] < i + 1 => e \in shellFds'
        <4> SUFFICES ASSUME NEW e \in PipesOf(round), e[1][2] < i + 1
                     PROVE  e \in shellFds'
          OBVIOUS
        <4>1. PICK j \in 1..(CmdMax - 1), d \in {"r", "w"} : e = <<<<round, j>>, d>>
          BY DEF PipesOf, Ends, Pipes
        <4>2. CASE j < i
          BY <1>0, <2>1, <2>3, <4>1, <4>2 DEF Forking
        <4>3. CASE j = i
          BY <2>3, <4>1, <4>3 DEF Both
        <4>4. j < i + 1
          BY <4>1
        <4> QED BY <2>1, <4>2, <4>3, <4>4
      <3>2. \A e \in PipesOf(round) : e[1][2] < Num /\ e[1][2] \in Nat
        BY <2>1 DEF PipesOf, Num, clist, Ends, Pipes
      <3>3. CASE i = Num - 1
        <4>1. PipesOf(round) \subseteq shellFds'
          BY <2>1, <3>1, <3>2, <3>3
        <4>2. spc' = "fork" /\ i' = 1
          BY <2>3, <3>3
        <4>3. \A j \in 1..CmdMax : kid[<<round, j>>] = "none" <=> j >= i'
          BY <2>1, <4>2
        <4> QED BY <1>0, <2>1, <4>1, <4>2, <4>3 DEF Forking
      <3>4. CASE i # Num - 1
        <4>1. spc' = "pipe" /\ i' = i + 1 /\ i' < Num /\ i' \in 1..Num
          BY <2>1, <2>3, <3>4
        <4> QED BY <1>0, <2>1, <3>1, <4>1 DEF Forking
      <3> QED BY <3>3, <3>4
    <2> QED BY <1>3, <2>2, <2>3 DEF Pipe
  <1>4. CASE ForkFails
    BY <1>0, <1>4 DEF ForkFails, Forking, kidVars
  <1>5. CASE Fork
    <2>1. /\ spc = "fork" /\ UNCHANGED <<lists, round, shellFds>>
          /\ i \in 1..Num /\ Num \in 0..CmdMax /\ i \in 1..CmdMax
          /\ round \in 1..Rounds /\ <<round, i>> \in Kids
          /\ Num' = Num /\ PipesOf(round)' = PipesOf(round)
          /\ kid' = [kid EXCEPT ![<<round, i>>] = "forked"]
          /\ i' = IF i = Num THEN 1 ELSE i + 1
          /\ spc' = IF i < Num THEN "fork" ELSE IF Num = 1 THEN "wait" ELSE "close"
      BY <1>0, <1>5, Current DEF Fork, Forked, Num, clist, PipesOf
    <2>2. /\ PipesOf(round) \subseteq shellFds
          /\ \A j \in 1..CmdMax : kid[<<round, j>>] = "none" <=> j >= i
      BY <1>0, <2>1 DEF Forking
    <2>3. \A k \in Kids : kid'[k] = IF k = <<round, i>> THEN "forked" ELSE kid[k]
      BY <1>0, <2>1 DEF TypeOK
    <2>4. \A j \in 1..CmdMax : <<round, j>> \in Kids
      BY <2>1 DEF Kids
    <2>5. \A j \in 1..CmdMax : kid'[<<round, j>>] = "none" <=> j >= i + 1
      BY <2>1, <2>2, <2>3, <2>4
    <2>6. \A k \in Kids : k[1] > round => kid'[k] = "none"
      BY <1>0, <2>1, <2>3 DEF Forking
    <2>7. \A k \in Kids : kid'[k] # "none" =>
            /\ k[2] <= Len(lists[k[1]])
            /\ k[2] > 1 => kid'[<<k[1], k[2] - 1>>] # "none"
      <3> SUFFICES ASSUME NEW k \in Kids, kid'[k] # "none"
                   PROVE  /\ k[2] <= Len(lists[k[1]])
                          /\ k[2] > 1 => kid'[<<k[1], k[2] - 1>>] # "none"
        OBVIOUS
      <3>1. CASE k = <<round, i>>
        BY <2>1, <2>5, <3>1 DEF Num, clist
      <3>2. CASE k # <<round, i>>
        BY <1>0, <1>a, <2>3, <3>2 DEF Forking
      <3> QED BY <3>1, <3>2
    <2>8. CASE i < Num
      <3>1. spc' = "fork" /\ i' = i + 1 /\ i' \in 1..Num
        BY <2>1, <2>8
      <3> QED BY <2>1, <2>2, <2>5, <2>6, <2>7, <3>1 DEF Forking
    <2>9. CASE i = Num
      <3>1. spc' \in {"wait", "close"} /\ i' = 1 /\ i' \in 1..Num
        BY <2>1, <2>9
      <3>2. \A j \in 1..Num : kid'[<<round, j>>] # "none"
        BY <2>1, <2>5, <2>9
      <3> QED BY <2>1, <2>6, <2>7, <3>1, <3>2 DEF Forking
    <2> QED BY <2>1, <2>8, <2>9
  <1>6. CASE Close
    BY <1>0, <1>6 DEF Close, Forking, kidVars, Num, clist
  <1>7. CASE Wait
    <2>1. /\ spc = "wait" /\ UNCHANGED <<lists, round, shellFds>>
          /\ i \in 1..Num /\ Num \in 0..CmdMax
          /\ round \in 1..Rounds /\ <<round, i>> \in Kids
          /\ Num' = Num
          /\ kid[<<round, i>>] = "dead"
          /\ kid' = [kid EXCEPT ![<<round, i>>] = "reaped"]
          /\ \/ i < Num /\ i' = i + 1 /\ spc' = spc
             \/ i = Num /\ spc' = "prompt" /\ i' = i
      BY <1>0, <1>7, Current DEF Wait, Num, clist
    <2>2. \A k \in Kids : kid'[k] = "none" <=> kid[k] = "none"
      BY <1>0, <2>1 DEF TypeOK
    <2>3. \A j \in 1..Num : <<round, j>> \in Kids
      BY <2>1 DEF Kids
    <2> QED BY <1>0, <1>a, <2>1, <2>2, <2>3 DEF Forking
  <1>8. ASSUME NEW c \in Kids, KidStep(c) \/ Kill(c) PROVE Forking'
    <2>1. kid[c] # "none" /\ UNCHANGED <<spc, lists, round, i, shellFds>>
      BY <1>8 DEF KidStep, Kill, Exec, Read, Write, Exit, Ended, shellVars
    <2>2. \/ UNCHANGED kid
          \/ \E s \in {"run", "dead"} : kid' = [kid EXCEPT ![c] = s]
      BY <1>8 DEF KidStep, Kill, Exec, Read, Write, Exit, Ended
    <2>3. \A k \in Kids : kid'[k] = "none" <=> kid[k] = "none"
      BY <1>0, <2>1, <2>2 DEF TypeOK
    <2> QED BY <1>0, <2>1, <2>3, SameForking
  <1>9. CASE UNCHANGED vars
    BY <1>0, <1>9, SameForking DEF vars
  <1> QED BY <1>1, <1>2, <1>3, <1>4, <1>5, <1>6, <1>7, <1>8, <1>9
        DEF Next, ShellStep

\* Every variable keeps its type, and a round its shape, whatever fails.
THEOREM TypeCorrect == Spec => []TypeOK
  <1>1. Init => Base
    BY InitBase
  <1>2. Base /\ [Next]_vars => Base'
    BY NextType, NextForking, NextCoded DEF Base
  <1>3. Base => TypeOK
    BY DEF Base
  <1> QED BY <1>1, <1>2, <1>3, PTL DEF Spec

-----------------------------------------------------------------------------
(* Nothing is left at the prompt of a round whose children were forked.    *)

\* A round that is cleared stays so under a step that leaves its list alone,
\* gives the shell none of its pipe ends and touches no child not forked or
\* reaped.
LEMMA StaysCleared ==
  ASSUME NEW r \in 1..Rounds,
         lists'[r] = lists[r],
         shellFds' \cap PipesOf(r) \subseteq shellFds,
         \A j \in 1..Len(lists[r]) :
           \/ kid'[<<r, j>>] = kid[<<r, j>>]
           \/ kid[<<r, j>>] \notin {"none", "reaped"},
         Whole(r) => Cleared(r)
  PROVE  (Whole(r) => Cleared(r))'
  <1> SUFFICES ASSUME Whole(r)' PROVE Cleared(r)'
    OBVIOUS
  <1>1. \A j \in 1..Len(lists[r]) : kid'[<<r, j>>] # "none"
    BY DEF Whole
  <1>2. Whole(r)
    BY <1>1 DEF Whole
  <1>3. /\ PipesOf(r) \cap shellFds = {}
        /\ \A j \in 1..Len(lists[r]) : kid[<<r, j>>] = "reaped"
    BY <1>2 DEF Cleared
  <1>4. PipesOf(r)' = PipesOf(r)
    BY DEF PipesOf
  <1>5. \A j \in 1..Len(lists[r]) : kid'[<<r, j>>] = "reaped"
    BY <1>3
  <1> QED BY <1>3, <1>4, <1>5 DEF Cleared

LEMMA NextTidy == Base /\ Tidy /\ [Next]_vars => Tidy'
  <1> SUFFICES ASSUME Base, Tidy, [Next]_vars PROVE Tidy'
    OBVIOUS
  <1>0. /\ TypeOK /\ Forking
        /\ round \in 0..Rounds /\ round \in Nat /\ Rounds \in Nat
    BY SizesAssumption DEF Base, TypeOK
  <1> USE SizesAssumption
  <1>1. CASE Type
    <2>1. PICK l \in Lines :
            \/ BuiltIn(l) /\ UNCHANGED <<lists, round, i>>
            \/ /\ round < Rounds
               /\ round' = round + 1
               /\ lists' = [lists EXCEPT ![round + 1] = l]
               /\ spc' = IF Len(l) = 1 THEN "fork" ELSE "pipe"
               /\ UNCHANGED <<rc, shellFds>>
      BY <1>1 DEF Type
    <2>2. spc = "prompt" /\ UNCHANGED kid
      BY <1>1 DEF Type, kidVars
    <2>3. \A r \in 1..round : Whole(r) => Cleared(r)
      BY <2>2 DEF Tidy
    <2>4. shellFds' \subseteq shellFds /\ spc' # "wait"
      BY <2>1, <2>2 DEF BuiltIn
    <2>5. \A r \in 1..round : lists'[r] = lists[r] /\ r \in 1..Rounds
      BY <1>0, <2>1 DEF TypeOK
    <2>6. \A r \in 1..round : (Whole(r) => Cleared(r))'
      BY <2>2, <2>3, <2>4, <2>5, StaysCleared
    <2>7. \/ round' = round
          \/ round' = round + 1 /\ spc' \notin {"prompt", "exited"}
      BY <2>1
    <2>8. \A r \in 1..round' :
            r < round' \/ spc' \in {"prompt", "exited"} => r \in 1..round
      BY <1>0, <2>7
    <2> QED BY <2>4, <2>6, <2>8 DEF Tidy
  <1>2. CASE Quit
    <2>1. /\ spc = "prompt" /\ spc' = "exited" /\ shellFds' = {}
          /\ UNCHANGED <<lists, round, kid>>
      BY <1>2 DEF Quit, kidVars
    <2>2. \A r \in 1..round : (Whole(r) => Cleared(r))'
      BY <1>0, <2>1, StaysCleared DEF Tidy
    <2> QED BY <2>1, <2>2 DEF Tidy
  <1>3. CASE Pipe
    <2>1. /\ spc = "pipe"
          /\ UNCHANGED <<lists, round, kid>>
          /\ \/ /\ spc' \in {"pipe", "fork"}
                /\ shellFds' = shellFds \cup Both(<<round, i>>)
             \/ spc' = "prompt" /\ shellFds' = shellFds
      BY <1>3 DEF Pipe, kidVars
    <2>2. /\ round \in 1..Rounds /\ i \in 1..Num
          /\ Num \in 0..CmdMax
      BY <1>0, <2>1, Current
    <2>3. \A r \in 1..round :
            r < round => shellFds' \cap PipesOf(r) \subseteq shellFds
      BY <2>1 DEF Both, PipesOf
    <2>4. \A r \in 1..round : r < round => (Whole(r) => Cleared(r))'
      BY <1>0, <2>1, <2>3, StaysCleared DEF Tidy
    <2>5. ~Whole(round)'
      BY <1>0, <2>1, <2>2 DEF Forking, Whole, Num, clist
    <2>6. \A r \in 1..round : r < round \/ r = round
      BY <1>0
    <2> QED BY <2>1, <2>4, <2>5, <2>6 DEF Tidy
  <1>4. CASE ForkFails
    <2>1. /\ spc = "fork" /\ spc' = "prompt"
          /\ UNCHANGED <<lists, round, kid, shellFds>>
      BY <1>4 DEF ForkFails, kidVars
    <2>2. /\ round \in 1..Rounds /\ i \in 1..Num
          /\ Num \in 0..CmdMax
      BY <1>0, <2>1, Current
    <2>3. \A r \in 1..round : r < round => (Whole(r) => Cleared(r))'
      BY <1>0, <2>1, StaysCleared DEF Tidy
    <2>4. ~Whole(round)'
      <3>1. i \in 1..CmdMax /\ i >= i
        BY <2>2
      <3>2. kid[<<round, i>>] = "none"
        BY <1>0, <2>1, <3>1 DEF Forking
      <3> QED BY <2>1, <2>2, <3>2 DEF Whole, Num, clist
    <2>5. \A r \in 1..round : r < round \/ r = round
      BY <1>0
    <2> QED BY <2>1, <2>3, <2>4, <2>5 DEF Tidy
  <1>5. CASE Fork
    <2>1. /\ spc = "fork" /\ UNCHANGED <<lists, round, shellFds>>
          /\ <<round, i>> \in Kids /\ i \in 1..Num /\ Num \in 0..CmdMax
          /\ kid' = [kid EXCEPT ![<<round, i>>] = "forked"]
          /\ i' = IF i = Num THEN 1 ELSE i + 1
          /\ spc' = IF i < Num THEN "fork" ELSE IF Num = 1 THEN "wait" ELSE "close"
      BY <1>0, <1>5, Current DEF Fork, Forked
    <2>2. \A r \in 1..round : r < round =>
            \A j \in 1..Len(lists[r]) : kid'[<<r, j>>] = kid[<<r, j>>]
      <3> SUFFICES ASSUME NEW r \in 1..round, r < round,
                          NEW j \in 1..Len(lists[r])
                   PROVE  kid'[<<r, j>>] = kid[<<r, j>>]
        OBVIOUS
      <3>1. <<r, j>> \in Kids
        BY <1>0, Lengths DEF Kids
      <3> QED BY <1>0, <2>1, <3>1 DEF TypeOK
    <2>3. \A r \in 1..round : r < round => (Whole(r) => Cleared(r))'
      BY <1>0, <2>1, <2>2, StaysCleared DEF Tidy
    <2>4. spc' \notin {"prompt", "exited"}
      BY <2>1
    <2>5. ASSUME spc' = "wait"
          PROVE  PipesOf(round) = {} /\ 1..(i' - 1) = {}
      <3>1. Num = 1 /\ i' = 1
        BY <2>1, <2>5
      <3> QED BY <3>1 DEF PipesOf, Ends, Pipes, Num, clist
    <2>6. PipesOf(round)' = PipesOf(round)
      BY <2>1 DEF PipesOf
    <2> QED BY <2>1, <2>3, <2>4, <2>5, <2>6 DEF Tidy
  <1>6. CASE Close
    <2>1. /\ spc = "close" /\ spc' = "wait"
          /\ shellFds' = shellFds \ PipesOf(round)
          /\ UNCHANGED <<lists, round, i, kid>>
      BY <1>6 DEF Close, kidVars
    <2>2. \A r \in 1..round : r < round => (Whole(r) => Cleared(r))'
      BY <1>0, <2>1, StaysCleared DEF Tidy
    <2>3. PipesOf(round)' \cap shellFds' = {} /\ 1..(i - 1) = {}
      BY <1>0, <2>1 DEF Forking, PipesOf
    <2> QED BY <2>1, <2>2, <2>3 DEF Tidy
  <1>7. CASE Wait
    <2>1. /\ spc = "wait" /\ UNCHANGED <<lists, round, shellFds>>
          /\ i \in 1..Num /\ Num \in 0..CmdMax
          /\ round \in 1..Rounds /\ <<round, i>> \in Kids
          /\ kid[<<round, i>>] = "dead"
          /\ kid' = [kid EXCEPT ![<<round, i>>] = "reaped"]
          /\ \/ i < Num /\ i' = i + 1 /\ spc' = spc
             \/ i = Num /\ spc' = "prompt" /\ i' = i
      BY <1>0, <1>7, Current DEF Wait
    <2>2. \A k \in Kids :
            kid'[k] = IF k = <<round, i>> THEN "reaped" ELSE kid[k]
      BY <1>0, <2>1 DEF TypeOK
    <2>3. \A r \in 1..round : r < round =>
            \A j \in 1..Len(lists[r]) : kid'[<<r, j>>] = kid[<<r, j>>]
      <3> SUFFICES ASSUME NEW r \in 1..round, r < round,
                          NEW j \in 1..Len(lists[r])
                   PROVE  kid'[<<r, j>>] = kid[<<r, j>>]
        OBVIOUS
      <3>1. <<r, j>> \in Kids
        BY <1>0, Lengths DEF Kids
      <3> QED BY <1>0, <2>2, <3>1
    <2>4. \A r \in 1..round : r < round => (Whole(r) => Cleared(r))'
      BY <1>0, <2>1, <2>3, StaysCleared DEF Tidy
    <2>5. PipesOf(round)' \cap shellFds' = {}
      BY <2>1 DEF Tidy, PipesOf
    <2>6. \A j \in 1..i : kid'[<<round, j>>] = "reaped"
      <3> SUFFICES ASSUME NEW j \in 1..i PROVE kid'[<<round, j>>] = "reaped"
        OBVIOUS
      <3>1. <<round, j>> \in Kids
        BY <2>1 DEF Kids
      <3>2. j = i \/ j \in 1..(i - 1)
        BY <2>1
      <3> QED BY <2>1, <2>2, <3>1, <3>2 DEF Tidy
    <2>7. CASE i < Num
      <3>1. 1..(i' - 1) = 1..i /\ spc' = "wait"
        BY <2>1, <2>7
      <3> QED BY <2>1, <2>4, <2>5, <2>6, <3>1 DEF Tidy
    <2>8. CASE i = Num
      <3>1. Cleared(round)'
        BY <2>1, <2>5, <2>6, <2>8 DEF Cleared, Num, clist
      <3>2. \A r \in 1..round : r < round \/ r = round
        BY <1>0
      <3>3. spc' = "prompt" /\ round' = round
        BY <2>1, <2>8
      <3> QED BY <2>4, <3>1, <3>2, <3>3 DEF Tidy
    <2> QED BY <2>1, <2>7, <2>8
  <1>8. ASSUME NEW c \in Kids, KidStep(c) \/ Kill(c) PROVE Tidy'
    <2>1. /\ kid[c] \in {"forked", "run"}
          /\ UNCHANGED <<spc, lists, round, i, shellFds>>
      BY <1>8 DEF KidStep, Kill, Exec, Read, Write, Exit, Ended, shellVars
    <2>2. \/ UNCHANGED kid
          \/ \E s \in {"run", "dead"} : kid' = [kid EXCEPT ![c] = s]
      BY <1>8 DEF KidStep, Kill, Exec, Read, Write, Exit, Ended
    <2>3. \A k \in Kids :
            kid'[k] = kid[k] \/ kid[k] \notin {"none", "reaped"}
      BY <1>0, <2>1, <2>2 DEF TypeOK
    <2>4. \A r \in 1..round : \A j \in 1..Len(lists[r]) : <<r, j>> \in Kids
      BY <1>0, Lengths DEF Kids
    <2>5. \A r \in 1..round : \A j \in 1..Len(lists[r]) :
            \/ kid'[<<r, j>>] = kid[<<r, j>>]
            \/ kid[<<r, j>>] \notin {"none", "reaped"}
      BY <2>3, <2>4
    <2>6. \A r \in 1..round :
            (Whole(r) => Cleared(r)) => (Whole(r) => Cleared(r))'
      BY <1>0, <2>1, <2>5, StaysCleared
    <2>7. PipesOf(round)' = PipesOf(round)
      BY <2>1 DEF PipesOf
    <2>8. spc = "wait" => \A j \in 1..(i - 1) : <<round, j>> \in Kids
      <3> SUFFICES ASSUME spc = "wait", NEW j \in 1..(i - 1)
                   PROVE  <<round, j>> \in Kids
        OBVIOUS
      <3> QED BY <1>0, Current DEF Kids
    <2>9. spc = "wait" => \A j \in 1..(i - 1) : kid'[<<round, j>>] = "reaped"
      BY <2>3, <2>8 DEF Tidy
    <2> QED BY <2>1, <2>6, <2>7, <2>9 DEF Tidy
  <1>9. CASE UNCHANGED vars
    BY <1>9 DEF vars, Tidy, PipesOf, Whole, Cleared
  <1> QED BY <1>1, <1>2, <1>3, <1>4, <1>5, <1>6, <1>7, <1>8, <1>9
        DEF Next, ShellStep

\* The prompt comes back with every child of a pipeline reaped and its pipes
\* closed, unless its own pipe() or fork() failed.
THEOREM PromptIsClean == Spec => []CleanPrompt
  <1>1. Init => Base /\ Tidy
    <2>1. Init => Tidy
      BY SizesAssumption DEF Init, Tidy
    <2> QED BY <2>1, InitBase
  <1>2. Base /\ Tidy /\ [Next]_vars => (Base /\ Tidy)'
    BY NextType, NextForking, NextCoded, NextTidy DEF Base
  <1>3. Tidy => CleanPrompt
    BY DEF Tidy, CleanPrompt
  <1> QED BY <1>1, <1>2, <1>3, PTL DEF Spec

-----------------------------------------------------------------------------
(* Who may see end-of-file or SIGPIPE, whatever fails.                     *)

\* The part of Holding about one child.
HoldingOf(k) ==
  /\ \A e \in kidFds[k] : e \in PipesOf(e[1][1]) /\ e[1][1] <= round
  /\ kid[k] = "forked" => PipesOf(k[1]) \subseteq kidFds[k]
  /\ kid[k] = "run" => StdEnds(k) \subseteq kidFds[k]
  /\ /\ kid[k] = "none"
     /\ k[2] > 1 /\ k[2] <= Len(lists[k[1]])
     /\ kid[<<k[1], k[2] - 1>>] # "none"
     => PipesOf(k[1]) \subseteq shellFds \/ spc = "exited"

HoldingShell ==
  \A e \in shellFds : e \in PipesOf(e[1][1]) /\ e[1][1] <= round

LEMMA HoldingParts ==
  Holding <=> HoldingShell /\ \A k \in Kids : HoldingOf(k)
  BY DEF Holding, HoldingShell, HoldingOf

LEMMA StdEndsOfRound ==
  ASSUME Base, NEW k \in Kids, k[2] <= Len(lists[k[1]])
  PROVE  StdEnds(k) \subseteq PipesOf(k[1])
  <1>1. k[1] \in 1..Rounds /\ k[2] \in 1..CmdMax
    BY DEF Kids
  <1>2. Len(lists[k[1]]) \in 0..CmdMax
    BY <1>1, Lengths DEF Base
  <1> QED BY <1>1, <1>2, SizesAssumption
        DEF StdEnds, StdIn, StdOut, PipesOf, Ends, Pipes

LEMMA NextHolding == Base /\ Holding /\ [Next]_vars => Holding'
  <1> SUFFICES ASSUME Base, Holding, [Next]_vars PROVE Holding'
    OBVIOUS
  <1>0. /\ TypeOK /\ Forking
        /\ HoldingShell /\ \A k \in Kids : HoldingOf(k)
    BY HoldingParts DEF Base
  <1> USE SizesAssumption
  <1>a. \A k \in Kids : k[2] > 1 => <<k[1], k[2] - 1>> \in Kids
    BY DEF Kids
  <1>b. ASSUME HoldingShell', \A k \in Kids : HoldingOf(k)' PROVE Holding'
    BY <1>b DEF Holding, HoldingShell, HoldingOf
  <1>1. CASE Type
    <2>1. PICK l \in Lines :
            \/ BuiltIn(l) /\ UNCHANGED <<lists, round, i>>
            \/ /\ round < Rounds
               /\ round' = round + 1
               /\ lists' = [lists EXCEPT ![round + 1] = l]
               /\ spc' = IF Len(l) = 1 THEN "fork" ELSE "pipe"
               /\ UNCHANGED <<rc, shellFds>>
      BY <1>1 DEF Type
    <2>2. spc = "prompt" /\ UNCHANGED <<kid, kidFds>>
      BY <1>1 DEF Type, kidVars
    <2>3. CASE BuiltIn(l) /\ UNCHANGED <<lists, round, i>>
      <3>1. \/ spc' = "exited" /\ shellFds' = {}
            \/ UNCHANGED <<spc, shellFds>>
        BY <2>3 DEF BuiltIn
      <3>2. \A r : PipesOf(r)' = PipesOf(r)
        BY <2>3 DEF PipesOf
      <3>3. HoldingShell'
        BY <1>0, <2>3, <3>1, <3>2 DEF HoldingShell
      <3>4. \A k \in Kids : HoldingOf(k)'
        BY <1>0, <2>2, <2>3, <3>1, <3>2 DEF HoldingOf, StdEnds
      <3> QED BY <3>3, <3>4, <1>b
    <2>4. CASE /\ round < Rounds
               /\ round' = round + 1
               /\ lists' = [lists EXCEPT ![round + 1] = l]
               /\ spc' = IF Len(l) = 1 THEN "fork" ELSE "pipe"
               /\ UNCHANGED <<rc, shellFds>>
      <3>1. round \in 0..Rounds /\ lists \in [1..Rounds -> Lines \cup {<<>>}]
        BY <1>0 DEF TypeOK
      <3>2. \A r \in 1..Rounds : r <= round => lists'[r] = lists[r]
        BY <2>4, <3>1
      <3>3. \A r \in 1..Rounds : r <= round => PipesOf(r)' = PipesOf(r)
        BY <3>2 DEF PipesOf
      <3>4. \A e \in Ends : e[1][1] \in 1..Rounds
        BY DEF Ends, Pipes
      <3>5. HoldingShell'
        BY <1>0, <2>4, <3>1, <3>3, <3>4 DEF HoldingShell, TypeOK
      <3>6. ASSUME NEW k \in Kids PROVE HoldingOf(k)'
        <4>1. k[1] \in 1..Rounds /\ HoldingOf(k)
          BY <1>0 DEF Kids
        <4>2. \A e \in kidFds[k] : e \in Ends
          BY <1>0 DEF TypeOK
        <4>3. \A e \in kidFds'[k] : e \in PipesOf(e[1][1])' /\ e[1][1] <= round'
          BY <2>2, <2>4, <3>1, <3>3, <3>4, <4>1, <4>2 DEF HoldingOf
        <4>4. CASE k[1] <= round
          BY <2>2, <2>4, <3>2, <3>3, <4>1, <4>3, <4>4 DEF HoldingOf, StdEnds
        <4>5. CASE k[1] > round
          <5>1. kid[k] = "none"
            BY <1>0, <4>5 DEF Forking
          <5>2. k[2] > 1 => kid[<<k[1], k[2] - 1>>] = "none"
            BY <1>0, <1>a, <4>5 DEF Forking
          <5> QED BY <2>2, <4>3, <5>1, <5>2 DEF HoldingOf
        <4> QED BY <3>1, <4>1, <4>4, <4>5
      <3> QED BY <3>5, <3>6, <1>b
    <2> QED BY <2>1, <2>3, <2>4
  <1>2. CASE Quit
    <2>1. /\ spc' = "exited" /\ shellFds' = {}
          /\ UNCHANGED <<lists, round, kid, kidFds>>
      BY <1>2 DEF Quit, kidVars
    <2>2. \A r : PipesOf(r)' = PipesOf(r)
      BY <2>1 DEF PipesOf
    <2> QED BY <1>0, <1>b, <2>1, <2>2 DEF HoldingOf, HoldingShell, StdEnds
  <1>3. CASE Pipe \/ ForkFails
    <2>1. /\ spc \in {"pipe", "fork"} /\ spc' # "exited"
          /\ UNCHANGED <<lists, round, kid, kidFds>>
          /\ \/ UNCHANGED shellFds
             \/ spc = "pipe" /\ shellFds' = shellFds \cup Both(<<round, i>>)
      BY <1>3 DEF Pipe, ForkFails, kidVars
    <2>2. \A r : PipesOf(r)' = PipesOf(r)
      BY <2>1 DEF PipesOf
    <2>3. spc = "pipe" => \A e \in Both(<<round, i>>) :
                            e \in PipesOf(e[1][1]) /\ e[1][1] <= round
      <3> SUFFICES ASSUME spc = "pipe", NEW e \in Both(<<round, i>>)
                   PROVE  e \in PipesOf(e[1][1]) /\ e[1][1] <= round
        OBVIOUS
      <3>1. /\ round \in 1..Rounds /\ i \in 1..Num /\ i < Num
            /\ Num \in 0..CmdMax
        BY <1>0, Current DEF Forking
      <3> QED BY <3>1 DEF Both, PipesOf, Ends, Pipes, Num, clist
    <2>4. HoldingShell'
      BY <1>0, <2>1, <2>2, <2>3 DEF HoldingShell
    <2>5. \A k \in Kids : HoldingOf(k)'
      BY <1>0, <2>1, <2>2 DEF HoldingOf, StdEnds
    <2> QED BY <1>b, <2>4, <2>5
  <1>5. CASE Fork
    <2>1. /\ spc = "fork" /\ spc' # "exited"
          /\ UNCHANGED <<lists, round, shellFds>>
          /\ <<round, i>> \in Kids
          /\ kid' = [kid EXCEPT ![<<round, i>>] = "forked"]
          /\ kidFds' = [kidFds EXCEPT ![<<round, i>>] = shellFds]
      BY <1>0, <1>5, Current DEF Fork, Forked
    <2>2. \A r : PipesOf(r)' = PipesOf(r)
      BY <2>1 DEF PipesOf
    <2>3. PipesOf(round) \subseteq shellFds
      BY <1>0, <2>1 DEF Forking
    <2>4. HoldingShell'
      BY <1>0, <2>1, <2>2 DEF HoldingShell
    <2>5. ASSUME NEW k \in Kids PROVE HoldingOf(k)'
      <3>1. CASE k = <<round, i>>
        <4>1. kid'[k] = "forked" /\ kidFds'[k] = shellFds
          BY <1>0, <2>1, <3>1 DEF TypeOK
        <4> QED BY <1>0, <2>1, <2>2, <2>3, <3>1, <4>1 DEF HoldingOf, HoldingShell
      <3>2. CASE k # <<round, i>>
        <4>1. kid'[k] = kid[k] /\ kidFds'[k] = kidFds[k] /\ HoldingOf(k)
          BY <1>0, <2>1, <3>2 DEF TypeOK
        <4>2. CASE k[1] = round
          BY <2>1, <2>2, <2>3, <4>1, <4>2 DEF HoldingOf, StdEnds
        <4>3. CASE k[1] # round
          <5>1. kid'[<<k[1], k[2] - 1>>] = kid[<<k[1], k[2] - 1>>] \/ ~(k[2] > 1)
            BY <1>0, <1>a, <2>1, <4>3 DEF TypeOK
          <5> QED BY <2>1, <2>2, <4>1, <5>1 DEF HoldingOf, StdEnds
        <4> QED BY <4>2, <4>3
      <3> QED BY <3>1, <3>2
    <2> QED BY <1>b, <2>4, <2>5
  <1>6. CASE Close
    <2>1. /\ spc = "close" /\ spc' = "wait"
          /\ shellFds' = shellFds \ PipesOf(round)
          /\ UNCHANGED <<lists, round, i, kid, kidFds>>
      BY <1>6 DEF Close, kidVars
    <2>2. \A r : PipesOf(r)' = PipesOf(r)
      BY <2>1 DEF PipesOf
    <2>3. HoldingShell'
      BY <1>0, <2>1, <2>2 DEF HoldingShell
    <2>4. ASSUME NEW k \in Kids PROVE HoldingOf(k)'
      <3>1. CASE k[1] = round
        <4>1. kid[k] = "none" => ~(k[2] <= Len(lists[k[1]]))
          <5>1. k = <<round, k[2]>> /\ k[2] \in 1..CmdMax /\ Num \in 0..CmdMax
            BY <1>0, <2>1, <3>1, Current DEF Kids
          <5>2. \A j \in 1..Num : kid[<<round, j>>] # "none"
            BY <1>0, <2>1 DEF Forking
          <5> QED BY <3>1, <5>1, <5>2 DEF Num, clist
        <4> QED BY <1>0, <2>1, <2>2, <4>1 DEF HoldingOf, StdEnds
      <3>2. CASE k[1] # round
        <4>1. PipesOf(k[1]) \cap PipesOf(round) = {}
          BY <3>2 DEF PipesOf
        <4> QED BY <1>0, <2>1, <2>2, <4>1 DEF HoldingOf, StdEnds
      <3> QED BY <3>1, <3>2
    <2> QED BY <1>b, <2>3, <2>4
  <1>7. CASE Wait
    <2>1. /\ UNCHANGED <<lists, round, shellFds, kidFds>>
          /\ spc # "exited"
          /\ kid[<<round, i>>] = "dead" /\ <<round, i>> \in Kids
          /\ kid' = [kid EXCEPT ![<<round, i>>] = "reaped"]
      BY <1>0, <1>7, Current DEF Wait
    <2>2. \A r : PipesOf(r)' = PipesOf(r)
      BY <2>1 DEF PipesOf
    <2>3. \A k \in Kids :
            /\ kid'[k] = "none" <=> kid[k] = "none"
            /\ kid'[k] \in {"forked", "run"} => kid'[k] = kid[k]
      BY <1>0, <2>1 DEF TypeOK
    <2> QED BY <1>0, <1>a, <1>b, <2>1, <2>2, <2>3
          DEF HoldingOf, HoldingShell, StdEnds
  <1>8. ASSUME NEW c \in Kids, KidStep(c) \/ Kill(c) PROVE Holding'
    <2>1. kid[c] # "none" /\ UNCHANGED <<spc, lists, round, shellFds>>
      BY <1>8 DEF KidStep, Kill, Exec, Read, Write, Exit, Ended, shellVars
    <2>2. \A r : PipesOf(r)' = PipesOf(r)
      BY <2>1 DEF PipesOf
    <2>3. \/ UNCHANGED <<kid, kidFds>>
          \/ /\ kid' = [kid EXCEPT ![c] = "dead"]
             /\ kidFds' = [kidFds EXCEPT ![c] = {}]
          \/ /\ kid' = [kid EXCEPT ![c] = "run"]
             /\ kidFds' = [kidFds EXCEPT ![c] =
                             (@ \ PipesOf(c[1])) \cup StdEnds(c)]
      BY <1>8 DEF KidStep, Kill, Exec, Read, Write, Exit, Ended
    <2>4. \A k \in Kids :
            /\ kid'[k] = "none" <=> kid[k] = "none"
            /\ k # c => kid'[k] = kid[k] /\ kidFds'[k] = kidFds[k]
      BY <1>0, <2>1, <2>3 DEF TypeOK
    <2>5. \A k \in Kids : k # c => HoldingOf(k)'
      BY <1>0, <1>a, <2>1, <2>2, <2>4 DEF HoldingOf, StdEnds
    <2>6. HoldingOf(c)'
      <3>1. CASE UNCHANGED <<kid, kidFds>>
        BY <1>0, <2>1, <2>2, <3>1 DEF HoldingOf, StdEnds
      <3>2. CASE kid'[c] = "dead" /\ kidFds'[c] = {}
        BY <3>2 DEF HoldingOf
      <3>3. CASE /\ kid'[c] = "run"
                 /\ kidFds'[c] = (kidFds[c] \ PipesOf(c[1])) \cup StdEnds(c)
        <4>1. StdEnds(c)' = StdEnds(c)
          BY <2>1 DEF StdEnds
        <4>2. StdEnds(c) \subseteq PipesOf(c[1])
          BY <1>0, <2>1, StdEndsOfRound DEF Forking
        <4>3. c[1] <= round /\ \A e \in PipesOf(c[1]) : e[1][1] = c[1]
          <5>1. c[1] \in Nat /\ round \in Nat
            BY <1>0 DEF Kids, TypeOK
          <5>2. ~(c[1] > round)
            BY <1>0, <2>1 DEF Forking
          <5> QED BY <5>1, <5>2 DEF PipesOf
        <4> QED BY <1>0, <2>1, <2>2, <3>3, <4>1, <4>2, <4>3 DEF HoldingOf
      <3> QED BY <1>0, <2>3, <3>1, <3>2, <3>3 DEF TypeOK
    <2>7. HoldingShell'
      BY <1>0, <2>1, <2>2 DEF HoldingShell
    <2> QED BY <1>b, <2>5, <2>6, <2>7
  <1>9. CASE UNCHANGED vars
    BY <1>0, <1>9, <1>b DEF vars, HoldingOf, HoldingShell, StdEnds, PipesOf
  <1> QED BY <1>1, <1>2, <1>3, <1>5, <1>6, <1>7, <1>8, <1>9
        DEF Next, ShellStep

\* A child that is neither over nor unborn holds its ends.
LEMMA AliveHolds ==
  ASSUME Base, Holding, NEW k \in Kids, kid[k] # "none", ~Over(k)
  PROVE  StdEnds(k) \subseteq kidFds[k]
  <1>1. kid[k] \in {"forked", "run"}
    BY DEF Base, TypeOK, Over
  <1>2. StdEnds(k) \subseteq PipesOf(k[1])
    BY StdEndsOfRound DEF Base, Forking
  <1> QED BY <1>1, <1>2 DEF Holding

LEMMA Connected == Base /\ Holding => StagesConnected
  <1> SUFFICES ASSUME Base, Holding, NEW k \in Kids, kid[k] = "run"
               PROVE  /\ FromPipe(k) /\ AtEof(k) => Over(<<k[1], k[2] - 1>>)
                      /\ Broken(k) => \/ Over(<<k[1], k[2] + 1>>)
                                      \/ spc = "exited"
    BY DEF StagesConnected
  <1>0. /\ k[1] \in 1..Rounds /\ k[2] \in 1..CmdMax
        /\ k[2] <= Len(lists[k[1]]) /\ Len(lists[k[1]]) \in 0..CmdMax
    BY Lengths DEF Base, Forking, Kids
  <1>1. ASSUME FromPipe(k), AtEof(k) PROVE Over(<<k[1], k[2] - 1>>)
    <2> DEFINE p == <<k[1], k[2] - 1>>
    <2>1. p \in Kids /\ k[2] > 1
      <3>1. StdIn(k) \in Ends
        BY <1>1 DEF FromPipe, Base, TypeOK
      <3> QED BY <1>0, <3>1, SizesAssumption DEF StdIn, Ends, Pipes, Kids
    <2>2. kid[p] # "none"
      BY <2>1 DEF Base, Forking
    <2>3. StdOut(p) \in StdEnds(p) /\ StdOut(p) = <<StdIn(k)[1], "w">>
      BY <1>0, <2>1 DEF StdEnds, StdOut, StdIn
    <2>4. ~Held(StdOut(p))
      BY <1>1, <2>3 DEF AtEof
    <2> HIDE DEF p
    <2>5. Over(p)
      BY <2>1, <2>2, <2>3, <2>4, AliveHolds DEF Held
    <2> QED BY <2>5 DEF p
  <1>2. ASSUME Broken(k) PROVE Over(<<k[1], k[2] + 1>>) \/ spc = "exited"
    <2> DEFINE s == <<k[1], k[2] + 1>>
    <2>1. k[2] < Len(lists[k[1]]) /\ StdOut(k) \in Ends
      <3>1. StdOut(k) \in kidFds[k]
        BY <1>2 DEF Broken, ToPipe
      <3>2. StdOut(k) \in PipesOf(k[1])
        BY <3>1 DEF Holding, StdOut
      <3> QED BY <3>2 DEF PipesOf, StdOut
    <2>2. s \in Kids /\ s[1] = k[1] /\ s[2] = k[2] + 1 /\ s[2] - 1 = k[2]
      BY <1>0, <2>1, SizesAssumption DEF Kids
    <2>3. StdIn(s) \in StdEnds(s) /\ StdIn(s) = <<StdOut(k)[1], "r">>
      BY <1>0 DEF StdEnds, StdOut, StdIn
    <2>4. ~Held(StdIn(s))
      BY <1>2, <2>3 DEF Broken
    <2>5. StdIn(s) \in PipesOf(s[1])
      BY <2>1, <2>2, <2>3 DEF PipesOf, StdOut, Ends
    <2>6. <<s[1], s[2] - 1>> = k
      BY <2>2 DEF Kids
    <2> HIDE DEF s
    <2>7. kid[s] = "none" => spc = "exited"
      BY <1>0, <2>1, <2>2, <2>4, <2>5, <2>6 DEF Holding, Held
    <2>8. Over(s) \/ spc = "exited"
      BY <2>2, <2>3, <2>4, <2>7, AliveHolds DEF Held
    <2> QED BY <2>8 DEF s
  <1> QED BY <1>1, <1>2

\* Whatever fails and however many descriptors earlier failures left open, a
\* stage sees end-of-file only when the one before it is over, and SIGPIPE
\* only when the one after it is, or the shell left without forking it.
THEOREM StagesStayConnected == Spec => []StagesConnected
  <1>1. Init => Base /\ Holding
    <2>1. Init => Holding
      <3> SUFFICES ASSUME Init PROVE Holding
        OBVIOUS
      <3>1. \A k \in Kids : kid[k] = "none" /\ kidFds[k] = {}
        BY DEF Init
      <3>2. \A k \in Kids : k[2] > 1 => <<k[1], k[2] - 1>> \in Kids
        BY SizesAssumption DEF Kids
      <3>3. shellFds = {}
        BY DEF Init
      <3> QED BY <3>1, <3>2, <3>3 DEF Holding
    <2> QED BY <2>1, InitBase
  <1>2. Base /\ Holding /\ [Next]_vars => (Base /\ Holding)'
    BY NextType, NextForking, NextCoded, NextHolding DEF Base
  <1>3. Base /\ Holding => StagesConnected
    BY Connected
  <1> QED BY <1>1, <1>2, <1>3, PTL DEF Spec
=============================================================================
