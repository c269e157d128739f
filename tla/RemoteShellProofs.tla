-------------------------- MODULE RemoteShellProofs --------------------------
(* Proofs about RemoteShell, for any clients, lines, outputs and sizes. *)
EXTENDS RemoteShell, SequenceTheorems, TLAPS

(***************************************************************************)
(* The sequences the model is made of.                                     *)
(***************************************************************************)

\* What is left of a stream after n of its elements were received.
LEMMA RestProperties ==
  ASSUME NEW S, NEW s \in Seq(S), NEW n \in 0..Len(s)
  PROVE  /\ Rest(s, n) \in Seq(S)
         /\ Len(Rest(s, n)) = Len(s) - n
         /\ \A i \in 1..(Len(s) - n) : Rest(s, n)[i] = s[n + i]
<1>1. /\ Len(s) \in Nat
      /\ \A i \in 1..Len(s) : s[i] \in S
  BY LenProperties, ElementOfSeq
<1>2. \A i \in (n + 1)..Len(s) : s[i] \in S
  BY <1>1
<1>3. n + 1 \in Int /\ Len(s) \in Int
  BY <1>1
<1> QED
  BY <1>1, <1>2, <1>3, SubSeqProperties DEF Rest

\* A recv() of the server returns a non-empty prefix of what has arrived.
LEMMA RecvLensProperties ==
  ASSUME NEW S, NEW s \in Seq(S), NEW n \in RecvLens(s)
  PROVE  n \in 1..Len(s)
<1>1. Len(s) \in Nat
  BY LenProperties
<1> QED
  BY <1>1, SizesAssumption DEF RecvLens

(***************************************************************************)
(* Type correctness.                                                       *)
(***************************************************************************)

LEMMA InitType == Init => TypeOK
<1> SUFFICES ASSUME Init PROVE TypeOK
  OBVIOUS
<1>1. <<>> \in Seq(Clients) /\ <<>> \in Seq(Piece) /\ <<>> \in Seq(OutPiece)
  BY EmptySeq
<1>2. /\ up \in [Clients -> Seq(Piece)]
      /\ down \in [Clients -> Seq(OutPiece)]
      /\ backlog \in Seq(Clients)
      /\ line \in [Clients -> Lines \cup {<<>>}]
  BY <1>1 DEF Init
<1> QED
  BY <1>2 DEF Init, TypeOK, SrvPc

LEMMA LastProcessEndsType ==
  ASSUME TypeOK, LastProcessEnds
  PROVE  /\ spc' \in SrvPc
         /\ cur' \in Clients \cup {NoClient}
         /\ backlog' \in Seq(Clients)
         /\ srvEnd' \in [Clients -> {"none", "open", "closed"}]
  BY DEF LastProcessEnds, TypeOK, SrvPc

\* The client being served is a client wherever the server uses it.
LEMMA SendType ==
  ASSUME TypeOK, cur \in Clients,
         NEW piece \in OutPiece, NEW next \in SrvPc, Send(piece, next)
  PROVE  TypeOK'
<1>1. CASE cliEnd[cur] = "open" /\ down' = [down EXCEPT ![cur] = Append(@, piece)]
             /\ spc' = next /\ UNCHANGED <<cliEnd, srvEnd, backlog, cur>>
  BY <1>1 DEF TypeOK, Send, cliVars
<1>2. CASE /\ \E end \in {"fin", "rst"} : cliEnd' = [cliEnd EXCEPT ![cur] = end]
           /\ spc' = next
           /\ UNCHANGED <<down, srvEnd, backlog, cur>>
  BY <1>2 DEF TypeOK, Send, cliVars
<1>3. CASE spc' = next /\ UNCHANGED <<down, cliEnd, srvEnd, backlog, cur>>
  BY <1>3 DEF TypeOK, Send, cliVars
<1>4. CASE LastProcessEnds /\ UNCHANGED <<down, cliEnd>>
  BY <1>4, LastProcessEndsType DEF TypeOK, Send, cliVars
<1> QED
  BY <1>1, <1>2, <1>3, <1>4 DEF Send

LEMMA LeaveType ==
  ASSUME TypeOK, NEW c \in Clients, NEW unread,
         NEW rc \in {"OK", "ERR_RDSH_COMMUNICATION", "killed"},
         Leave(c, rc, unread)
  PROVE  /\ cpc' \in [Clients -> {"start", "prompt", "wait", "done"}]
         /\ crc' \in [Clients -> {"none", "OK", "ERR_RDSH_CLIENT",
                                  "ERR_RDSH_COMMUNICATION", "killed"}]
         /\ cliEnd' \in [Clients -> {"open", "fin", "rst"}]
         /\ down' \in [Clients -> Seq(OutPiece)]
  BY DEF Leave, TypeOK

\* The server uses cur only in a session, and has one exactly then.
LEMMA ServerStepType ==
  ASSUME TypeOK, Serving <=> cur # NoClient,
         ServerStep \/ ServerFault
  PROVE  TypeOK'
<1>0. Serving => cur \in Clients
  BY DEF TypeOK
<1>1. CASE BootServer \/ AcceptFails \/ RecvEnd \/ RecvFails
  BY <1>1 DEF BootServer, AcceptFails, RecvEnd, RecvFails, TypeOK, SrvPc, cliVars, netVars
<1>2. CASE Accept \/ AcceptNoBuffer
  <2>1. cur' = Head(backlog) /\ backlog' = Tail(backlog) /\ backlog # <<>>
    BY <1>2 DEF Accept, AcceptNoBuffer
  <2>2. cur' \in Clients \cup {NoClient} /\ backlog' \in Seq(Clients)
    BY <2>1, HeadTailProperties DEF TypeOK
  <2> QED
    BY <1>2, <2>2 DEF Accept, AcceptNoBuffer, TypeOK, SrvPc, cliVars, netVars
<1>3. CASE RecvCommand
  <2>1. cur \in Clients /\ up[cur] \in Seq(Piece)
    BY <1>0, <1>3 DEF RecvCommand, Serving, TypeOK
  <2>2. PICK n \in RecvLens(up[cur]) : RecvCommand!2!(n)
    BY <1>3 DEF RecvCommand
  <2>3. Rest(up[cur], n) \in Seq(Piece)
    BY <2>1, RecvLensProperties, RestProperties, LenProperties
  <2>4. up' \in [Clients -> Seq(Piece)]
    BY <2>1, <2>2, <2>3 DEF TypeOK
  <2>5. bi' \in {"unasked", "BI_NOT_BI", "BI_CMD_RC", "BI_EXECUTED"}
        /\ reads' \in BOOLEAN
    BY <2>2 DEF BuiltIn, ReadsSocket, TypeOK
  <2>6. cwd' \in Clients \cup {NoClient}
    BY <2>1, <2>2 DEF TypeOK
  <2>7. ran' \in [Clients -> Nat]
    BY <2>1, <2>2 DEF TypeOK
  <2>8. /\ spc' \in SrvPc
        /\ srvRc' \in {"OK", "OK_EXIT", "ERR_RDSH_COMMUNICATION", "ERR_RDSH_SERVER"}
    BY <2>2 DEF TypeOK, SrvPc
  <2> QED
    BY <1>3, <2>4, <2>5, <2>6, <2>7, <2>8 DEF RecvCommand, TypeOK, cliVars
<1>4. CASE ChildReads
  BY <1>0, <1>4 DEF ChildReads, Serving, TypeOK, cliVars, srvVars
<1>5. CASE PipelineDone
  <2>1. cur \in Clients
    BY <1>0, <1>5 DEF PipelineDone, Serving
  <2>2. \A out \in Outputs : down[cur] \o out \in Seq(OutPiece)
    BY <2>1, OutputsAssumption, ConcatProperties DEF TypeOK
  <2>3. down' \in [Clients -> Seq(OutPiece)]
    BY <1>5, <2>1, <2>2 DEF PipelineDone, TypeOK
  <2>4. cliEnd' \in [Clients -> {"open", "fin", "rst"}]
    BY <1>5, <2>1 DEF PipelineDone, TypeOK
  <2> QED
    BY <1>5, <2>3, <2>4 DEF PipelineDone, TypeOK, SrvPc, cliVars
<1>6. CASE SendRc \/ SendEof \/ SendLimit
  <2>1. cur \in Clients
    BY <1>0, <1>6 DEF SendRc, SendEof, SendLimit, Serving
  <2> QED
    BY <1>6, <2>1, SendType
    DEF SendRc, SendEof, SendLimit, OutPiece, EOF, SrvPc
<1>7. CASE CloseClient
  BY <1>0, <1>7 DEF CloseClient, Serving, TypeOK, SrvPc, cliVars
<1>8. CASE StopServer
  BY <1>8 DEF StopServer, TypeOK, SrvPc, cliVars
<1>9. CASE PipelineFails
  <2>1. CASE LastProcessEnds
    BY <1>9, <2>1, LastProcessEndsType DEF PipelineFails, TypeOK, cliVars
  <2>2. CASE spc' = "orphans" /\ UNCHANGED <<cur, backlog, srvEnd>>
    BY <1>9, <2>2 DEF PipelineFails, TypeOK, SrvPc, cliVars
  <2> QED
    BY <1>9, <2>1, <2>2 DEF PipelineFails
<1>10. CASE OrphanReads \/ OrphansEnd
  <2>1. up' \in [Clients -> Seq(Piece)]
    <3>1. CASE OrphanReads
      BY <1>0, <3>1 DEF OrphanReads, Serving, TypeOK
    <3>2. CASE OrphansEnd
      BY <3>2 DEF OrphansEnd, TypeOK
    <3> QED
      BY <1>10, <3>1, <3>2
  <2>2. CASE LastProcessEnds
    BY <1>10, <2>1, <2>2, LastProcessEndsType
    DEF OrphanReads, OrphansEnd, TypeOK, cliVars
  <2>3. CASE UNCHANGED <<spc, cur, backlog, srvEnd>>
    BY <1>10, <2>1, <2>3 DEF OrphanReads, OrphansEnd, TypeOK, cliVars
  <2> QED
    BY <1>10, <2>2, <2>3 DEF OrphanReads, OrphansEnd
<1> QED
  BY <1>1, <1>2, <1>3, <1>4, <1>5, <1>6, <1>7, <1>8, <1>9, <1>10
  DEF ServerStep, ServerFault

LEMMA ClientStepType ==
  ASSUME TypeOK, NEW c \in Clients, ClientStep(c) \/ UserStep(c) \/ Kill(c)
  PROVE  TypeOK'
<1>1. CASE Connect(c)
  <2>1. Append(backlog, c) \in Seq(Clients)
    BY AppendProperties DEF TypeOK
  <2> QED
    BY <1>1, <2>1 DEF Connect, TypeOK
<1>2. CASE ConnectFails(c)
  BY <1>2 DEF ConnectFails, TypeOK, srvVars, netVars
<1>3. CASE TypeLine(c)
  <2>1. PICK l \in Lines : TypeLine(c)!3!(l)
    BY <1>3 DEF TypeLine
  <2>2. up[c] \o l \in Seq(Piece)
    BY LinesAssumption, ConcatProperties DEF TypeOK
  <2>3. /\ up' \in [Clients -> Seq(Piece)]
        /\ cpc' \in [Clients -> {"start", "prompt", "wait", "done"}]
        /\ crc' \in [Clients -> {"none", "OK", "ERR_RDSH_CLIENT",
                                 "ERR_RDSH_COMMUNICATION", "killed"}]
        /\ cliEnd' \in [Clients -> {"open", "fin", "rst"}]
        /\ down' \in [Clients -> Seq(OutPiece)]
    <3>1. CASE UNCHANGED <<crc, down, cliEnd>> /\ cpc' = [cpc EXCEPT ![c] = "wait"]
               /\ up' = IF srvEnd[c] = "open" THEN [up EXCEPT ![c] = @ \o l] ELSE up
      BY <2>2, <3>1 DEF TypeOK
    <3>2. CASE Leave(c, "ERR_RDSH_COMMUNICATION", down[c]) /\ UNCHANGED up
      BY <3>2, LeaveType DEF TypeOK
    <3> QED
      BY <2>1, <3>1, <3>2
  <2>4. /\ line' \in [Clients -> Lines \cup {<<>>}]
        /\ typed' \in [Clients -> Nat]
    BY <2>1 DEF TypeOK
  <2>5. UNCHANGED <<spc, cur, srvRc, bi, reads, cwd, backlog, srvEnd, ran>>
    BY <1>3 DEF TypeLine, srvVars
  <2> QED
    BY <2>3, <2>4, <2>5 DEF TypeOK
<1>4. CASE RecvReply(c)
  <2>1. PICK n \in 1..Len(down[c]) : RecvReply(c)!2!(n)
    BY <1>4 DEF RecvReply
  <2>2. Rest(down[c], n) \in Seq(OutPiece)
    BY RestProperties, LenProperties DEF TypeOK
  <2>3. /\ cpc' \in [Clients -> {"start", "prompt", "wait", "done"}]
        /\ crc' \in [Clients -> {"none", "OK", "ERR_RDSH_CLIENT",
                                 "ERR_RDSH_COMMUNICATION", "killed"}]
        /\ cliEnd' \in [Clients -> {"open", "fin", "rst"}]
        /\ down' \in [Clients -> Seq(OutPiece)]
    <3>1. CASE Leave(c, "OK", Rest(down[c], n))
      BY <3>1, LeaveType
    <3>2. CASE /\ down' = [down EXCEPT ![c] = Rest(down[c], n)]
               /\ cpc' = cpc \/ cpc' = [cpc EXCEPT ![c] = "prompt"]
               /\ UNCHANGED <<crc, cliEnd>>
      <4>1. cpc' \in [Clients -> {"start", "prompt", "wait", "done"}]
        BY <3>2 DEF TypeOK
      <4>2. down' \in [Clients -> Seq(OutPiece)]
        BY <2>2, <3>2 DEF TypeOK
      <4> QED
        BY <3>2, <4>1, <4>2 DEF TypeOK
    <3> QED
      BY <2>1, <3>1, <3>2
  <2> QED
    BY <1>4, <2>3 DEF RecvReply, TypeOK, srvVars
<1>5. CASE Quit(c) \/ RecvNothing(c) \/ Kill(c)
  <2>1. PICK rc \in {"OK", "ERR_RDSH_COMMUNICATION", "killed"},
             unread \in {down[c], <<>>} : Leave(c, rc, unread)
    BY <1>5 DEF Quit, RecvNothing, Kill
  <2> QED
    BY <1>5, <2>1, LeaveType
    DEF Quit, RecvNothing, Kill, TypeOK, srvVars
<1> QED
  BY <1>1, <1>2, <1>3, <1>4, <1>5 DEF ClientStep, UserStep

(***************************************************************************)
(* Who holds which connection.                                             *)
(***************************************************************************)

LEMMA InitConnections == Init => Connections
  BY ClientsAssumption DEF Init, Connections, OneAtATime, InBacklog, Serving

LEMMA LastProcessEndsConnections ==
  ASSUME TypeOK, Connections, LastProcessEnds,
         UNCHANGED <<cpc, down, cliEnd, ran, typed>>,
         \A c \in Clients : up[c] = <<>> => up'[c] = <<>>
  PROVE  Connections'
  BY ClientsAssumption, SMTT(30) DEF TypeOK, Connections, OneAtATime, InBacklog, Serving, LastProcessEnds

LEMMA ServerConnections ==
  ASSUME TypeOK, Connections, ServerStep \/ ServerFault
  PROVE  Connections'
<1> USE ClientsAssumption
<1>0. Serving => cur \in Clients
  BY DEF TypeOK, Connections
<1>1. CASE BootServer \/ AcceptFails \/ RecvEnd \/ RecvFails
  <2>1. UNCHANGED <<cur, backlog, cpc, typed, up, down, cliEnd, srvEnd, ran>>
    BY <1>1 DEF BootServer, AcceptFails, RecvEnd, RecvFails, cliVars, netVars
  <2>2. Serving' <=> Serving
    BY <1>1 DEF BootServer, AcceptFails, RecvEnd, RecvFails, Serving
  <2>3. spc' \in {"boot", "stopped", "dead"} => spc = "boot"
    BY <1>1 DEF BootServer, AcceptFails, RecvEnd, RecvFails
  <2>4. OneAtATime'
    BY <2>1 DEF Connections, OneAtATime, InBacklog
  <2> QED
    BY <2>1, <2>2, <2>3, <2>4 DEF Connections
<1>2. CASE Accept \/ AcceptNoBuffer
  <2>1. /\ Head(backlog) \in Clients
        /\ Len(backlog) \in Nat \ {0}
        /\ backlog[1] = Head(backlog)
        /\ Len(Tail(backlog)) = Len(backlog) - 1
        /\ \A i \in 1..(Len(backlog) - 1) : Tail(backlog)[i] = backlog[i + 1]
    BY <1>2, HeadTailProperties, EmptySeq DEF Accept, AcceptNoBuffer, TypeOK
  <2>2. \A c \in Clients : InBacklog(c) <=> (cur' = c \/ InBacklog(c)')
    <3>1. TAKE c \in Clients
    <3>2. cur' = backlog[1] /\ backlog' = Tail(backlog)
      BY <1>2, <2>1 DEF Accept, AcceptNoBuffer
    <3>3. ASSUME NEW i \in 1..Len(backlog), backlog[i] = c
          PROVE  cur' = c \/ InBacklog(c)'
      <4>1. CASE i = 1
        BY <3>2, <3>3, <4>1
      <4>2. CASE i # 1
        <5>1. i - 1 \in 1..(Len(backlog) - 1) /\ (i - 1) + 1 = i
          BY <2>1, <4>2
        <5>2. Tail(backlog)[i - 1] = c
          BY <2>1, <3>3, <5>1
        <5> QED
          BY <2>1, <3>2, <5>1, <5>2 DEF InBacklog
      <4> QED
        BY <4>1, <4>2
    <3>4. ASSUME InBacklog(c)'
          PROVE  InBacklog(c)
      <4>1. PICK j \in 1..(Len(backlog) - 1) : Tail(backlog)[j] = c
        BY <2>1, <3>2, <3>4 DEF InBacklog
      <4>2. j + 1 \in 1..Len(backlog) /\ backlog[j + 1] = c
        BY <2>1, <4>1
      <4> QED
        BY <4>2 DEF InBacklog
    <3>5. ASSUME cur' = c
          PROVE  InBacklog(c)
      <4>1. 1 \in 1..Len(backlog)
        BY <2>1
      <4> QED
        BY <3>2, <3>5, <4>1 DEF InBacklog
    <3> QED
      BY <3>3, <3>4, <3>5 DEF InBacklog
  <2>3. \A c \in Clients : cur' = c => ~InBacklog(c)'
    <3>1. cur' = backlog[1] /\ backlog' = Tail(backlog)
      BY <1>2, <2>1 DEF Accept, AcceptNoBuffer
    <3>2. \A i \in 1..(Len(backlog) - 1) : backlog[i + 1] # backlog[1]
      BY <2>1 DEF Connections, OneAtATime
    <3> QED
      BY <2>1, <3>1, <3>2 DEF InBacklog
  <2>4. \A i, j \in 1..Len(backlog') : backlog'[i] = backlog'[j] => i = j
    <3>1. backlog' = Tail(backlog)
      BY <1>2 DEF Accept, AcceptNoBuffer
    <3>2. \A i, j \in 1..Len(backlog) : backlog[i] = backlog[j] => i = j
      BY DEF Connections, OneAtATime
    <3> QED
      BY <2>1, <3>1, <3>2
  <2>5. cur = NoClient
    BY <1>2 DEF Accept, AcceptNoBuffer, Connections, Serving
  <2>6. UNCHANGED <<cpc, typed, up, down, cliEnd, srvEnd, ran>>
    BY <1>2 DEF Accept, AcceptNoBuffer, netVars, cliVars
  <2>7. OneAtATime'
    BY <2>2, <2>3, <2>4, <2>5, <2>6, ClientsAssumption DEF Connections, OneAtATime
  <2>8. spc' \in {"recv", "close"} /\ cur' # NoClient
    BY <1>2, <2>1 DEF Accept, AcceptNoBuffer
  <2> QED
    BY <2>6, <2>7, <2>8 DEF Connections, Serving
<1>3. CASE RecvCommand
  <2>1. cur \in Clients /\ srvEnd[cur] = "open"
    BY <1>0, <1>3 DEF RecvCommand, Serving, Connections, OneAtATime
  <2>2. PICK n \in RecvLens(up[cur]) : RecvCommand!2!(n)
    BY <1>3 DEF RecvCommand
  <2>3. Serving'
    BY <1>3, <2>2 DEF RecvCommand, Serving
  <2>4. \A c \in Clients \ {cur} : ran'[c] = ran[c] /\ up'[c] = up[c]
    BY <2>1, <2>2 DEF TypeOK
  <2>5. UNCHANGED <<cur, backlog, down, srvEnd, cpc, line, typed, crc, cliEnd>>
    BY <1>3 DEF RecvCommand, cliVars
  <2>6. OneAtATime'
    BY <2>1, <2>4, <2>5 DEF Connections, OneAtATime, InBacklog
  <2> QED
    BY <1>3, <2>1, <2>3, <2>4, <2>5, <2>6 DEF Connections, Serving, RecvCommand
<1>4. CASE ChildReads
  BY <1>0, <1>4 DEF ChildReads, Serving, TypeOK, cliVars, srvVars,
              Connections, OneAtATime, InBacklog
<1>5. CASE PipelineDone
  <2>1. cur \in Clients /\ srvEnd[cur] = "open"
    BY <1>0, <1>5 DEF PipelineDone, Serving, Connections, OneAtATime
  <2>2. \A c \in Clients \ {cur} : down'[c] = down[c] /\ cliEnd'[c] = cliEnd[c]
    BY <1>5, <2>1 DEF PipelineDone, TypeOK
  <2>3. cliEnd[cur] = "open" => cliEnd' = cliEnd
    BY <1>5 DEF PipelineDone
  <2>4. OneAtATime'
    BY <1>5, <2>1, <2>2 DEF PipelineDone, Connections, OneAtATime, InBacklog
  <2> QED
    BY <1>5, <2>1, <2>2, <2>3, <2>4 DEF PipelineDone, Connections, Serving, cliVars
<1>6. CASE SendRc \/ SendEof \/ SendLimit
  <2>1. cur \in Clients /\ srvEnd[cur] = "open" /\ Serving
    BY <1>0, <1>6 DEF SendRc, SendEof, SendLimit, Serving, Connections, OneAtATime
  <2>2. PICK piece \in OutPiece, next \in {"sendeof", "recv"} : Send(piece, next)
    BY <1>6 DEF SendRc, SendEof, SendLimit, OutPiece
  <2>3. CASE LastProcessEnds /\ UNCHANGED <<down, cliEnd>>
    BY <2>2, <2>3, LastProcessEndsConnections DEF Send, cliVars
  <2>4. CASE spc' = next /\ UNCHANGED <<srvEnd, backlog, cur>>
    <3>1. \A c \in Clients \ {cur} : down'[c] = down[c] /\ cliEnd'[c] = cliEnd[c]
      BY <2>1, <2>2 DEF Send, TypeOK
    <3>2. cliEnd[cur] = "open" => cliEnd'[cur] = "open"
      BY <2>2 DEF Send
    <3>3. UNCHANGED <<cpc, up, ran, typed>>
      BY <2>2 DEF Send, cliVars
    <3>4. OneAtATime'
      BY <2>1, <2>4, <3>1, <3>3 DEF Connections, OneAtATime, InBacklog
    <3> QED
      BY <2>1, <2>4, <3>1, <3>2, <3>3, <3>4 DEF Connections, Serving
  <2> QED
    BY <2>2, <2>3, <2>4 DEF Send
<1>7. CASE CloseClient
  <2>1. cur \in Clients /\ srvEnd[cur] = "open"
    BY <1>0, <1>7 DEF CloseClient, Serving, Connections, OneAtATime
  <2>2. /\ srvEnd' = [srvEnd EXCEPT ![cur] = "closed"]
        /\ cur' = NoClient /\ spc' \in {"stopping", "accept"}
        /\ UNCHANGED <<backlog, cpc, typed, up, down, cliEnd, ran>>
    BY <1>7 DEF CloseClient, cliVars
  <2>3. OneAtATime'
    <3>1. ASSUME NEW c \in Clients
          PROVE  /\ (srvEnd'[c] = "open" <=> (cur' = c \/ InBacklog(c)'))
                 /\ (cur' = c => ~InBacklog(c)')
                 /\ (InBacklog(c)' => down'[c] = <<>> /\ ran'[c] = 0)
      <4>1. InBacklog(c)' <=> InBacklog(c)
        BY <2>2 DEF InBacklog
      <4>2. cur' # c /\ srvEnd'[c] = (IF c = cur THEN "closed" ELSE srvEnd[c])
        BY <2>2, ClientsAssumption DEF TypeOK
      <4> QED
        BY <2>1, <2>2, <4>1, <4>2 DEF Connections, OneAtATime
    <3> QED
      BY <2>2, <3>1 DEF Connections, OneAtATime
  <2> QED
    BY <2>1, <2>2, <2>3 DEF TypeOK, Connections, Serving
<1>8. CASE StopServer
  <2>1. UNCHANGED <<cur, cpc, typed, up, down, cliEnd, ran>>
    BY <1>8 DEF StopServer, cliVars
  <2>2. spc = "stopping" /\ spc' = "stopped" /\ backlog' = <<>> /\ cur = NoClient
    BY <1>8 DEF StopServer, Connections, Serving
  <2>3. \A c \in Clients : ~InBacklog(c)'
    BY <2>2 DEF InBacklog
  <2>4. \A c \in Clients : srvEnd'[c] # "open" /\ (srvEnd'[c] = "none" => srvEnd[c] = "none")
    BY <1>8, <2>2, ClientsAssumption DEF StopServer, Connections, OneAtATime
  <2>5. OneAtATime'
    BY <2>1, <2>2, <2>3, <2>4 DEF OneAtATime
  <2>6. \A c \in Clients : cpc[c] = "start" => srvEnd'[c] = "none"
    BY <1>8, <2>2 DEF StopServer, Connections, OneAtATime
  <2> QED
    BY <2>1, <2>2, <2>4, <2>5, <2>6 DEF Connections, Serving
<1>9. CASE PipelineFails \/ OrphanReads \/ OrphansEnd
  <2>1. cur \in Clients /\ Serving
    BY <1>0, <1>9 DEF PipelineFails, OrphanReads, OrphansEnd, Serving
  <2>2. /\ UNCHANGED <<cpc, down, cliEnd, ran, typed>>
        /\ \A c \in Clients : up[c] = <<>> => up'[c] = <<>>
    BY <1>9, <2>1 DEF PipelineFails, OrphanReads, OrphansEnd, cliVars, TypeOK
  <2>3. CASE LastProcessEnds
    BY <2>2, <2>3, LastProcessEndsConnections
  <2>4. CASE spc' = "orphans" /\ UNCHANGED <<cur, backlog, srvEnd>>
    <3>1. OneAtATime'
      BY <2>2, <2>4 DEF Connections, OneAtATime, InBacklog
    <3> QED
      BY <2>1, <2>2, <2>4, <3>1 DEF Connections, Serving
  <2> QED
    BY <1>9, <2>3, <2>4 DEF PipelineFails, OrphanReads, OrphansEnd
<1> QED
  BY <1>1, <1>2, <1>3, <1>4, <1>5, <1>6, <1>7, <1>8, <1>9
  DEF ServerStep, ServerFault

\* A client that leaves, or goes on, changes nothing the server holds.
LEMMA ClientKeepsConnections ==
  ASSUME TypeOK, Connections, NEW c \in Clients,
         srvEnd[c] # "none",
         UNCHANGED <<spc, cur, backlog, srvEnd, ran>>,
         \A d \in Clients \ {c} :
            /\ cpc'[d] = cpc[d] /\ up'[d] = up[d] /\ down'[d] = down[d]
            /\ typed'[d] = typed[d] /\ cliEnd'[d] = cliEnd[d],
         cpc'[c] # "start",
         cliEnd'[c] # "open" => cpc'[c] = "done",
         InBacklog(c) => down'[c] = <<>>
  PROVE  Connections'
<1>1. OneAtATime'
  BY DEF Connections, OneAtATime, InBacklog
<1> QED
  BY <1>1 DEF Connections, Serving

LEMMA ClientConnections ==
  ASSUME TypeOK, Connections, NEW c \in Clients,
         ClientStep(c) \/ UserStep(c) \/ Kill(c)
  PROVE  Connections'
<1>1. CASE Connect(c)
  <2>1. /\ Len(backlog) \in Nat
        /\ Len(backlog') = Len(backlog) + 1
        /\ \A i \in 1..Len(backlog) : backlog'[i] = backlog[i]
        /\ backlog'[Len(backlog) + 1] = c
    BY <1>1, AppendProperties, LenProperties DEF Connect, TypeOK
  <2>2. srvEnd[c] = "none" /\ cur # c /\ ~InBacklog(c)
    BY <1>1 DEF Connect, Connections, OneAtATime
  <2>3. \A d \in Clients : InBacklog(d)' <=> (d = c \/ InBacklog(d))
    <3>1. TAKE d \in Clients
    <3>2. ASSUME InBacklog(d)' PROVE d = c \/ InBacklog(d)
      BY <2>1, <3>2 DEF InBacklog
    <3>3. ASSUME d = c \/ InBacklog(d) PROVE InBacklog(d)'
      <4>1. Len(backlog) + 1 \in 1..Len(backlog')
        BY <2>1
      <4>2. 1..Len(backlog) \subseteq 1..Len(backlog')
        BY <2>1
      <4> QED
        BY <2>1, <3>3, <4>1, <4>2 DEF InBacklog
    <3> QED
      BY <3>2, <3>3
  <2>4. \A i, j \in 1..Len(backlog') : backlog'[i] = backlog'[j] => i = j
    <3>1. \A i \in 1..Len(backlog) : backlog[i] # c
      BY <2>2 DEF InBacklog
    <3> QED
      BY <2>1, <3>1 DEF Connections, OneAtATime
  <2>5. /\ UNCHANGED <<spc, cur, typed, up, down, cliEnd, ran>>
        /\ srvEnd' = [srvEnd EXCEPT ![c] = "open"]
        /\ cpc' = [cpc EXCEPT ![c] = "prompt"]
        /\ spc \notin {"boot", "stopped", "dead"}
        /\ cpc[c] = "start"
    BY <1>1 DEF Connect, Listening
  <2>6. OneAtATime'
    BY <2>2, <2>3, <2>4, <2>5 DEF Connections, OneAtATime, TypeOK
  <2> QED
    BY <2>5, <2>6 DEF Connections, Serving, TypeOK
<1>2. CASE ConnectFails(c)
  <2>1. /\ UNCHANGED <<spc, cur, backlog, typed, up, down, cliEnd, srvEnd, ran>>
        /\ cpc' = [cpc EXCEPT ![c] = "done"]
    BY <1>2 DEF ConnectFails, srvVars, netVars
  <2>2. OneAtATime'
    BY <2>1 DEF Connections, OneAtATime, InBacklog
  <2> QED
    BY <2>1, <2>2 DEF Connections, Serving, TypeOK
<1>3. CASE TypeLine(c)
  <2>1. srvEnd[c] # "none"
    BY <1>3 DEF TypeLine, Connections
  <2>2. PICK l \in Lines : TypeLine(c)!3!(l)
    BY <1>3 DEF TypeLine
  <2>3. UNCHANGED <<spc, cur, backlog, srvEnd, ran>>
    BY <1>3 DEF TypeLine, srvVars
  <2>4. CASE UNCHANGED <<crc, down, cliEnd>> /\ cpc' = [cpc EXCEPT ![c] = "wait"]
             /\ up' = IF srvEnd[c] = "open" THEN [up EXCEPT ![c] = @ \o l] ELSE up
    <3>1. cliEnd[c] = "open"
      BY <1>3 DEF TypeLine, Connections, TypeOK
    <3>2. InBacklog(c) => down'[c] = <<>>
      BY <2>4 DEF Connections, OneAtATime
    <3> QED
      BY <2>1, <2>2, <2>3, <2>4, <3>1, <3>2, ClientKeepsConnections DEF TypeOK
  <2>5. CASE Leave(c, "ERR_RDSH_COMMUNICATION", down[c]) /\ UNCHANGED up
    BY <2>1, <2>2, <2>3, <2>5, ClientKeepsConnections DEF Leave, TypeOK
  <2> QED
    BY <2>2, <2>4, <2>5
<1>4. CASE RecvReply(c)
  <2>1. srvEnd[c] # "none"
    BY <1>4 DEF RecvReply, Connections
  <2>2. PICK n \in 1..Len(down[c]) : RecvReply(c)!2!(n)
    BY <1>4 DEF RecvReply
  <2>3. UNCHANGED <<spc, cur, backlog, typed, up, srvEnd, ran>> /\ cpc[c] = "wait"
    BY <1>4 DEF RecvReply, srvVars
  <2>4. ~InBacklog(c)
    <3>1. down[c] # <<>>
      BY <2>2, EmptySeq
    <3> QED
      BY <3>1 DEF Connections, OneAtATime
  <2>5. cliEnd[c] = "open"
    BY <2>3 DEF Connections, TypeOK
  <2>6. CASE UNCHANGED cliEnd /\ down' = [down EXCEPT ![c] = Rest(down[c], n)]
             /\ (UNCHANGED cpc \/ cpc' = [cpc EXCEPT ![c] = "prompt"])
    BY <2>1, <2>3, <2>4, <2>5, <2>6, ClientKeepsConnections DEF TypeOK
  <2>7. CASE Leave(c, "OK", Rest(down[c], n))
    BY <2>1, <2>3, <2>7, ClientKeepsConnections DEF Leave, TypeOK
  <2> QED
    BY <2>2, <2>6, <2>7
<1>5. CASE Quit(c) \/ RecvNothing(c) \/ Kill(c)
  <2>1. PICK rc \in {"OK", "ERR_RDSH_COMMUNICATION", "killed"},
             unread \in {down[c], <<>>} : Leave(c, rc, unread)
    BY <1>5 DEF Quit, RecvNothing, Kill
  <2>2. /\ cpc[c] \in {"prompt", "wait"}
        /\ UNCHANGED <<spc, cur, backlog, typed, up, srvEnd, ran>>
    BY <1>5 DEF Quit, RecvNothing, Kill, srvVars
  <2>3. srvEnd[c] # "none"
    BY <2>2 DEF Connections
  <2> QED
    BY <2>1, <2>2, <2>3, ClientKeepsConnections DEF Leave, TypeOK
<1> QED
  BY <1>1, <1>2, <1>3, <1>4, <1>5 DEF ClientStep, UserStep

(***************************************************************************)
(* The two invariants hold whatever the users type and the network does.   *)
(***************************************************************************)

LEMMA StutterConnections ==
  ASSUME TypeOK, Connections, UNCHANGED vars
  PROVE  TypeOK' /\ Connections'
<1>1. TypeOK'
  BY DEF TypeOK, vars
<1>2. OneAtATime'
  BY DEF Connections, OneAtATime, InBacklog, vars
<1>3. Connections'
  BY <1>2 DEF Connections, Serving, vars
<1> QED
  BY <1>1, <1>3

LEMMA NextConnections ==
  ASSUME TypeOK, Connections, [Next]_vars
  PROVE  TypeOK' /\ Connections'
<1>1. CASE ServerStep \/ ServerFault
  BY <1>1, ServerStepType, ServerConnections DEF Connections
<1>2. ASSUME NEW c \in Clients, UserStep(c) \/ ClientStep(c) \/ Kill(c)
      PROVE  TypeOK' /\ Connections'
  BY <1>2, ClientStepType, ClientConnections
<1>3. CASE UNCHANGED vars
  BY <1>3, StutterConnections
<1> QED
  BY <1>1, <1>2, <1>3 DEF Next

\* Type correctness of the remote shell.
THEOREM TypeCorrect == Spec => []TypeOK
<1>1. Init => TypeOK /\ Connections
  BY InitType, InitConnections
<1>2. TypeOK /\ Connections /\ [Next]_vars => TypeOK' /\ Connections'
  BY NextConnections
<1> QED
  BY <1>1, <1>2, PTL DEF Spec

\* The server holds the connection it serves and those in its queue, each
\* once, and has sent nothing to a client it does not serve yet.
THEOREM ServesOneAtATime == Spec => []OneAtATime
<1>1. Init => TypeOK /\ Connections
  BY InitType, InitConnections
<1>2. TypeOK /\ Connections /\ [Next]_vars => TypeOK' /\ Connections'
  BY NextConnections
<1>3. Connections => OneAtATime
  BY DEF Connections
<1> QED
  BY <1>1, <1>2, <1>3, PTL DEF Spec

\* No connection stays open once the server has stopped, or has died and what it
\* left running has ended: a waiting client is told.
THEOREM GoneServerClosesAll == Spec => []GoneClosesAll
<1>1. Init => TypeOK /\ Connections
  BY InitType, InitConnections
<1>2. TypeOK /\ Connections /\ [Next]_vars => TypeOK' /\ Connections'
  BY NextConnections
<1>3. TypeOK /\ Connections => GoneClosesAll
  BY EmptySeq, ClientsAssumption
  DEF Connections, OneAtATime, InBacklog, Serving, GoneClosesAll
<1> QED
  BY <1>1, <1>2, <1>3, PTL DEF Spec

-----------------------------------------------------------------------------
(***************************************************************************)
(* What the remote shell promises when the traffic is Polite: no client    *)
(* and server wait for each other, a prompt means that the exchange before *)
(* it is over, and every session is a sequence of remote calls.            *)
(***************************************************************************)

(***************************************************************************)
(* Streams with and without the end marker.                                *)
(***************************************************************************)

LEMMA NoEofAppend ==
  ASSUME NEW s \in Seq(OutPiece), NoEof(s), NEW p \in OutPiece
  PROVE  /\ p # EOF => NoEof(Append(s, p))
         /\ p = EOF => Ended(Append(s, p))
<1>1. /\ Append(s, p) # <<>>
      /\ Len(s) \in Nat
      /\ Len(Append(s, p)) = Len(s) + 1
      /\ \A i \in 1..Len(s) : Append(s, p)[i] = s[i]
      /\ Append(s, p)[Len(s) + 1] = p
  BY AppendProperties, LenProperties
<1> QED
  BY <1>1 DEF NoEof, Ended

LEMMA NoEofConcat ==
  ASSUME NEW s \in Seq(OutPiece), NEW t \in Seq(OutPiece), NoEof(s), NoEof(t)
  PROVE  NoEof(s \o t)
<1>1. /\ Len(s) \in Nat /\ Len(t) \in Nat
      /\ Len(s \o t) = Len(s) + Len(t)
      /\ \A i \in 1..(Len(s) + Len(t)) :
           (s \o t)[i] = IF i <= Len(s) THEN s[i] ELSE t[i - Len(s)]
  BY ConcatProperties, LenProperties
<1> QED
  BY <1>1 DEF NoEof

LEMMA NoEofRest ==
  ASSUME NEW s \in Seq(OutPiece), NEW n \in 1..Len(s)
  PROVE  /\ NoEof(s) => NoEof(Rest(s, n)) /\ s[n] # EOF
         /\ Ended(s) /\ s[n] # EOF => Ended(Rest(s, n))
         /\ Ended(s) /\ s[n] = EOF => Rest(s, n) = <<>>
<1>0. Len(s) \in Nat /\ n \in 0..Len(s)
  BY LenProperties
<1>1. /\ Len(s) \in Nat
      /\ Rest(s, n) \in Seq(OutPiece)
      /\ Len(Rest(s, n)) = Len(s) - n
      /\ \A i \in 1..(Len(s) - n) :
           Rest(s, n)[i] = s[n + i] /\ n + i \in 1..Len(s)
  <2>1. /\ Rest(s, n) \in Seq(OutPiece)
        /\ Len(Rest(s, n)) = Len(s) - n
        /\ \A i \in 1..(Len(s) - n) : Rest(s, n)[i] = s[n + i]
    BY <1>0, RestProperties, Zenon
  <2>2. \A i \in 1..(Len(s) - n) : n + i \in 1..Len(s)
    BY <1>0
  <2> QED
    BY <1>0, <2>1, <2>2
<1>2. ASSUME NoEof(s) PROVE NoEof(Rest(s, n)) /\ s[n] # EOF
  BY <1>1, <1>2 DEF NoEof
<1>3. ASSUME Ended(s), s[n] # EOF PROVE Ended(Rest(s, n))
  <2>1. n # Len(s)
    BY <1>3 DEF Ended
  <2>2. Len(Rest(s, n)) > 0 /\ Rest(s, n) # <<>>
    BY <1>1, <2>1, EmptySeq
  <2>3. Rest(s, n)[Len(s) - n] = EOF
    BY <1>1, <1>3, <2>1 DEF Ended
  <2>4. \A i \in 1..(Len(s) - n - 1) : Rest(s, n)[i] # EOF
    BY <1>1, <1>3, SMTT(30) DEF Ended
  <2> QED
    BY <1>1, <2>2, <2>3, <2>4 DEF Ended
<1>4. ASSUME Ended(s), s[n] = EOF PROVE Rest(s, n) = <<>>
  <2>1. n = Len(s)
    BY <1>1, <1>4 DEF Ended
  <2> QED
    BY <1>1, <2>1, EmptySeq
<1> QED
  BY <1>2, <1>3, <1>4

LEMMA EmptyNoEof == NoEof(<<>>) /\ ~Ended(<<>>)
  BY DEF NoEof, Ended

\* A polite line is received whole.
LEMMA PoliteRecv ==
  ASSUME Polite, NEW l \in Lines, NEW n \in RecvLens(l)
  PROVE  n = Len(l) /\ SubSeq(l, 1, n) = l /\ Rest(l, n) = <<>>
<1>1. l \in Seq(Piece) /\ Len(l) \in Nat /\ Len(l) < BuffSz
  BY LinesAssumption, LenProperties DEF Polite
<1>2. n = Len(l)
  BY <1>1 DEF Polite, RecvLens
<1>3. SubSeq(l, 1, n) = l
  BY <1>1, <1>2, SubSeqFull
<1>4. Rest(l, n) = <<>>
  BY <1>1, <1>2, RestProperties, EmptySeq
<1> QED
  BY <1>2, <1>3, <1>4

(***************************************************************************)
(* The exchange of a client is left alone by the steps of others.          *)
(***************************************************************************)
LEMMA ExchangeFrame ==
  ASSUME NEW d \in Clients, ExchangeOf(d),
         cpc'[d] = cpc[d], line'[d] = line[d], typed'[d] = typed[d],
         up'[d] = up[d], down'[d] = down[d], ran'[d] = ran[d],
         InBacklog(d)' => InBacklog(d),
         cur' # d \/ (cur' = cur /\ spc' = spc)
  PROVE  ExchangeOf(d)'
  BY DEF ExchangeOf, LineInFlight, ReplyDone, Executing

LEMMA InitExchange == Init => Exchange
  BY EmptyNoEof, EmptySeq
  DEF Init, Exchange, ExchangeOf, LineInFlight, ReplyDone, Executing, InBacklog

(***************************************************************************)
(* Every step of the server keeps every exchange in order.                 *)
(***************************************************************************)

\* A step of the server that is not about what one client sent or gets.
LEMMA QuietServerExchange ==
  ASSUME TypeOK, Exchange,
         UNCHANGED <<cpc, line, typed, up, down, ran>>,
         \A d \in Clients : InBacklog(d)' => InBacklog(d),
         cur' = NoClient \/ (cur' = cur /\ spc' = spc)
           \/ (cur' = cur /\ spc' = "close"),
         spc' # "sendlimit", spc' \in {"exec", "orphans"} => ~reads'
  PROVE  Exchange'
<1>1. ASSUME NEW d \in Clients
      PROVE  ExchangeOf(d)'
  <2>1. ExchangeOf(d)
    BY DEF Exchange
  <2>2. CASE cur' # d \/ (cur' = cur /\ spc' = spc)
    BY <2>1, <2>2, ExchangeFrame
  <2>3. CASE spc' = "close"
    BY <2>1, <2>3 DEF ExchangeOf, LineInFlight, ReplyDone, Executing
  <2> QED
    BY <2>2, <2>3, ClientsAssumption
<1> QED
  BY <1>1 DEF Exchange

LEMMA RecvCommandExchange ==
  ASSUME Polite, TypeOK, Connections, Exchange, RecvCommand
  PROVE  /\ Exchange'
         /\ LineInFlight(cur) /\ cpc[cur] \in {"wait", "done"}
         /\ up' = [up EXCEPT ![cur] = <<>>]
         /\ Kind(line[cur]) = "run" =>
              ran' = [ran EXCEPT ![cur] = @ + 1] /\ srvRc' = srvRc
         /\ Kind(line[cur]) # "run" => UNCHANGED ran
         /\ srvRc' = "OK_EXIT" =>
              srvRc = "OK_EXIT" \/ (Kind(line[cur]) = "stop" /\ spc' = "close")
<1>1. cur \in Clients /\ spc = "recv"
  BY DEF RecvCommand, Connections, Serving, TypeOK
<1>2. PICK n \in RecvLens(up[cur]) : RecvCommand!2!(n)
  BY DEF RecvCommand
<1>3. ExchangeOf(cur) /\ up[cur] # <<>>
  <2>1. up[cur] \in Seq(Piece)
    BY <1>1 DEF TypeOK
  <2>2. Len(up[cur]) # 0
    BY <2>1, RecvLensProperties
  <2> QED
    BY <1>1, <2>1, <2>2, EmptySeq DEF Exchange
<1>4. LineInFlight(cur) /\ cpc[cur] \in {"wait", "done"}
  BY <1>1, <1>3 DEF ExchangeOf, TypeOK, Connections
<1>5. SubSeq(up[cur], 1, n) = line[cur] /\ Rest(up[cur], n) = <<>>
  BY <1>4, <1>2, PoliteRecv DEF LineInFlight
<1>6. up' = [up EXCEPT ![cur] = <<>>]
  BY <1>2, <1>5
<1>7. UNCHANGED <<cur, backlog, cpc, line, typed, crc, down, cliEnd, srvEnd>>
  BY DEF RecvCommand, cliVars
<1>8. line[cur] \in Lines /\ Kind(line[cur]) \in {"exit", "stop", "run"}
  BY <1>4 DEF LineInFlight, Polite
<1>9. /\ spc' \in {"close", "exec"}
      /\ spc' = "exec" <=> Kind(line[cur]) = "run"
      /\ spc' = "exec" => reads' = ReadsSocket(CString(line[cur]))
      /\ Kind(line[cur]) = "run" =>
              ran' = [ran EXCEPT ![cur] = @ + 1] /\ srvRc' = srvRc
      /\ Kind(line[cur]) # "run" => UNCHANGED ran
      /\ srvRc' = "OK_EXIT" =>
           srvRc = "OK_EXIT" \/ (Kind(line[cur]) = "stop" /\ spc' = "close")
  BY <1>2, <1>5, <1>8
<1>10. spc' = "exec" => ~reads'
  BY <1>8, <1>9 DEF Polite
<1>11. ExchangeOf(cur)'
  <2>1. up'[cur] = <<>> /\ ran'[cur] <= typed'[cur]
    BY <1>1, <1>4, <1>6, <1>7, <1>9 DEF LineInFlight, TypeOK
  <2>2. ~InBacklog(cur)'
    BY <1>1, <1>7 DEF Connections, OneAtATime, InBacklog
  <2>3. spc' = "exec" => ran'[cur] = typed'[cur]
    BY <1>1, <1>4, <1>7, <1>9 DEF LineInFlight, TypeOK
  <2>4. NoEof(down'[cur])
    BY <1>4, <1>7, EmptyNoEof DEF LineInFlight
  <2>5. spc' # "recv" /\ cpc'[cur] \in {"wait", "done"}
    BY <1>4, <1>7, <1>9
  <2> QED
    BY <1>7, <1>9, <2>1, <2>2, <2>3, <2>4, <2>5 DEF ExchangeOf, Executing
<1>12. ASSUME NEW d \in Clients, d # cur
       PROVE  ExchangeOf(d)'
  <2>1. up'[d] = up[d] /\ ran'[d] = ran[d]
    BY <1>1, <1>6, <1>9, <1>8, <1>12 DEF TypeOK
  <2>2. InBacklog(d)' => InBacklog(d)
    BY <1>7 DEF InBacklog
  <2> QED
    BY <1>7, <1>12, <2>1, <2>2, ExchangeFrame DEF Exchange
<1> QED
  BY <1>1, <1>4, <1>6, <1>7, <1>9, <1>10, <1>11, <1>12 DEF Exchange

LEMMA PipelineDoneExchange ==
  ASSUME Polite, TypeOK, Connections, Exchange, PipelineDone
  PROVE  Exchange'
<1>1. cur \in Clients /\ spc = "exec" /\ spc' = "sendrc"
  BY DEF PipelineDone, Connections, Serving, TypeOK
<1>2. UNCHANGED <<cur, backlog, cpc, line, typed, up, ran>>
  BY DEF PipelineDone, cliVars
<1>3. \A d \in Clients \ {cur} : down'[d] = down[d]
  BY <1>1 DEF PipelineDone, TypeOK
<1>4. NoEof(down[cur]) => NoEof(down'[cur])
  <2>1. \A out \in Outputs :
          NoEof(down[cur]) => NoEof(down[cur] \o out)
    BY <1>1, NoEofConcat, OutputsAssumption DEF Polite, TypeOK
  <2> QED
    BY <1>1, <2>1 DEF PipelineDone, TypeOK
<1>5. ExchangeOf(cur)'
  <2>1. ExchangeOf(cur) /\ ~InBacklog(cur)'
    BY <1>1, <1>2 DEF Exchange, Connections, OneAtATime, InBacklog
  <2> QED
    BY <1>1, <1>2, <1>4, <2>1 DEF ExchangeOf, Executing, LineInFlight, ReplyDone
<1>6. ASSUME NEW d \in Clients, d # cur
      PROVE  ExchangeOf(d)'
  <2>1. InBacklog(d)' => InBacklog(d)
    BY <1>2 DEF InBacklog
  <2> QED
    BY <1>2, <1>3, <1>6, <2>1, ExchangeFrame DEF Exchange
<1> QED
  BY <1>1, <1>2, <1>5, <1>6 DEF Exchange

LEMMA SendExchange ==
  ASSUME TypeOK, Connections, Exchange, SendRc \/ SendEof
  PROVE  Exchange'
<1>1. cur \in Clients /\ spc \in {"sendrc", "sendeof"}
  BY DEF SendRc, SendEof, Connections, Serving, TypeOK
<1>2. PICK piece \in OutPiece, next \in {"sendeof", "recv"} :
        /\ Send(piece, next)
        /\ piece = EOF <=> next = "recv"
  BY DEF SendRc, SendEof, OutPiece, EOF
<1>3. UNCHANGED <<cpc, line, typed, up, ran>>
  BY <1>2 DEF Send, cliVars
<1>4. CASE LastProcessEnds /\ UNCHANGED <<down, cliEnd>>
  <2>1. \A d \in Clients : InBacklog(d)' => InBacklog(d)
    BY <1>4 DEF LastProcessEnds, InBacklog
  <2> QED
    BY <1>3, <1>4, <2>1, QuietServerExchange DEF LastProcessEnds
<1>5. CASE spc' = next /\ UNCHANGED <<srvEnd, backlog, cur>>
  <2>1. \A d \in Clients \ {cur} : down'[d] = down[d]
    BY <1>1, <1>2, <1>5 DEF Send, TypeOK
  <2>2. ExchangeOf(cur) /\ ~InBacklog(cur)'
    BY <1>1, <1>5 DEF Exchange, Connections, OneAtATime, InBacklog
  <2>3. cpc[cur] = "wait" =>
          /\ next = "recv" => Ended(down'[cur])
          /\ next = "sendeof" => NoEof(down'[cur])
    <3>1. SUFFICES ASSUME cpc[cur] = "wait"
                   PROVE  /\ next = "recv" => Ended(down'[cur])
                          /\ next = "sendeof" => NoEof(down'[cur])
      OBVIOUS
    <3>2. NoEof(down[cur]) /\ down[cur] \in Seq(OutPiece)
      BY <1>1, <2>2, <3>1 DEF ExchangeOf, Executing, TypeOK
    <3>3. cliEnd[cur] = "open"
      BY <1>1, <3>1 DEF Connections, TypeOK
    <3>4. down'[cur] = Append(down[cur], piece)
      BY <1>1, <1>2, <3>3 DEF Send, TypeOK
    <3> QED
      BY <1>2, <3>2, <3>4, NoEofAppend
  <2>4. ExchangeOf(cur)'
    BY <1>1, <1>3, <1>5, <2>2, <2>3
    DEF ExchangeOf, Executing, LineInFlight, ReplyDone
  <2>5. ASSUME NEW d \in Clients, d # cur
        PROVE  ExchangeOf(d)'
    <3>1. InBacklog(d)' => InBacklog(d)
      BY <1>5 DEF InBacklog
    <3> QED
      BY <1>3, <1>5, <2>1, <2>5, <3>1, ExchangeFrame DEF Exchange
  <2> QED
    BY <1>5, <2>4, <2>5 DEF Exchange
<1> QED
  BY <1>2, <1>4, <1>5 DEF Send

LEMMA ServerExchange ==
  ASSUME Polite, TypeOK, Connections, Exchange,
         ServerStep \/ ServerFault
  PROVE  Exchange'
<1>1. CASE BootServer \/ AcceptFails
  <2>1. /\ UNCHANGED <<cur, backlog, cpc, line, typed, up, down, ran>>
        /\ spc' \in {"accept", "stopping", "stopped"} /\ cur = NoClient
    BY <1>1 DEF BootServer, AcceptFails, cliVars, netVars, Connections, Serving
  <2>2. \A d \in Clients : InBacklog(d)' => InBacklog(d)
    BY <2>1 DEF InBacklog
  <2> QED
    BY <2>1, <2>2, QuietServerExchange
<1>2. CASE RecvEnd \/ RecvFails
  <2>1. /\ UNCHANGED <<cur, backlog, cpc, line, typed, up, down, ran>>
        /\ spc' = "close"
    BY <1>2 DEF RecvEnd, RecvFails, cliVars, netVars
  <2>2. \A d \in Clients : InBacklog(d)' => InBacklog(d)
    BY <2>1 DEF InBacklog
  <2> QED
    BY <2>1, <2>2, QuietServerExchange
<1>3. CASE Accept \/ AcceptNoBuffer
  <2>1. /\ UNCHANGED <<cpc, line, typed, up, down, ran>>
        /\ spc' \in {"recv", "close"}
        /\ cur' = Head(backlog) /\ backlog' = Tail(backlog)
    BY <1>3 DEF Accept, AcceptNoBuffer, cliVars, netVars
  <2>2. /\ Head(backlog) = backlog[1] /\ 1 \in 1..Len(backlog)
        /\ Len(Tail(backlog)) = Len(backlog) - 1
        /\ \A i \in 1..(Len(backlog) - 1) :
             Tail(backlog)[i] = backlog[i + 1] /\ i + 1 \in 1..Len(backlog)
    BY <1>3, HeadTailProperties, EmptySeq, SMTT(30)
    DEF Accept, AcceptNoBuffer, TypeOK
  <2>3. \A d \in Clients : InBacklog(d)' => InBacklog(d)
    BY <2>1, <2>2 DEF InBacklog
  <2>4. \A d \in Clients : cur' = d => InBacklog(d)
    BY <2>1, <2>2 DEF InBacklog
  <2>5. ASSUME NEW d \in Clients
        PROVE  ExchangeOf(d)'
    <3>1. ExchangeOf(d)
      BY DEF Exchange
    <3>2. CASE cur' = d
      BY <2>1, <2>3, <2>4, <3>1, <3>2
      DEF ExchangeOf, LineInFlight, ReplyDone, Executing
    <3>3. CASE cur' # d
      BY <2>1, <2>3, <3>1, <3>3, ExchangeFrame
    <3> QED
      BY <3>2, <3>3
  <2> QED
    BY <2>1, <2>5 DEF Exchange
<1>4. CASE RecvCommand
  BY <1>4, RecvCommandExchange
<1>5. CASE ChildReads \/ OrphanReads
  BY <1>5 DEF ChildReads, OrphanReads, Exchange
<1>6. CASE PipelineDone
  BY <1>6, PipelineDoneExchange
<1>7. CASE SendRc \/ SendEof
  BY <1>7, SendExchange
<1>8. CASE SendLimit
  BY <1>8 DEF SendLimit, Exchange
<1>9. CASE CloseClient \/ StopServer
  <2>1. /\ UNCHANGED <<cpc, line, typed, up, down, ran>>
        /\ spc' \in {"stopping", "accept", "stopped"} /\ cur' = NoClient
    BY <1>9 DEF CloseClient, StopServer, cliVars, Connections, Serving
  <2>2. \A d \in Clients : InBacklog(d)' => InBacklog(d)
    BY <1>9 DEF CloseClient, StopServer, InBacklog
  <2> QED
    BY <2>1, <2>2, QuietServerExchange
<1>10. CASE PipelineFails \/ OrphansEnd
  <2>1. UNCHANGED <<cpc, line, typed, up, down, ran, reads>>
    BY <1>10 DEF PipelineFails, OrphansEnd, cliVars
  <2>2. CASE LastProcessEnds
    <3>1. \A d \in Clients : InBacklog(d)' => InBacklog(d)
      BY <2>2 DEF LastProcessEnds, InBacklog
    <3> QED
      BY <2>1, <2>2, <3>1, QuietServerExchange DEF LastProcessEnds
  <2>3. CASE /\ spc = "exec" /\ spc' = "orphans"
             /\ UNCHANGED <<cur, backlog, srvEnd>>
    <3>1. ASSUME NEW d \in Clients
          PROVE  ExchangeOf(d)'
      <4>1. ExchangeOf(d) /\ (InBacklog(d)' => InBacklog(d))
        BY <2>3 DEF Exchange, InBacklog
      <4> QED
        BY <2>1, <2>3, <4>1
        DEF ExchangeOf, LineInFlight, ReplyDone, Executing
    <3> QED
      BY <2>1, <2>3, <3>1 DEF Exchange
  <2> QED
    BY <1>10, <2>2, <2>3 DEF PipelineFails, OrphansEnd
<1> QED
  BY <1>1, <1>2, <1>3, <1>4, <1>5, <1>6, <1>7, <1>8, <1>9, <1>10
  DEF ServerStep, ServerFault

(***************************************************************************)
(* Every step of a client does too.                                        *)
(***************************************************************************)

\* Client c leaves with nothing but its own state changed.
LEMMA LeaveExchange ==
  ASSUME TypeOK, Connections, Exchange, NEW c \in Clients, NEW rc, NEW unread,
         Leave(c, rc, unread),
         UNCHANGED <<spc, cur, reads, backlog, up, ran>>,
         \A d \in Clients \ {c} : line'[d] = line[d] /\ typed'[d] = typed[d],
         \/ line'[c] = line[c] /\ typed'[c] = typed[c]
         \/ cpc[c] = "prompt" /\ typed'[c] = typed[c] + 1
  PROVE  Exchange'
<1>1. ExchangeOf(c)'
  <2>1. cpc'[c] = "done" /\ down'[c] = <<>>
    BY DEF Leave, TypeOK
  <2>2. ExchangeOf(c)
    BY DEF Exchange
  <2>3. cpc[c] = "prompt" => ~(cur = c /\ Executing) /\ up[c] = <<>>
    BY <2>2 DEF ExchangeOf
  <2>4. typed[c] \in Nat /\ ran[c] \in Nat
    BY DEF TypeOK
  <2> QED
    BY <2>1, <2>2, <2>3, <2>4 DEF ExchangeOf, LineInFlight, Executing
<1>2. ASSUME NEW d \in Clients, d # c
      PROVE  ExchangeOf(d)'
  <2>1. cpc'[d] = cpc[d] /\ down'[d] = down[d]
    BY <1>2 DEF Leave, TypeOK
  <2>2. InBacklog(d)' => InBacklog(d)
    BY DEF InBacklog
  <2> QED
    BY <1>2, <2>1, <2>2, ExchangeFrame DEF Exchange
<1> QED
  BY <1>1, <1>2 DEF Exchange

LEMMA ClientExchange ==
  ASSUME TypeOK, Connections, Connections', Exchange, NEW c \in Clients,
         ClientStep(c) \/ UserStep(c) \/ Kill(c)
  PROVE  Exchange'
<1>1. CASE Connect(c)
  <2>1. /\ UNCHANGED <<spc, cur, reads, line, typed, up, down, ran>>
        /\ cpc[c] = "start" /\ cpc' = [cpc EXCEPT ![c] = "prompt"]
        /\ backlog' = Append(backlog, c)
    BY <1>1 DEF Connect
  <2>2. /\ up[c] = <<>> /\ down[c] = <<>> /\ ran[c] = 0 /\ typed[c] = 0
        /\ cur # c
    BY <2>1 DEF Connections, OneAtATime
  <2>3. ExchangeOf(c)'
    BY <2>1, <2>2 DEF ExchangeOf, TypeOK
  <2>4. ASSUME NEW d \in Clients, d # c
        PROVE  ExchangeOf(d)'
    <3>1. InBacklog(d)' => InBacklog(d)
      <4>1. /\ Len(backlog) \in Nat
            /\ Len(backlog') = Len(backlog) + 1
            /\ \A i \in 1..Len(backlog) : backlog'[i] = backlog[i]
            /\ backlog'[Len(backlog) + 1] = c
        BY <2>1, AppendProperties, LenProperties DEF TypeOK
      <4> QED
        BY <2>4, <4>1 DEF InBacklog
    <3>2. cpc'[d] = cpc[d]
      BY <2>1, <2>4 DEF TypeOK
    <3> QED
      BY <2>1, <2>4, <3>1, <3>2, ExchangeFrame DEF Exchange
  <2> QED
    BY <2>1, <2>3, <2>4 DEF Exchange
<1>2. CASE ConnectFails(c)
  <2>1. /\ UNCHANGED <<spc, cur, reads, backlog, line, typed, up, down, ran>>
        /\ cpc' = [cpc EXCEPT ![c] = "done"] /\ cpc[c] = "start"
    BY <1>2 DEF ConnectFails, srvVars, netVars
  <2>2. up[c] = <<>> /\ ran[c] = 0 /\ typed[c] = 0 /\ cur # c
    BY <2>1 DEF Connections, OneAtATime
  <2>3. ExchangeOf(c)'
    BY <2>1, <2>2 DEF ExchangeOf, TypeOK
  <2>4. ASSUME NEW d \in Clients, d # c
        PROVE  ExchangeOf(d)'
    <3>1. InBacklog(d)' => InBacklog(d)
      BY <2>1 DEF InBacklog
    <3>2. cpc'[d] = cpc[d]
      BY <2>1, <2>4 DEF TypeOK
    <3> QED
      BY <2>1, <2>4, <3>1, <3>2, ExchangeFrame DEF Exchange
  <2> QED
    BY <2>1, <2>3, <2>4 DEF Exchange
<1>3. CASE TypeLine(c)
  <2>1. PICK l \in Lines : TypeLine(c)!3!(l)
    BY <1>3 DEF TypeLine
  <2>2. UNCHANGED <<spc, cur, reads, backlog, srvEnd, ran>> /\ cpc[c] = "prompt"
    BY <1>3 DEF TypeLine, srvVars
  <2>3. /\ line'[c] = l /\ typed'[c] = typed[c] + 1
        /\ \A d \in Clients \ {c} : line'[d] = line[d] /\ typed'[d] = typed[d]
    BY <2>1 DEF TypeOK
  <2>4. ExchangeOf(c) /\ ran[c] \in Nat /\ typed[c] \in Nat
    BY DEF Exchange, TypeOK
  <2>5. CASE UNCHANGED <<crc, down, cliEnd>> /\ cpc' = [cpc EXCEPT ![c] = "wait"]
             /\ up' = IF srvEnd[c] = "open" THEN [up EXCEPT ![c] = @ \o l] ELSE up
    <3>1. l \in Seq(Piece) /\ <<>> \o l = l
      BY LinesAssumption, ConcatEmptySeq
    <3>2. /\ cpc'[c] = "wait" /\ down'[c] = <<>> /\ ran'[c] + 1 = typed'[c]
          /\ up'[c] = IF srvEnd[c] = "open" THEN l ELSE <<>>
      BY <2>2, <2>3, <2>4, <2>5, <3>1 DEF ExchangeOf, TypeOK
    <3>3. (cur = c \/ InBacklog(c)') => up'[c] = l
      BY <2>2, <3>2 DEF Connections, OneAtATime, InBacklog
    <3>4. ~(cur = c /\ Executing)
      BY <2>2, <2>4 DEF ExchangeOf
    <3>5. ExchangeOf(c)'
      BY <2>2, <2>3, <2>4, <3>2, <3>3, <3>4, EmptyNoEof
      DEF ExchangeOf, LineInFlight, Executing
    <3>6. ASSUME NEW d \in Clients, d # c
          PROVE  ExchangeOf(d)'
      <4>1. cpc'[d] = cpc[d] /\ up'[d] = up[d] /\ down'[d] = down[d]
        BY <2>5, <3>6 DEF TypeOK
      <4>2. InBacklog(d)' => InBacklog(d)
        BY <2>2 DEF InBacklog
      <4> QED
        BY <2>2, <2>3, <3>6, <4>1, <4>2, ExchangeFrame DEF Exchange
    <3> QED
      BY <2>2, <3>5, <3>6 DEF Exchange
  <2>6. CASE Leave(c, "ERR_RDSH_COMMUNICATION", down[c]) /\ UNCHANGED up
    BY <2>2, <2>3, <2>6, LeaveExchange
  <2> QED
    BY <2>1, <2>5, <2>6
<1>4. CASE RecvReply(c)
  <2>1. PICK n \in 1..Len(down[c]) : RecvReply(c)!2!(n)
    BY <1>4 DEF RecvReply
  <2>2. /\ UNCHANGED <<spc, cur, reads, backlog, line, typed, up, ran>>
        /\ cpc[c] = "wait"
    BY <1>4 DEF RecvReply, srvVars
  <2>3. ExchangeOf(c) /\ down[c] \in Seq(OutPiece) /\ down[c] # <<>>
    BY <2>1, EmptySeq DEF Exchange, TypeOK
  <2>4. ASSUME NEW d \in Clients, d # c, cpc'[d] = cpc[d], down'[d] = down[d]
        PROVE  ExchangeOf(d)'
    <3>1. InBacklog(d)' => InBacklog(d)
      BY <2>2 DEF InBacklog
    <3> QED
      BY <2>2, <2>4, <3>1, ExchangeFrame DEF Exchange
  <2>5. ~LineInFlight(c) /\ ~InBacklog(c)
    BY <2>2, <2>3 DEF LineInFlight, ExchangeOf
  <2>6. CASE /\ down[c][n] # EOF
             /\ down' = [down EXCEPT ![c] = Rest(down[c], n)]
             /\ UNCHANGED <<cpc, crc, cliEnd>>
    <3>1. /\ NoEof(down[c]) => NoEof(down'[c])
          /\ ReplyDone(c) => ReplyDone(c)'
      BY <2>2, <2>3, <2>6, NoEofRest DEF TypeOK, ReplyDone
    <3>2. ~InBacklog(c)'
      BY <2>2, <2>5 DEF InBacklog
    <3>3. ExchangeOf(c)'
      BY <2>2, <2>3, <2>5, <2>6, <3>1, <3>2 DEF ExchangeOf, Executing
    <3>4. \A d \in Clients \ {c} : cpc'[d] = cpc[d] /\ down'[d] = down[d]
      BY <2>6 DEF TypeOK
    <3> QED
      BY <2>2, <2>4, <3>3, <3>4 DEF Exchange
  <2>7. CASE /\ down[c][n] = EOF
             /\ down' = [down EXCEPT ![c] = Rest(down[c], n)]
             /\ cpc' = [cpc EXCEPT ![c] = "prompt"]
    <3>1. ~NoEof(down[c]) /\ ReplyDone(c)
      BY <2>2, <2>3, <2>7, NoEofRest DEF ExchangeOf
    <3>2. down'[c] = <<>> /\ cpc'[c] = "prompt"
      BY <2>3, <2>7, <3>1, NoEofRest DEF ReplyDone, TypeOK
    <3>3. ~(cur = c /\ Executing)
      BY <2>2, <2>3, <3>1 DEF ExchangeOf
    <3>4. ExchangeOf(c)'
      BY <2>2, <2>3, <3>1, <3>2, <3>3 DEF ExchangeOf, ReplyDone, Executing
    <3>5. \A d \in Clients \ {c} : cpc'[d] = cpc[d] /\ down'[d] = down[d]
      BY <2>7 DEF TypeOK
    <3> QED
      BY <2>2, <2>4, <3>4, <3>5 DEF Exchange
  <2>8. CASE Leave(c, "OK", Rest(down[c], n))
    BY <2>2, <2>8, LeaveExchange
  <2> QED
    BY <2>1, <2>6, <2>7, <2>8
<1>5. CASE Quit(c) \/ RecvNothing(c) \/ Kill(c)
  <2>1. PICK rc \in {"OK", "ERR_RDSH_COMMUNICATION", "killed"},
             unread \in {down[c], <<>>} : Leave(c, rc, unread)
    BY <1>5 DEF Quit, RecvNothing, Kill
  <2>2. UNCHANGED <<spc, cur, reads, backlog, line, typed, up, ran>>
    BY <1>5 DEF Quit, RecvNothing, Kill, srvVars
  <2> QED
    BY <2>1, <2>2, LeaveExchange
<1> QED
  BY <1>1, <1>2, <1>3, <1>4, <1>5 DEF ClientStep, UserStep

(***************************************************************************)
(* The server stops for a user who asked for it.                           *)
(***************************************************************************)

LEMMA ServerStopping ==
  ASSUME Polite, TypeOK, Connections, Exchange, Stopping,
         ServerStep \/ ServerFault
  PROVE  Stopping'
<1>1. CASE RecvCommand
  <2>1. SUFFICES ASSUME srvRc' = "OK_EXIT"
                 PROVE  Stopping'
    BY DEF Stopping
  <2>2. cur \in Clients /\ spc = "recv"
    BY <1>1 DEF RecvCommand, Connections, Serving, TypeOK
  <2>3. Kind(line[cur]) = "stop" /\ spc' = "close"
    BY <1>1, <2>1, <2>2, RecvCommandExchange DEF Stopping
  <2>4. /\ cpc[cur] \in {"wait", "done"} /\ LineInFlight(cur)
        /\ up' = [up EXCEPT ![cur] = <<>>]
    BY <1>1, RecvCommandExchange
  <2>5. up'[cur] = <<>>
    BY <2>2, <2>4 DEF TypeOK
  <2>6. UNCHANGED <<cpc, line, down>>
    BY <1>1 DEF RecvCommand, cliVars
  <2>7. NoEof(down[cur])
    BY <2>4, EmptyNoEof DEF LineInFlight
  <2> QED
    BY <2>2, <2>3, <2>4, <2>5, <2>6, <2>7 DEF Stopping
<1>2. CASE \/ BootServer \/ Accept \/ AcceptNoBuffer \/ AcceptFails
           \/ RecvEnd \/ RecvFails
  BY <1>2 DEF BootServer, Accept, AcceptNoBuffer, AcceptFails, RecvEnd,
              RecvFails, Stopping
<1>3. CASE \/ ChildReads \/ PipelineDone \/ PipelineFails
           \/ OrphanReads \/ OrphansEnd
  BY <1>3 DEF ChildReads, PipelineDone, PipelineFails, OrphanReads, OrphansEnd,
              Stopping, srvVars
<1>4. CASE SendRc \/ SendEof \/ SendLimit
  BY <1>4 DEF SendRc, SendEof, SendLimit, Send, Stopping
<1>5. CASE CloseClient \/ StopServer
  <2>1. /\ UNCHANGED <<srvRc, cpc, line, up, down>>
        /\ srvRc = "OK_EXIT" => spc' \in {"stopping", "stopped"}
    BY <1>5 DEF CloseClient, StopServer, cliVars
  <2> QED
    BY <2>1 DEF Stopping
<1> QED
  BY <1>1, <1>2, <1>3, <1>4, <1>5 DEF ServerStep, ServerFault

LEMMA ClientStopping ==
  ASSUME TypeOK, Connections, Stopping, NEW c \in Clients,
         ClientStep(c) \/ UserStep(c) \/ Kill(c)
  PROVE  Stopping'
<1>1. SUFFICES ASSUME srvRc' = "OK_EXIT"
               PROVE  Stopping'
  BY DEF Stopping
<1>2. spc' = spc /\ srvRc' = srvRc
  BY DEF ClientStep, UserStep, Kill, Connect, ConnectFails, RecvReply,
         RecvNothing, TypeLine, Quit, srvVars
<1>3. PICK k \in Clients : /\ Kind(line[k]) = "stop"
                           /\ cpc[k] \in {"wait", "done"}
                           /\ up[k] = <<>> /\ NoEof(down[k])
  BY <1>1, <1>2 DEF Stopping
<1>4. line'[k] = line[k] /\ up'[k] = up[k]
  <2>1. CASE Connect(c) \/ ConnectFails(c) \/ RecvReply(c) \/ RecvNothing(c)
             \/ Quit(c) \/ Kill(c)
    BY <2>1 DEF Connect, ConnectFails, RecvReply, RecvNothing, Quit, Kill, netVars
  <2>2. CASE TypeLine(c)
    <3>1. k # c
      BY <1>3, <2>2 DEF TypeLine
    <3> QED
      BY <2>2, <3>1 DEF TypeLine, TypeOK
  <2> QED
    BY <2>1, <2>2 DEF ClientStep, UserStep
<1>5. cpc'[k] \in {"wait", "done"} /\ NoEof(down'[k])
  <2>1. CASE Connect(c) \/ ConnectFails(c)
    BY <1>3, <2>1 DEF Connect, ConnectFails, TypeOK, netVars
  <2>2. CASE Quit(c) \/ RecvNothing(c) \/ Kill(c)
    BY <1>3, <2>2, EmptyNoEof DEF Quit, RecvNothing, Kill, Leave, TypeOK
  <2>3. CASE TypeLine(c)
    <3>1. k # c
      BY <1>3, <2>3 DEF TypeLine
    <3> QED
      BY <1>3, <2>3, <3>1 DEF TypeLine, Leave, TypeOK
  <2>4. CASE RecvReply(c)
    <3>1. PICK n \in 1..Len(down[c]) : RecvReply(c)!2!(n)
      BY <2>4 DEF RecvReply
    <3>2. CASE k # c
      BY <1>3, <3>1, <3>2 DEF Leave, TypeOK
    <3>3. CASE k = c
      <4>1. down[c][n] # EOF /\ NoEof(Rest(down[c], n))
        BY <1>3, <3>3, NoEofRest DEF TypeOK
      <4> QED
        BY <1>3, <3>1, <3>3, <4>1 DEF TypeOK
    <3> QED
      BY <3>2, <3>3
  <2> QED
    BY <2>1, <2>2, <2>3, <2>4 DEF ClientStep, UserStep
<1> QED
  BY <1>1, <1>2, <1>3, <1>4, <1>5 DEF Stopping

(***************************************************************************)
(* The invariant.                                                          *)
(***************************************************************************)

LEMMA InitInv == Init => TypeOK /\ Inv
  BY InitType, InitConnections, InitExchange DEF Inv, Stopping, Init

LEMMA NextInv ==
  ASSUME Polite, TypeOK, Inv, [Next]_vars
  PROVE  TypeOK' /\ Inv'
<1>1. TypeOK' /\ Connections'
  BY NextConnections DEF Inv
<1>2. CASE ServerStep \/ ServerFault
  BY <1>1, <1>2, ServerExchange, ServerStopping DEF Inv
<1>3. ASSUME NEW c \in Clients, UserStep(c) \/ ClientStep(c) \/ Kill(c)
      PROVE  Exchange' /\ Stopping'
  BY <1>1, <1>3, ClientExchange, ClientStopping DEF Inv
<1>4. CASE UNCHANGED vars
  <2>1. \A d \in Clients : ExchangeOf(d)'
    BY <1>4, ExchangeFrame DEF Inv, Exchange, InBacklog, vars
  <2>2. Exchange'
    BY <1>4, <2>1 DEF Inv, Exchange, vars
  <2>3. Stopping'
    BY <1>4 DEF Inv, Stopping, vars
  <2> QED
    BY <1>1, <2>2, <2>3 DEF Inv
<1> QED
  BY <1>1, <1>2, <1>3, <1>4 DEF Next, Inv

LEMMA InvImplies ==
  ASSUME TypeOK, Inv
  PROVE  NoMutualWait /\ PromptInSync /\ StopRequested
<1>1. NoMutualWait
  <2>1. SUFFICES ASSUME NEW c \in Clients, cpc[c] = "wait", down[c] = <<>>, BlockedOn(c)
                 PROVE  FALSE
    BY DEF NoMutualWait
  <2>2. spc = "recv" /\ cur = c /\ up[c] = <<>>
    BY <2>1 DEF BlockedOn, Inv, Exchange
  <2>3. LineInFlight(c) \/ ReplyDone(c)
    BY <2>1, <2>2 DEF Inv, Exchange, ExchangeOf
  <2>4. ~ReplyDone(c)
    BY <2>1, EmptyNoEof DEF ReplyDone
  <2>5. ~LineInFlight(c)
    BY <2>2, LinesAssumption, EmptySeq DEF LineInFlight
  <2> QED
    BY <2>3, <2>4, <2>5
<1>2. PromptInSync
  BY ClientsAssumption
  DEF PromptInSync, Inv, Connections, Serving, Exchange, ExchangeOf, Executing
<1>3. StopRequested
  BY DEF StopRequested, Inv, Stopping, Kind
<1> QED
  BY <1>1, <1>2, <1>3

\* With polite traffic no client and server ever wait for each other.
THEOREM NeverBothWait == ASSUME Polite PROVE Spec => []NoMutualWait
<1>1. TypeOK /\ Inv /\ [Next]_vars => TypeOK' /\ Inv'
  BY NextInv
<1>2. TypeOK /\ Inv => NoMutualWait
  BY InvImplies
<1> QED
  BY InitInv, <1>1, <1>2, PTL DEF Spec

\* With polite traffic a prompt means that the previous exchange is over.
THEOREM PromptMeansDone == ASSUME Polite PROVE Spec => []PromptInSync
<1>1. TypeOK /\ Inv /\ [Next]_vars => TypeOK' /\ Inv'
  BY NextInv
<1>2. TypeOK /\ Inv => PromptInSync
  BY InvImplies
<1> QED
  BY InitInv, <1>1, <1>2, PTL DEF Spec

\* With polite traffic the server stops only for a user who typed the command.
THEOREM StopsOnRequest == ASSUME Polite PROVE Spec => []StopRequested
<1>1. TypeOK /\ Inv /\ [Next]_vars => TypeOK' /\ Inv'
  BY NextInv
<1>2. TypeOK /\ Inv => StopRequested
  BY InvImplies
<1> QED
  BY InitInv, <1>1, <1>2, PTL DEF Spec

(***************************************************************************)
(* Nobody leaves in the middle of an exchange unless killed.               *)
(***************************************************************************)

\* The client whose line is executed waits for the reply, and one that left
\* while connected left nothing for the server to execute.
Present ==
  /\ ServerSurvives
  /\ Executing => cpc[cur] = "wait"
  /\ \A c \in Clients : cpc[c] = "done" /\ srvEnd[c] = "open" => up[c] = <<>>

LEMMA ServerPresent ==
  ASSUME Polite, ~Faults, TypeOK, Inv, Present,
         ServerStep \/ ServerFault
  PROVE  Present'
<1>0. Serving => cur \in Clients /\ srvEnd[cur] = "open"
  BY DEF Inv, Connections, OneAtATime, TypeOK
<1>1. ~ServerFault /\ ~OrphanReads /\ ~OrphansEnd /\ UNCHANGED cpc
  <2>1. ~ServerFault
    BY DEF ServerFault, AcceptNoBuffer, AcceptFails, RecvFails, PipelineFails
  <2>2. ~OrphanReads /\ ~OrphansEnd
    BY DEF Present, ServerSurvives, OrphanReads, OrphansEnd
  <2> QED
    BY <2>1, <2>2
    DEF ServerStep, BootServer, Accept, RecvCommand, RecvEnd, ChildReads,
        PipelineDone, SendRc, SendEof, SendLimit, Send, CloseClient,
        StopServer, cliVars
<1>2. CASE BootServer \/ Accept \/ RecvEnd \/ CloseClient \/ StopServer
  <2>1. ServerSurvives' /\ ~Executing' /\ UNCHANGED up
    BY <1>2 DEF BootServer, Accept, RecvEnd, CloseClient, StopServer,
                Executing, ServerSurvives, netVars
  <2>2. \A c \in Clients : srvEnd'[c] = "open" => srvEnd[c] = "open"
    BY <1>2 DEF BootServer, Accept, RecvEnd, CloseClient, StopServer,
                netVars, TypeOK
  <2> QED
    BY <1>1, <2>1, <2>2 DEF Present, ServerSurvives
<1>3. CASE RecvCommand
  <2>1. cur \in Clients /\ srvEnd[cur] = "open" /\ UNCHANGED <<cur, srvEnd>>
    BY <1>0, <1>3 DEF RecvCommand, Serving
  <2>2. /\ LineInFlight(cur) /\ cpc[cur] \in {"wait", "done"}
        /\ up' = [up EXCEPT ![cur] = <<>>]
    BY <1>3, RecvCommandExchange DEF Inv
  <2>3. up[cur] # <<>>
    BY <2>2, LinesAssumption, EmptySeq DEF LineInFlight
  <2>4. cpc[cur] = "wait"
    BY <2>1, <2>2, <2>3 DEF Present
  <2>5. spc' \notin {"orphans", "dead"}
    BY <1>3 DEF RecvCommand
  <2> QED
    BY <1>1, <2>1, <2>2, <2>4, <2>5 DEF Present, ServerSurvives, TypeOK
<1>4. CASE ChildReads
  <2>1. /\ UNCHANGED <<spc, cur, srvEnd>>
        /\ \A c \in Clients : up[c] = <<>> => up'[c] = <<>>
    BY <1>4 DEF ChildReads, srvVars, TypeOK
  <2> QED
    BY <1>1, <2>1 DEF Present, ServerSurvives, Executing
<1>5. CASE PipelineDone \/ SendRc \/ SendEof \/ SendLimit
  <2>1. Executing
    BY <1>5 DEF PipelineDone, SendRc, SendEof, SendLimit, Executing, Inv, Exchange
  <2>2. cpc[cur] = "wait" /\ cliEnd[cur] = "open"
    BY <1>0, <2>1 DEF Present, Inv, Connections, Serving, Executing, TypeOK
  <2>3. spc' \notin {"orphans", "dead"} /\ UNCHANGED <<cur, up, srvEnd>>
    BY <1>5, <2>2 DEF PipelineDone, SendRc, SendEof, SendLimit, Send
  <2> QED
    BY <1>1, <2>2, <2>3 DEF Present, ServerSurvives
<1> QED
  BY <1>1, <1>2, <1>3, <1>4, <1>5 DEF ServerStep

LEMMA ClientPresent ==
  ASSUME Polite, ~Kills, TypeOK, TypeOK', Inv, Present, NEW c \in Clients,
         UserStep(c) \/ ClientStep(c) \/ Kill(c)
  PROVE  Present'
<1>0. /\ Serving => cur \in Clients /\ srvEnd[cur] = "open"
      /\ Executing => Serving
  BY DEF Inv, Connections, OneAtATime, TypeOK, Executing, Serving
<1>1. UNCHANGED <<spc, cur>>
  BY DEF UserStep, ClientStep, TypeLine, Quit, Connect, ConnectFails,
         RecvReply, RecvNothing, Kill, srvVars
<1>2. \A d \in Clients \ {c} : /\ cpc'[d] = cpc[d] /\ up'[d] = up[d]
                              /\ srvEnd'[d] = srvEnd[d]
  <2>1. CASE TypeLine(c)
    <3>1. \A d \in Clients \ {c} : cpc'[d] = cpc[d]
      BY <2>1 DEF TypeLine, Leave, TypeOK
    <3>2. \A d \in Clients \ {c} : up'[d] = up[d]
      BY <2>1 DEF TypeLine, TypeOK
    <3> QED
      BY <2>1, <3>1, <3>2 DEF TypeLine
  <2>2. CASE Connect(c) \/ ConnectFails(c)
    BY <2>2 DEF Connect, ConnectFails, netVars, TypeOK
  <2>3. CASE RecvReply(c)
    <3>1. PICK n \in 1..Len(down[c]) : RecvReply(c)!2!(n)
      BY <2>3 DEF RecvReply
    <3>2. \A d \in Clients \ {c} : cpc'[d] = cpc[d]
      <4>1. UNCHANGED cpc \/ (\E x : cpc' = [cpc EXCEPT ![c] = x])
        BY <3>1, Zenon DEF Leave
      <4> QED
        BY <4>1 DEF TypeOK
    <3> QED
      BY <2>3, <3>2 DEF RecvReply
  <2>4. CASE Quit(c) \/ RecvNothing(c) \/ Kill(c)
    <3>1. cpc' = [cpc EXCEPT ![c] = "done"] /\ UNCHANGED <<up, srvEnd>>
      BY <2>4 DEF Quit, RecvNothing, Kill, Leave
    <3> QED
      BY <3>1 DEF TypeOK
  <2> QED
    BY <2>1, <2>2, <2>3, <2>4 DEF UserStep, ClientStep
<1>3. cur = c /\ Executing => cpc'[c] = "wait"
  <2> SUFFICES ASSUME cur = c, Executing PROVE cpc'[c] = "wait"
    OBVIOUS
  <2>1. cpc[c] = "wait" /\ srvEnd[c] = "open" /\ NoEof(down[c])
    BY <1>0 DEF Present, Inv, Exchange, ExchangeOf
  <2>2. RecvReply(c)
    BY <2>1 DEF UserStep, ClientStep, TypeLine, Quit, Connect, ConnectFails,
                RecvNothing, Kill
  <2> QED
    BY <2>1, <2>2 DEF RecvReply, NoEof
<1>4. cpc'[c] = "done" /\ srvEnd'[c] = "open" => up'[c] = <<>>
  <2>1. CASE Connect(c) \/ ConnectFails(c)
    <3>1. cpc[c] = "start" /\ UNCHANGED up
      BY <2>1 DEF Connect, ConnectFails, netVars
    <3> QED
      BY <3>1 DEF Inv, Connections
  <2>2. CASE TypeLine(c)
    BY <2>2 DEF TypeLine, TypeOK
  <2>3. CASE Quit(c)
    <3>1. cpc[c] = "prompt" /\ UNCHANGED up
      BY <2>3 DEF Quit
    <3> QED
      BY <3>1 DEF Inv, Exchange, ExchangeOf
  <2>4. CASE RecvReply(c)
    <3>1. cpc[c] = "wait" /\ UNCHANGED up
      BY <2>4 DEF RecvReply
    <3>2. PICK n \in 1..Len(down[c]) : RecvReply(c)!2!(n)
      BY <2>4 DEF RecvReply
    <3>3. cpc'[c] = "done" => ~NoEof(down[c])
      BY <3>1, <3>2 DEF NoEof, TypeOK
    <3> QED
      BY <3>1, <3>3 DEF Inv, Exchange, ExchangeOf, ReplyDone
  <2>5. CASE RecvNothing(c) \/ Kill(c)
    BY <2>5 DEF RecvNothing, Kill
  <2> QED
    BY <2>1, <2>2, <2>3, <2>4, <2>5 DEF UserStep, ClientStep
<1> QED
  BY <1>0, <1>1, <1>2, <1>3, <1>4 DEF Present, ServerSurvives, Executing

\* With polite traffic, when nobody is killed and no call fails, the server
\* never sends to a closed connection, and is not killed by SIGPIPE.
THEOREM ServerStaysUp ==
  ASSUME Polite, ~Kills, ~Faults PROVE Spec => []ServerSurvives
<1>1. Init => Present
  BY DEF Init, Present, ServerSurvives, Executing
<1>2. TypeOK /\ Inv /\ [Next]_vars => TypeOK' /\ Inv'
  BY NextInv
<1>3. TypeOK /\ TypeOK' /\ Inv /\ Present /\ [Next]_vars => Present'
  <2>1. CASE UNCHANGED vars
    BY <2>1 DEF Present, ServerSurvives, Executing, vars
  <2> QED
    BY <2>1, ServerPresent, ClientPresent DEF Next
<1>4. Present => ServerSurvives
  BY DEF Present
<1> QED
  BY InitInv, <1>1, <1>2, <1>3, <1>4, PTL DEF Spec

(***************************************************************************)
(* The refinement: every step is a step of RemoteCall or leaves it alone.  *)
(***************************************************************************)

LEMMA PhaseChange ==
  ASSUME TypeOK, TypeOK', NEW c \in Clients,
         \A d \in Clients \ {c} : cpc'[d] = cpc[d]
  PROVE  /\ Phase' = [Phase EXCEPT ![c] = Phase'[c]]
         /\ cpc'[c] = cpc[c] => Phase' = Phase
<1>1. Phase = [d \in Clients |-> PhaseOf(cpc[d])]
  BY DEF Phase
<1>2. Phase' = [d \in Clients |-> PhaseOf(cpc'[d])]
  BY DEF Phase, PhaseOf
<1>3. \A d \in Clients \ {c} : Phase'[d] = Phase[d]
  BY <1>1, <1>2
<1>4. cpc'[c] = cpc[c] => Phase'[c] = Phase[c]
  BY <1>1, <1>2
<1> QED
  BY <1>1, <1>2, <1>3, <1>4

\* The abstract step a server step is.
LEMMA ServerRefines ==
  ASSUME Polite, TypeOK, Inv, ServerStep \/ ServerFault
  PROVE  Call!Next \/ UNCHANGED Call!vars
<1>1. CASE BootServer \/ AcceptFails \/ RecvEnd \/ RecvFails
  BY <1>1 DEF BootServer, AcceptFails, RecvEnd, RecvFails, cliVars, Call!vars, Phase
<1>2. CASE Accept \/ AcceptNoBuffer
  <2>1. cur' \in Clients /\ InBacklog(cur') /\ cur = NoClient
    <3>1. Head(backlog) \in Clients /\ Head(backlog) = backlog[1] /\ 1 \in 1..Len(backlog)
      BY <1>2, HeadTailProperties, EmptySeq DEF Accept, AcceptNoBuffer, TypeOK
    <3> QED
      BY <1>2, <3>1
      DEF Accept, AcceptNoBuffer, InBacklog, Inv, Connections, Serving
  <2>2. cpc[cur'] # "start"
    BY <2>1 DEF Inv, Connections, OneAtATime
  <2>3. Phase[cur'] # "away"
    BY <2>1, <2>2 DEF Phase, PhaseOf, TypeOK
  <2>4. UNCHANGED <<Phase, typed, ran>>
    BY <1>2 DEF Accept, AcceptNoBuffer, cliVars, Phase
  <2>5. Call!Serve(cur')
    BY <2>1, <2>3, <2>4 DEF Call!Serve
  <2> QED
    BY <2>1, <2>5 DEF Call!Next
<1>3. CASE RecvCommand
  <2>1. cur \in Clients /\ UNCHANGED <<cur, cpc, typed>>
    BY <1>3 DEF RecvCommand, cliVars, Inv, Connections, Serving, TypeOK
  <2>2. /\ LineInFlight(cur) /\ cpc[cur] \in {"wait", "done"}
        /\ Kind(line[cur]) = "run" => ran' = [ran EXCEPT ![cur] = @ + 1]
        /\ Kind(line[cur]) # "run" => UNCHANGED ran
    BY <1>3, RecvCommandExchange DEF Inv
  <2>3. UNCHANGED Phase
    BY <2>1 DEF Phase, PhaseOf
  <2>4. CASE Kind(line[cur]) = "run"
    <3>1. Phase[cur] \in {"calling", "left"}
      BY <2>1, <2>2 DEF Phase, PhaseOf
    <3>2. Call!Execute(cur)
      BY <2>1, <2>2, <2>3, <2>4, <3>1 DEF Call!Execute, LineInFlight
    <3> QED
      BY <2>1, <3>2 DEF Call!Next
  <2>5. CASE Kind(line[cur]) # "run"
    BY <2>1, <2>2, <2>3, <2>5 DEF Call!vars
  <2> QED
    BY <2>4, <2>5
<1>4. CASE ChildReads \/ PipelineDone
  BY <1>4 DEF ChildReads, PipelineDone, cliVars, srvVars, Call!vars, Phase
<1>5. CASE \/ SendRc \/ SendEof \/ SendLimit
           \/ PipelineFails \/ OrphanReads \/ OrphansEnd
  <2>1. cur # NoClient
    BY <1>5 DEF SendRc, SendEof, SendLimit, PipelineFails, OrphanReads,
                OrphansEnd, Inv, Connections, Serving
  <2>2. UNCHANGED <<cpc, typed, ran>>
    BY <1>5 DEF SendRc, SendEof, SendLimit, Send, PipelineFails, OrphanReads,
                OrphansEnd, cliVars
  <2>3. UNCHANGED Phase
    BY <2>2 DEF Phase, PhaseOf
  <2>4. cur' = cur \/ cur' = NoClient
    BY <1>5 DEF SendRc, SendEof, SendLimit, Send, PipelineFails, OrphanReads,
                OrphansEnd, LastProcessEnds
  <2> QED
    BY <2>1, <2>2, <2>3, <2>4 DEF Call!Next, Call!Release, Call!vars
<1>6. CASE CloseClient
  <2>1. cur # NoClient /\ cur' = NoClient /\ UNCHANGED <<Phase, typed, ran>>
    BY <1>6 DEF CloseClient, cliVars, Phase, Inv, Connections, Serving
  <2> QED
    BY <2>1 DEF Call!Next, Call!Release
<1>7. CASE StopServer
  BY <1>7 DEF StopServer, cliVars, Call!vars, Phase
<1> QED
  BY <1>1, <1>2, <1>3, <1>4, <1>5, <1>6, <1>7 DEF ServerStep, ServerFault

LEMMA LeaveRefines ==
  ASSUME TypeOK, TypeOK', NEW c \in Clients, NEW rc, NEW unread,
         Leave(c, rc, unread), cpc[c] # "done", UNCHANGED <<typed, ran, cur>>
  PROVE  Call!Leave(c)
<1>1. cpc'[c] = "done" /\ \A d \in Clients \ {c} : cpc'[d] = cpc[d]
  BY DEF Leave, TypeOK
<1>2. Phase'[c] = "left" /\ Phase[c] # "left"
  BY <1>1 DEF Phase, PhaseOf, TypeOK
<1>3. Phase' = [Phase EXCEPT ![c] = "left"]
  BY <1>1, <1>2, PhaseChange
<1> QED
  BY <1>2, <1>3 DEF Call!Leave

LEMMA ClientRefines ==
  ASSUME Polite, TypeOK, TypeOK', Inv, NEW c \in Clients,
         UserStep(c) \/ ClientStep(c) \/ Kill(c)
  PROVE  Call!Next \/ UNCHANGED Call!vars
<1>1. CASE Connect(c)
  <2>1. /\ cpc[c] = "start" /\ cpc'[c] = "prompt"
        /\ \A d \in Clients \ {c} : cpc'[d] = cpc[d]
        /\ UNCHANGED <<typed, ran, cur>>
    BY <1>1 DEF Connect, TypeOK
  <2>2. Phase[c] = "away" /\ Phase'[c] = "idle"
    BY <2>1 DEF Phase, PhaseOf
  <2>3. Call!Join(c)
    BY <2>1, <2>2, PhaseChange DEF Call!Join
  <2> QED
    BY <2>3 DEF Call!Next
<1>2. CASE ConnectFails(c)
  <2>1. /\ cpc[c] = "start" /\ cpc'[c] = "done"
        /\ \A d \in Clients \ {c} : cpc'[d] = cpc[d]
        /\ UNCHANGED <<typed, ran, cur>>
    BY <1>2 DEF ConnectFails, TypeOK, srvVars
  <2>2. Phase[c] = "away" /\ Phase'[c] = "left"
    BY <2>1 DEF Phase, PhaseOf
  <2>3. Call!Leave(c)
    BY <2>1, <2>2, PhaseChange DEF Call!Leave
  <2> QED
    BY <2>3 DEF Call!Next
<1>3. CASE TypeLine(c)
  <2>1. /\ cpc[c] = "prompt" /\ cpc'[c] \in {"wait", "done"}
        /\ \A d \in Clients \ {c} : cpc'[d] = cpc[d]
        /\ typed' = [typed EXCEPT ![c] = @ + 1]
        /\ UNCHANGED <<ran, cur>>
    BY <1>3 DEF TypeLine, Leave, TypeOK, srvVars
  <2>2. Phase[c] = "idle" /\ Phase'[c] \in {"calling", "left"}
    BY <2>1 DEF Phase, PhaseOf
  <2>3. ran[c] = typed[c]
    BY <2>1 DEF Inv, Exchange, ExchangeOf
  <2>4. Call!Call(c)
    BY <2>1, <2>2, <2>3, PhaseChange DEF Call!Call
  <2> QED
    BY <2>4 DEF Call!Next
<1>4. CASE RecvReply(c)
  <2>1. PICK n \in 1..Len(down[c]) : RecvReply(c)!2!(n)
    BY <1>4 DEF RecvReply
  <2>2. cpc[c] = "wait" /\ UNCHANGED <<typed, ran, cur>>
    BY <1>4 DEF RecvReply, srvVars
  <2>3. CASE UNCHANGED cpc
    BY <2>2, <2>3 DEF Phase, Call!vars
  <2>4. CASE down[c][n] = EOF /\ cpc' = [cpc EXCEPT ![c] = "prompt"]
    <3>1. ran[c] = typed[c]
      <4>1. ~NoEof(down[c])
        BY <2>4 DEF NoEof
      <4> QED
        BY <2>2, <4>1 DEF Inv, Exchange, ExchangeOf, ReplyDone
    <3>2. Phase[c] = "calling" /\ Phase'[c] = "idle"
      BY <2>2, <2>4 DEF Phase, PhaseOf, TypeOK
    <3>3. \A d \in Clients \ {c} : cpc'[d] = cpc[d]
      BY <2>4 DEF TypeOK
    <3>4. Call!Return(c)
      BY <2>2, <3>1, <3>2, <3>3, PhaseChange DEF Call!Return
    <3> QED
      BY <3>4 DEF Call!Next
  <2>5. CASE Leave(c, "OK", Rest(down[c], n))
    BY <2>2, <2>5, LeaveRefines DEF Call!Next
  <2> QED
    BY <2>1, <2>3, <2>4, <2>5
<1>5. CASE Quit(c) \/ RecvNothing(c) \/ Kill(c)
  <2>1. PICK rc \in {"OK", "ERR_RDSH_COMMUNICATION", "killed"},
             unread \in {down[c], <<>>} : Leave(c, rc, unread)
    BY <1>5 DEF Quit, RecvNothing, Kill
  <2>2. cpc[c] # "done" /\ UNCHANGED <<typed, ran, cur>>
    BY <1>5 DEF Quit, RecvNothing, Kill, srvVars
  <2> QED
    BY <2>1, <2>2, LeaveRefines DEF Call!Next
<1> QED
  BY <1>1, <1>2, <1>3, <1>4, <1>5 DEF ClientStep, UserStep

LEMMA InitRefines == Init => Call!Init
  BY DEF Init, Call!Init, Phase, PhaseOf

LEMMA NextRefines ==
  ASSUME Polite, TypeOK, TypeOK', Inv, [Next]_vars
  PROVE  [Call!Next]_(Call!vars)
<1>1. CASE UNCHANGED vars
  BY <1>1 DEF vars, Call!vars, Phase
<1> QED
  BY <1>1, ServerRefines, ClientRefines DEF Next

\* With polite traffic the remote shell implements the remote call.
THEOREM Refinement == ASSUME Polite PROVE Spec => ImplementsCall
<1>1. TypeOK /\ Inv /\ [Next]_vars => TypeOK' /\ Inv'
  BY NextInv
<1>2. TypeOK /\ TypeOK' /\ Inv /\ [Next]_vars => [Call!Next]_(Call!vars)
  BY NextRefines
<1> QED
  BY InitInv, InitRefines, <1>1, <1>2, PTL DEF Spec, Call!Spec, ImplementsCall
=============================================================================
