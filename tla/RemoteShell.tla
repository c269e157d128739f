----------------------------- MODULE RemoteShell -----------------------------
(***************************************************************************)
(* The remote shell of 6-RShell/starter: the clients of rsh_cli.c, the     *)
(* single-threaded server of rsh_server.c and the TCP connections between  *)
(* them.                                                                   *)
(*                                                                         *)
(* A connection is two byte streams.  The unit of the stream from client   *)
(* to server is a word of a command line, a '|', the newline or the NUL    *)
(* the client sends after it; the unit of the stream back is a stretch of  *)
(* output or the end marker RDSH_EOF_CHAR.  A recv() of the server may     *)
(* return any part of what was sent when Fragmenting is TRUE, and          *)
(* everything that has arrived, up to the size of its buffer, when it is   *)
(* not; a recv() of the client may always return any part of it.           *)
(***************************************************************************)
EXTENDS Naturals, Sequences, FiniteSets

CONSTANTS
  Clients,      \* the client processes
  NoClient,     \* "nobody is being served"
  Lines,        \* what a user may type, as the client sends it
  Outputs,      \* what a pipeline may write to the client's socket
  CmdMax,       \* CMD_MAX: the longest pipeline
  BuffSz,       \* RDSH_COMM_BUFF_SZ, in units of the stream
  Backlog,      \* the argument of listen()
  MaxLines,     \* bound: lines one user types
  Fragmenting,  \* does TCP split what a client sent?
  Kills,        \* are clients killed at arbitrary points?
  Faults        \* do bind, accept, recv, malloc, pipe and fork fail?

NUL == "nul"
NL == "nl"
PIPE == "|"
EOF == "EOF"
Words == {"w", "exit", "stop-server", "cd", "rc", "cat"}
Piece == Words \cup {PIPE, NL, NUL}
OutPiece == {"out", "rc", "limit", EOF}

ASSUME ClientsAssumption == NoClient \notin Clients
ASSUME SizesAssumption ==
  /\ CmdMax \in Nat \ {0}
  /\ BuffSz \in Nat \ {0, 1}
  /\ Backlog \in Nat
  /\ MaxLines \in Nat
ASSUME SwitchesAssumption ==
  /\ Fragmenting \in BOOLEAN
  /\ Kills \in BOOLEAN
  /\ Faults \in BOOLEAN
\* fgets() stores at most BuffSz - 1 characters, send() adds the NUL, and a
\* line of blanks is never sent.
ASSUME LinesAssumption ==
  /\ Lines \subseteq Seq(Piece)
  /\ \A l \in Lines :
       /\ Len(l) \in 2..BuffSz
       /\ \A i \in 1..Len(l) : l[i] = NUL <=> i = Len(l)
       /\ \E i \in 1..Len(l) : l[i] \in Words \cup {PIPE}
ASSUME OutputsAssumption == Outputs \subseteq Seq(OutPiece)

VARIABLES
  spc,      \* where the server is
  cur,      \* the client it serves
  srvRc,    \* the rc of process_cli_requests
  bi,       \* what rsh_built_in_cmd answered for the command at hand
  reads,    \* does the first process of the pipeline read its stdin?
  cwd,      \* whose `cd` set the server's working directory
  backlog,  \* connections completed by the kernel, not accepted yet
  cpc,      \* where each client is
  line,     \* its cmd_buff
  typed,    \* the number of lines it sent
  crc,      \* what exec_remote_cmd_loop returned
  up,       \* sent by the client, not yet received by the server
  down,     \* sent by the server, not yet received by the client
  cliEnd,   \* the client's end of the connection, as the server sees it
  srvEnd,   \* the server's end
  ran       \* history: command lines the server executed for the client

srvVars == <<spc, cur, srvRc, bi, reads, cwd, backlog>>
cliVars == <<cpc, line, typed, crc>>
netVars == <<up, down, cliEnd, srvEnd>>
vars == <<spc, cur, srvRc, bi, reads, cwd, backlog, cpc, line, typed, crc,
          up, down, cliEnd, srvEnd, ran>>

-----------------------------------------------------------------------------
(* What the server makes of the bytes one recv() returned.                 *)

\* The C string in the buffer: the bytes before the first NUL.
CString(b) ==
  LET ends == {i \in 1..Len(b) : b[i] = NUL}
  IN  IF ends = {} THEN b
      ELSE SubSeq(b, 1, (CHOOSE i \in ends : \A j \in ends : i <= j) - 1)

\* Where a token of strtok_r starts, and where the name of a command stands:
\* the first word of a token that has one.
TokenStarts(s) == {i \in 1..Len(s) : s[i] # PIPE /\ (i = 1 \/ s[i-1] = PIPE)}
Heads(s) == {i \in 1..Len(s) :
               /\ s[i] \in Words
               /\ \A j \in 1..(i-1) :
                    s[j] \in Words => \E k \in (j+1)..(i-1) : s[k] = PIPE}

\* build_cmd_list refuses a token, blank or not, after CmdMax commands.
TooMany(s) ==
  \E t \in TokenStarts(s) : Cardinality({h \in Heads(s) : h < t}) >= CmdMax

Name(s) == s[CHOOSE h \in Heads(s) : \A i \in Heads(s) : h <= i]
Alone(s) == Cardinality(Heads(s)) = 1

\* Mutant of Kind: the built-ins are looked for anywhere in the line.
KindAnywhere(chunk) ==
  LET s == CString(chunk)
  IN  IF Heads(s) = {} THEN "none"
      ELSE IF TooMany(s) THEN "limit"
      ELSE IF \E i \in 1..Len(s) : s[i] = "stop-server" THEN "stop"
      ELSE IF \E i \in 1..Len(s) : s[i] = "exit" THEN "exit"
      ELSE "run"

\* What exec_client_requests does with a chunk: nothing, the pipe-limit
\* message, the two built-ins it handles, or a pipeline.
Kind(chunk) ==
  LET s == CString(chunk)
  IN  IF Heads(s) = {} THEN "none"
      ELSE IF TooMany(s) THEN "limit"
      ELSE IF Alone(s) /\ Name(s) = "exit" THEN "exit"
      ELSE IF Alone(s) /\ Name(s) = "stop-server" THEN "stop"
      ELSE "run"

\* rsh_built_in_cmd, consulted for a command that is not part of a pipeline.
BuiltIn(s) ==
  IF ~Alone(s) THEN "unasked"
  ELSE IF Name(s) = "cd" THEN "BI_EXECUTED"
  ELSE IF Name(s) = "rc" THEN "BI_CMD_RC"
  ELSE "BI_NOT_BI"

\* The first process of the pipeline has the client's socket as its stdin.
ReadsSocket(s) == Name(s) = "cat"

\* strstr(cmd_buff, "exit") || strstr(cmd_buff, "stop-server")
MentionsExit(l) == \E i \in 1..Len(l) : l[i] \in {"exit", "stop-server"}

\* How much a recv() may return of the bytes that have arrived.
RecvLens(s) ==
  LET most == IF Len(s) < BuffSz THEN Len(s) ELSE BuffSz - 1
  IN  IF Fragmenting THEN 1..most ELSE {most} \ {0}

Rest(s, n) == SubSeq(s, n + 1, Len(s))

-----------------------------------------------------------------------------
Init ==
  /\ spc = "boot"
  /\ cur = NoClient
  /\ srvRc = "OK"
  /\ bi = "unasked"
  /\ reads = FALSE
  /\ cwd = NoClient
  /\ backlog = <<>>
  /\ cpc = [c \in Clients |-> "start"]
  /\ line = [c \in Clients |-> <<>>]
  /\ typed = [c \in Clients |-> 0]
  /\ crc = [c \in Clients |-> "none"]
  /\ up = [c \in Clients |-> <<>>]
  /\ down = [c \in Clients |-> <<>>]
  /\ cliEnd = [c \in Clients |-> "open"]
  /\ srvEnd = [c \in Clients |-> "none"]
  /\ ran = [c \in Clients |-> 0]

Listening == spc \notin {"boot", "stopped", "dead"}
InBacklog(c) == \E i \in 1..Len(backlog) : backlog[i] = c

\* The last process that holds the server's sockets ends without returning
\* from main: the server itself, of SIGPIPE or in the exit(EXIT_FAILURE) of
\* rsh_execute_pipeline, or a program it left behind.  The kernel closes the
\* listening socket and every connection.
LastProcessEnds ==
  /\ spc' = "dead"
  /\ cur' = NoClient
  /\ backlog' = <<>>
  /\ srvEnd' = [c \in Clients |->
                  IF srvEnd[c] = "open" THEN "closed" ELSE srvEnd[c]]

-----------------------------------------------------------------------------
(* The server.                                                             *)

BootServer ==
  /\ spc = "boot"
  /\ \/ spc' = "accept" /\ UNCHANGED srvRc
     \/ Faults /\ spc' = "stopped" /\ srvRc' = "ERR_RDSH_COMMUNICATION"
  /\ UNCHANGED <<cur, bi, reads, cwd, backlog, cliVars, netVars, ran>>

Accept ==
  /\ spc = "accept"
  /\ backlog # <<>>
  /\ cur' = Head(backlog)
  /\ backlog' = Tail(backlog)
  /\ spc' = "recv"
  /\ UNCHANGED <<srvRc, bi, reads, cwd, cliVars, netVars, ran>>

\* exec_client_requests cannot allocate its buffer: on to the next client.
AcceptNoBuffer ==
  /\ Faults
  /\ spc = "accept"
  /\ backlog # <<>>
  /\ cur' = Head(backlog)
  /\ backlog' = Tail(backlog)
  /\ srvRc' = "ERR_RDSH_SERVER"
  /\ spc' = "close"
  /\ UNCHANGED <<bi, reads, cwd, cliVars, netVars, ran>>

AcceptFails ==
  /\ Faults
  /\ spc = "accept"
  /\ srvRc' = "ERR_RDSH_COMMUNICATION"
  /\ spc' = "stopping"
  /\ UNCHANGED <<cur, bi, reads, cwd, backlog, cliVars, netVars, ran>>

\* One recv() that returns data, and the branch exec_client_requests takes.
\* A `cd` alone changes the server's own directory and is then executed as a
\* program all the same.
RecvCommand ==
  /\ spc = "recv"
  /\ \E n \in RecvLens(up[cur]) :
       LET chunk == SubSeq(up[cur], 1, n)
           s == CString(chunk)
       IN  /\ up' = [up EXCEPT ![cur] = Rest(up[cur], n)]
           /\ \/ /\ Kind(chunk) = "none"
                 /\ UNCHANGED <<spc, srvRc, bi, reads, cwd, ran>>
              \/ /\ Kind(chunk) = "limit"
                 /\ spc' = "sendlimit"
                 /\ UNCHANGED <<srvRc, bi, reads, cwd, ran>>
              \/ /\ Kind(chunk) = "exit"
                 /\ spc' = "close"
                 /\ srvRc' = "OK"
                 /\ UNCHANGED <<bi, reads, cwd, ran>>
              \/ /\ Kind(chunk) = "stop"
                 /\ spc' = "close"
                 /\ srvRc' = "OK_EXIT"
                 /\ UNCHANGED <<bi, reads, cwd, ran>>
              \/ /\ Kind(chunk) = "run"
                 /\ spc' = "exec"
                 /\ bi' = BuiltIn(s)
                 /\ cwd' \in IF bi' = "BI_EXECUTED" THEN {cwd, cur} ELSE {cwd}
                 /\ reads' = ReadsSocket(s)
                 /\ ran' = [ran EXCEPT ![cur] = @ + 1]
                 /\ UNCHANGED srvRc
  /\ UNCHANGED <<cur, backlog, cliVars, down, cliEnd, srvEnd>>

\* Mutant of RecvEnd: the result of recv() is returned as it is.
RecvEndRaw ==
  /\ spc = "recv"
  /\ \/ up[cur] = <<>> /\ cliEnd[cur] # "open" /\ srvRc' = "0"
     \/ up[cur] = <<>> /\ cliEnd[cur] = "rst" /\ srvRc' = "-1"
     \/ Faults /\ srvRc' = "-1"
  /\ spc' = "close"
  /\ UNCHANGED <<cur, bi, reads, cwd, backlog, cliVars, netVars, ran>>

\* Mutant of RecvEnd: only -1 is the end of a session.
RecvEndErrors ==
  /\ spc = "recv"
  /\ up[cur] = <<>> /\ cliEnd[cur] = "rst"
  /\ srvRc' = "ERR_RDSH_COMMUNICATION"
  /\ spc' = "close"
  /\ UNCHANGED <<cur, bi, reads, cwd, backlog, cliVars, netVars, ran>>

\* recv() returns 0, or -1 after a reset.
RecvEnd ==
  /\ spc = "recv"
  /\ up[cur] = <<>>
  /\ \/ cliEnd[cur] # "open" /\ srvRc' = "OK"
     \/ cliEnd[cur] = "rst" /\ srvRc' = "ERR_RDSH_COMMUNICATION"
  /\ spc' = "close"
  /\ UNCHANGED <<cur, bi, reads, cwd, backlog, cliVars, netVars, ran>>

RecvFails ==
  /\ Faults
  /\ spc = "recv"
  /\ srvRc' = "ERR_RDSH_COMMUNICATION"
  /\ spc' = "close"
  /\ UNCHANGED <<cur, bi, reads, cwd, backlog, cliVars, netVars, ran>>

\* The first process of the pipeline takes what the client sends meanwhile.
ChildReads ==
  /\ spc = "exec"
  /\ reads
  /\ up[cur] # <<>>
  /\ up' = [up EXCEPT ![cur] = <<>>]
  /\ UNCHANGED <<srvVars, cliVars, down, cliEnd, srvEnd, ran>>

\* The last process wrote its output to the client's socket and every process
\* has been waited for; one that reads its stdin ends at its end of file.
PipelineDone ==
  /\ spc = "exec"
  /\ reads => up[cur] = <<>> /\ cliEnd[cur] # "open"
  /\ \/ /\ cliEnd[cur] = "open"
        /\ \E out \in Outputs : down' = [down EXCEPT ![cur] = @ \o out]
        /\ UNCHANGED cliEnd
     \/ /\ cliEnd[cur] # "open"
        /\ \E end \in {cliEnd[cur], "rst"} :
             cliEnd' = [cliEnd EXCEPT ![cur] = end]
        /\ UNCHANGED down
  /\ spc' = "sendrc"
  /\ UNCHANGED <<cur, srvRc, bi, reads, cwd, backlog, cliVars, up, srvEnd, ran>>

\* A pipe() or a fork() fails and the server exits.  In a line of several
\* commands programs may have been forked already, and may be running still:
\* they go on as orphans, with the client's socket and the listening socket
\* open.  The last program of the line is not among them, so that nothing is
\* written to the client any more.
PipelineFails ==
  /\ Faults
  /\ spc = "exec"
  /\ \/ LastProcessEnds
     \/ bi = "unasked" /\ spc' = "orphans" /\ UNCHANGED <<cur, backlog, srvEnd>>
  /\ UNCHANGED <<srvRc, bi, reads, cwd, cliVars, up, down, cliEnd, ran>>

\* The first orphan takes what the client sends, and writes it to a pipe that
\* the next orphan reads, or nobody: SIGPIPE may end them all.
OrphanReads ==
  /\ spc = "orphans"
  /\ reads
  /\ up[cur] # <<>>
  /\ up' = [up EXCEPT ![cur] = <<>>]
  /\ LastProcessEnds \/ UNCHANGED <<spc, cur, backlog, srvEnd>>
  /\ UNCHANGED <<srvRc, bi, reads, cwd, cliVars, down, cliEnd, ran>>

\* The orphans are over: programs end, one that reads the socket at its end of
\* file, one that reads a pipe when the program before it has ended.
OrphansEnd ==
  /\ spc = "orphans"
  /\ reads => up[cur] = <<>> /\ cliEnd[cur] # "open"
  /\ LastProcessEnds
  /\ UNCHANGED <<srvRc, bi, reads, cwd, cliVars, up, down, cliEnd, ran>>

\* One send() whose result nobody looks at.  To a client that has closed, the
\* data is dropped and answered by a reset; after a reset the call returns an
\* error or SIGPIPE, for which there is no handler, kills the server.
Send(piece, next) ==
  /\ \/ /\ cliEnd[cur] = "open"
        /\ down' = [down EXCEPT ![cur] = Append(@, piece)]
        /\ spc' = next
        /\ UNCHANGED <<cliEnd, srvEnd, backlog, cur>>
     \/ /\ cliEnd[cur] = "fin"
        /\ \E end \in {"fin", "rst"} : cliEnd' = [cliEnd EXCEPT ![cur] = end]
        /\ spc' = next
        /\ UNCHANGED <<down, srvEnd, backlog, cur>>
     \/ /\ cliEnd[cur] = "rst"
        /\ spc' = next
        /\ UNCHANGED <<down, cliEnd, srvEnd, backlog, cur>>
     \/ /\ cliEnd[cur] = "rst"
        /\ LastProcessEnds
        /\ UNCHANGED <<down, cliEnd>>
  /\ UNCHANGED <<srvRc, bi, reads, cwd, cliVars, up, ran>>

\* Mutants: the message with the exit code brings its own end marker; the end
\* marker is forgotten.
SendRcEnded == spc = "sendrc" /\ Send(EOF, "sendeof")
SendEofForgotten ==
  /\ spc = "sendeof"
  /\ spc' = "recv"
  /\ UNCHANGED <<cur, srvRc, bi, reads, cwd, backlog, cliVars, netVars, ran>>

SendRc == spc = "sendrc" /\ Send("rc", "sendeof")
SendEof == spc = "sendeof" /\ Send(EOF, "recv")
SendLimit == spc = "sendlimit" /\ Send("limit", "recv")

\* Mutant of CloseClient: the client's socket is not closed.
CloseClientLeaks ==
  /\ spc = "close"
  /\ cur' = NoClient
  /\ spc' = IF srvRc = "OK_EXIT" THEN "stopping" ELSE "accept"
  /\ UNCHANGED <<srvRc, bi, reads, cwd, backlog, cliVars, netVars, ran>>

\* exec_client_requests has returned; only OK_EXIT leaves the accept loop.
CloseClient ==
  /\ spc = "close"
  /\ srvEnd' = [srvEnd EXCEPT ![cur] = "closed"]
  /\ cur' = NoClient
  /\ spc' = IF srvRc = "OK_EXIT" THEN "stopping" ELSE "accept"
  /\ UNCHANGED <<srvRc, bi, reads, cwd, backlog, cliVars, up, down, cliEnd,
                 ran>>

\* Mutant of StopServer: the listening socket is not closed.
StopServerLeaks ==
  /\ spc = "stopping"
  /\ spc' = "stopped"
  /\ UNCHANGED <<cur, srvRc, bi, reads, cwd, backlog, cliVars, netVars, ran>>

\* Closing the listening socket resets the connections still in its queue.
StopServer ==
  /\ spc = "stopping"
  /\ spc' = "stopped"
  /\ srvEnd' = [c \in Clients |->
                  IF InBacklog(c) THEN "closed" ELSE srvEnd[c]]
  /\ backlog' = <<>>
  /\ UNCHANGED <<cur, srvRc, bi, reads, cwd, cliVars, up, down, cliEnd, ran>>

-----------------------------------------------------------------------------
(* A client.                                                               *)

Connect(c) ==
  /\ cpc[c] = "start"
  /\ Listening
  /\ Len(backlog) <= Backlog
  /\ backlog' = Append(backlog, c)
  /\ srvEnd' = [srvEnd EXCEPT ![c] = "open"]
  /\ cpc' = [cpc EXCEPT ![c] = "prompt"]
  /\ UNCHANGED <<spc, cur, srvRc, bi, reads, cwd, line, typed, crc, up, down,
                 cliEnd, ran>>

ConnectFails(c) ==
  /\ cpc[c] = "start"
  /\ ~Listening \/ Faults
  /\ cpc' = [cpc EXCEPT ![c] = "done"]
  /\ crc' = [crc EXCEPT ![c] = "ERR_RDSH_CLIENT"]
  /\ UNCHANGED <<srvVars, line, typed, netVars, ran>>

\* client_cleanup, or the kernel for a client that is killed: close() with
\* `unread` bytes in the receive buffer resets the connection.
Leave(c, rc, unread) ==
  /\ cpc' = [cpc EXCEPT ![c] = "done"]
  /\ crc' = [crc EXCEPT ![c] = rc]
  /\ cliEnd' = [cliEnd EXCEPT ![c] = IF unread = <<>> THEN "fin" ELSE "rst"]
  /\ down' = [down EXCEPT ![c] = <<>>]

\* fgets() returned a line and send() took it; to a server that has closed
\* the connection the call may fail, or succeed and the bytes are lost.
TypeLine(c) ==
  /\ cpc[c] = "prompt"
  /\ typed[c] < MaxLines
  /\ \E l \in Lines :
       /\ line' = [line EXCEPT ![c] = l]
       /\ typed' = [typed EXCEPT ![c] = @ + 1]
       /\ \/ /\ up' = IF srvEnd[c] = "open"
                        THEN [up EXCEPT ![c] = @ \o l] ELSE up
             /\ cpc' = [cpc EXCEPT ![c] = "wait"]
             /\ UNCHANGED <<crc, down, cliEnd>>
          \/ /\ srvEnd[c] = "closed"
             /\ Leave(c, "ERR_RDSH_COMMUNICATION", down[c])
             /\ UNCHANGED up
  /\ UNCHANGED <<srvVars, srvEnd, ran>>

\* End of file on the user's terminal.
Quit(c) ==
  /\ cpc[c] = "prompt"
  /\ Leave(c, "OK", down[c])
  /\ UNCHANGED <<srvVars, line, typed, up, srvEnd, ran>>

\* Mutants of RecvReply: one recv() is taken for the whole response; the
\* client leaves before the response is over.
RecvReplyOnce(c) ==
  /\ cpc[c] = "wait"
  /\ \E n \in 1..Len(down[c]) :
       LET rest == Rest(down[c], n)
       IN  \/ /\ ~MentionsExit(line[c])
              /\ down' = [down EXCEPT ![c] = rest]
              /\ cpc' = [cpc EXCEPT ![c] = "prompt"]
              /\ UNCHANGED <<crc, cliEnd>>
           \/ /\ MentionsExit(line[c])
              /\ Leave(c, "OK", rest)
  /\ UNCHANGED <<srvVars, line, typed, up, srvEnd, ran>>

RecvReplyEager(c) ==
  /\ cpc[c] = "wait"
  /\ \E n \in 1..Len(down[c]) :
       LET rest == Rest(down[c], n)
       IN  \/ /\ ~MentionsExit(line[c])
              /\ down' = [down EXCEPT ![c] = rest]
              /\ cpc' = IF down[c][n] = EOF THEN [cpc EXCEPT ![c] = "prompt"]
                        ELSE cpc
              /\ UNCHANGED <<crc, cliEnd>>
           \/ /\ MentionsExit(line[c])
              /\ Leave(c, "OK", rest)
  /\ UNCHANGED <<srvVars, line, typed, up, srvEnd, ran>>

\* One recv() of the response loop; the response is over when the chunk ends
\* with the end marker, wherever the server is.
RecvReply(c) ==
  /\ cpc[c] = "wait"
  /\ \E n \in 1..Len(down[c]) :
       LET rest == Rest(down[c], n)
       IN  \/ /\ down[c][n] # EOF
              /\ down' = [down EXCEPT ![c] = rest]
              /\ UNCHANGED <<cpc, crc, cliEnd>>
           \/ /\ down[c][n] = EOF
              /\ ~MentionsExit(line[c])
              /\ down' = [down EXCEPT ![c] = rest]
              /\ cpc' = [cpc EXCEPT ![c] = "prompt"]
              /\ UNCHANGED <<crc, cliEnd>>
           \/ /\ down[c][n] = EOF
              /\ MentionsExit(line[c])
              /\ Leave(c, "OK", rest)
  /\ UNCHANGED <<srvVars, line, typed, up, srvEnd, ran>>

\* recv() returned 0 ("Server disconnected.") or an error.
RecvNothing(c) ==
  /\ cpc[c] = "wait"
  /\ down[c] = <<>>
  /\ srvEnd[c] = "closed"
  /\ Leave(c, "ERR_RDSH_COMMUNICATION", <<>>)
  /\ UNCHANGED <<srvVars, line, typed, up, srvEnd, ran>>

Kill(c) ==
  /\ Kills
  /\ cpc[c] \in {"prompt", "wait"}
  /\ Leave(c, "killed", down[c])
  /\ UNCHANGED <<srvVars, line, typed, up, srvEnd, ran>>

-----------------------------------------------------------------------------
ServerStep ==
  \/ BootServer \/ Accept \/ RecvCommand \/ RecvEnd \/ ChildReads
  \/ PipelineDone \/ OrphanReads \/ OrphansEnd \/ SendRc \/ SendEof
  \/ SendLimit \/ CloseClient \/ StopServer

ServerFault == AcceptNoBuffer \/ AcceptFails \/ RecvFails \/ PipelineFails

UserStep(c) == TypeLine(c) \/ Quit(c)
ClientStep(c) == Connect(c) \/ ConnectFails(c) \/ RecvReply(c) \/ RecvNothing(c)

Next ==
  \/ ServerStep
  \/ ServerFault
  \/ \E c \in Clients : UserStep(c) \/ ClientStep(c) \/ Kill(c)

Spec == Init /\ [][Next]_vars

\* The server and the clients are processes the kernel schedules; programs
\* run by a pipeline end, orphans too; users go on typing or leave.  Nothing
\* has to fail.
Fairness ==
  /\ WF_vars(ServerStep)
  /\ \A c \in Clients : WF_vars(ClientStep(c)) /\ WF_vars(UserStep(c))

FairSpec == Spec /\ Fairness

-----------------------------------------------------------------------------
(* Properties.                                                             *)

SrvPc == {"boot", "accept", "recv", "exec", "sendrc", "sendeof", "sendlimit",
          "close", "stopping", "stopped", "orphans", "dead"}

\* Every variable has its type.
TypeOK ==
  /\ spc \in SrvPc
  /\ cur \in Clients \cup {NoClient}
  /\ srvRc \in {"OK", "OK_EXIT", "ERR_RDSH_COMMUNICATION", "ERR_RDSH_SERVER"}
  /\ bi \in {"unasked", "BI_NOT_BI", "BI_CMD_RC", "BI_EXECUTED"}
  /\ reads \in BOOLEAN
  /\ cwd \in Clients \cup {NoClient}
  /\ backlog \in Seq(Clients)
  /\ cpc \in [Clients -> {"start", "prompt", "wait", "done"}]
  /\ line \in [Clients -> Lines \cup {<<>>}]
  /\ typed \in [Clients -> Nat]
  /\ crc \in [Clients -> {"none", "OK", "ERR_RDSH_CLIENT",
                         "ERR_RDSH_COMMUNICATION", "killed"}]
  /\ up \in [Clients -> Seq(Piece)]
  /\ down \in [Clients -> Seq(OutPiece)]
  /\ cliEnd \in [Clients -> {"open", "fin", "rst"}]
  /\ srvEnd \in [Clients -> {"none", "open", "closed"}]
  /\ ran \in [Clients -> Nat]

\* The server, or a program it left behind, cannot take a step before client c
\* does something.
BlockedOn(c) ==
  /\ cur = c
  /\ spc = "recv" \/ (spc \in {"exec", "orphans"} /\ reads)
  /\ up[c] = <<>>
  /\ cliEnd[c] = "open"

\* Client and server never wait for each other: while a client is in the recv
\* of its response loop (rsh_cli.c:123), with nothing left to receive, the
\* server is not in recv (rsh_server.c:276), nor is a process it waits for,
\* with nothing left to receive either.  This needs one reply, ended by the
\* end marker, for every line the client was able to send.
NoMutualWait ==
  \A c \in Clients : ~(cpc[c] = "wait" /\ down[c] = <<>> /\ BlockedOn(c))

\* A client that prompts for its next line has read all of the previous reply,
\* and the server has read all of the previous line and executed it once: no
\* byte of an old exchange can be taken for a part of the next one.
PromptInSync ==
  \A c \in Clients : cpc[c] = "prompt" =>
    /\ up[c] = <<>>
    /\ down[c] = <<>>
    /\ ran[c] = typed[c]
    /\ cur = c => spc \in {"recv", "close"}

\* The accept loop ends with OK_EXIT only when a user typed `stop-server` as
\* the whole command: no line that merely mentions it is taken for it, though
\* the client (rsh_cli.c:141) takes any mention for the command.
StopRequested ==
  srvRc = "OK_EXIT" =>
    \E c \in Clients :
      LET s == CString(line[c]) IN Alone(s) /\ Name(s) = "stop-server"

\* No client that leaves by itself can take the server down: a send to it
\* never meets a closed connection (SIGPIPE, rsh_server.c:318 and 320).
ServerSurvives == spc \notin {"orphans", "dead"}

\* Once the server has stopped, or has died and whatever it left running is over
\* too, every connection is closed, those it never accepted included
\* (rsh_server.c:81, 432 and 442): no client is left waiting for a reply.
GoneClosesAll ==
  spc \in {"stopped", "dead"} => \A c \in Clients : srvEnd[c] # "open"

\* The connections the server holds are the one it serves and the ones in the
\* queue, each once, and only the one it serves has been sent anything.
OneAtATime ==
  /\ \A c \in Clients :
       /\ srvEnd[c] = "open" <=> (cur = c \/ InBacklog(c))
       /\ cur = c => ~InBacklog(c)
       /\ InBacklog(c) => down[c] = <<>> /\ ran[c] = 0
  /\ \A i, j \in 1..Len(backlog) : backlog[i] = backlog[j] => i = j

\* A session is a sequence of remote calls (module RemoteCall).
PhaseOf(pc) ==
  CASE pc = "start" -> "away"
    [] pc = "prompt" -> "idle"
    [] pc = "wait" -> "calling"
    [] OTHER -> "left"
Phase == [c \in Clients |-> PhaseOf(cpc[c])]

Call == INSTANCE RemoteCall WITH phase <- Phase, asked <- typed, serving <- cur

\* The remote shell implements the remote call: each line is executed at most
\* once and while its client is served, and the prompt comes back only after
\* it was.
ImplementsCall == Call!Spec

\* Every line a client sends is answered, or the client learns that it will
\* not be, however many other clients there are.
Answered == \A c \in Clients : cpc[c] = "wait" ~> cpc[c] # "wait"

\* Every client that starts gets to its end: it is served however many
\* clients were there before it, or refused because the server is gone.
AllServed == \A c \in Clients : <>(cpc[c] = "done")

\* A program of a failed pipeline still reads the socket of its client, which
\* is there.
HeldByOrphan == spc = "orphans" /\ reads /\ cliEnd[cur] = "open"

\* Whoever goes, the other is released.  A client that waits, served or in the
\* queue, when the server is gone learns it (rsh_cli.c:123-132), unless a
\* program the server left behind reads from the client it served
\* (rsh_server.c:438-447).  A client that left or was killed does not hold the
\* server, nor what it left behind, not even in the middle of a line of several
\* parts, of a reply, or of a program that reads the socket
\* (rsh_server.c:276-325, 447): the next one in the queue is served.
Released ==
  \A c \in Clients :
    /\ cpc[c] = "wait" /\ spc \in {"orphans", "stopped", "dead"}
         ~> cpc[c] = "done" \/ HeldByOrphan
    /\ cur = c /\ cpc[c] = "done" ~> cur # c

-----------------------------------------------------------------------------
(* The inductive invariant behind the safety properties above.  Its second *)
(* part holds for the traffic the protocol is made for: what a client      *)
(* sends arrives in one piece, every line is a pipeline that gets a reply  *)
(* and that leaves the socket alone, or a built-in that closes it, and no  *)
(* program prints the end marker.                                          *)

NoEof(s) == \A i \in 1..Len(s) : s[i] # EOF
Ended(s) == s # <<>> /\ s[Len(s)] = EOF /\ \A i \in 1..(Len(s) - 1) : s[i] # EOF

Polite ==
  /\ ~Fragmenting
  /\ \A l \in Lines :
       /\ Len(l) < BuffSz
       /\ Kind(l) \in {"exit", "stop", "run"}
       /\ Kind(l) = "run" => ~ReadsSocket(CString(l))
  /\ \A out \in Outputs : NoEof(out)

\* Some process of the server holds the connection of a client; it executes, or
\* has executed in part, a line of that client.
Serving ==
  spc \in {"recv", "exec", "sendrc", "sendeof", "sendlimit", "close", "orphans"}
Executing == spc \in {"exec", "sendrc", "sendeof", "orphans"}

\* Who holds which connection, whatever the traffic.
Connections ==
  /\ Serving <=> cur # NoClient
  /\ spc \in {"boot", "stopped", "dead"} => backlog = <<>>
  /\ OneAtATime
  /\ \A c \in Clients :
       srvEnd[c] = "none" =>
         /\ cpc[c] \in {"start", "done"}
         /\ up[c] = <<>> /\ down[c] = <<>>
         /\ ran[c] = 0 /\ typed[c] = 0
  /\ \A c \in Clients : cpc[c] = "start" => srvEnd[c] = "none"
  /\ \A c \in Clients : cliEnd[c] # "open" => cpc[c] = "done"

\* A line the server has not received yet, and a reply it has finished.
LineInFlight(c) ==
  /\ up[c] = line[c]
  /\ line[c] \in Lines
  /\ ran[c] + 1 = typed[c]
  /\ down[c] = <<>>
ReplyDone(c) == up[c] = <<>> /\ Ended(down[c]) /\ ran[c] = typed[c]

\* How far the exchange of client c can be.
ExchangeOf(c) ==
  /\ cpc[c] = "prompt" => up[c] = <<>> /\ down[c] = <<>> /\ ran[c] = typed[c]
  /\ ran[c] <= typed[c]
  /\ up[c] # <<>> => LineInFlight(c)
  /\ cpc[c] = "wait" => NoEof(down[c]) \/ ReplyDone(c)
  /\ InBacklog(c) /\ cpc[c] = "wait" => LineInFlight(c)
  /\ cur = c /\ spc = "recv" /\ cpc[c] = "wait" =>
       LineInFlight(c) \/ ReplyDone(c)
  /\ cur = c /\ Executing =>
       /\ up[c] = <<>>
       /\ cpc[c] \in {"wait", "done"}
       /\ cpc[c] = "wait" => NoEof(down[c]) /\ ran[c] = typed[c]

Exchange ==
  /\ spc # "sendlimit"
  /\ spc \in {"exec", "orphans"} => ~reads
  /\ \A c \in Clients : ExchangeOf(c)

\* A user who typed `stop-server` waits, or has left, once it is obeyed.
Stopping ==
  srvRc = "OK_EXIT" =>
    /\ spc \in {"close", "stopping", "stopped"}
    /\ \E c \in Clients :
         /\ Kind(line[c]) = "stop"
         /\ cpc[c] \in {"wait", "done"}
         /\ up[c] = <<>> /\ NoEof(down[c])

Inv == Connections /\ Exchange /\ Stopping

-----------------------------------------------------------------------------
(* Documented behaviour the code does not have.                            *)

\* rsh_server.c:364-366: send_message_string "executes both a send() to send
\* the message and a send_message_eof() to send the EOF character to the client
\* to indicate command execution terminated": the server never goes back to
\* recv with a message it has not ended.
MessagesEnded ==
  [][spc = "sendlimit" /\ spc' = "recv" /\ cliEnd[cur] = "open"
       => down'[cur][Len(down'[cur])] = EOF]_vars
=============================================================================
