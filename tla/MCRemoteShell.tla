---------------------------- MODULE MCRemoteShell ----------------------------
(* Values for the constants of RemoteShell. *)
EXTENDS RemoteShell, TLC

CONSTANTS c1, c2, c3

TwoClients == {c1, c2}
ThreeClients == {c1, c2, c3}

End == <<NL, NUL>>
Ls == <<"w">> \o End
EchoExit == <<"w", "exit">> \o End
Exit == <<"exit">> \o End
Stop == <<"stop-server">> \o End
Cd == <<"cd", "w">> \o End
Two == <<"w", PIPE, "w">> \o End
Three == <<"w", PIPE, "w", PIPE, "w">> \o End
Pipes == <<PIPE>> \o End
Cat == <<"cat">> \o End
CatPipe == <<"cat", PIPE, "w">> \o End
CatStop == <<"cat", PIPE, "stop-server">> \o End
Dangling == <<"w", PIPE, "w", PIPE>> \o End
Rc == <<"rc">> \o End
EchoStop == <<"w", "stop-server">> \o End
Long == <<"w", "w", "w", "w", "w", "w">> \o End

\* Lines the protocol is made for.
PoliteLines == {Ls, EchoExit, EchoStop, Exit, Stop, Cd, Two}
FewLines == {Ls, EchoExit, Exit, Stop}
\* Lines that get no reply, half of one, or one that never comes; whose parts
\* are other commands; and whose first program may outlive the server.
RudeLines == {CatStop, Dangling}
AllLines == PoliteLines \cup {Cat, Rc, Long, Pipes, Three, CatPipe}

PoliteOutputs == {<<>>, <<"out">>, <<"out", "out">>}
BinaryOutputs == {<<"out", EOF, "out">>}
=============================================================================
