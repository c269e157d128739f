---------------------------- MODULE MCCommandList ----------------------------
(* Values for the constants of CommandList. *)
EXTENDS CommandList

Short == UNION {[1..k -> Chars] : k \in 0..5}

\* Commands, and lines put together from them by pipes, where the limits bite.
Plain == {<<"letter">>, <<"letter", "letter", "letter">>,
          <<"letter", "space", "letter", "space", "letter">>,
          <<"space", "letter", "space", "letter", "letter", "space">>}
Files == {<<"in", "letter">>, <<"letter", "out", "out", "letter">>,
          <<"letter", "in", "letter", "in", "letter">>}
Blank == {<<>>, <<"space">>}
Bar == <<"pipe">>

Twos == {a \o Bar \o b : a, b \in Plain \cup Files}
Threes == {<<"letter">> \o Bar \o a \o Bar \o b :
             a \in Files, b \in Plain \cup Files \cup Blank}

SomeLines == Short \cup Plain \cup Files \cup Twos \cup Threes
FewLines == Plain \cup Files \cup Blank
            \cup {<<"letter">> \o Bar \o a : a \in Files}
            \cup {a \o Bar \o <<"letter">> : a \in Files}
=============================================================================
