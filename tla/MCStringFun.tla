---------------------------- MODULE MCStringFun ----------------------------
(* Values for the constants of StringFun. *)
EXTENDS StringFun

Letters == {"a", "b"}
SomeTexts == UNION {[1..k -> {"a", "b", "space", "dot"}] : k \in 0..5}
             \cup {<<"tab", "space", "a">>, <<"a", "tab", "tab", "b", "tab">>,
                   <<"a", "b", "a", "b", "a", "b">>,
                   <<"a", "space", "a", "space", "space", "space", "space">>}
SomeOld == {<<>>, <<"a">>, <<"a", "a">>, <<"a", "b">>, <<"b", "a", "b">>,
            <<"dot">>, <<"a", "dot">>, <<"a", "dot", "dot">>}
SomeNew == {<<>>, <<"b">>, <<"a", "b">>, <<"b", "a", "b">>}
=============================================================================
