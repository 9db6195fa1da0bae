------------------------------ MODULE MCStrings -------------------------------
(* Model checking of Strings.                                                  *)
EXTENDS Strings

MCPieces == {<<>>, <<"a">>, <<"\"", "n">>, <<"\\">>}
MCChars == {"a", "n", "r", "2", "5", "C", "%", "&", "=", "-", ".", "#", "7", "1", "0",
            "\n", "\r", "\"", "'", "\\"}
MCPlain == {"a", "n", "#"}
MCHexOf(c) == IF c = "\"" THEN <<"2", "2">> ELSE <<"5", "C">>
MCNumbers == {<<"7">>, <<"1", "0">>}
MCCapacities == {<<1, 1>>, <<4, 3>>, <<6, 0>>}

\* Nothing wraps.
ASSUME Short(25)
===============================================================================
