------------------------------ MODULE MCTerminal ------------------------------
(* Model checking of Terminal.                                                 *)
EXTENDS Terminal

MCSubscribed ==
    <<[name |-> <<"V">>, types |-> {"act", "para"}, min |-> 1, max |-> 3, handler |-> "vreg"],
      [name |-> <<"V">>, types |-> {"read", "para"}, min |-> 0, max |-> 0, handler |-> "other"],
      [name |-> <<"W">>, types |-> {"para"}, min |-> 1, max |-> 1, handler |-> "other"]>>

MCRegisters ==
    <<[name |-> <<"p">>, type |-> "SN", bits |-> 8, initial |-> 0],
      [name |-> <<"s">>, type |-> "string", bits |-> 0, initial |-> <<"n">>],
      [name |-> <<"t">>, type |-> "UN", bits |-> 16, initial |-> 65535]>>

MCGroups == <<[name |-> <<"g">>, from |-> 0, till |-> 2]>>
MCPlain == {}
MCHexOf(c) == <<>>

\* The values, as they are typed after AT+VREG=2 and a register.
Numbers == {<<"1", "2", "8">>, <<"-", "1">>, <<"0", "x", "f">>, <<"0", "1", "0">>,
            <<"4", "0", "0", "0", "0">>, <<"-">>, <<"9", "n">>}
Chars == {"\"", "\\", ",", "n", " "}
Quoted(t) == <<"\"">> \o t \o <<"\"">>
Texts == UNION {[1..k -> Chars] : k \in 0..2} \cup {<<"\\", "\"", "n">>, <<"\\", "\\", "n">>, <<"n", ",", "n">>}

MCLines ==
    {<<"V", "=", "2", ",", "1", ",">> \o Quoted(t) : t \in Texts}
    \cup {<<"V", "=", "2", ",", "1", ",">> \o t : t \in {<<"\\">>, <<"n", "\\", "\\">>, <<"\\", " ">>}}
    \cup {<<"V", "=", "2", ",", r, ",">> \o t : r \in {"0", "t"}, t \in Numbers}
    \cup {<<"V", "=", c, ",", r, ",", q>> : c \in {"0", "3"}, r \in {"0", "t"}, q \in {"1", "s", "9"}}
    \cup {<<"V", "=", "4", ",", "g">>, <<"V", "=", "4", ",", "1", ",", "1">>, <<"V", "=", "9">>,
          <<"V", "=", "0", ",", "-", "6", "5", "5", "3", "5">>, <<"V", "=", "?">>, <<"V", "?">>, <<"V", "n">>, <<"W", "=", "1", ",", " ", "n", ",", "n", ",", "1">>,
          <<"A">>, <<",", " ", " ", "n", " ", ",", ",", "n">>}
===============================================================================
