----------------------------- MODULE MCHttpParser -----------------------------
(* Model checking of HttpParser.                                               *)
EXTENDS HttpParser

MCHttp == <<"H", "/">>
MCNames == [length |-> <<"L">>, encoding |-> <<"T">>, chunked |-> <<"k">>]

CRLF == <<"\r", "\n">>
StatusLine == MCHttp \o <<"1", ".", "1", " ", "2", " ", "O">> \o CRLF
Header(name, value) == name \o <<":", " ">> \o value \o CRLF
Other == Header(<<"x">>, <<"1">>)
Long == Header(<<"x", "x", "x", "x", "x">>, <<"1", "1", "1", "1", "1">>)
Folded == Header(<<"x">>, <<"1">> \o CRLF \o <<" ", "1">>)

Sized(headers, length, b) ==
    [text |-> StatusLine \o headers \o Header(<<"L">>, length) \o CRLF \o b, body |-> b, framing |-> "length"]

Chunk(length, part) == length \o CRLF \o part \o CRLF
Chunked(headers, chunks, b) ==
    [text |-> StatusLine \o headers \o Header(<<"T">>, <<"k">>) \o CRLF \o chunks \o Chunk(<<"0">>, <<>>),
     body |-> b, framing |-> "chunked"]

Ones == [i \in 1..16 |-> "1"]

\* Bodies that look like what is around them.
MCReplies ==
    {Sized(<<>>, <<"3">>, <<"0">> \o CRLF),
     Sized(Long \o Other, <<"2">>, CRLF),
     Chunked(Folded, Chunk(<<"2">>, CRLF) \o Chunk(<<"1">>, <<"0">>), CRLF \o <<"0">>),
     Chunked(Other, Chunk(<<"1", "0">>, Ones), Ones),
     Chunked(<<>>, <<>>, <<>>),
     [text |-> StatusLine \o Other \o CRLF \o <<"a", "b">>, body |-> <<"a", "b">>, framing |-> "close"],
     [text |-> StatusLine \o Header(<<"L">>, <<"0">>) \o CRLF, body |-> <<>>, framing |-> "empty"],
     [text |-> StatusLine \o <<"b">> \o CRLF \o Header(<<"L">>, <<"1">>) \o CRLF \o <<"a">>,
      body |-> <<>>, framing |-> "malformed"],
     [text |-> <<"H", "x">>, body |-> <<>>, framing |-> "malformed"],
     [text |-> StatusLine \o Header(<<"L">>, <<"a">>) \o CRLF, body |-> <<>>, framing |-> "malformed"],
     [text |-> StatusLine \o Header(<<"T">>, <<"k">>) \o CRLF \o <<"1", "0", "0", "0">> \o CRLF,
      body |-> <<>>, framing |-> "malformed"],
     [text |-> StatusLine \o Header(<<"T">>, <<"k">>) \o <<"-">> \o CRLF \o <<"1">> \o CRLF \o <<"a">>,
      body |-> <<>>, framing |-> "malformed"],
     [text |-> StatusLine \o Header(<<"T">>, <<"k">>) \o <<"z">> \o CRLF \o <<"1">> \o CRLF,
      body |-> <<>>, framing |-> "malformed"],
     [text |-> MCHttp \o <<"1", ".", "1", " ", " ", " ", " ", "x">>, body |-> <<>>, framing |-> "malformed"],
     [text |-> Sized(<<>>, <<"1">>, <<"a">>).text \o <<"a">>, body |-> <<"a">>, framing |-> "malformed"],
     [text |-> MCHttp \o <<"1", " ", "2">>, body |-> <<>>, framing |-> "malformed"],
     [text |-> MCHttp \o <<"1", ".", "0", "9", " ", "2">>, body |-> <<>>, framing |-> "malformed"]}
===============================================================================
