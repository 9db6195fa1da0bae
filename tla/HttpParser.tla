------------------------------ MODULE HttpParser -------------------------------
(***************************************************************************)
(* The parser of HTTP replies of src/tcp/ve_httpc.c.  A reply comes in     *)
(* reads that may end anywhere; each read is parsed by one function after  *)
(* the other, every one of which takes what it can of the characters that  *)
(* are left.  VeHttpc has the connection and the requests around it.       *)
(***************************************************************************)
EXTENDS CText, FiniteSetsExt

CONSTANTS
    Replies,    \* what may be sent: [text, body, framing]
    Http,       \* "HTTP/"
    Names,      \* [length, encoding, chunked]: two header names and a value, as texts
    BufSize,    \* the characters parseBuf and headerValue have room for, 99
    HexSize     \* the digits a chunk length may have, 8

ASSUME HttpParserAssumption ==
    /\ BufSize \in Nat \ {0} /\ HexSize \in 1..BufSize
    /\ Http \in Seq(STRING) /\ Http # <<>>
    /\ \A r \in Replies : r.text \in Seq(STRING)

VARIABLES
    reply,      \* what is being sent
    rest,       \* what of it was not read yet
    piece,      \* what of the last read is not parsed yet
    parseState,
    parsePos,
    parseBuf,   \* up to its terminating zero or to parsePos
    headerValue,
    contentLength,
    isChunked,
    error,
    status,     \* versionMajor, versionMinor and status, by the state that sets it
    body        \* what the callback was given with REQ_DATA

head == <<headerValue, contentLength, isChunked>>
vars == <<reply, rest, piece, parseState, parsePos, parseBuf, head, error, status, body>>

\* ParseState, in the order of next_state.
States ==
    <<"HTTP", "VERSION_MAJOR", "VERSION_DOT", "VERSION_MINOR", "SPACES_1", "STATUS", "SPACES_2",
      "REASON", "STATUS_LINE_CRLF", "HEADER_NAME", "HEADER_COLON", "HEADER_VALUE", "HEADER_CRLF",
      "HEAD_END", "CHUNK_LENGTH", "CHUNK_EXTENSION", "CONTENT", "CHUNK_CRLF", "DONE">>
After(s) == States[(CHOOSE i \in 1..18 : States[i] = s) + 1]

\* What the table parsers has parse_eat_chars take.
Eaten == [s \in {"VERSION_DOT", "SPACES_1", "SPACES_2", "HEADER_COLON"} |->
             CASE s = "VERSION_DOT" -> {"."}
               [] s = "HEADER_COLON" -> {":", " ", "\t"}
               [] OTHER -> {" "}]
Line == {"\r", "\n"}
Decimals == ToSet(DigitsOf(10))
Hexadecimals == ToSet(HexDigits)

\* Mutant of Start: the position in what was being parsed stays.
StartHalfway(r) ==
    /\ reply' = r
    /\ rest' = r.text
    /\ piece' = <<>>
    /\ parseState' = "HTTP"
    /\ isChunked' = FALSE
    /\ parsePos' = parsePos
    /\ contentLength' = -1
    /\ error' = FALSE
    /\ body' = <<>>

\* A request is sent on a connection, of which nothing is left of an earlier reply: what
\* vhttpc_send_ev resets and what it leaves.
Start(r) ==
    /\ reply' = r
    /\ rest' = r.text
    /\ piece' = <<>>
    /\ parseState' = "HTTP"
    /\ isChunked' = FALSE
    /\ parsePos' = 0
    /\ contentLength' = -1
    /\ error' = FALSE
    /\ body' = <<>>

Init ==
    /\ reply \in Replies
    /\ rest = reply.text
    /\ piece = <<>>
    /\ parseState = "HTTP"
    /\ parsePos = 0
    /\ parseBuf = <<>>
    /\ headerValue = <<>>
    /\ contentLength = -1
    /\ isChunked = FALSE
    /\ error = FALSE
    /\ status = [s \in {"VERSION_MAJOR", "VERSION_MINOR", "STATUS"} |-> 0]
    /\ body = <<>>

\* The next request, after a reply or after the connection was lost in the middle of one.
Send ==
    /\ piece = <<>>
    /\ \E r \in Replies : Start(r)
    /\ UNCHANGED <<parseBuf, headerValue, status>>

\* handle_rx: what is read after an error is dropped.
Read ==
    /\ piece = <<>> /\ rest # <<>> /\ parseState # "DONE"
    /\ \E n \in 1..Len(rest) :
        /\ piece' = IF error THEN <<>> ELSE SubSeq(rest, 1, n)
        /\ rest' = SubSeq(rest, n + 1, Len(rest))
    /\ UNCHANGED <<reply, parseState, parsePos, parseBuf, head, error, status, body>>

------------------------------------------------------------------------------
(* The parsing functions.                                                      *)

\* The number of characters at the beginning of the piece that are, or are not, of a set.
Span(chars) ==
    LET others == {i \in DOMAIN piece : piece[i] \notin chars}
    IN  IF others = {} THEN Len(piece) ELSE Min(others) - 1
SpanOut(chars) == Span(ToSet(piece) \ chars)

AtDelimiter(k) == k < Len(piece)
Take(k) == piece' = SubSeq(piece, k + 1, Len(piece))
Taken(k) == SubSeq(piece, 1, k)

Fail == error' = TRUE /\ piece' = <<>> /\ UNCHANGED <<parseState, parsePos>>
Goto(s) == parseState' = s /\ UNCHANGED error
NextState == Goto(After(parseState)) /\ parsePos' = 0
Stay(k) == UNCHANGED <<parseState, error>> /\ parsePos' = parsePos + k

\* A buffer when k characters are added at parsePos; one that is full is spoiled.
Kept(buf) == SubSeq(buf, 1, Min({parsePos, Len(buf)}))
Stored(buf, k, spoiled) == IF parsePos + k > BufSize THEN spoiled ELSE Kept(buf) \o Taken(k)

\* Mutant of StoredPos: the position runs on when the buffer is full.
StoredPosFar(k) == parsePos + k

StoredPos(k) == Min({parsePos + k, BufSize})

Parsing(states) == piece # <<>> /\ parseState \in states

ParseHttp ==
    /\ Parsing({"HTTP"})
    /\ LET k == Min({Len(Http) - parsePos, Len(piece)}) IN
       IF Taken(k) # SubSeq(Http, parsePos + 1, parsePos + k) THEN Fail
       ELSE /\ Take(k)
            /\ IF parsePos + k = Len(Http) THEN NextState ELSE Stay(k)
    /\ UNCHANGED <<reply, rest, parseBuf, head, status, body>>

\* parse_eat_chars; "." and blanks, of which there is at least one.
EatChars ==
    /\ Parsing(DOMAIN Eaten)
    /\ LET k == Span(Eaten[parseState]) IN
       IF ~AtDelimiter(k) THEN Take(k) /\ Stay(k)
       ELSE IF parsePos + k = 0 THEN Fail
       ELSE Take(k) /\ NextState
    /\ UNCHANGED <<reply, rest, parseBuf, head, status, body>>

\* parse_number; digits for which there is no room are left out.
ParseNumber ==
    /\ Parsing(DOMAIN status)
    /\ LET k == Span(Decimals)
           digits == SubSeq(Kept(parseBuf) \o Taken(k), 1, StoredPos(k))
           number == Strtoul(digits) IN
       /\ parseBuf' = digits
       /\ IF ~AtDelimiter(k)
          THEN Take(k) /\ parsePos' = StoredPos(k) /\ UNCHANGED <<parseState, error, status>>
          ELSE IF digits = <<>> \/ ~number.ok \/ number.value = ULongMax THEN Fail /\ UNCHANGED status
          ELSE Take(k) /\ NextState /\ status' = [status EXCEPT ![parseState] = number.value]
    /\ UNCHANGED <<reply, rest, head, body>>

\* parse_text_till, up to what ends the text.
ParseReason ==
    /\ Parsing({"REASON"})
    /\ LET k == SpanOut(Line) IN
       /\ Take(k)
       /\ parseBuf' = Stored(parseBuf, k, <<" ">>)
       /\ IF AtDelimiter(k) THEN NextState
          ELSE parsePos' = StoredPos(k) /\ UNCHANGED <<parseState, error>>
    /\ UNCHANGED <<reply, rest, head, status, body>>

\* parse_header_name; a line without a colon ends the head.
ParseHeaderName ==
    /\ Parsing({"HEADER_NAME"})
    /\ LET k == SpanOut(Line \cup {":"}) IN
       IF parsePos = 0 /\ Head(piece) \in {" ", "\t"}
       THEN Take(1) /\ Goto("HEADER_VALUE") /\ UNCHANGED <<parsePos, parseBuf>>
       ELSE /\ parseBuf' = Stored(parseBuf, k, <<" ">>)
            /\ IF ~AtDelimiter(k)
               THEN Take(k) /\ parsePos' = StoredPos(k) /\ UNCHANGED <<parseState, error>>
               ELSE IF piece[k + 1] = ":" THEN Take(k) /\ NextState
               ELSE Take(0) /\ Goto("HEAD_END") /\ parsePos' = StoredPos(k)
    /\ UNCHANGED <<reply, rest, head, status, body>>

\* The two headers that matter; the length is a number that parse_header_value accepts.
HeaderDone(value) ==
    /\ contentLength' = IF parseBuf = Names.length THEN Strtol(value, 0).value ELSE contentLength
    /\ isChunked' = IF parseBuf = Names.encoding THEN value = Names.chunked ELSE isChunked

LengthAccepted(value) ==
    parseBuf = Names.length => Strtol(value, 0).ok /\ Strtol(value, 0).value \in 0..LongMax - 1

ParseHeaderValue ==
    /\ Parsing({"HEADER_VALUE"})
    /\ LET k == SpanOut(Line)
           value == Stored(headerValue, k, <<>>) IN
       /\ headerValue' = value
       /\ IF ~AtDelimiter(k)
          THEN /\ Take(k) /\ parsePos' = StoredPos(k)
               /\ UNCHANGED <<parseState, error, contentLength, isChunked>>
          ELSE IF ~LengthAccepted(value) THEN Fail /\ UNCHANGED <<contentLength, isChunked>>
          ELSE Take(k) /\ NextState /\ HeaderDone(value)
    /\ UNCHANGED <<reply, rest, parseBuf, status, body>>

\* What follows a line, see parse_eat_line; only one case resets parsePos.
AfterLine ==
    CASE parseState = "CHUNK_CRLF" -> IF parseBuf = <<"0">> THEN "DONE" ELSE "CHUNK_LENGTH"
      [] parseState = "HEAD_END" -> IF isChunked THEN "CHUNK_LENGTH" ELSE "CONTENT"
      [] parseState \in {"STATUS_LINE_CRLF", "HEADER_CRLF"} -> "HEADER_NAME"
      [] OTHER -> "CONTENT"

EatLine ==
    /\ Parsing({"STATUS_LINE_CRLF", "HEADER_CRLF", "HEAD_END", "CHUNK_EXTENSION", "CHUNK_CRLF"})
    /\ LET k == SpanOut({"\n"}) IN
       IF AtDelimiter(k)
       THEN /\ Take(k + 1) /\ Goto(AfterLine)
            /\ parsePos' = IF parseState = "CHUNK_EXTENSION" THEN 0 ELSE parsePos
       ELSE Take(k) /\ Stay(0)
    /\ UNCHANGED <<reply, rest, parseBuf, head, status, body>>

\* parse_hex_number; parseBuf may begin with what the line that ended the head began with.
ParseHexNumber ==
    /\ Parsing({"CHUNK_LENGTH"})
    /\ LET k == Span(Hexadecimals)
           digits == Kept(parseBuf) \o Taken(k)
           number == Strtol(digits, 16) IN
       IF (k > 0 /\ parsePos + k > HexSize) \/ (AtDelimiter(k) /\ ~number.ok)
       THEN Fail /\ UNCHANGED <<parseBuf, contentLength>>
       ELSE /\ Take(k)
            /\ parseBuf' = digits
            /\ IF AtDelimiter(k) THEN NextState /\ contentLength' = number.value
               ELSE Stay(k) /\ UNCHANGED contentLength
    /\ UNCHANGED <<reply, rest, headerValue, isChunked, status, body>>

\* Mutant of ParseContent: what is left of the length is not kept.
ParseContentForgetful ==
    /\ Parsing({"CONTENT"})
    /\ LET n == IF contentLength < 0 THEN Len(piece) ELSE Min({contentLength, Len(piece)}) IN
       /\ Take(n)
       /\ body' = body \o Taken(n)
       /\ parseState' = IF contentLength # n THEN parseState
                        ELSE IF isChunked THEN "CHUNK_CRLF" ELSE "DONE"
    /\ UNCHANGED <<reply, rest, parsePos, parseBuf, head, status, error>>

\* parse_content; the callback may refuse what it is given.
ParseContent ==
    /\ Parsing({"CONTENT"})
    /\ LET n == IF contentLength < 0 THEN Len(piece) ELSE Min({contentLength, Len(piece)}) IN
       \/ /\ Take(n)
          /\ body' = body \o Taken(n)
          /\ contentLength' = IF contentLength < 0 THEN contentLength ELSE contentLength - n
          /\ Goto(IF contentLength # n THEN "CONTENT" ELSE IF isChunked THEN "CHUNK_CRLF" ELSE "DONE")
          /\ UNCHANGED parsePos
       \/ body' = body \o Taken(n) /\ Fail /\ UNCHANGED contentLength
    /\ UNCHANGED <<reply, rest, parseBuf, headerValue, isChunked, status>>

\* Characters after the reply: there is no request for them (RET_RSP_TOO_LONG).
TooLong ==
    /\ Parsing({"DONE"})
    /\ Fail
    /\ UNCHANGED <<reply, rest, parseBuf, head, status, body>>

Next ==
    \/ Send \/ Read
    \/ ParseHttp \/ EatChars \/ ParseNumber \/ ParseReason \/ ParseHeaderName \/ ParseHeaderValue
    \/ EatLine \/ ParseHexNumber \/ ParseContent \/ TooLong

Spec == Init /\ [][Next]_vars

------------------------------------------------------------------------------
(* Properties.                                                                 *)

ParserTypeOK ==
    /\ reply \in Replies
    /\ parseState \in ToSet(States)
    /\ parsePos \in Nat /\ (parseState \in DOMAIN Eaten \/ parsePos <= Max({BufSize, Len(Http)}))
    /\ Len(parseBuf) <= BufSize /\ Len(headerValue) <= BufSize
    /\ contentLength \in -LongMax - 1..LongMax
    /\ {isChunked, error} \subseteq BOOLEAN

\* A reply that says how long it is.  One that says it is empty is not finished before the
\* next character, see parse_content.
Framed == reply.framing \in {"length", "chunked"}

\* The callback gets the body in the order in which it was sent, whatever the reads and
\* the chunks it was cut in, and nothing else (parse, parse_content, parse_hex_number).
BodyIsWhatWasSent == reply.framing # "malformed" => IsPrefix(body, reply.body)

\* A reply is done with its last character and not before, so that the next reply of the
\* connection is parsed from its beginning (parse_content, parse_eat_line).
DoneWithTheLastCharacter ==
    Framed /\ ~error =>
        ((parseState = "DONE") <=> (rest = <<>> /\ piece = <<>>))
        /\ (parseState = "DONE" => body = reply.body)

\* A reply that is as it should be is refused by nobody but the callback, whatever reply
\* and whatever half of a reply was parsed before it (vhttpc_send_ev).
OnlyTheCallbackRefuses == reply.framing # "malformed" /\ error => parseState = "CONTENT"
================================================================================
