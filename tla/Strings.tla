-------------------------------- MODULE Strings --------------------------------
(***************************************************************************)
(* One string of src/utils/str.c and a caller that makes any sequence of   *)
(* calls on it, while the memory the heap can give comes and goes.         *)
(***************************************************************************)
EXTENDS Str

CONSTANTS
    Chars,      \* the characters there are
    Pieces,     \* what is appended, sequences of characters
    Numbers,    \* the digits of numbers
    Capacities, \* the pairs of initial size and step
    Rooms,      \* what the largest free block may be
    Garbage,    \* what a variable on the stack may hold before str_new
    Longest     \* bound: nothing is appended to a text longer than this

ASSUME StringsAssumption ==
    /\ {"%", "&", "=", "-", ".", "#", "n", "r"} \cup DOMAIN Escapes \subseteq Chars
    /\ \A c \in Chars : HexOf(c) \in Seq(Chars)
    /\ NoData \notin Seq(Chars)
    /\ Pieces \cup Numbers \subseteq Seq(Chars)
    /\ Capacities \subseteq (Nat \ {0}) \X Nat
    /\ Rooms \cup Garbage \cup {Longest} \subseteq Nat

\* What keeps the 16 bits of str_fit from wrapping: n is more than the capacity and the step
\* of any string, and than what one call appends.
Short(n) ==
    /\ n \in Nat /\ n >= 25
    /\ \A c \in Capacities : c[1] <= n /\ c[2] <= n
    /\ \A v \in Pieces : 4 * Len(v) + 2 <= n
    /\ \A c \in Chars : Len(HexOf(c)) <= 2
    /\ Longest + 3 * n < Wrap

VARIABLES
    str,
    text,       \* what the caller asked for since the string was made or set
    numbered    \* one of these was a number

vars == <<str, text, numbered>>

Init ==
    /\ \E n \in Garbage : str = [data |-> NoData, size |-> n, step |-> n, len |-> n, error |-> TRUE]
    /\ text = <<>>
    /\ numbered = FALSE

\* What the conversions make of a text.
UrlText(v) == FlattenSeq(UrlChrs(v))
EscapedText(v) == FlattenSeq(EscapedChrs(v))

\* The text of a string that failed, or that got a number, is not looked at again.
Becomes(s, t, number) ==
    /\ str' = s
    /\ numbered' = (number /\ ~s.error)
    /\ text' = IF s.error \/ number THEN <<>> ELSE t

Started(s, t) == Becomes(s, t, FALSE)
Added(s, t) == Becomes(s, text \o t, numbered)
NumberAdded(s) == Becomes(s, text, TRUE)

\* A string is made once: str_new again would lose the buffer.
New ==
    /\ str.data = NoData
    /\ \E c \in Capacities, room \in Rooms : Started(StrNew(str, c[1], c[2], room), <<>>)

Newn ==
    /\ str.data = NoData
    /\ \E v \in Pieces, room \in Rooms : Started(StrNewn(str, v, room), v)

Free == Started(StrFree(str), <<>>)

Set == \E v \in Pieces, room \in Rooms : Started(StrSet(str, v, room), v)

Add == \E v \in Pieces, room \in Rooms : Added(StrAdd(str, v, room), v)

AddUrlEnc == \E v \in Pieces, room \in Rooms : Added(StrAddUrlEnc(str, v, room), UrlText(v))

AddQVar ==
    \E v \in Pieces, room \in Rooms :
        Added(StrAddQVar(str, v, v, room), <<"&">> \o v \o <<"=">> \o UrlText(v))

AddEscaped == \E v \in Pieces, room \in Rooms : Added(StrAddEscaped(str, v, room), EscapedText(v))

\* What was escaped is what comes back.
AddUnescaped ==
    \E v \in Pieces, room \in Rooms : Added(StrAddUnescaped(str, EscapedText(v), room), v)

AddInt ==
    \E d \in Numbers, negative \in BOOLEAN, room \in Rooms :
        NumberAdded(StrAddInt(str, d, negative, room))

AddFloat ==
    \E d, e \in Numbers, negative \in BOOLEAN, room \in Rooms :
        NumberAdded(StrAddFloatExt(str, d, e, negative, 10, room))

Rmc == Becomes(StrRmc(str), IF text = <<>> THEN text ELSE Front(text), numbered)

Next ==
    \/ New \/ Newn \/ Free \/ Set \/ Rmc
    \/ StrLen(str) <= Longest /\ (Add \/ AddUrlEnc \/ AddQVar \/ AddEscaped \/ AddUnescaped \/ AddInt \/ AddFloat)

Spec == Init /\ [][Next]_vars

------------------------------------------------------------------------------
\* Sizes and lengths are numbers, and the buffer holds the string and the zero at its end,
\* however it came to grow (str_fit, str_resize) and to shrink (str_rmc).
FitsInBuffer ==
    /\ {str.size, str.step, str.len} \subseteq Nat
    /\ str.error \in BOOLEAN
    /\ ~str.error => str.data \in Seq(Chars) /\ Len(str.data) < str.size

\* A string without an error holds all that was put in it, however often it had to
\* grow, as long as no number was (str_addIntFmt).
KeepsText == ~str.error /\ ~numbered => str.data = text /\ str.len = Len(text)

\* "Subsequent calls should not cause problems but silently fail, keeping the error
\* flag set" (str.c:34): after a failure the string stays as it is until a new one is
\* made.  Not so when it had never been made and the memory it is in was not zero:
\* str_rmc then writes before the null pointer.
ErrorStays == [][str.error /\ str.len = 0 => UNCHANGED str \/ New \/ Newn \/ Free]_vars

\* The assertion of str_added under _DEBUG_STR: the length is that of what the buffer
\* holds.  A number is not counted.
LenIsStrlen == ~str.error => str.len = Len(str.data)
================================================================================
