---------------------------------- MODULE Str ----------------------------------
(***************************************************************************)
(* The growing strings of src/utils/str.c.  A string is a buffer that is   *)
(* replaced by a larger one when what is appended does not fit; when there *)
(* is no memory for it the string is released and every later call does    *)
(* nothing.  An operation is a function of the string before it, what it   *)
(* appends and room, the largest block the heap can give meanwhile.  Of a  *)
(* string, data is what the buffer holds before its first zero, and len is *)
(* str_len.                                                                *)
(***************************************************************************)
EXTENDS Integers, Sequences, SequencesExt

CONSTANTS
    Wrap,       \* sizes are kept modulo this, 2^16 in str_fit and str_resize
    NoData,     \* the null pointer
    Plain,      \* the characters an URL may contain as they are
    HexOf(_)    \* the digits "%02X" prints for another one

ASSUME StrAssumption == Wrap \in Nat \ {0}

\* The characters that are escaped, and the letter written for each of them.
Escapes == [c \in {"\n", "\r", "\"", "'", "\\"} |->
               CASE c = "\n" -> "n" [] c = "\r" -> "r" [] OTHER -> c]

------------------------------------------------------------------------------
(* Memory.                                                                     *)

StrFree(s) == [s EXCEPT !.data = NoData, !.size = 0, !.len = 0, !.error = TRUE]

\* When there is no memory the other members keep what they happened to be.
StrNew(s, size, step, room) ==
    IF size > room THEN [s EXCEPT !.data = NoData, !.error = TRUE]
    ELSE [data |-> <<>>, size |-> size, step |-> step, len |-> 0, error |-> FALSE]

StrResize(s, newSize, room) ==
    IF s.error THEN s
    ELSE IF s.step = 0 \/ newSize > room THEN StrFree(s)
    ELSE [s EXCEPT !.size = newSize]

StrLen(s) == IF s.error THEN 0 ELSE s.len

SpaceLeft(s) == (s.size - StrLen(s) - 1) % Wrap

\* The buffer grows by the steps it takes to make n characters fit.
Grown(s, n) == (s.size + ((n - SpaceLeft(s)) \div s.step + 1) * s.step) % Wrap

\* Mutant of StrFit: the zero at the end is forgotten.
StrFitNoZero(s, n, room) ==
    IF s.error \/ s.size - StrLen(s) >= n THEN s
    ELSE IF s.step = 0 THEN StrFree(s)
    ELSE StrResize(s, Grown(s, n), room)

StrFit(s, n, room) ==
    IF s.error \/ SpaceLeft(s) >= n THEN s
    ELSE IF s.step = 0 THEN StrFree(s)
    ELSE StrResize(s, Grown(s, n), room)

------------------------------------------------------------------------------
(* Appending.                                                                  *)

\* From str_cur on: what is there is overwritten, and a zero follows.
Put(s, v) == [s EXCEPT !.data = SubSeq(@, 1, s.len) \o v]

\* str_add, str_addc and str_vaddf, and what str_newn and str_vnewf do after str_new.
StrAdd(s, v, room) ==
    LET t == StrFit(s, Len(v), room)
    IN  IF t.error THEN t ELSE [Put(t, v) EXCEPT !.len = @ + Len(v)]

\* Mutant of StrSet: a string that failed starts again.
StrSetAfresh(s, v, room) == StrAdd([s EXCEPT !.data = <<>>, !.len = 0, !.error = FALSE], v, room)

StrSet(s, v, room) ==
    IF s.data = NoData THEN s ELSE StrAdd([s EXCEPT !.data = <<>>, !.len = 0], v, room)

StrNewn(s, v, room) == StrAdd(StrNew(s, Len(v) + 1, Len(v) + 1, room), v, room)

Signed(negative, digits) == (IF negative THEN <<"-">> ELSE <<>>) \o digits

\* The characters written for a number of at most len digits; "#" for another one.
\* They are not counted: str_addIntFmt does not call str_added.
StrAddIntFmt(s, digits, negative, len, room) ==
    IF len > 10 THEN s
    ELSE IF Len(digits) > len THEN StrAdd(s, [i \in 1..len |-> "#"], room)
    ELSE LET t == StrFit(s, len + 1, room)
         IN  IF t.error THEN t ELSE Put(t, Signed(negative, digits))

StrAddInt(s, digits, negative, room) == StrAddIntFmt(s, digits, negative, 10, room)

\* A number of which the whole part is whole and the decimals, rounded, are decimals.
StrAddFloatExt(s, whole, decimals, negative, len, room) ==
    LET sign == IF negative THEN StrAdd(s, <<"-">>, room) ELSE s
        int == StrAddIntFmt(sign, whole, FALSE, len, room)
    IN  IF decimals = <<>> THEN int
        ELSE StrAddIntFmt(StrAdd(int, <<".">>, room), decimals, FALSE, Len(decimals), room)

StrRmc(s) ==
    IF s.len = 0 THEN s
    ELSE [s EXCEPT !.len = @ - 1, !.data = IF @ = NoData THEN @ ELSE SubSeq(@, 1, s.len - 1)]

------------------------------------------------------------------------------
(* Conversions.                                                                *)

\* One text after the other.
StrAddEach(s, vs, room) == FoldLeft(LAMBDA t, v : StrAdd(t, v, room), s, vs)

UrlChr(c) == IF c \in Plain THEN <<c>> ELSE <<"%">> \o HexOf(c)
UrlChrs(v) == [i \in DOMAIN v |-> UrlChr(v[i])]
StrAddUrlEnc(s, v, room) == StrAddEach(s, UrlChrs(v), room)

\* A query variable: its name, and its number when it has one, are written as they are.
StrAddQVar(s, var, value, room) ==
    StrAddUrlEnc(StrAdd(StrAdd(StrAdd(s, <<"&">>, room), var, room), <<"=">>, room), value, room)

\* Mutant of EscapedChr: a backslash is not escaped.
EscapedChrPlainBackslash(c) == IF c \in DOMAIN Escapes \ {"\\"} THEN <<"\\", Escapes[c]>> ELSE <<c>>

EscapedChr(c) == IF c \in DOMAIN Escapes THEN <<"\\", Escapes[c]>> ELSE <<c>>
EscapedChrs(v) == [i \in DOMAIN v |-> EscapedChr(v[i])]
StrAddEscaped(s, v, room) == StrAddEach(s, EscapedChrs(v), room)

\* The character an escape sequence stands for: any other one stands for itself.
UnescapedChr(c) == IF c = "n" THEN "\n" ELSE IF c = "r" THEN "\r" ELSE c

\* A character read: a lone backslash waits for the next one.
UnescapeNext(t, c, room) ==
    IF t.esc THEN [str |-> StrAdd(t.str, <<UnescapedChr(c)>>, room), esc |-> FALSE]
    ELSE IF c = "\\" THEN [t EXCEPT !.esc = TRUE]
    ELSE [t EXCEPT !.str = StrAdd(@, <<c>>, room)]

StrAddUnescaped(s, v, room) ==
    FoldLeft(LAMBDA t, c : UnescapeNext(t, c, room),
             [str |-> StrFit(s, Len(v), room), esc |-> FALSE], v).str
================================================================================
