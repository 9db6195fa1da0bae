------------------------------- MODULE Terminal --------------------------------
(***************************************************************************)
(* The terminal of the Windows program: the loop of glue_main makes a line *)
(* of the keys that are typed and sends it as an AT command, and AT+VREG   *)
(* (src/at/at_vreg.c) lists and sets registers by the text of their values *)
(* (src/dev_reg.c).  AtCommands has what this module leaves out: the flash *)
(* and its failures, and the other commands.                               *)
(***************************************************************************)
EXTENDS AtText, Str

CONSTANTS
    Registers,  \* [name, type, bits, initial] by number, the first is that of id 0
    Groups,     \* [name, from, till], ids, by number
    Lines,      \* the lines that are typed
    LineSize,   \* initial size and step of the line, 512
    Rooms       \* what the largest free block may be

VARIABLES
    cmd,        \* the string of glue_main
    regs,       \* the registers: a text or a number
    call,       \* what became of the last line, until the next key
    listed      \* what it listed

vars == <<cmd, regs, call, listed>>

Ids == 0..Len(Registers) - 1
Unknown == -1
IsText(id) == Registers[id + 1].type = "string"
IsSigned(id) == Registers[id + 1].type = "SN"

Init ==
    /\ \E room \in Rooms :
           cmd = StrNew([data |-> NoData, size |-> 0, step |-> 0, len |-> 0, error |-> TRUE],
                        LineSize, LineSize, room)
    /\ regs = [id \in Ids |-> Registers[id + 1].initial]
    /\ call = [to |-> "nobody"]
    /\ listed = {}

------------------------------------------------------------------------------
(* The text of registers.                                                      *)

\* What a number becomes in a register of so many bits.
Narrow(v, id) ==
    LET m == 2^Registers[id + 1].bits
    IN  IF IsSigned(id) /\ v % m >= m \div 2 THEN (v % m) - m ELSE v % m

\* dev_regChangeString: the value a text stands for.
ChangeString(id, text) ==
    IF IsText(id) THEN [ok |-> TRUE, value |-> text]
    ELSE IF Strtol(text, 0).ok THEN [ok |-> TRUE, value |-> Narrow(Strtol(text, 0).value, id)]
    ELSE [ok |-> FALSE]

ValueString(id, value) == IF IsText(id) THEN value ELSE Decimal(value)

\* Mutant of ValueStringLength: there is no space for a sign.
ValueStringLengthUnsigned(id, value) ==
    IF IsText(id) THEN Len(value)
    ELSE CASE Registers[id + 1].bits = 8 -> 3 [] Registers[id + 1].bits = 16 -> 5 [] OTHER -> 10

\* The space dev_regValue allocates for it, without the zero.
ValueStringLength(id, value) ==
    IF IsText(id) THEN Len(value)
    ELSE CASE Registers[id + 1].bits = 8  -> IF IsSigned(id) THEN 4 ELSE 3
           [] Registers[id + 1].bits = 16 -> IF IsSigned(id) THEN 6 ELSE 5
           [] OTHER                       -> IF IsSigned(id) THEN 11 ELSE 10

\* A number or a name; a number that is no id is no name either.
IdFromString(text) ==
    LET named == {id \in Ids : Registers[id + 1].name = text}
    IN  IF Strtoul(text).ok THEN IF Strtoul(text).value \in Ids THEN Strtoul(text).value ELSE Unknown
        ELSE IF named = {} THEN Unknown ELSE Min(named)

GroupFromString(text) ==
    LET named == {i \in DOMAIN Groups : Groups[i].name = text}
    IN  IF Strtol(text, 0).ok THEN IF Strtol(text, 0).value + 1 \in DOMAIN Groups THEN Strtol(text, 0).value + 1 ELSE 0
        ELSE IF named = {} THEN 0 ELSE Min(named)

------------------------------------------------------------------------------
(* at_vregHandler.                                                             *)

GetLong(c, n) ==
    IF c.type # "para" \/ n > Len(c.params) \/ ~Strtol(c.params[n], 0).ok THEN -1
    ELSE Strtol(c.params[n], 0).value

Command(c) == IF c.type = "para" THEN GetLong(c, 1) ELSE 0

\* The ids from the first register to the last: all of them when none is named; "Make sure
\* that the starting register is after the ending register".
Addressed(c) ==
    LET from == IdFromString(c.params[2])
        till == IF Len(c.params) = 3 /\ Command(c) # 2 THEN IdFromString(c.params[3]) ELSE from
    IN  IF Len(c.params) <= 1 THEN Ids
        ELSE IF Unknown \in {from, till} THEN {}
        ELSE {id \in Ids : (from <= id /\ id <= till) \/ (till <= id /\ id <= from)}

\* str_new and str_addUnescaped: 512 characters are enough for any line.
Unescaped(v) == StrAddUnescaped(StrNew([data |-> NoData, error |-> TRUE], 512, 512, Wrap), v, Wrap).data
Escaped(v) == StrAddEscaped(StrNew([data |-> NoData, error |-> TRUE], 512, 512, Wrap), v, Wrap).data

\* What the registers become, what is listed of them in quotes, and the answer.
Refused == [regs |-> regs, listed |-> {}, ok |-> FALSE]
List(ids) == [Refused EXCEPT !.ok = TRUE, !.listed = {<<id, Escaped(ValueString(id, regs[id]))>> : id \in ids}]
Set(id, text) ==
    IF ChangeString(id, text).ok
    THEN [Refused EXCEPT !.ok = TRUE, !.regs[id] = ChangeString(id, text).value]
    ELSE Refused
Restore(ids) ==
    [Refused EXCEPT !.ok = TRUE,
                    !.regs = [id \in Ids |-> IF id \in ids THEN Registers[id + 1].initial ELSE regs[id]]]
ListGroup(g) == IF g = 0 THEN Refused ELSE List(Groups[g].from..Groups[g].till)

VregHandler(c) ==
    LET command == Command(c)
        ids == Addressed(c)
    IN  IF command # 4 /\ ids = {} THEN Refused
        ELSE CASE command \in {0, 1} -> List(ids)
               [] command = 2 /\ Len(c.params) = 3 -> Set(Min(ids), Unescaped(c.params[3]))
               [] command = 3 -> Restore(ids)
               [] command = 4 /\ Len(c.params) = 1 -> [Refused EXCEPT !.ok = TRUE]
               [] command = 4 /\ Len(c.params) = 2 -> ListGroup(GroupFromString(c.params[2]))
               [] OTHER -> Refused

------------------------------------------------------------------------------
(* glue_main.                                                                  *)

KeyPressed ==
    /\ call' = [to |-> "nobody"]
    /\ listed' = {}
    /\ UNCHANGED regs

\* A key that makes the line the beginning of one of Lines.
Type ==
    /\ ~cmd.error
    /\ LET typed == {line \in Lines : Len(cmd.data) < Len(line) /\ IsPrefix(cmd.data, line)}
       IN  \E key \in {line[Len(cmd.data) + 1] : line \in typed}, room \in Rooms :
               cmd' = StrAdd(cmd, <<key>>, room)
    /\ KeyPressed

Backspace == cmd' = StrRmc(cmd) /\ KeyPressed

Handled(c, result) ==
    /\ call' = c @@ [ok |-> result.ok]
    /\ regs' = result.regs
    /\ listed' = result.listed

\* ve_atCmdSendExt answers ERROR when there is no memory for the copies of the line.  A
\* line that was lost for lack of memory is the null pointer, and nothing is modelled of
\* what the program does with that.
Enter ==
    /\ ~cmd.error
    /\ cmd' = StrSet(cmd, <<>>, 0)
    /\ LET c == Dispatch(cmd.data) IN
       \/ c.to = "handler" /\ Subscribed[c.entry].handler = "vreg" /\ Handled(c, VregHandler(c))
       \/ c.to = "handler" /\ Subscribed[c.entry].handler # "vreg"
            /\ \E ok \in BOOLEAN : Handled(c, [Refused EXCEPT !.ok = ok])
       \/ c.to \in {"modem", "nobody"} /\ Handled(c, Refused)
       \/ c.to # "modem" /\ Handled([to |-> "nobody"], Refused)

\* The program has lost its line.
Deaf == cmd.error /\ UNCHANGED vars

Next == Type \/ Backspace \/ Enter \/ Deaf

Spec == Init /\ [][Next]_vars

------------------------------------------------------------------------------
(* Properties.                                                                 *)

\* A value as it was listed, in quotes, in an AT+VREG=2 for its register.
SetLine(l) ==
    <<"V", "=", "2", ",">> \o Decimal(l[1]) \o <<",", "\"">> \o l[2] \o <<"\"">>

\* parseParams leaves out what is empty and takes a quote after a backslash for an escaped
\* one, whatever is before it; strtol ends at LONG_MAX.
Settable(id) ==
    IF IsText(id) THEN regs[id] # <<>> /\ Last(regs[id]) # "\\" ELSE regs[id] <= LongMax

\* What is listed of a register sets it to the value it has (at_vregHandler, parseParams,
\* str_addEscaped, str_addUnescaped, dev_regValueString and dev_regChangeString).
ListedSetsTheSame ==
    \A l \in listed :
        Settable(l[1]) =>
            LET c == Dispatch(SetLine(l))
            IN  c.to = "handler" /\ VregHandler(c).ok /\ VregHandler(c).regs = regs

\* A number stays in the range of its register (dev_regChangeString), and dev_regValue
\* writes the text of a value in a buffer of dev_regValueStringLength.
ValueFits ==
    \A id \in Ids :
        LET m == 2^Registers[id + 1].bits IN
        /\ ~IsText(id) => regs[id] \in IF IsSigned(id) THEN -(m \div 2)..(m \div 2) - 1 ELSE 0..m - 1
        /\ Len(ValueString(id, regs[id])) <= ValueStringLength(id, regs[id])

\* The pieces between the commas of a text.
Pieces(text) ==
    LET cuts == SetToSortSeq({0, Len(text) + 1} \cup {i \in DOMAIN text : text[i] = ","}, <)
    IN  [i \in 1..Len(cuts) - 1 |-> SubSeq(text, cuts[i] + 1, cuts[i + 1] - 1)]

Trimmed(text) ==
    LET blank == {n \in 0..Len(text) : \A i \in 1..n : text[i] = " "}
    IN  SubSeq(text, Max(blank) + 1, Len(text))

\* Without quotes the parameters are the pieces between the commas without the blanks
\* before them, those that are not empty; there is an error only when they are too many.
SplitsAtCommas ==
    ~cmd.error /\ "\"" \notin ToSet(cmd.data) =>
        LET pieces == SelectSeq([i \in DOMAIN Pieces(cmd.data) |-> Trimmed(Pieces(cmd.data)[i])],
                                LAMBDA t : t # <<>>)
        IN  ParseParams(cmd.data) =
                IF Len(pieces) <= MaxParams THEN [ok |-> TRUE, params |-> pieces]
                ELSE [ok |-> FALSE, params |-> SubSeq(pieces, 1, MaxParams)]
================================================================================
