-------------------------------- MODULE AtText ---------------------------------
(***************************************************************************)
(* The text of AT commands: how src/utils/ve_at.c finds the handler of a   *)
(* command line and takes its parameters apart.  A line is a sequence of   *)
(* characters; two that differ in case only are the same character.        *)
(***************************************************************************)
EXTENDS CText, FiniteSetsExt

CONSTANTS
    Subscribed, \* the commands in the order of ve_atSubsribedList: [name, types, min, max]
    MaxParams   \* the parameters there is room for, 10 on Windows

ASSUME AtTextAssumption == MaxParams \in Nat

Types == {"act", "test", "para", "read"}

------------------------------------------------------------------------------
(* Parameters.                                                                 *)

\* The scanner of parseParams: tok is the text from begin to p, skip whether the next
\* character is a quote that a backslash escaped.
Scanner == [params |-> <<>>, tok |-> <<>>, inStr |-> FALSE, skip |-> FALSE, full |-> FALSE]

\* Mutant of EndParam: an empty parameter is one as well.
EndParamEmpty(s) ==
    IF Len(s.params) = MaxParams THEN [s EXCEPT !.full = TRUE]
    ELSE [s EXCEPT !.params = Append(@, s.tok), !.tok = <<>>]

\* A parameter ends; an empty one is not added.
EndParam(s) ==
    IF s.tok = <<>> THEN s
    ELSE IF Len(s.params) = MaxParams THEN [s EXCEPT !.full = TRUE]
    ELSE [s EXCEPT !.params = Append(@, s.tok), !.tok = <<>>]

Scan(s, c) ==
    IF s.full THEN s
    ELSE IF s.skip /\ c = "\"" THEN [s EXCEPT !.tok = Append(@, c), !.skip = FALSE]
    ELSE LET t == [s EXCEPT !.skip = c = "\\" /\ s.inStr] IN
         IF c = "\"" /\ ~s.inStr THEN [t EXCEPT !.tok = <<>>, !.inStr = TRUE]
         ELSE IF c = "\"" THEN EndParam([t EXCEPT !.inStr = FALSE])
         ELSE IF c = "," THEN EndParam(t)
         ELSE IF c = " " /\ ~s.inStr /\ s.tok = <<>> THEN t
         ELSE [t EXCEPT !.tok = Append(@, c)]

ParseParams(text) ==
    LET s == EndParam(FoldLeft(Scan, Scanner, text))
    IN  [ok |-> ~s.full /\ ~s.inStr, params |-> s.params]

------------------------------------------------------------------------------
(* Command lines.                                                              *)

\* ve_atCmdParse: the line after a name of n characters.
Parse(line, n) ==
    LET rest == SubSeq(line, n + 1, Len(line))
        Bare(type) == [ok |-> TRUE, type |-> type, params |-> <<>>]
    IN  IF rest = <<>> THEN Bare("act")
        ELSE IF IsPrefix(<<"=", "?">>, rest) THEN Bare("test")
        ELSE IF Head(rest) = "=" THEN [type |-> "para"] @@ ParseParams(Tail(rest))
        ELSE IF Head(rest) = "?" THEN Bare("read")
        ELSE [Bare("act") EXCEPT !.ok = FALSE]

\* The subscriptions ve_atCmdSubscribeFindNext finds, one after the other.
Found(line) == {i \in DOMAIN Subscribed : IsPrefix(Subscribed[i].name, line)}

Accepts(i, call) ==
    /\ call.type \in Subscribed[i].types
    /\ call.type = "para" => Len(call.params) \in Subscribed[i].min..Subscribed[i].max

\* ve_atCmdSendExt up to the handler: the line is parsed after the first name found, and
\* the first subscription that accepts the type and number of parameters gets it.
Dispatch(line) ==
    IF Found(line) = {} THEN [to |-> "modem"]
    ELSE LET call == Parse(line, Len(Subscribed[Min(Found(line))].name))
             willing == {i \in Found(line) : Accepts(i, call)}
         IN  IF ~call.ok THEN [to |-> "nobody"]
             ELSE IF willing = {} THEN [to |-> "modem"]
             ELSE [to |-> "handler", entry |-> Min(willing), type |-> call.type, params |-> call.params]

================================================================================
