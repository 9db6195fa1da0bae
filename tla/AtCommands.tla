------------------------------ MODULE AtCommands ------------------------------
(***************************************************************************)
(* The AT commands of this program, src/utils/ve_at.c and src/at, on the   *)
(* settings they act on.  ve_atCmdSendExt either runs a command of its own *)
(* at once, which sends its responses through the globals ve_atRspHandler  *)
(* and ve_atRspContext, or passes the text on to the modem.  A handler is  *)
(* cut into steps where DevReg cuts it, because the power may fail there;  *)
(* no other command can begin before it is done.                           *)
(***************************************************************************)
EXTENDS DevReg

CONSTANTS
    Unparsable, \* a value dev_regChangeString cannot convert
    None

Positions == 1..Len(Order)

\* A command with its registers and, for "set", the value.  AT+VREG=0, 1 and 4 and
\* AT+VIND list; AT+VREG=2 sets, =3 restores; AT+VIND=0 and 1, AT+VERR and AT+VWRN
\* alter levels, AT+VIND=2 stores them; AT+VWIPDUMP only sets numbers of the wip
\* library; other actions and wrong parameters are refused.
Commands ==
    [action : {"list", "set", "restore", "levels", "store", "dump", "refused"},
     from : Positions, till : Positions, value : Values \cup {Unparsable}]

ASSUME CommandsAssumption == Unparsable \notin Values /\ None \notin Commands

VARIABLES
    at,      \* "idle", "handler", or inside it "change" and "store"
    cmd,     \* the present or last command
    regId,   \* of the loops of at_vregHandler
    result,  \* what dev_regChange returned
    handler, \* ve_atRspHandler is set
    outcome, \* what became of the last: "local", "modem", "error", or "none" yet
    replies  \* its responses: "line", or "ok" and "error", which are terminal

cmdVars == <<at, cmd, regId, result, handler, outcome, replies>>
allVars == <<vars, cmdVars>>

CmdInit ==
    /\ Init
    /\ at = "idle"
    /\ cmd = None
    /\ regId = 1
    /\ result = FALSE
    /\ handler = FALSE
    /\ outcome = "none"
    /\ replies = <<>>

\* "Make sure that the starting register is after the ending register".
First(c) == IF c.till < c.from THEN c.till ELSE c.from
Final(c) == IF c.till < c.from THEN c.from ELSE c.till

\* A command for one register names it once.
WellFormed(c) ==
    /\ c.action \notin {"list", "restore"} => c.from = c.till
    /\ c.action = "set" \/ c.value = Default
    /\ c.action \in {"levels", "store", "dump", "refused"} => c.from = 1
    /\ c.value = Unparsable => Order[c.from] \notin Strings

------------------------------------------------------------------------------
(* Sending a command and its responses.                                        *)

\* A command of this program: the globals are set, then its handler is called.
Send(c) ==
    /\ pc = "run" /\ at = "idle"
    /\ at' = "handler"
    /\ cmd' = c
    /\ regId' = First(c)
    /\ result' = FALSE
    /\ handler' = TRUE
    /\ outcome' = "none"
    /\ replies' = <<>>
    /\ UNCHANGED vars

\* Another one, or one whose type or number of parameters is not accepted, goes to
\* the modem; one that does not parse goes nowhere.
SendElsewhere ==
    /\ pc = "run" /\ at = "idle"
    /\ outcome' \in {"modem", "error"}
    /\ cmd' = None
    /\ handler' = FALSE
    /\ replies' = <<>>
    /\ UNCHANGED <<vars, at, regId, result>>

\* ve_atForwardResponse.
Respond(lines) ==
    /\ replies' = IF handler THEN replies \o lines ELSE replies
    /\ handler' = (handler /\ \A i \in 1..Len(lines) : lines[i] = "line")

\* The handler's last words, and the end of ve_atCmdSendExt.
Finish(lines) ==
    /\ Respond(lines)
    /\ at' = "idle"
    /\ outcome' = "local"
    /\ UNCHANGED <<cmd, regId, result>>

Handling(action) == pc = "run" /\ at = "handler" /\ cmd.action = action

------------------------------------------------------------------------------
(* The handlers.                                                               *)

\* at_vError or, with an explanation, at_vErrorTxt.
Refuse ==
    /\ \/ Handling("refused")
       \/ Handling("set") /\ cmd.value = Unparsable
    /\ \/ Finish(<<"error">>)
       \/ cmd.action = "refused" /\ Finish(<<"line", "error">>)
    /\ UNCHANGED vars

List ==
    /\ Handling("list") /\ regId <= Final(cmd)
    /\ Respond(<<"line">>)
    /\ regId' = regId + 1
    /\ UNCHANGED <<vars, at, cmd, result, outcome>>

\* Mutant of ListEnd: the handler ends without at_vOk.
ListEndSilent ==
    /\ Handling("list") /\ regId > Final(cmd)
    /\ Finish(<<>>)
    /\ UNCHANGED vars

ListEnd ==
    /\ Handling("list") /\ regId > Final(cmd)
    /\ Finish(<<"ok">>)
    /\ UNCHANGED vars

\* AT+VREG=2 and AT+VREG=3 call dev_regChange, the latter for one after the other.
SetRegister ==
    /\ Handling("set") /\ cmd.value # Unparsable
    /\ Change(Order[regId], cmd.value)
    /\ at' = "change"
    /\ UNCHANGED <<cmd, regId, result, handler, outcome, replies>>

RestoreRegister ==
    /\ Handling("restore") /\ regId <= Final(cmd)
    /\ RestoreDefault(Order[regId])
    /\ at' = "change"
    /\ UNCHANGED <<cmd, regId, result, handler, outcome, replies>>

ChangeGoesOn ==
    /\ at = "change"
    /\ StoreNew \/ Reload
    /\ result' = (pc' = "reload" \/ pc = "reload")
    /\ UNCHANGED <<at, cmd, regId, handler, outcome, replies>>

\* Mutant of SetEnd: the result of dev_regChangeString is not looked at.
SetEndOk ==
    /\ pc = "run" /\ at = "change" /\ cmd.action = "set"
    /\ Finish(<<"ok">>)
    /\ UNCHANGED vars

SetEnd ==
    /\ pc = "run" /\ at = "change" /\ cmd.action = "set"
    /\ Finish(IF result THEN <<"ok">> ELSE <<"error">>)
    /\ UNCHANGED vars

\* The result of dev_regRestoreDefault is not looked at.
RestoreNext ==
    /\ pc = "run" /\ at = "change" /\ cmd.action = "restore"
    /\ at' = "handler"
    /\ regId' = regId + 1
    /\ UNCHANGED <<vars, cmd, result, handler, outcome, replies>>

RestoreEnd ==
    /\ Handling("restore") /\ regId > Final(cmd)
    /\ Finish(<<"ok">>)
    /\ UNCHANGED vars

SetLevels(masks) ==
    /\ Handling("levels")
    /\ SetTraces(masks)
    /\ Finish(<<"ok">>)

StoreLevels ==
    /\ Handling("store")
    /\ SaveTraces
    /\ at' = "store"
    /\ UNCHANGED <<cmd, regId, result, handler, outcome, replies>>

StoreGoesOn ==
    /\ at = "store"
    /\ SaveTrace \/ SaveEnd
    /\ UNCHANGED cmdVars

WipDump ==
    /\ Handling("dump")
    /\ Finish(<<"ok">>)
    /\ UNCHANGED vars

\* Nor is the result of ve_traceLevelsStore.
StoreEnd ==
    /\ pc = "run" /\ at = "store"
    /\ Finish(<<"ok">>)
    /\ UNCHANGED vars

------------------------------------------------------------------------------

Starting ==
    /\ PowerOn \/ Subscribe \/ StoreDefault \/ LoadAll
    /\ UNCHANGED cmdVars

StartingConsole ==
    /\ at = "idle"
    /\ StartConsole
    /\ UNCHANGED cmdVars

\* Reading a string that is NULL or released may crash the program, which is the
\* same.
PoweredDown ==
    /\ PowerLoss \/ \E r \in Registers : TornWrite(r)
    /\ at' = "idle"
    /\ cmd' = None
    /\ regId' = 1
    /\ result' = FALSE
    /\ handler' = FALSE
    /\ outcome' = "none"
    /\ replies' = <<>>

CmdNext ==
    \/ \E c \in Commands : WellFormed(c) /\ Send(c)
    \/ SendElsewhere
    \/ Refuse \/ List \/ ListEnd
    \/ SetRegister \/ RestoreRegister \/ ChangeGoesOn
    \/ SetEnd \/ RestoreNext \/ RestoreEnd
    \/ \E masks \in [Traces -> Values] : SetLevels(masks)
    \/ StoreLevels \/ StoreGoesOn \/ StoreEnd \/ WipDump
    \/ Starting \/ StartingConsole \/ PoweredDown

CmdSpec == CmdInit /\ [][CmdNext]_allVars

------------------------------------------------------------------------------
(* Properties.                                                                 *)

CmdTypeOK ==
    /\ TypeOK
    /\ at \in {"idle", "handler", "change", "store"}
    /\ cmd \in Commands \cup {None}
    /\ regId \in 1..(Len(Order) + 1)
    /\ result \in BOOLEAN
    /\ handler \in BOOLEAN
    /\ outcome \in {"none", "local", "modem", "error"}
    /\ replies \in Seq({"line", "ok", "error"})

Terminal(r) == r \in {"ok", "error"}

\* A command that was run here has sent exactly one terminal response, as its last,
\* by the time ve_atCmdSendExt returns OK, and one that was not has sent none: "This
\* relies on the fact that command always sends at terminal response!" says the
\* console.  Nobody is called for it any more.
OneTerminalResponse ==
    at = "idle" =>
        /\ ~handler
        /\ outcome = "local" => /\ replies # <<>>
                                /\ \A i \in 1..Len(replies) :
                                       Terminal(replies[i]) <=> i = Len(replies)
        /\ outcome # "local" => replies = <<>>

Answered(action) ==
    /\ at = "idle" /\ outcome = "local" /\ cmd.action = action
    /\ replies[Len(replies)] = "ok"

\* OK to AT+VREG=2 says that the register has the value, in memory and in flash; OK
\* to AT+VREG=3 that every register of the range whose write went well has its
\* default.
OkMeansDone ==
    /\ Answered("set") => /\ ram[Order[cmd.from]] = cmd.value
                          /\ flash[Order[cmd.from]] = cmd.value
    /\ Answered("restore") => \A i \in First(cmd)..Final(cmd) :
                                  Order[i] \notin bad => /\ ram[Order[i]] = Default
                                                         /\ flash[Order[i]] = Default
==============================================================================
