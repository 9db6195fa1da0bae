-------------------------------- MODULE Channel --------------------------------
(***************************************************************************)
(* The AT console of src/tcp/pubnub_at.c as the people on its channel see  *)
(* it.  Commands and responses are published on one channel; the console   *)
(* asks for what came after the time token it kept last, and it keeps the  *)
(* token of every reply (src/tcp/pubnub.c), that of its own publications   *)
(* as well.  AtLeastOnce, which VeHttpc implements, stands for the HTTP    *)
(* client.  Replies may be lost, or cut after any part of them was used.   *)
(***************************************************************************)
EXTENDS AtLeastOnce, FiniteSets

CONSTANTS
    Sub,        \* nubat->subReq
    MaxLog,     \* bound: messages on the channel
    MaxLevel,   \* bound: arrays left open by replies that were cut
    MaxOutstanding \* bound: modem commands running at once

ASSUME ChannelAssumption ==
    /\ Sub \in Requests /\ None \notin Requests /\ None \notin Nat
    /\ Batches \subseteq Seq(Requests)
    /\ {MaxLog, MaxLevel, MaxOutstanding} \subseteq Nat

Pubs == Requests \ {Sub}
Messages == 1..MaxLog

VARIABLES
    log,        \* who published what is on the channel; its length is the time
    booted,
    atCmdPending,
    outstanding, \* modem commands whose terminal response is still to come
    timeToken,  \* nub->timeToken, 0 before the first reply
    asked,      \* the token in the text of subReq
    answer,     \* what the server sent for the transmission: the token it names, or None
    used,       \* it was parsed to its end
    level,      \* nubreq->level, of which none should be left when a reply begins
    ran,        \* how often a message was run as a command; more than twice is twice
    listened,   \* the messages published while the console was waiting for them
    spoiled     \* the requests of which a reply was used and the end did not come

console == <<booted, atCmdPending, outstanding>>
chan == <<log, console, timeToken, asked, answer, used, level, ran, listened, spoiled>>
cvars == <<avars, chan>>

ChannelInit ==
    /\ Init
    /\ log = <<>>
    /\ booted = FALSE
    /\ atCmdPending = FALSE
    /\ outstanding = 0
    /\ timeToken = 0
    /\ asked = 0
    /\ answer = None
    /\ used = FALSE
    /\ level = [r \in Requests |-> 0]
    /\ ran = [m \in Messages |-> 0]
    /\ listened = {}
    /\ spoiled = {}

------------------------------------------------------------------------------
(* The server, which is external.                                              *)

\* The console waits at the server for whatever comes next.
Listening == inflight = Sub /\ answer = None /\ asked # 0

UserPublishes ==
    /\ Len(log) < MaxLog
    /\ log' = Append(log, "user")
    /\ listened' = IF Listening THEN listened \cup {Len(log) + 1} ELSE listened
    /\ UNCHANGED <<avars, console, timeToken, asked, answer, used, level, ran, spoiled>>

\* A message is published once for every transmission that gets there.
AnswerPublish ==
    /\ inflight \in Pubs /\ answer = None
    /\ Len(log) < MaxLog
    /\ log' = Append(log, "console")
    /\ answer' = Len(log) + 1
    /\ UNCHANGED <<avars, console, timeToken, asked, used, level, ran, listened, spoiled>>

\* What came after the token, as soon as there is something; a token that is 0 asks for
\* the present one.
AnswerSubscribe ==
    /\ inflight = Sub /\ answer = None
    /\ asked = 0 \/ asked < Len(log)
    /\ answer' = Len(log)
    /\ UNCHANGED <<avars, log, console, timeToken, asked, used, level, ran, listened, spoiled>>

------------------------------------------------------------------------------
(* The console.                                                                *)

Elements(seq) == {seq[i] : i \in 1..Len(seq)}

\* Requests that pubnub_atPublishN can allocate.
Fresh(adds) ==
    /\ Elements(adds) \subseteq Pubs \ Elements(pending)
    /\ Cardinality(Elements(adds)) = Len(adds)

\* pubnub_at_console publishes a message of its own to begin with.
Boot(p) ==
    /\ ~booted
    /\ booted' = TRUE
    /\ Submit(p)
    /\ level' = [level EXCEPT ![p] = 0]
    /\ UNCHANGED <<log, atCmdPending, outstanding, timeToken, asked, answer, used, ran, listened, spoiled>>

\* at_rspHandler for a modem command, terminal or not.
AtResponse(p) ==
    /\ outstanding > 0
    /\ Fresh(<<p>>)
    /\ Submit(p)
    /\ \/ outstanding' = outstanding - 1 /\ atCmdPending' = FALSE
       \/ UNCHANGED <<outstanding, atCmdPending>>
    /\ level' = [level EXCEPT ![p] = 0]
    /\ UNCHANGED <<log, booted, timeToken, asked, answer, used, ran, listened, spoiled>>

Send ==
    /\ Transmit
    /\ answer' = None
    /\ used' = FALSE
    /\ UNCHANGED <<log, console, timeToken, asked, level, ran, listened, spoiled>>

\* The commands of a reply: what is new on the channel, up to the last one parsed.
Commands(last) == IF inflight # Sub \/ asked = 0 THEN {} ELSE asked + 1..last

\* What these commands come to, and the token when it is handed over as well: responses are
\* queued or a modem command begins, and the last one decides whether one is pending.
Outcomes(n, adds) ==
    /\ Fresh(adds)
    /\ outstanding' \in outstanding..outstanding + n
    /\ outstanding' <= MaxOutstanding
    /\ atCmdPending' \in IF n = 0 THEN {atCmdPending} ELSE {FALSE, outstanding' > outstanding}
    /\ UNCHANGED booted

\* A string of the outer array counts as one more in arrays that an earlier reply left open.
Strays(token) == IF token # None /\ inflight = Sub /\ level[Sub] > 0 THEN 1 ELSE 0

\* Mutant of Run: a command that comes while one is pending is dropped.
RunWhenIdle(ms, token, adds) ==
    /\ ms = {} => adds = <<>>
    /\ ran' = [m \in Messages |-> IF m \in ms /\ ran[m] < 2 /\ ~atCmdPending THEN ran[m] + 1 ELSE ran[m]]
    /\ Outcomes(Cardinality(ms) + Strays(token), adds)

\* subscribe_callback for each of them.
Run(ms, token, adds) ==
    /\ ms = {} => adds = <<>>
    /\ ran' = [m \in Messages |-> IF m \in ms /\ ran[m] < 2 THEN ran[m] + 1 ELSE ran[m]]
    /\ Outcomes(Cardinality(ms) + Strays(token), adds)

\* Mutant of Kept: the tokens of publications are not kept.
KeptOfCommands(token) == IF level[inflight] = 0 /\ inflight = Sub THEN token ELSE timeToken

\* Mutant of Kept: the token is taken for the next message's.
KeptAhead(token) == IF level[inflight] = 0 THEN token + 1 ELSE timeToken

\* json_string keeps a string of the outer array as the token, unless arrays of an earlier
\* reply were left open: it is then handed to the callback.
Kept(token) == IF level[inflight] = 0 THEN token ELSE timeToken

\* What was done with the part of a reply before a cut: the arrays it leaves open, the last
\* command run and the token it came to.  A reply to a publication says "Sent" before the
\* token, and json_string keeps that as well; it is no time, like 0.
Parts ==
    {[open |-> n, last |-> asked, token |-> None] : n \in 0..1} \cup
    IF inflight = Sub
    THEN {[open |-> 2, last |-> m, token |-> None] : m \in {asked} \cup Commands(answer)} \cup
         {[open |-> 1, last |-> answer, token |-> t] : t \in {None, answer}}
    ELSE {[open |-> 1, last |-> asked, token |-> t] : t \in {0, answer}}

\* json_start_array and json_end_array count; pubnub_req_init begins with none.
Levels(adds, open) ==
    level' = [r \in Requests |-> CASE r = inflight -> level[r] + open
                                   [] r \in Elements(adds) -> 0
                                   [] OTHER -> level[r]]

\* REQ_DATA: a reply is parsed to its end.
Use(adds) ==
    /\ answer # None /\ ~used
    /\ used' = TRUE
    /\ Deliver(adds)
    /\ Run(Commands(answer), answer, adds)
    /\ timeToken' = Kept(answer)
    /\ Levels(adds, 0)
    /\ UNCHANGED <<log, asked, answer, listened, spoiled>>

\* A reply that is cut, or read in pieces, is refused after its first part was used.
Cut(part, adds) ==
    /\ answer # None /\ ~used
    /\ DeliverAndLose(adds)
    /\ Run(Commands(part.last), part.token, adds)
    /\ timeToken' = IF part.token = None THEN timeToken ELSE Kept(part.token)
    /\ level[inflight] + part.open <= MaxLevel
    /\ Levels(adds, part.open)
    /\ spoiled' = spoiled \cup {inflight}
    /\ answer' = None
    /\ UNCHANGED <<log, asked, used, listened>>

\* The connection breaks before or after the reply was used.
Break ==
    /\ Lose
    /\ answer' = None
    /\ used' = FALSE
    /\ spoiled' = IF used THEN spoiled \cup {inflight} ELSE spoiled
    /\ UNCHANGED <<log, console, timeToken, asked, level, ran, listened>>

\* Mutant of Done: the text of the subscription is made only once.
DoneTextOnce ==
    /\ used
    /\ LET adds == IF Len(pending) = 1 /\ ~atCmdPending THEN <<Sub>> ELSE <<>> IN
       /\ Complete(adds)
       /\ asked' = IF adds = <<>> \/ asked # 0 THEN asked ELSE timeToken
    /\ answer' = None
    /\ used' = FALSE
    /\ UNCHANGED <<log, console, timeToken, level, ran, listened, spoiled>>

\* publish_callback and subscribe_callback: when there is nothing else to do the console
\* subscribes, with the token it has then.
Done ==
    /\ used
    /\ LET adds == IF Len(pending) = 1 /\ ~atCmdPending THEN <<Sub>> ELSE <<>> IN
       /\ Complete(adds)
       /\ asked' = IF adds = <<>> THEN asked ELSE timeToken
    /\ answer' = None
    /\ used' = FALSE
    /\ UNCHANGED <<log, console, timeToken, level, ran, listened, spoiled>>

ChannelNext ==
    \/ UserPublishes \/ AnswerPublish \/ AnswerSubscribe
    \/ \E p \in Pubs : Boot(p) \/ AtResponse(p)
    \/ Send \/ Break \/ Done
    \/ \E adds \in Batches : Use(adds)
    \/ answer # None /\ \E part \in Parts, adds \in Batches : Cut(part, adds)

ChannelSpec == ChannelInit /\ [][ChannelNext]_cvars

\* A queue that is sent, a server that answers, and a reply that is not always lost, cut
\* or read in pieces.
ChannelFairSpec ==
    /\ ChannelSpec
    /\ WF_cvars(Send) /\ SF_cvars(AnswerSubscribe)
    /\ SF_cvars(\E adds \in Batches : Use(adds))

------------------------------------------------------------------------------
(* Properties.                                                                 *)

ChannelTypeOK ==
    /\ pending \in Seq(Requests) /\ inflight \in Requests \cup {None}
    /\ log \in Seq({"user", "console"}) /\ Len(log) <= MaxLog
    /\ booted \in BOOLEAN /\ atCmdPending \in BOOLEAN /\ used \in BOOLEAN
    /\ outstanding \in 0..MaxOutstanding
    /\ timeToken \in 0..Len(log) /\ asked \in 0..Len(log)
    /\ answer \in 0..Len(log) \cup {None}
    /\ level \in [Requests -> 0..MaxLevel]
    /\ ran \in [Messages -> 0..2]
    /\ listened \subseteq 1..Len(log) /\ spoiled \subseteq Requests

\* A command that is published while the console waits for one is run before its token is
\* passed, whatever is lost or cut afterwards.
ListenedIsRun == \A m \in listened : timeToken >= m => ran[m] > 0

\* Unless a reply to a publication was cut and left "Sent" for a token, another command is
\* passed over only by a response that the console published after it, the token of which
\* json_string keeps like any other; and the console has the token of its last response
\* before it subscribes, so that it never runs one as a command.
PassedByResponsesOnly ==
    spoiled \subseteq {Sub} =>
        \A m \in 1..Len(log) :
            IF log[m] = "console" THEN ran[m] = 0
            ELSE ran[m] = 0 /\ m <= timeToken => \E n \in m + 1..timeToken : log[n] = "console"

\* A command runs a second time only when the end of the reply it came with was lost.
TwiceOnlyWhenCut == (\E m \in Messages : ran[m] > 1) => Sub \in spoiled

\* A command published while the console waits for one does run, however often the
\* connection breaks or a reply is refused in between.
ListenedRuns == \A m \in Messages : m \in listened ~> ran[m] > 0
================================================================================
