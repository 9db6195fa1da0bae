# siwi2way in TLA+

siwi2way is the firmware of a cellular modem (Sierra Wireless Open AT) that gives
a device a virtual AT terminal over HTTP: it subscribes, by a long poll, to a
PubNub channel, runs the AT commands published there, and publishes their
responses. The same code builds for Windows, with glue in place of the modem's
libraries. This directory models it from the console on the channel down to the
parser of replies, the strings and the heap, model-checks the models with TLC, and
proves its central components, the heap among them, for every size with TLAPS.

## The system

The program is one event loop. On the modem the loop is the vendor's, on Windows
it is `glue_main`; either way a handler runs to completion before the next one.
What makes it hard is not parallelism but re-entrance (a callback calls back into
the component that called it, while that holds state in locals), the order in
which the events of one connection arrive, and errors in the middle of a handler.

| Component | State | Operations | Depends on |
|---|---|---|---|
| HTTP client, `src/tcp/ve_httpc.c` | state enum, request list, channel, error flag, parser state, timer | `vhttpc_add`, `tcp_handler` (5 events), `vhttpc_timeout`, `vhttpc_req_retry` | wip library or its glue; timers; callbacks of the request |
| PubNub requests, `src/tcp/pubnub.c` | JSON parser handle and nesting level per request, time token | `json_parse` (6 events), `pubnub_subscribe`, `pubnub_publish` | HTTP client; yajl |
| AT console, `src/tcp/pubnub_at.c` | pending flag, static subscribe request, allocated publish requests | `subscribe_callback`, `publish_callback`, `at_rspHandler`, `pubnub_atPublish`, `pubnub_atSubscribe` | PubNub requests; AT interface |
| Timers, `src/utils/ve_timer.c` | linked list of running timers | `ve_timer`, `ve_timer_cancel`, `ve_timer_tick` | one cyclic system timer |
| AT interface, `src/utils/ve_at.c` | table of local commands, the current local command's handler and context | command matching, parameter splitting, response routing | modem AT API |
| AT commands, `src/at/*` | masks of enabled indications, register being listed | one handler per command | AT interface, registers |
| Registers, `src/dev_reg.c`, `app/dev_reg_app.c` | values in memory, flash objects | load, store, change, change from string | flash API or `glue_flash.c` |
| Strings, `src/utils/str.c` | data, length, capacity, step, error flag | append, format, URL encoding, escaping | heap |
| Trace, `src/utils/ve_trace.c` | level per module | trace macros, level changes | console output |
| Windows glue, `glue/*` | list of sockets, descriptor sets, files for flash objects, the line being typed | `wip_*`, `adl_flh*`, main loop | Winsock, C library |
| Heap, `src/utils/malloc-2.8.5.c` | heads of chunks, bins, trees, dv, top, segments | `dlmalloc`, `dlfree`, `dlrealloc` | `sbrk` of the platform |
| yajl, stubs | a submodule, and stateless | | |

What makes each of them correct:

- **HTTP client**: requests leave in order, each one only with the answer to
  itself; whatever happens to the connection, the head is sent again; there is
  always a next event; the state enum, the channel and the queue fit in every
  handler, including those that assert it.
- **PubNub requests**: one parser handle per transmission, freed once; a resend
  starts like a first transmission; a time token is one of the channel's.
- **Console**: it never sleeps for good; a publish request lives as long as it is
  queued; it listens when idle.
- **Timers**: a running timer is in the list, with the time it was promised, and
  fires then and never otherwise, also when callbacks use the interface.
- **Registers**: every register has a usable value, and the one in memory is the one
  in flash, whichever write failed or power loss came before; nobody keeps a pointer
  to a string that was replaced.
- **AT interface and commands**: a command that is run here has exactly one terminal
  response, the console relies on it; an OK is true of the settings. Parameters are
  what the line says, and a value that is listed can be set again.
- **Channel**: a command the console was waiting for is run; what is passed over, or run
  twice, is so for a reason that can be named.
- **Parser**: the body comes through and the end of a reply is recognised, however it is
  cut into reads and whatever came before it.
- **Strings**: the data end in a zero within the capacity, and are what was appended, or
  the error flag is set and stays.
- **Heap**: blocks do not overlap and stay what they are; chunks, bits and bins agree; no
  request is refused that a free chunk would serve.

## Modules

| Module | Models |
|---|---|
| `AtLeastOnce` | what the HTTP client promises: a FIFO queue with at-least-once delivery |
| `VeHttpc` | `ve_httpc.c` and the network below it |
| `PubnubAt` | `pubnub.c` and `pubnub_at.c`, composed with `VeHttpc` |
| `PubnubAtProofs` | inductive invariants and safety theorems of `VeHttpc`, which implements `AtLeastOnce`, and of `PubnubAt`, which drives it as it allows |
| `Channel` | the console and the people on its channel, on `AtLeastOnce` |
| `ChannelProofs` | inductive invariant and safety theorems of `Channel` |
| `HttpParser` | the parser of replies of `ve_httpc.c`, function by function |
| `HttpParserProofs` | inductive invariant and theorems of `HttpParser`, for anything that may be received |
| `VeTimer` | `ve_timer.c` |
| `VeTimerProofs` | inductive invariant and theorems of `VeTimer` |
| `DevReg` | `dev_reg.c`, the trace masks of `ve_trace.c`, and `glue_flash.c` below them |
| `AtCommands` | `ve_at.c` and the handlers of `at/`, on the settings of `DevReg` |
| `AtCommandsProofs` | inductive invariants and theorems of `DevReg` and `AtCommands`, which implements it |
| `CText` | `strtol` and the printing of numbers |
| `AtText` | the text of commands in `ve_at.c`: lines, names, parameters |
| `Str` | the operations of `str.c`, as functions |
| `Strings` | one string under any sequence of them |
| `StringsProofs` | inductive invariant and theorems of `Strings`; what each operation of `Str` appends |
| `Terminal` | the keyboard of `glue_main.c`, AT+VREG and the text of registers, on `AtText` and `Str` |
| `DlBins` | chunks, bins and trees of `malloc-2.8.5.c` |
| `DlMalloc` | `dlmalloc`, `dlfree`, `dlrealloc` and the program that calls them |
| `Heap` | what a program expects of a heap; `DlMalloc` implements it |
| `DlMallocLemmas` | what the operators of `DlBins` and `DlMalloc` do to bins, trees, heads and segments |
| `DlMallocProofs` | inductive invariant and theorems of `DlMalloc`, which implements `Heap`, on these lemmas |
| `MCVeHttpc`, `MCPubnubAt`, `MCChannel`, `MCHttpParser`, `MCVeTimer`, `MCDevReg`, `MCAtCommands`, `MCTerminal`, `MCStrings`, `MCDlMalloc` | instances for TLC |

### VeHttpc

The variables are the fields of `struct VHttpc`, the channel's condition, and the
network. A handler is one action: `Add` is `vhttpc_add` with `vhttpc_enqueue` and
`vhttpc_send_ev`; `TcpOpen`, `TcpWrite`, `TcpError`, `TcpPeerClose` are the cases
of `tcp_handler`; `TimeoutRetry`, `TimeoutOpen`, `TimeoutFails` those of
`vhttpc_timeout`. `WIP_CEV_READ` is the exception, because callbacks act from
inside it: `TcpRead` enters `handle_rx`, `ParseHead`, `ParseContent`,
`ParseRejected`, `ParseDone`, `ParseMalformed` and `ParseTrailing` are the steps of
the parsing loop that a callback or an error can separate, and `ReadEnd` is the
tail of the case. While `rx` is TRUE no other handler runs. `ReadEnd` may come after
any of them: a reply is cut into reads in every way.

Decisions:

- The request text, the header values and the content are abstracted; the parser
  states before the content are one (`"http"`), those of the content another.
  `"done"` is PARSE_DONE and `"wild"` a call through the entry behind the table.
- `error` says whether the field is non-zero. `wire` is the request the peer has
  received completely on the present connection and still has to answer.
- `socket = "shut"` is a channel after `wip_shutdown` or a failed write. The wip
  library delivers its closing event, as WIP_CEV_ERROR or WIP_CEV_PEER_CLOSE.
- A request that is queued is not added again, and the owner's callback answers an
  error event with `vhttpc_req_retry`, as `json_parse` does.
- `assert` only traces on the modem, execution goes on: `TimeoutOpen`.
- A peer's bytes that belong to no request (`stray`, `trailing`) are never a
  well-formed reply. A peer that answers what was not asked is not modelled.
- Running out of memory is excluded: `str.c` and the allocator reset the modem.

Faults are named and each costs one unit of `budget`: `create_fails`,
`connect_fails`, `slow_connect`, `short_write`, `write_fails`, `reset`, `peer_close`,
`mute`, `slow_peer`, `malformed`, `data_rejected`, `idle_timeout` and the five of
`UnhandledFaults`, which strike the client in VHTTPC_IDLE or bring bytes out of turn
and from which the code does not recover (see the findings).
A configuration chooses which may happen and how many.

### PubnubAt

Extends `VeHttpc`: an action of the console is one of the client with the callbacks
of `pubnub.c` and `pubnub_at.c` filled in, so what a callback adds to the queue and
what it does to the console's own state happen in the same step. `Transport` holds
the events that reach neither file. The AT interpreter is external: a command in a
reply is answered while it is being sent (`local`), later (`adl`, which makes it
`outstanding`), or refused; `MaxCmds` bounds the commands in a reply and
`MaxOutstanding` those running at once. yajl is external: `yajl_complete_parse`
accepts a complete document only, and on a damaged one the strings before the
damage have been handed over and the arrays opened stay counted in `level`.

### Channel

The console as the people on its channel see it. `log` is the channel: who published
each message, the position being its time. The console's side is reduced to what decides
which messages it runs: the token it kept (`timeToken`), the one in the text of its
subscription (`asked`), the pending flag, and the nesting level per request. Below it is
not `VeHttpc` but `AtLeastOnce`, which `PubnubAtProofs` shows the client to implement:
`Send`, `Break`, `Use`, `Cut` and `Done` are steps of the queue with the callbacks of
`pubnub.c` and `pubnub_at.c` filled in. The server is external: it publishes once for
every transmission that gets there, and answers a subscription with all that came after
its token, at once or as soon as there is something.

- `Parts` is what may have been done of a reply before it broke off: arrays it leaves
  open, the last command run, the token. `Cut` is also a reply that comes in two reads,
  since `json_parse` completes the document with every read; the level it raised stays
  until the publish request is initialised again, and for good on the subscription.
- On a subscription whose level was left raised, a time token is handed to
  `subscribe_callback` like a command (`Strays`); the modem runs or refuses it.
- Whose answer the text `"Sent"` of a publication is does not matter: `json_string` keeps
  it for a token, which no time is, like 0.
- `listened` and `spoiled` record what the console was waiting for, and of which requests
  a reply was used whose end did not come. They are not in the code.
- `MaxLog` bounds the messages, `MaxLevel` the arrays left open, `MaxOutstanding` the
  modem commands running at once.

### HttpParser

One action per parsing function (`ParseHttp`, `EatChars`, `ParseNumber`, `ParseReason`,
`ParseHeaderName`, `ParseHeaderValue`, `EatLine`, `ParseHexNumber`, `ParseContent`, and
`TooLong` for what comes behind a reply), each of which takes what it can of the read.
`Read` hands over any number of the characters that are left; `Send` is the next
transmission, after a reply or in the middle of one, and resets what `vhttpc_send_ev` does.
Replies are sequences of characters in which the names that matter are one letter long.
`parseBuf` and `headerValue` are what the buffers hold up to the terminating zero or the
position. A buffer that was full, or that a line without a colon left behind, is part of
the model: `parsePos` is not reset when such a line ends the head, so the length of the
first chunk is read from the beginning of that line, and the digits of the chunk, together.
`ParseHexNumber` has `strtol` read both, which may refuse them or find them negative.
A zero byte among what is received, at which the C functions would stop reading the
buffer, is left out. `VeHttpc` keeps of all this the three states that its handlers tell apart.

### VeTimer

The list with its pointers (`Linked`, what can be reached from `queue`), and `ve_timer_tick` with its three locals, one turn of
the loop a step, because callbacks change the list under it. `Uses` says which timers
a program has and what its callbacks may call; a behaviour keeps to one of them
(`use`). `due` and `expiring` record what the owner was promised and are not in the
code. `MaxValue` bounds the timeouts.

### DevReg

`ram` is `dev_regs`, `flash` the objects, in the order of `devRegInfo`. A handler runs
to its end before the next one, but the power may fail inside it, so a handler is cut
into steps at its flash operations: `Subscribe` and `StoreDefault` are one turn of the
loop of `initialiseRegisters`, `Change`, `StoreNew` and `Reload` are `dev_regChange`,
`SaveTraces`, `SaveTrace` and `SaveEnd` are `ve_traceLevelsStore`. `LoadAll` only reads
and is one step.

- A string is a pointer: `Nothing` is NULL, `Freed` memory that was released. The
  console's copies of the two keys are `held`. A number that cannot be read keeps what
  it had, `Zero` after a start.
- A value is what is left after the conversion to the register's width. A change may
  be refused before anything is touched (an id or number that does not parse, which
  changes no state); the refusal by `dev_regBeforeChange` never happens in this
  application.
- Writing empties the object first (`fopen` with `"wb"`): a write that fails, or is cut
  off by a power loss (`torn_write`), leaves the old value, where the file could not be
  opened, or an empty object. An object cut short in the middle counts as empty.
- `bad` names the registers whose last write went wrong. It is not in the code.

### AtCommands

Extends `DevReg`: its actions are the steps of the settings with the caller filled in.
`Send` is `ve_atCmdSendExt` for a command of this program: the two globals are set
(`handler`) and the handler runs; `SendElsewhere` is a command for the modem, or one
that does not parse. `Respond` is `ve_atForwardResponse`, `Finish` a handler's last
response. A command on a range of registers takes its steps register by register
(`List`, `RestoreRegister`, `RestoreNext`), with `regId` of `at_vregHandler`.

- `Commands` are those whose type and number of parameters the table accepts. Wrong
  parameters are `"refused"`, before anything is touched. The masks that AT+VIND,
  AT+VERR and AT+VWRN compute from levels are arbitrary values.
- AT+VREG=3 does not look at the result of `dev_regRestoreDefault`, and AT+VIND=2 not at
  that of `ve_traceLevelsStore`: both answer OK after a write that failed. So what an OK
  says of them holds for the registers that are not in `bad`.
- Listing a string that is NULL or was released is undefined; what the build can do is
  print something, which changes no state, or crash, which is a power loss.
- The modem is external. Its answers to commands passed on come back through the
  console's own handler and are in `PubnubAt`.

### Str, Strings and Terminal

`Str` has one function per operation of `str.c`: from the string before it, what is
appended, and `room`, the largest block the heap can give while it runs. `Wrap` is 2^16,
the width in which `str_fit` and `str_resize` compute, and `Short` says which texts are too
short to reach it. `Strings` makes any sequence of
calls of which `text` records what was asked for. A string made where memory was not
zero starts with `Garbage` in its members.

`CText` is what the C library makes of the text of a number. `AtText` is the scanner of
`parseParams`, a fold over the characters, and `ve_atCmdSendExt` up to the handler:
`Dispatch` says who gets a line. `Terminal` composes them: the main loop of the Windows
program makes a line of keys (`Type`, `Backspace`, `Enter`), and AT+VREG lists, sets and
restores registers by the text of their values. What flash adds to that is in
`AtCommands`, which leaves the text out. A line in `MCTerminal` begins behind `AT+`, and
register names, like those of commands, are one letter long.

### DlBins, DlMalloc and Heap

A `malloc_state` is a record; an operation is a function from one to another, as in the
code, whose macros keep their names. Sizes and addresses count granules of 8 bytes.
`mem` has the heads of chunks with their two bits and the foot that the next chunk keeps;
heads that a chunk swallows are no heads any more. A treebin is a map from places, the
turns taken from the root, to chains of chunks of one size. `Pow2[n]` is `1 << n`, a
function over the numbers up to the width of sizes; `consolidate_forward` is what `dispose_chunk` does
after it has joined the chunk with a free one before it. `sys_alloc` asks for a region
anywhere in `Bases`, or gets none; a region behind an older one extends it, one before it
is prepended, any other becomes a segment, with a record and a fencepost at the end of
the old top; that one head stands for all those the code writes there (`malloc-2.8.5.c:3974`).

- `Requests` includes MAX_SIZE_T, which `request2size` makes of what is too large.
- The branches of corruption checks (`RTCHECK`, `abort`) are left out, as is what this
  program compiles out or never calls: trimming, `mmap`, `memalign`, mspaces, independent
  allocation. `calloc` is `malloc` of a product.
- The contents of blocks are not modelled; `Heap!Move` says both blocks are there while
  `dlrealloc` copies.

## What is checked

| Run | Question | Bounds | States | Result |
|---|---|---|---|---|
| `httpc_safety` | Do state, channel, queue and reply of the client fit, and is it an at-least-once queue, whatever happens? | 3 requests, batches of up to 2, every fault, 5 of them | 3,219 | holds |
| `httpc_idle_write` | Everything answered, with a failed write from idle | 1 failed write | | **violated** |
| `at_safety` | Is the console awake, without leak or double free, whatever happens? | 1 + 3 requests, 2 commands a reply, 2 running, every fault, 4 of them | 58,386 | holds |
| `at_live` | Are client and console never deaf, is everything answered, does it go on listening? | as `at_safety`, recoverable faults, 3 of them | 109,747 | holds |
| `channel` | Which commands are run, passed over, or run twice, and does one that was listened for run? | 3 messages, 1 + 2 requests, 2 arrays left open, 2 commands running | 105,362 | holds |
| `parser` | Does a reply come through, and end where it ends? | 17 replies of every framing, any number of them, cut anywhere; buffers of 3 | 215,644 | holds |
| `timer` | Do timers run for as long as promised? | 1 timer with callbacks, or 3 used from handlers; up to 4 ticks | 4,780 | holds |
| `commands` | Is each command answered once, and truly, and are the settings usable, saved and in agreement? | 3 registers, 2 values, 2 faults anywhere | 1,809,359 | holds |
| `terminal` | Are lines split right, values in their range, and does what is listed set the same again? | 3 registers of each type, a line buffer of 8, memory for 8 or 64 | 408,188 | holds |
| `strings` | Does a string hold what was put in it? | texts of up to 2 characters, up to 3 before each, 3 capacities, 3 sizes of memory | 357,185 | holds |
| `heap` | Are chunks, bins and trees in order, and is it a heap? | 60 granules, 3 live blocks, 4 sizes, 3 places for regions | 196,983 | holds |
| `reg_first_start` | Is every register initialised? | 1 power loss | | **violated** |

**Bounds.** Requests: three are the smallest number with a head, one a callback adds
behind it and one that was waiting before; with symmetry nothing else distinguishes them.
With fewer than three publish requests the responses of two commands could not queue
behind each other. A command in a reply publishes any number of responses from inside, a
listing one per register; `Batches` and the three publish requests bound it by three. Four faults cover every pair of faults around a retry and a third and
fourth that hit the recovery. Messages: three are a response and a command on either
side of it, or two commands of one reply and one that comes too late for it; two levels
are one reply cut inside the inner array, or two cut inside the outer one. The replies of
`parser` have headers and lengths that are longer than the buffers, of just that
length, and shorter, bodies that look like line ends and chunk lengths, and ten that are
malformed in a way the parser must notice or survive. Only one timer exists in the program
(`httpc->tmr` of the static console), three are what the interface allows. Three registers
are a key and two trace masks, the fewest with which a save can stop between two and a
range has a first, a middle and a last; two faults are a failed write and a power loss on
top of it. The registers of `terminal` are a text, a signed and an unsigned one, of which
the unsigned one is as wide as a `long` of 16 bits, so that `strtol` clamps. The heap's
trees are as in the code two to a power of two; with large chunks from 8 granules on and
60 in all a tree has a root, both children and chains, regions join in either order, and
three live blocks leave room for two free chunks between them.

Requests run out when all are queued, and messages at their bound, so the safety runs of
console and channel do not look for deadlock; the others do.

**Fairness.** Handlers have weak fairness: the stack delivers an event it has
(`TcpOpen`, `TcpWrite`, `TcpRead`, `ClosingEvent`) and the tick expires a timer
(`TimeoutRetry`, and `TimeoutFails` on a connection of which nothing can come any
more). `ParseHead` and `ReplyEnds` have strong fairness: a reply is finite, so its
end is read although reads may end in between. In the console a command's terminal
response has strong fairness because it needs a free request; that it comes is
what the comment at `pubnub_at.c:78` relies on. On the channel the queue is sent (weak
fairness of `Send`, which is what `EventuallyAnswered` of `VeHttpc` gives), the server
answers a subscription that is there again and again, and a reply is not for ever lost or
cut (strong fairness of `AnswerSubscribe` and `Use`): a server out of reach is no liveness
failure of this code. No fault is fair, and neither is `Add` or anything a user does.

### Findings

1. A write from VHTTPC_IDLE that fails, or is only accepted in part, leaves the
   request queued, the state idle, and every later event ignored (`ve_httpc.c:548`):
   run `httpc_idle_write`.
2. A power loss on the first start, between the creation of a flash object and the
   store of its default, leaves the register without a value for good
   (`dev_reg.c:67`): run `reg_first_start`.

Others met while modelling have no run of their own. Where a definition states what
fails, it is named, and adding it to a configuration shows the behaviour:

- A reset in VHTTPC_IDLE ends in VHTTPC_ERROR for good (`ve_httpc.c:677`; `ErrorIsHandled`
  in `VeHttpc` fails).
- Bytes after a reply, with another request queued, are parsed through an entry the table
  does not have (`ve_httpc.c:409`; `ParserInTable` fails).
- A resend keeps the nesting level of the cut reply, so the time token of the answer is
  handed to the callback as a command, and no token of a subscription is kept again, only
  those of publications (`pubnub.c:100`; `ResendStartsClean` in `PubnubAt` fails).
  `ListenedIsRun` shows that the console goes on running commands all the same: it asks
  for the same ones again.
- The token of the console's own response is kept like any other, so a command published
  between the last one fetched and that response is never run (`pubnub.c:66`).
  `PassedByResponsesOnly` states that this is the only way to lose one, as long as no reply
  to a publication was cut.
- A reply to a publication that is cut may leave the text `"Sent"` for a time token.
- Changing a key releases the string the console goes on using (`dev_reg.c:288`;
  `KeysLive` in `DevReg` fails).
- Two commands in one reply share one pending flag: the console may subscribe while the
  second still runs, and its response waits behind the long poll (`pubnub_at.c:60`).
- A timer set in its callback can be dropped from the list in the same tick, when another
  one expires (`ve_timer.c:116`), and one cancelled by another's callback is counted down
  all the same, because the tick has read `next` already (`ve_timer.c:128`). `Uses` with
  `"set_self"` for two timers, or `"cancel_other"`, violates `RunningIsLinked`. Not met by
  this program, which has one timer.
- `str_addInt` does not count what it writes, so what is appended next overwrites the
  number (`str.c:334`); the assertion under `_DEBUG_STR` (`str.c:160`) would say so
  (`LenIsStrlen` in `Strings` fails).
- `str_new` without memory leaves `str_len` as it was, and `str_rmc` then writes before the
  null pointer, against `str.c:34` (`ErrorStays` demands nothing there). `str_resize`
  computes in 16 bits: a string near 2^16 is resized to less than it holds. On Windows
  `str_addUrlEncChr` prints eight digits for a negative `char`.
- The main loop passes the null pointer on when the line was lost for lack of memory.
- AT+VREG: numbers that do not fit are narrowed and answered OK; a UN32 above LONG_MAX, an
  empty text and one that ends in a backslash are listed but cannot be set back
  (`Settable`). A text with a comma cannot be set at all, in quotes neither. Listing a group
  leaks its string (`at_vreg.c:281`).
- The length of the first chunk is read together with the beginning of the line that ended
  the head, when that line was not empty (`ve_httpc.c:300`), and may be negative, whereupon
  all that follows is content: `p < 0`, with which `parse_hex_number` (`ve_httpc.c:359`)
  seems to mean to refuse it, compares the pointer and not the value.
- A region from the system that is not aligned makes the heap use up to seven bytes
  behind it (`malloc-2.8.5.c:6244`).

## What is proved

In the first half of `PubnubAtProofs`, of `VeHttpc`, for any set of requests and batches, any
faults and any number of them, from the three assumptions on the constants:

- `Invariant`: `Spec => []IInv`. The three safety properties are not inductive. That
  a reply belongs to the head needs to know that the parser is rewound when a request
  goes out (`ParserRewound`) and that a raised error flag has shut the channel the
  reply would come on (`ErrorShutsChannel`); the receive loop has to know that its
  channel is the one it began on (`RxHasChannel`). One lemma per group of
  handlers, one step per handler.
- `TypeCorrect`, `SocketSafe`, `RequestThere`, `AnswerMatches`: the invariants of
  `httpc_safety`, from `IInv`.
- `NeverDeaf`: `NotDeaf`, which `at_live` checks with the console on top, assuming that
  the faults do not include the five of `UnhandledFaults`. The strengthening is `Attentive`; it shows why the timer that
  `vhttpc_init` starts is harmless (it expires before there is a channel).

- `ImplementsAtLeastOnce`: `Spec => AtLeastOnceDelivery`, under every fault. Each
  step is one of the abstract queue's or a stutter; the cases that transmit need
  `IInv` for the wire to be free and the queue not to be empty.

In the second half, of `PubnubAt`, for any subscription and publish requests, any number of
commands and faults, from the assumptions on their constants:

- `ConsoleUsesClient`: `AtSpec => Spec`. A step of the console is one of the client with
  callbacks filled in that add, of the requests that are not queued, no more than a
  callback may. So `ClientUnderConsole`: the invariant of the client, its at-least-once
  queue and `NotDeaf` hold with these callbacks in it.
- `ConsoleInvariant`: `AtSpec => []AtInv`. The three properties of `at_safety` are inductive
  together, on `IInv` and two facts more: a request is in the list once (`Distinct`), so that
  what is released is no longer linked, and a parser that has run past the end of a reply
  does so only inside a read (`ParserAtRest`).
- `NeverAsleep`, `HeapMatchesQueue`, `OneParser`: the invariants of `at_safety`.

In `VeTimerProofs`, for any timers and timeouts, and for callbacks that use the interface
as those of this program do (`ProperUses`: none cancels another timer, and one that
sets its own is that of the only timer; the findings say what happens otherwise):

- `TimerInvariant`: `Spec => []TInv`. The list is finite and ends (`ListIsWhole`),
  `ve_timer_tick` stands inside it, with `prev` before where it goes on (`CursorFits`), and
  before it the timers have been counted down, behind it they have not (`TimesAreKept`).
  `Linked` is the smallest set that is closed under `next`; the lemmas on `From` say
  what inserting and unlinking do to it, by induction on how far a node is.
- `TypeCorrect`, `RunningLinked`, `FiresOnTime`: the properties of `timer`.

In `HttpParserProofs`, for any set of replies, that is for any text a peer may send, any
cut into reads, and any size of the two buffers:

- `ParserInvariant`: `Spec => []PInv`, one lemma per parsing function, three for what
  they share (`StepKeeps`, `NextKeeps`, `FailKeeps`). `Positions` says that every
  function finds `parsePos` where its predecessor, `parse_eat_line` included, which resets
  it in one case of five, may have left it.
- `TypeCorrect`: nothing is written behind the buffers, and what `strtol` makes of the
  lengths is a `long`.
- `BodyContiguous`: what the callback gets of a reply that is not chunked are characters
  that follow each other in the reply, up to the one that is parsed next.

The numbers in a reply are folds over its digits. `FoldExists` proves, by induction
on sets of numbers (`Inductive`), that the functions in `FoldLeft` exist and go on from left
to right, so that what such a fold computes can be proved like an invariant; each use has
to connect its own `LAMBDA` with a function. `StringsProofs` begins with the same lemmas.

In `ChannelProofs`, for any requests, batches and bounds, from `ChannelAssumption`:

- `ChannelInvariant`: `ChannelSpec => []IInv`. Its heart is `Awaited`: a command the
  console was listening for and has not run is still behind the token in the text of the
  subscription at the head of the queue, so whatever breaks the connection, it is asked
  for again. That this stays so needs to know that a subscription is only ever the head
  (`Queue`, `SubOnlyFirst`) and that an answer leaves nothing out (`Answered`). `RunOnce` and
  `Passed` say what the tokens are as long as no reply was cut; they need `LevelsOfSpoiled`,
  that a nesting level is raised by nothing else.
- `ChannelTypeCorrect`, `ListenedRunsFirst`, `PassedOnlyByResponses`, `TwiceOnlyCut`: the
  invariants of `channel`.

In `AtCommandsProofs`, of `DevReg`, for any registers, values and number of faults, from the assumptions
on the constants (registers are listed in `Order`, keys are strings, masks are
numbers, the markers are no values):

- `Invariant`: `Spec => []IInv`, one lemma per step of a handler. `Settled` speaks of
  the moments between handlers only; `Busy`, `Agree` and `SavedSoFar` say how far a
  handler has come, `Created` and `EmptyIsBad` what a start may find in flash, and
  `NumbersHaveValues` why whatever `ve_traceLevelsStore` saves is a value.
- `TypeCorrect`, `SettingsSettled`, `SaveIsComplete`: what `commands` checks of the
  settings.

And of `AtCommands`, with the further assumption that the markers of `AtCommands` are no values:

- `CommandsInvariant`: `CmdSpec => []CInv`. It adds to `IInv` where the program can be
  while a command runs (`Phase`), that a running command has its handler and has sent
  nothing terminal (`Responding`), that loops stay in the command's range (`InRange`),
  and what they have done so far (`Changing`, `RestoredSoFar`). That restoring one
  register leaves the earlier ones alone needs `Order` to list none twice.
- `CommandsImplementDevReg`: `CmdSpec => Spec`, so that what is proved of `DevReg` holds
  under commands (`SettledUnderCommands`).
- `CommandsTypeCorrect`, `AnsweredOnce`, `OkIsTrue`: the properties of `commands`.

In `StringsProofs`, for any texts, capacities, steps and sizes of memory, and a number `n` such
that `Short(n)`: the capacities and what one call appends are at most `n`, and `Longest` is
more than `3 * n` below `Wrap`. Without it the capacity that `str_fit` computes can wrap and
come out smaller than the text, so the theorems would not hold. TLC evaluates `Short(25)`.

- `StringsInvariant`: `Spec => []SInv(n)`. `Proper` is that data and the error flag agree and that
  no more characters count than there are; `Bounded` that the buffer holds them and cannot
  have wrapped, the step included, which `FitBounded` turns into the same for the next
  buffer. `Takes` says of an operation that it appends a text or releases the string;
  `TakesTwice` composes two of them, `EachTakes` as many as there are characters to
  encode. `Within` is the same for numbers, of which only the length is known.
- `StringFits`, `StringKeepsText`, `StringErrorStays`: the properties of `strings`.
- `EscapingIsUndone`: what `str_addUnescaped` makes of an escaped text is the text. By induction
  on its characters, along the places where their escapes begin (`FlattenParts`).

In `DlMallocProofs`, with the lemmas on the operators in `DlMallocLemmas`, of `DlMalloc`, for any numbers of bins, any width of sizes, any granularity,
any places where the system has memory, any requests and any number of live blocks, from
`BinsAssumption` and `MallocAssumption`:

- `HeapIsWhole`: `Spec => []IInv`. What the run checks of bins and segments is not inductive:
  it speaks of chunks in a bin and chunks in memory without saying that each free chunk is
  in one place of one bin. `Whole(gm, X)` does, with `X` the sizes of what the bins hold: the
  heads agree with their neighbours (`Tiled`), `top` ends before its foot (`TopIs`), each
  segment begins with a chunk and holds whole chunks, each older one its record and fencepost
  (`Segments`, `FencesAreCounted`), `dv` is a free chunk of its size (`DvIs`), and the bins hold all
  else that is free, each chunk at the place of its size (`Kept`). `LiveAreUsed` and `RefusedIsFull`
  connect it with the program.
- The bins: in a tree a node is on the way down for its size (`Shape`), so joining as a leaf
  and taking the place of a node from a leaf below it keep what is below each node in its
  range of sizes. `LargeFitsAre` says that the search of the trees, down for the size, back to
  the last larger subtree, then leftmost, or else from the next marked tree, misses no
  chunk that fits and finds a smallest one. It rests on arithmetic of sizes: the ranges of
  the bins do not overlap (`IndexInRange`), and the first bit that differs orders two sizes of
  one bin (`BitsOrder`). That powers of two double (`PowersDouble`) comes from counting subsets with
  the library's `FS_SUBSET`, since the provers know nothing of `^`.
- The memory: whatever an operation does, it makes of a stretch of chunks one chunk
  (`AsOne`) or two (`AsTwo`), in use or free, and that alone keeps all heads in agreement, provided
  that no two free chunks come to be neighbours (`OneLaid`, `TwoLaid`). `Ready` is the
  state in between, when some chunks are in no bin.
- The operations: `DisposeChunk`, `TryRealloc`, `SysAlloc` (with the four places where a region may
  lie: `FirstRegion`, `AddSegment`, `GrowTop`, `PrependAlloc`), `Dlmalloc` and `Dlrealloc` say of each
  function of the code that the heap is whole again and which blocks it gave, returned or moved.
- `ChunksStayTiled`, `BinsStaySorted`, `NothingLeaks`, `RefusedOnlyWhenFull`, `LargeRequestsFitBest`: the
  properties of `heap`. That `MinusOfLess` holds, a chunk that is too small having a remainder larger
  than any, is why the unsigned comparisons of `tmalloc_large` choose right.
- `HeapKeepsItsPromise`: `Spec => HeapPromise`. Every step is one of `Heap`; two blocks are apart
  because two heads of sound memory are.

The proof of the trees by induction over depths replaces the induction over data that the provers
do not have: ways down are sequences of bits of a number, and `Inductive` goes over
their lengths.

Typing of Boolean variables is shown apart from the other types, since the provers
treat Boolean values of a state variable differently.

Model-checked only: liveness (`EventuallyAnswered`, `KeepsListening`, `ListenedRuns`), since
the provers do not treat fairness and ENABLED; of the parser what needs a reply to be
well-formed (`BodyIsWhatWasSent`, `DoneWithTheLastCharacter`, `OnlyTheCallbackRefuses`), which the
model gives as text; and the text of commands (`Terminal`).

## Not modelled

- `glue_wip.c`, the network of the Windows build. It stands in for the modem's library on a
  development PC and would be a second, different network below `VeHttpc`. Its one list
  of channels is relinked wrongly by `wip_close` when the channel is not the first; the
  program has one channel at a time.
- The modem's AT interpreter and the wrappers of it in `ve_at.c`; subscriptions that change
  at run time, which this program does not use. `vhttpc_deinit` and `pubnub_atDeinit`, which
  nothing calls.
- The formatting of requests, of traces and of the version; `str_replace`; the parameters of
  AT+VIND, AT+VERR and AT+VWRN, whose masks are arbitrary values in `AtCommands`.
- Running out of memory above the strings: on the modem the allocator resets it.
- yajl, a submodule that is not in the repository; the stubs and type definitions; the demos
  of `main.c` that are not started.
- One character is one step nowhere but in `Terminal`; reads of the network are any number
  of characters in `HttpParser` and whole parts of a reply in `VeHttpc`. That the three
  parser states of `VeHttpc` are an abstraction of the nineteen in `HttpParser` is by
  construction and not checked.

## Plan

1. **Proofs.** The splitting of commands in `AtText` and the lengths of values in `Terminal`,
   with the lemmas of `StringsProofs`.
2. **Parser below client.** A refinement from `HttpParser`, with requests around it, to
   `ParseHead`, `ParseContent`, `ParseDone` and `ParseMalformed` of `VeHttpc`.
3. **AT interface in the console.** `AtCommands` in the place of the local half of the external
   interpreter in `PubnubAt`, where `OneTerminalResponse` is what the console relies on.
4. **Windows glue**: the list of sockets under `wip_close`.
