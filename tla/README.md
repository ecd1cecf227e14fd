# Verification of the ZNP host framework

The ZNP host framework lets a program on a host use a ZigBee network processor
(ZNP) over a serial line. Its core is small and concurrent: application threads
call MT functions, each of which sends one frame through `rpc.c` and waits for the
answer; another thread turns bytes from the line into frames, wakes the waiting
sender and passes messages on through a queue; callbacks run on whatever thread
fetches a message, and may call MT functions again. This directory holds TLA+
models of that core, TLC configurations that check them on small instances, and
TLAPS proofs of the properties that matter most.

Source lines are given as `rpc.c:377`; the files are under `src/framework/rpc`,
`src/framework/mt` and so on. `PROJECT.json` maps every definition to its lines.

## 1. Inventory

| Part | State | Operations | Talks to |
|---|---|---|---|
| Message queue (`rpc/queue.c`) | linked list (`head`, `tail`, scratch `temp`), `llqAccessSem`, `llqCountSem` | `llq_open`, `llq_add` (head or tail), `llq_receive`, `llq_timedreceive` | `rpcLlq` in `rpc.c` is its only instance |
| RPC layer (`rpc/rpc.c`) | `rpcSem`, `srspSem`, `expectedSrspCmdId`, `rpcLlq`; locals of `rpcProcess` | `rpcOpen`, `rpcInitMq`, `rpcSendFrame`, `rpcProcess`, `rpcWaitMqClientMsg`, `rpcGetMqClientMsg` | transport below, `mtProcess` above |
| MT dispatch (`mt/mtParser.c`) | `srspRpcBuff` | `mtProcess` | the four subsystems |
| MT SYS, AF, ZDO, SAPI (`mt/*/`) | a table of callbacks each | 76 request functions, 59 parsers | `rpcSendFrame` and `rpcWaitMqClientMsg` below, callbacks above |
| Serial transport (`platform/gnu/rpcTransportUart.c`) | a file descriptor | open, close, read, write | the ZNP |
| TI-RTOS port (`platform/tirtos`) | handles of kernel objects | the same calls, and POSIX semaphores and time on top of the kernel | |
| Console, debug print | a terminal, a line buffer | | |
| Example `dataSendRcv` | `nodeList`, `nodeCount`, `devState`, `initDone` | three threads: receive, application, message pump | MT functions and callbacks |
| Example `nwkTopology` | `nodeList`, `nodeCount`, `devState` | discovers the mesh by nested LQI requests | same |
| Example `stressTest` | `testNodes` (per node an address, two sequence numbers, counters), `devState`, `initDone` | `startNetwork`, a test loop, callbacks that list nodes and note echoes; two threads fetch | same |
| Example `cmdLine` | a table of 72 commands; buffer, size and position of the one being typed | `inputCmd`, `sendCmd`, line editing | every request function |
| Example `servDisc` | `devState` | a script of MT calls, one thread | same |
| Firmware images (`bin`) | | another program's binaries | |

**How a request works.** An MT function fills a payload and calls `rpcSendFrame`:
wait for `rpcSem`; if the request is synchronous, note its subsystem in
`expectedSrspCmdId`; write the frame; wait for `srspSem` until a deadline; set
`expectedSrspCmdId` to 0xFF; post `rpcSem`. On success the MT function calls
`rpcWaitMqClientMsg(50)`, which takes ONE message from the queue, the first one
there, and gives it to `mtProcess`. A response is copied into the global
`srspRpcBuff`; ZDO (and some others) then return `srspRpcBuff[2]`. Everything else
runs a callback of the application, which may issue further requests from inside.

**How a frame comes in.** `rpcProcess` reads SOF, length and body (with retries),
checks the FCS, and then: a response whose subsystem is `expectedSrspCmdId` posts
`srspSem` and is added at the HEAD of the queue; any other response is dropped;
everything else is added at the tail.

### What is hard here

* `expectedSrspCmdId` is written by senders and read by the receive thread with no
  lock between them, and it identifies a request by its subsystem only.
* `srspSem` is posted before the response is queued, and counts: late responses.
* The queue's list and its semaphore are not updated together, and
  `llq_timedreceive` tests `head` before it owns the list.
* Any thread may fetch any message, and callbacks re-enter the request path.
* Reads are cut anywhere and may fail; arithmetic is in `uint8_t`.
* Every wait has a deadline which may expire while the answer is under way.
* `stressTest` compares, resets and advances sequence numbers statement by statement while
  another thread's callback writes them, and fills a slot of its list by three stores.
* `cmdLine` lays a struct out a second time, by a table and rules of its own.
* Each request counts its buffer in one expression and fills it in many statements;
  each parser walks a message by an index of its own and loops over counts that the
  message gives, with no test but the frame's length (which counts other bytes).

`PROJECT.json` lists the hazards one by one with the properties that cover them.

### What makes each part correct

* Queue: elements come out once, whole, and in order; a receiver that was granted a
  unit finds an element; nothing dangles, nothing leaks.
* RPC: one sender at a time; the response that ends a wait is the request's own;
  nothing that arrives is lost or doubled; every call returns and the queue drains.
* Framing: what was sent intact is delivered intact, whatever the reads do; damage
  and failure cost the frame they hit and no other; no byte outside the buffer.
* MT layer: what is sent was filled, fits a frame and has its answer awaited; what is
  read lies in the message, is the value it is taken for and goes where it belongs.
* Examples: the node list describes the mesh, each router once; the message loops end; a
  test that is counted as passed was echoed; a network is up only if the ZNP said so; what
  is typed at the console is what the request function reads.

## 2. Modules

| Module | Models | Uses |
|---|---|---|
| `PrioQueue` | the queue as its callers see it: atomic critical sections beside a counting semaphore | |
| `Llq` | `queue.c` pointer by pointer | implements `PrioQueue` |
| `Rpc` | `rpc.c` from complete frames up, the request path of the MT functions, `mtProcess`, callbacks, the ZNP | extends `PrioQueue` |
| `Framing` | the frame format, `rpcSendFrame`'s layout and `rpcProcess`'s reading, byte by byte | |
| `MtLayout` | how requests, structs and parsers are written down | |
| `MtZdo`, `MtSys`, `MtAf`, `MtSapi` | every request function, struct, parser and dispatch table of one subsystem | `MtLayout` |
| `MtRequest` | a request function running: buffer, index, send, wait | the four above |
| `MtParse` | a parser running: dispatch, reads, lists, callback | the four above |
| `Topology` | the discovery of `nwkTopology` and of `dataSendRcv`: LQI callback, message loops, `displayDevices` | |
| `CmdTable` | the tables of `cmdLine`: its commands with their attributes, and the function each is sent with | the four subsystems |
| `CmdLine` | `inputCmd`: size of the buffer, place of each attribute, lengths refused; then the request function reads it | extends `MtRequest`, `CmdTable` |
| `StressTest` | the coordinator of `stressTest`: start of the network, test loop, callbacks on two threads, ZNP and nodes | |
| `MCLlq`, `MCRpc`, `MCFraming`, `MCTopology`, `MCStressTest` | small instances for TLC | |
| `TopologyInvariant` | what holds of every state of `Topology`, part by part, for its proofs | extends `Topology` |
| `LlqProofs`, `RpcProofs`, `FramingProofs`, `TopologyProofs`, `StressTestProofs` | theorems about the module each is named after, and in `RpcProofs` about `PrioQueue` | extend it and TLAPS |
| `MtRequestProofs` | theorems about the request functions of `MtRequest`, called from the console and from other programs, and about the console's buffer | extends `CmdLine` |
| `MtParseProofs` | theorems about the parsers | extends `MtParse` |
| `SequenceLemmas` | induction and counting in sequences, for the proofs | |

**PrioQueue.** `items` is the list, `count` the value of `llqCountSem`, `qpc[t]`
says whether thread t is between the two halves of an operation. `Link` is
`llq_add` up to the post of the access semaphore, `Signal` its last statement;
`Token` is the wait of `llq_timedreceive` when granted, `TimedOut` when not, `Unlink`
the rest. A timed wait never fails while the semaphore is positive, and may fail
whenever it is zero.

**Llq.** The same functions with one action per group of statements that another
thread could see half done: allocation straight into the shared handle, filling the
node, moving `head` and `tail`, the post; and for a receive the unlocked test of
`head`, the wait for the list, copy, free, advance, post. Freed and fresh nodes
hold `Junk`. `before` is a history variable, the list when the access semaphore was
last taken; under the mapping `items <- IF accessSem = 0 THEN before ELSE Contents`
each critical section takes effect when it posts the semaphore.

**Rpc.** One action per step of a request, named after what the code does
(`Acquire`, `SetExpected`, `Write`, `SrspGranted` or `SrspTimeout`, `ClearExpected`,
`Release`, then `Fetch` or `FetchTimeout`, `Take`, `Dispatch`). `pc[t]` is where thread
t is, `req[t]` the request it works on, `status[t]` what `rpcSendFrame` returned,
`stack[t]` the calls suspended while a callback runs (`NestedCall`,
`ReturnToCallback`). The receive thread is `RxFrame`, `RxPost`, `RxLink`, `RxSignal`.
Frames carry the id of the request they answer, which only the properties look at;
`posted` (the response `srspSem` was last posted for) and `dispatched` are history
variables. Every dispatched message runs a callback that may or may not send; whether
the application registered one is thereby covered. The subsystems whose functions
return `srspRpcBuff[2]` are the constant `StatusSub`. `WarningsPrinted` says whether
`PRINT_LEVEL` lets warnings through; where it does, the one malformed warning in
`rpcProcess` may end the process (`crashed`).

**Framing.** `Base` is the number of values of a `uint8_t` and the size of `rpcBuff`,
256 in the code and 16 in the runs, so that wrapping and the longest payload are
within reach. `ExOr` is the exclusive or of two bytes, a constant that the runs define and of
which the proofs use two facts: it yields a byte, and two bytes that differ still differ
after it. `kept`, `damaged` and `misleading` are history variables: the bodies the line left
intact, how many frames it changed, and whether some body could be taken for a start of frame. Reads return any part of what was asked for, or -1, which
`rpcTransportRead` turns into `Base - 1`. The sender is the other end of the line,
which uses the same layout as `rpcSendFrame`.

**MT layer.** A request function is written as the length it gives its buffer and the
bytes each of its statements writes, for example `Sreq(4, <<2, 2>>)`; a struct as the
widths of its members; a parser as the struct it fills, the n of its `if (rpcLen < n)`, and
the values it reads in order, with `if (rpcLen > n)` between them. These tables are what
differs between the 76 requests and 59 parsers; what they share is in two small
machines. `MtRequest` executes a request statement by statement (`cmInd` is a `uint8_t`,
`filled` counts the bytes really written), sends it and waits. The send succeeds when `srspSem` is posted and the answer
is queued later (`queueing`, `Queue`), so the wait may end first and leave it (`missed`). `MtParse` executes a
parser against a message laid out as the struct says: each byte of the message is
named by the member and element it belongs to, so that reading a neighbour's byte is
noticed whatever its value. A count read from a wrong byte may be any of `StaleValues` (none, some, and
as many as make the `uint8_t` index wrap).
What several threads do to each other stays with `Rpc`.

**Topology.** Which of the two programs runs is chosen at the start (`program`), since they
differ in three places: the index of the entry a callback fills (`Slot`: taken on entry, or
looked up anew each time), the relations followed (`Accepts`), and what comes after the
message loop (printing, or asking each device for its endpoints). `calls` is the stack of
LQI callbacks the thread is inside of, each with the neighbour it looks at next and the
place it returns to; `queue`, `srspSem`, `held` and `line` are what is needed of `rpc.c`: a
response is posted (`RxPost`) before it is queued (`RxLinkSrsp`), so that the fetch of a
request may find another router's answer. `mesh` says what the routers will answer. The
steps of one thread are as fine as its messages; a late answer to a *request* is left to
`Rpc`, a late answer from the *network* is not (`slow`). `dataSendRcv` has two threads that
fetch: `appProcess` (rounds, and between them messages that the user sends) and
`appMsgProcess`, which waits for a message (`poll`) if it finds `initDone` set. Nothing ends
that wait when `initDone` is cleared, so it may take a message of the next round and run a
callback beside those of `appProcess`: `pc`, `calls` and `request` are kept per thread,
`sender` is `rpcSem`, and `nodeCount++` is two steps (`CountRead`, `CallbackReturns`). The history
variables `alone` and `polled` say what the other thread has done in a round.

**CmdLine.** The console does not call the request functions with arguments: it asks for a
command's attributes one by one, writes each into a buffer by the widths in a table of its
own, pads by rules of its own, and casts the buffer to the struct. `CmdTable` holds the
table and the casts as the source has them; `typed` is where each attribute was put,
`commandSize` the `uint8_t` that is given to `malloc`, `top` how far the buffer was written.
A list of too many entries is refused and its length asked for again (`AskLengthAgain`), which
takes the position back. `SendCmd` enters the request function of `MtRequest` with the
lengths that it finds where the struct has them (`Offsets` in `MtLayout` is the compiler's
layout); if something else lies there, with any length (`MisreadCalls`). The actions of
`MtRequest` by itself are part of the module: a program that calls the functions directly.

**StressTest.** One action per statement of `appProcess` that the callbacks of another
thread could tell apart: `Compare`, `ResetTx`, `ResetRx`, `Advance`, `Send`, `Wait` in the test,
and one per request in `startNetwork`, each of which may fail where the code looks at its
status; `initDone` is set in a step of its own, after the last request and the callback it may run
(`InitDone`). `handling[t]` is the indication whose callback thread t runs, `step[t]` and
`found[t]` how far it is; a callback runs on `appProcess`'s thread when a request of its
fetches an indication (`Request`, `Wait`), on the other when `appMsgProcess` does. `rpc.c` is
`queue` and `srsp` (answers in front of it) only. `resetting` says that the ZNP was told to reset itself and
has not (`ZnpResets`). History variables: `heard` and `overwritten`, of each slot; and of an attempt to start,
`early` and `indicated` (what the ZNP has said since `devState` was set back, before and
after its reset) and `gaveUp` (`startNetwork` has not seen a coordinator). The other side, the same program as a router, appears as `EchoBack`; packets and
echoes are a bag (`air`), so they overtake each other, and may stay there for ever.

## 3. Runs and what they show

| Run | Question | Bounds |
|---|---|---|
| `llq` | is the pointer code whole under any interleaving, and an implementation of `PrioQueue`? | 3 threads, 2 messages, 3 nodes |
| `rpc_prompt` | while answers come in time, is each request matched with its own, and in what order are messages fetched? | 2 application threads, 2 requests, 2 indications, 2 subsystems |
| `rpc_late` | with timeouts, late answers and losses: does every call return, those from callbacks included, does the queue drain, and what still holds of sender, queue and messages? | 2 threads, 2 requests, 1 indication, 1 subsystem, 2 timeouts, 1 loss |
| `framing` | is exactly what was intact delivered, and does a loss stay local? | 2 frames of 0, 3 and 10 bytes, 1 damaged, 6 failing reads of a body, 1 of a length |
| `mt_parse` | does every parser read its message and nothing else? | lists of 0, 1, 2 elements and as long as array and frame allow |
| `cmdline` | does each of the 72 commands reach its function as it was typed, and is every request, called by the console or by a program, filled, of a length a frame can have, and waited for exactly if it has an answer? | lists of 0, 1, 2 entries and full, one length too large, 2 answers that come after their wait |
| `topology` | does a discovery end with each router listed once, with its own children, in whatever order answers come? when is `nodeList` too small? how far can the other thread of `dataSendRcv` disturb it? | 5 meshes of up to 3 routers, one of them no tree; lists cut to 2 neighbours, `nodeList` of 4 entries, 2 rounds, 1 message sent, 1 loss (but where two routers list each other in `dataSendRcv`), 1 loop that ends early (in `dataSendRcv` on one mesh only) |
| `stress` | is the network up when the program says so? is what counts as passed echoed, whatever is lost, late or overtaken and whoever runs the callbacks? | 2 slots, 2 nodes, sequence numbers modulo 3, 2 packets sent, 3 indications (announcements and state changes) |
| `stress_slot`, `rpc_zdo_status`, `rpc_binary_sem`, `rpc_unexpected` | the findings, section 6 | 2 slots, 1 packet, 3 announcements; 1 thread, 1 or 2 requests |

Why the bounds suffice. Three threads are an adder and two receivers that compete for
the same element, or the other way round: each hazard of the queue involves two
threads and the state a third has left. Two requests are the request in progress and
an earlier (or a competing, or a nested) one; requests are told apart by subsystem,
so two subsystems make equal and different ones. An indication is what a
request may fetch in place of its response, and what a callback may be run for in the middle of
another, for which one is enough (`rpc_late`); order among indications takes two, the one
fetched and the one that waits, or both in the hands of the two threads (`rpc_prompt`; with
timeouts and losses the order is proved only). A fifth and a sixth failing read are
both sides of the retry limit; the payloads of `Framing` include one made of
start-of-frame bytes and one that looks like a frame's head. The lists of requests and
messages are empty, short, and as long as their arrays (`UpTo`) or the frame
(`Fullest`, `MT_MAX_PAYLOAD`) allow, which are the lengths at which a count, an index or a
byte too many shows. The meshes of `Topology` are the
smallest with two routers asked by one callback (responses overtake each other and callbacks
nest), with routers below routers, with a router that refuses, and with two routers that know each other in relation 3,
which `dataSendRcv` asks in turn until the list overflows; a second round is what a
late answer of the first can disturb. Four entries are one more than there are routers, so that
late answers fill the list too. Two slots of `StressTest` are
one that a node has and the one it gets when it joins again; three announcements list a node, list it again, and
find no slot left, or list one and race for the other slot while it is tested; two packets are an old echo and the new packet it could be taken for, and a modulus of 3 tells a
number, its successor and its predecessor apart, with the wrap two sends away. Three state changes are one of
before an attempt, one of before the reset and one of after it; announcements and state
changes share one bound, since a callback of one changes nothing that the other's looks at. The proofs remove the bounds for the
properties they cover.

The bounds are `MaxReq`, `MaxAreq`, `MaxTimeout`, `MaxLoss`, `MaxFrames`,
`MaxDamaged`, `MaxReadErrors`, `MaxHeaderErrors`, `ListLengths`, `StaleValues`, `MaxRounds`,
`MaxData`, `MaxSlow`, `PageSize`, `Capacity`, `MaxSends`, `MaxInds`, `MaxStates`, `MaxMissed`, and in `Llq` the number of nodes.

**Fairness** (`rpc_late`, `topology`). The threads are scheduled, so a step of `AppSteps`
or `RxNext` that stays possible is taken; a wait with a deadline ends, which is weak
fairness on the choice of `SrspGranted` or `SrspTimeout` (the run allows a timeout for every request); the ZNP
answers what reaches it. Nothing is assumed about the line, about who starts a request or
which callbacks send. The message loops come round (`Poll`): `appMsgProcess` and the
loops of `appProcess` do that. `rpcSem` is a POSIX semaphore and gives no promise of
who gets it; weak fairness is enough because the runs bound the number of requests,
so no sender can be overtaken for ever. Starvation under an unbounded stream of
requests from others is therefore not excluded, and could not be, by this code.

In `topology` the threads are scheduled and an answer that is not lost arrives; nobody need press a key.

`Framing` stops when everything sent has been read, and `Topology` after its last round or in
`rpcGetMqClientMsg` (`CHECK_DEADLOCK FALSE`); all other
passing runs are checked for deadlock. `rpc_late` has one
subsystem, so that every late answer is one that can be taken for another; what different ones do is in
`rpc_prompt`. It has `WarningsPrinted = FALSE`, because the
process ending would only cut behaviours short; `rpc_prompt` has it `TRUE` and shows in
`NothingDiscarded` that the branch is then never reached.

## 4. Properties

Queue: `Balance` (every element is accounted for by a unit of the semaphore, a receiver
past its wait or an adder before its post), `NoEmptyReceive` (a receive
never returns 0, which the callers would take for a message),
`ListWhole`, `SafeToFollow`, `ImplementsPrioQueue`.

RPC: `OneSender`, `ExpectedIsCurrent`, `QueueSorted`, `FetchedInOrder` (no indication is
fetched before one that was sent earlier, so callbacks run out of order only among indications
that threads hold at the same time), `EachAreqInOnePlace`,
`CallsReturn`, `QueueDrains`; and, while answers are in time,
`NoStaleSrsp` (with `SrspSemBinary`), `SuccessIsOwn`, `NothingDiscarded`.

Framing: `DeliversIntact`, `LossIsLocal`, `InsideBuffer`. The last two are claimed while the
receiver is `InStep`: after a frame was given up half read, its remaining bytes are
searched for a start of frame, and what is then taken for a length may be anything.

Requests: `SentIsFilled` (every byte sent was written, none was written outside the
buffer), `FitsFrame` (the length survives three `uint8_t`), `AnswersMatched` (whoever
waits has an answer coming, and answers are left for later requests only by waits that ended
before theirs was queued, which finding 1 shows to be possible). Exceptions, named
in the module because the code has them: `zdoUnbindReq` with an IEEE address writes 23
bytes into 16; `sysRamWrite` and `zbWriteConfiguration` send a byte they never wrote;
`afDataRequestSrcRtg` and `zbAppRegisterReq` accept lists longer than a frame;
`sysResetReq` waits for an answer that an AREQ has not. The first three show up as
`SentIsFilled` holding with "exactly if not" for them.

Parsers: `ReadsInside`, `ReadsOwn`, `ElementsInPlace`, `WholeMessage`, `NoFalseAlarm` (no frame
that holds all its parser reads is reported as too short). Exceptions:
`processSimpleDescRsp` on a response that ends after its length: `rpcLen` counts `cmd0`, `cmd1`
and the FCS, so six bytes pass `rpcLen > 6` (`mtZdo.c:1770`) and are read to their end and on (and, if what is found there makes the index wrap, from the front again);
`processMgmtBindRsp`, whose loops share the name of their index, and
`processMsgCbIncoming`, which takes its last byte from the address before it.

Discovery: `EntriesOwn` (one entry per response, each with its own children, however
callbacks nest), `EachRouterOnce`, `EachDeviceAskedOnce`, `InsideNodeList`, `OneTaken`, `DiscoveryEnds`.
What a network may look like is no assumption of the module: where a property needs it, it is in its antecedent.
Named limits: for `dataSendRcv`, `EntriesOwn` is claimed only where no response names two
routers, none is left from the round before and the other thread dispatched nothing, because
its callback uses `nodeList[nodeCount]` throughout and a nested or concurrent one writes into the
same entry; `EachRouterOnce` only where no message loop ended too early and nothing
was lost, each router is in the list of one other (`Tree`), and for what fits into first responses, because `StartIndex` is always 0;
`EachDeviceAskedOnce` on a tree too, and "once" only if no end device is in two lists (`EndDevicesOnce`), which
relation 3 makes possible. `nodeList` does overflow: two routers that list each
other in relation 3 make `dataSendRcv` ask on for ever, and nothing compares `nodeCount` with 64. `InsideNodeList` says when
it does not: on any network, as long as one thread has handled the responses of the round and
these are no more than 64 (`RoomForHandled`); on a tree, whoever handles them, if 64 is enough for its routers, once more
for each loop that ended too early (`RoomForLateAnswers`).
`DiscoveryEnds` of `dataSendRcv` only if every device answers and the other thread does not take
the answer, because `rpcGetMqClientMsg` has no deadline; and what comes after a write outside the list is not claimed. `OneTaken` is what `initDone` does achieve: at
most one message of a round goes to the wait that the other thread was in when the round began.

Each property has a mutant, an operator placed before the definition it alters and
marked `Fault:`, with which TLC finds the property violated.

Console: `FieldsInPlace` (when the buffer is handed over every attribute lies where the
compiler puts the member it is read as), `InsideInput` (nothing is written outside the buffer).
Exceptions, named because the code has them: an empty list of 16-bit entries at an odd place
is not padded and moves all that follows it; `AF_DATA_REQUEST_SRC_RTG` and
`ZB_APP_REGISTER_REQ` need more bytes than `commandSize`, a `uint8_t`, can count.

Stress test: `PassesEchoed` (a slot is counted as passed only if an echo, or a new node, was noted in
it since the visit before; an old echo with the number of the new packet is not told apart),
`SecondEntryStarves` (a node that joins again is listed again, and its second entry
never passes after its first visit), `UpMeansStarted`, and `SlotKeepsNode`, which fails.
`UpMeansStarted` says what "Network up" means: the ZNP has said in this attempt that it is a coordinator. The
program prints it in three other cases, which the property names. `startNetwork` waits for `DEV_ZB_COORD`
(`stressTest.c:513`), but when it has waited in vain it is satisfied with `DEV_COORD_STARTING` (line 522, "Network
Starting"); it returns 0 after a failed write to the ZNP's memory; and it cannot tell what the ZNP
said of its old network, after `devState` was set back and before the reset, from what it said of the new one.

Type correctness is a property of its own in `Rpc` and `StressTest`, where it is a theorem; in
`Llq`, `Framing`, `MtParse`, `Topology` and `CmdLine` it is the first conjunct of the memory-safety
property (`ListWhole`, `InsideBuffer`, `ReadsInside`, `InsideNodeList`, `InsideInput`).

## 5. Proofs

Every module of the core has a module of proofs. In each, TLC was asked first whether the
inductive invariant holds on the small instance; what could not be kept by every step was
strengthened until it could.

**`RpcProofs`** proves of the queue by itself, for any finite set of threads, any messages and lists of any
length, that `QInv` is invariant, and from it `QTypeOK`, `Balance`, `TokenBacked` and
`NoEmptyReceive`. `NoEmptyReceive` is not inductive: a receiver holding a unit must be
known to find an element, which `Balance` says. `Balance` counts threads in two places,
so the work is in three lemmas on how the cardinality of `At(place)` changes when one
thread moves (`Arrives`, `Leaves`, `Elsewhere`).

**`LlqProofs`** proves the same queue pointer by pointer, for any heap: `ListWhole`,
`SafeToFollow` and `ImplementsPrioQueue`. Its invariant names the list that the pointers stand for,
a sequence of distinct nodes (`Linked`), and says at every statement of the two critical sections
which pointers already lead to it (`Shape`). `head` is tested outside the critical
section, and no statement of the list's own makes it safe: that follows from the account
between the list and the counting semaphore (`Accounted`), which is therefore part of the invariant.
`ListComputed` and its corollaries connect `Linked` to the recursive functions in which `ListWhole` is
stated. For the refinement, a critical section takes effect at its post: each step up to it is a stutter
of `PrioQueue`, the post is `Link` or `Unlink`.

Of the RPC layer, **`RpcProofs`** proves for any finite set of application threads and any bounds that `IInv`
is invariant. Its parts: `TypeOK`; `SendersHaveRequests`; `PlacesAgree` (where a thread is in
`rpc.c` determines where it is in `queue.c`, which is what makes each step of `Rpc` a
legal step of the queue); `FramesInHand`; `QInv`; `OneSender`; `ExpectedIsCurrent`. The
argument: every step of `Rpc` is a queue step or leaves the queue alone (`QueueStep`),
so `QInv` is inherited; `OneSender` counts the threads between
wait and post and gives that a sender is unique (`SenderUnique`), and that is what
`ExpectedIsCurrent` needs, since nobody else can have changed the variable. Results:
`RpcTypeCorrect`, `RpcOneSender`, `RpcExpectedIsCurrent`, `RpcNeverEmptyHanded`.

Its second part follows the frames. *Order* (`RpcQueueSorted`): indications in the queue, in the
receive thread's hand and on the line have increasing numbers in that order, and responses stand in front.
What is fetched is the head of such a queue, so everything under way was sent after it, and stays so
(`Past`, `PastKept`): `RpcFetchedInOrder`.
*One place* (`RpcEachAreqInOnePlace`): the occurrences of an indication on the line, in the
receive thread, in the queue, in the hands of the threads and among what was dispatched add
up to one if it was sent and not lost, to none otherwise; a step that moves a frame lowers one count and raises another.
*Answers* (`RpcNoStaleSrsp`, `RpcSuccessIsOwn`, `RpcNothingDiscarded`): while no wait has timed out and
nothing was lost (`Prompt`), each frame on either line, in the receive thread or posted belongs to the
request that now waits, and only one of these is occupied (`AnswerInv`). With late answers the
properties are false, as two of the findings show, so `Prompt` is where the claim ends.

**`FramingProofs`** proves `InsideBuffer`, `DeliversIntact` and `LossIsLocal` for every `Base` above 8, all
payloads that fit and any number of frames and faults. The state of the receiver says nothing by itself
about which frame it is in, so the proof marks every byte on the line with its frame, its
place in it and the number of intact frames so far (`Marked`), and relates the receiver's
variables to the mark of the byte it read last (`InPlace`). `Counted` says that what was delivered is
what was intact up to that mark, less one for each frame given up. The steps are `WriteFrame` (marks are appended),
`ReadOn` and `WithinFrame` (the mark moves on by what was read). That a body is delivered if and
only if it is intact needs the check sequence: `SameFcs` (an intact body has the FCS that was sent)
and `OtherFcs` (a changed byte changes it).

**`TopologyProofs`** has six results for every mesh and bound. `TopologyThreads`: each thread is at a place of the
program, knows where every suspended callback returns to, and is in one where it has to be
(`ThreadsInv`), for both programs and both threads. `TopologyOneTaken`: at most one message of a round of
`dataSendRcv` goes to the other thread (`TakenInv`).

`TopologyEntriesOwn`: each entry holds the children of the router its response came from. In `nwkTopology` callbacks nest,
so the entry of each suspended callback must stay its own and half filled exactly as far as that callback came (`Entries`),
and the stack must name each entry once (`Shape`). The callback of `dataSendRcv` writes to whatever `nodeCount` is at the time, and the
property rests on there being no second response to handle in the middle of one. Where no response names two routers, a discovery is about
one router at a time: the callback has not come to it, or it is about to be asked, or asked, or its answer is on the line, or queued
(`TokenAt`), and the response that a callback's own request waits for is the SRSP, which stands before any answer (`InTurn`). So at most one
callback is at work, on the entry `nodeCount` (`ListedAt`). A round starts from there because a message loop that did not
end too early leaves nothing behind (`StillInv`).

`TopologyEachRouterOnce`: at the end of an undisturbed discovery of `nwkTopology` every router that follows from
the coordinator was listed once. The invariant (`OnceInv`) is a balance for each router: it is about
to be asked, or asked, or its answer is under way, or queued, or handled, and in one of these exactly once if it is the
coordinator or a callback has passed it as a neighbour; in none otherwise. At the end all places but the last are empty
and every callback has passed all its neighbours (`OnceAtEnd`). That nobody is passed twice is where `Tree` is needed.
`TopologyEachDeviceAskedOnce` carries that balance over to `dataSendRcv` (`AskedOnceInv`), which then goes through what was found with two
counters, one of them over the children of an entry and both moved by the code in several places. Which devices come before
the two of them (`BeforeCursor`) is compared with those that were asked: they are the same, each once
(`ShownUpTo`, `ShownInv`), and at the end they are all (`AllShown`). Messages that are left over, or that come for data, are handled in
between and change nothing of it. That the same devices are asked holds on every tree without forks; that an end device
is asked once needs `EndDevicesOnce`.

`TopologyInsideNodeList` is about both programs and both threads, and about discoveries disturbed by losses and late answers.
For any network, `nodeCount` plus the callbacks at work is at most the number of responses handled, while one thread
handles them (`CountInv`; for `nwkTopology` it is `Entries`), however those callbacks are nested. On a tree that number is
bounded, though the balance above does not hold. What holds is an inequality. Let `past` be the responses handled since a discovery
last began with nothing under way. Whatever is under way about a router, plus its responses in `past`, plus the
callbacks that have not come to it in the list it is in, is at most the number of responses in `past` of
the router that lists it (`Funded`): a callback that asks pays with having come past the neighbour, a response that is handled pays
for all its callback will ask. Nobody lists the coordinator, which is asked once by each discovery; a discovery begins with
something left over only if the message loop before it ended too early, so it is asked at most once more than
that happened (`AskedAgain`). By induction along the lists no router occurs more often in `past` (`PastBound`), and `nodeCount` is
at most the length of `past`, less the callbacks that have not counted yet (`Account`). `past` is no variable: the invariant
says that on a tree there is such a sequence (`RoomInv`), and each step says which one it is next. TLC
checked it with `past` as a further variable. Around it: what requests, questions and answers look like
(`WireInv`), that one SRSP at most is under way (`SemInv`), in which places a callback can be suspended (`StackInv`),
and that entries are built of neighbours (`ListInv`); together they also give all of `TypeOK`.

**`StressTestProofs`** proves all properties of `StressTest` but the finding for any set of nodes, any number of slots,
any modulus from 2 on and any bounds: `TypeCorrect`, `UpMeansStartedHolds`,
`PassesEchoedHolds`, `SecondEntryStarvesHolds`. For `UpMeansStarted` the invariant is that in the middle of an
attempt whatever a state indication in the queue, or one whose callback runs, says was said by the ZNP since
`devState` was set back, and that `devState` is `DEV_HOLD` or one of these (`StartInv`): the queue was empty
when it was set back, and nobody else fetches. The last two rest on `CountInv`, whose parts are:
empty slots have counted nothing (`EmptyClean`); slots fill from the first on, a slot that a callback
has found being the first empty one or taken since (`NoGaps`, `NoGapsBefore`);
that a slot which is going to be counted as passed at its next visit, its two sequence numbers being equal, has `heard`
something (`Credit`); the state in
the middle of a reset (`HalfReset`); and that an entry behind an equal one has had no echo
(`SecondUnheard`). `Credit` is what makes the property inductive: the loop can only make the
numbers equal by resetting both, and it then advances one before it compares them again, which needs
a modulus of at least 2 (`SeqNumsWrap`). The three lemmas `VisitCounts`, `EchoCounts` and `StoreCounts` are
the steps that touch the sequence numbers.

**`MtRequestProofs`** proves `SentIsFilled`, `FitsFrame` and `AnswersMatched` for lists of all lengths, while TLC
tries the few in `ListLengths`. No request function has more than twelve statements, so what they
write is a plain sum (`Written`), and no induction is needed. Every call of the four tables is shown to
be `Sound`: its statements add up to the size of its buffer unless it is a misfit, it fits a frame unless it is `Oversized`,
and it waits if and only if it has an answer, `sysResetReq` excepted (one lemma for each subsystem; the calls whose
layout is fixed are evaluated, those with lists are sums of the lengths). The invariant (`RInv`) says that what has been written is what the
statements executed so far add up to, that `cmInd` is that modulo 256, and that the answers queued and about to be
are, but for as many as were missed, the one of the request that is being waited for. The theorems are about `LineSpec`,
in which the console calls the functions and so do other programs.

The same module proves `FieldsInPlace` and `InsideInput` of `CmdLine`, for lengths that TLC does not try too and
however often one is refused. Three recursive functions are compared: the size that `inputCmd` computes in
a `uint8_t` first, the offsets of the compiler, and where the attributes would end if nothing were skipped at an empty list
(`Ends`). That the first is `Ends` modulo 256 (`SizeComputed`) and the second follows from it
(`OffsetsComputed`) is shown by the least place where they would differ. What is needed of a command is `Sensible`: its
attributes have the widths of the struct's members (`Agree`), are at most twelve, take less than 256 bytes with all
padding or at least 256 without any (`Tight`, so that `commandSize` wraps only where `Whole` says that it does), a list
comes behind its length, and behind a list of 16-bit entries there is no more than a byte and one attribute
(`ListsLast`). It is proved of each of the 72 rows of the tables of `InitCmds` and `sendCmd` (`TableSensible`). The
invariant of the console (`LineInv`) is that each attribute begins where the one before ends, or at the next even
place (`Laying`), that `currentPos` is behind the last, and may already be at that even place after a length was taken
back, and that `top` is at most the last of `Ends`. `PlacedWhere` then says which attributes
lie where the compiler puts them: all, until an empty list of 16-bit entries begins in an odd place, and none after.

**`MtParseProofs`** proves all five properties of `MtParse`, for lists of every length that an array and a frame have room
for. Its first part says what the recursive operators on a message compute: `FlattenSeq` puts sequences one behind the other
(`Flattened`), so a payload is its members in turn, the elements of each in turn, and every byte is named
by its place (`PayloadLaid`, `ElementsLaid`). The second part goes through the tables. A parser `Parses` its struct if its
statements fill the members in their turn and at their widths, with at most one test of `rpcLen` between, and if the lengths it
tests leave room for empty lists; each of the 59 is shown to (`TablesKnown`), and but for three there is nothing that reads
without moving the index, no loops share one, and the test stands before the last list (`Orderly`). So every frame that the ZNP sends holds all
that its parser reads (`FramesSound`), the short descriptor excepted. The third part is the invariant: statement and member go
together (`InTurn`); `msgIdx` is two more than the bytes before the element that is next (`Offset`), or no more than
that in the one parser that looks twice at a place, and nothing was read beyond or astray (`IndexInPlace`);
`count` is the length of the list that is being read (`CountInPlace`); what was stored is in its place
(`StoredInPlace`). `ReadFound` is the step that all reads have in common.

**`SequenceLemmas`** has what several of these need: a set of numbers that has 0 and every successor has all
(`SetInduction`, from the least element of its complement, since the library's induction takes an operator),
and how many elements of a sequence that is lengthened, shortened or changed in a place have a property (`Members...`),
or are a given value (`Occurrences...`). A function that is defined by recursion on a number exists
(`RecursionExists`), and two that agree at 0 and take the same steps are the same (`SameComputed`). A sequence that has no element more than b times is no longer than b times the number
of its elements (`LengthBound`).

Assumptions: the named ASSUMEs of the modules, which TLC evaluates in every run of them. `PrioQueue`, `Rpc`: finite
sets of threads, distinct markers, natural bounds, which threads and elements the queue has. `Llq`: finite threads
and nodes (`ThreadsFinite`, `NodesFinite`), NULL and `Junk` are no addresses or messages
(`PointersDistinct`). `Framing`: `BaseSuffices`, `CommandsOfTwoBytes`, `PayloadsFit` (a payload
no longer than a frame allows, and whose length is not the start of frame), and `XorOfBytes`, `XorCancels` for the exclusive or.
`Topology`: bounds are natural (`BoundsNatural`), tables are sequences of neighbours
of known types (`TablesOfNeighbours`), and a mesh is a finite set of routers with the coordinator (`RoutersKnown`). `StressTest`: natural bounds, at least one slot,
no node with the address 0. `MtRequest`: lengths of lists are natural (`LengthsAreNat`); `MtParse`: so are
those and the stale counts (`ParseBounds`).

Only model-checked: liveness (`CallsReturn`, `QueueDrains`, `DiscoveryEnds`), which is beyond the backends, as ENABLED is.
`SlotKeepsNode` is false (finding 4).

## 6. Findings

1. `rpc_zdo_status`: a ZDO request that succeeded may return a status that is not its
   own. `rpcProcess` posts `srspSem` before it queues the response; the sender can wake,
   leave `rpcSendFrame`, find the queue empty until its deadline (computed from whole
   seconds, so possibly already past) and read a `srspRpcBuff` the response has not reached.
   `mtZdo.c:2804` assumes the opposite.
2. `rpc_binary_sem`: `rpc.c:139` calls `srspSem` a binary semaphore; a late response to a
   request that timed out, followed by the response to the next, takes it to 2.
3. `rpc_unexpected`: the branch `rpc.c:388` describes as "unexpected SRSP discard"
   prints a warning with two `%s` and no strings, at the default print level.
4. `stress_slot`: `mtZdoEndDeviceAnnceIndCb` looks for an empty slot ("find empty slot",
   `stressTest.c:267`) and makes it visible by the last of three stores. Once one node is
   listed, `appProcess` fetches while it tests it and `appMsgProcess` fetches too, so the callbacks of two
   more announcements can run at once and write two nodes into one slot.

## 7. Not modelled, and restrictions

* Of `stressTest`, the routers' and end devices' own start and loop (of which only the echo
  matters to the coordinator) and the counters that are only printed. Of `cmdLine`, line editing,
  completion and history, the callbacks (they print), and the values of attributes that
  are not lengths. Of `dataSendRcv`, the announcement of a device, to which it reacts with a request,
  and `QUIT`, after which it starts again. `startNetwork` of `servDisc`, `nwkTopology`, `dataSendRcv` and `cmdLine` is that of `stressTest` with
  questions to the user and, for a router, another state to wait for (none in particular where the
  user keeps the old network: `devType` is then not set); `servDisc` is otherwise
  a script on one thread.
* The TI-RTOS port: the same calls on a kernel that is not in the repository, and board
  initialisation. Console and debug output: terminal I/O.
* The MT modules have no values, only widths and places: byte order and the mapping of
  parameters to bytes within a field are not claimed. Messages are what the structs
  say; `MT_ZDO_CONCENTRATOR_IND_CB`, which has a member in `mtZdoCb_t` and no case in
  `zdoProcess`, is dropped and therefore not in `MtParse`.
* `Rpc` starts at frames whose FCS is right; `Framing` ends there. A damaged frame is a
  loss in `Rpc`.
* Durations: a deadline is the possibility of giving up.
* `Framing` leaves the length byte undamaged, and end of file on the port (a read of 0)
  out. After a lost length byte the payload is searched for a start of frame, and
  may contain one, so nothing is claimed about frames with such payloads there.
* `malloc` is taken to succeed in `Llq`, because the code does not test it.
* `rpcForceRun` has no caller; `llq_close` is empty.

## 8. Plan

Done: `PrioQueue`, `Llq`, `Rpc`, `Framing`, the MT layer, `Topology`, `CmdLine`, `StressTest`, and the proofs
above.

Next:
1. The start of a router or end device, as in `servDisc`, `nwkTopology` and `dataSendRcv`, beside the
   coordinator's; announcements in `Topology`.
