----------------------------- MODULE StressTest -----------------------------
(***************************************************************************)
(* The coordinator's side of examples/stressTest: appProcess starts the    *)
(* network and then sends every test node one packet after the other and   *)
(* counts the echoes, while the in-message thread runs the callbacks that  *)
(* list new nodes and note what was echoed.  A callback also runs on       *)
(* appProcess's own thread, when a request of its fetches an indication:   *)
(* its answer may not be in the queue yet, or the other thread may have    *)
(* taken it.  rpc.c appears as far as that needs.                          *)
(*                                                                         *)
(* The test nodes run the same program as routers or end devices, of which *)
(* only their reaction to a packet matters here.  A test node that joins   *)
(* has the address it announces; packets and echoes may be delayed, be     *)
(* overtaken, and stay on the air for ever, which is how they are lost.    *)
(***************************************************************************)
EXTENDS Naturals, Sequences, Bags

CONSTANTS Node,         \* short addresses of test nodes
          NoNode,       \* the address 0
          Slots,        \* MAX_TEST_NODES
          SeqNums,      \* sequence numbers: 256 in the code's uint8_t
          MaxSends,     \* bound: packets that the ZNP puts on the air
          MaxInds,      \* bound: announcements and state change indications together
          MaxStates     \* bound: state change indications among them

ASSUME NoNodeIsNone == NoNode \notin Node
ASSUME SlotsPositive == Slots \in Nat \ {0}
ASSUME SeqNumsWrap == SeqNums \in Nat \ {0, 1}

DEV_HOLD == 0
DEV_INIT == 1
DEV_END_DEVICE == 6
DEV_COORD_STARTING == 8
DEV_ZB_COORD == 9

Thread == {"app", "msg"}
Slot == 1..Slots

\* Indications.
States == {DEV_INIT, DEV_COORD_STARTING, DEV_ZB_COORD}
StateChange(state) == [kind |-> "state", state |-> state]
ResetInd == [kind |-> "reset"]
Annce(node) == [kind |-> "annce", node |-> node]
Echo(node, seq) == [kind |-> "echo", node |-> node, seq |-> seq]
Nothing == [kind |-> "none"]

VARIABLES pc,           \* of appProcess
          idx,          \* nodeIdx in appProcess
          nvFailed,     \* startNetwork gave up although it returns 0
          initDone, devState,
          testNodes,    \* without errorCnt, which is only printed
          queue,        \* indications in the application's queue
          srsp,         \* answers in it
          handling,     \* the indication whose callback a thread runs
          step, found,  \* how far the thread is in it, the slot it has found
          air,          \* test packets on their way
          sends, annces, states,
          resetting,    \* the ZNP has yet to reset itself
          heard, overwritten,          \* history of a slot
          early, indicated, gaveUp     \* history of an attempt to start

appVars == <<pc, idx, nvFailed, initDone>>
nodeVars == <<testNodes, heard, overwritten>>
callbackVars == <<handling, step, found>>
znpVars == <<air, sends, annces, states>>
netVars == <<resetting, early, indicated>>
vars == <<appVars, devState, nodeVars, queue, srsp, callbackVars, znpVars, netVars, gaveUp>>

\* appInit clears testNodes and registers the callbacks.
Init ==
    /\ pc = "flush" /\ idx = 1 /\ nvFailed = FALSE /\ initDone = FALSE
    /\ devState = DEV_HOLD
    /\ testNodes = [i \in Slot |-> [nodeAddr |-> NoNode, txSeqNum |-> 0, rxSeqNum |-> 0,
                                    passCnt |-> 0]]
    /\ queue = <<>> /\ srsp = 0
    /\ handling = [t \in Thread |-> Nothing]
    /\ step = [t \in Thread |-> "enter"] /\ found = [t \in Thread |-> 1]
    /\ air = EmptyBag /\ sends = 0 /\ annces = 0 /\ states = 0
    /\ resetting = FALSE
    \* History: something was noted in the slot since appProcess was there last, an echo or
    \* a new node; a store was made into it while it had a node.
    /\ heard = [i \in Slot |-> TRUE] /\ overwritten = [i \in Slot |-> FALSE]
    \* History: the states that the ZNP has indicated since devState was set to DEV_HOLD,
    \* before and after it reset itself; startNetwork did not see DEV_ZB_COORD.
    /\ early = {} /\ indicated = {} /\ gaveUp = FALSE

----------------------------------------------------------------------------
\* Fetching from the queue.

First(slots) == CHOOSE i \in slots : \A j \in slots : i <= j

Idle(t) == handling[t].kind = "none"

\* A callback begins with the indication in front of the queue.
Take(t) ==
    /\ queue # <<>>
    /\ queue' = Tail(queue)
    /\ handling' = [handling EXCEPT ![t] = Head(queue)]
    /\ step' = [step EXCEPT ![t] = "enter"]
    /\ UNCHANGED found

NoCallback == UNCHANGED <<queue, callbackVars>>

\* rpcWaitMqClientMsg: an answer is before the indications, unless the receive thread has
\* not put it there yet; with nothing in the queue it returns -1 after a time.
Fetch(t) ==
    \/ srsp > 0 /\ srsp' = srsp - 1 /\ NoCallback
    \/ Take(t) /\ UNCHANGED srsp

TimesOut == srsp = 0 /\ queue = <<>> /\ UNCHANGED srsp /\ NoCallback

\* A request of appProcess while no other thread fetches: it takes its own answer, or none
\* comes, or it takes an indication and leaves the answer.
Request ==
    \/ NoCallback /\ UNCHANGED srsp
    \/ srsp = 0 /\ Take("app") /\ srsp' = 1

----------------------------------------------------------------------------
\* appProcess: starting the network.

AppAt(place) == pc = place /\ Idle("app")

OnlyStarts == UNCHANGED <<idx, initDone, nodeVars, znpVars>>
SameAttempt == UNCHANGED <<nvFailed, devState, netVars, gaveUp>>

\* Fault: the state of the last attempt stays.
FlushedKeepsState ==
    /\ AppAt("flush") /\ TimesOut
    /\ pc' = "clear"
    /\ early' = {} /\ indicated' = {} /\ gaveUp' = FALSE
    /\ OnlyStarts /\ UNCHANGED <<nvFailed, devState, resetting>>

Flush == /\ AppAt("flush") /\ Fetch("app")
         /\ OnlyStarts /\ SameAttempt /\ UNCHANGED pc

Flushed == /\ AppAt("flush") /\ TimesOut
           /\ pc' = "clear"
           /\ devState' = DEV_HOLD
           /\ early' = {} /\ indicated' = {} /\ gaveUp' = FALSE
           /\ OnlyStarts /\ UNCHANGED <<nvFailed, resetting>>

\* startNetwork clears the ZNP's state and configuration...
SetNVStartup == /\ AppAt("clear") /\ Request
                /\ nvFailed' \in BOOLEAN
                /\ pc' = "reset"
                /\ OnlyStarts /\ UNCHANGED <<devState, netVars, gaveUp>>

\* ...tells it to reset itself, in sysResetReq and behind it a message is taken to be the
\* answer...
SysResetReq == /\ AppAt("reset") /\ (Fetch("app") \/ TimesOut)
               /\ pc' = "flushRsp"
               /\ resetting' = TRUE
               /\ OnlyStarts /\ UNCHANGED <<nvFailed, devState, early, indicated, gaveUp>>

FlushRsp == /\ AppAt("flushRsp") /\ (Fetch("app") \/ TimesOut)
            /\ pc' = IF nvFailed THEN "up" ELSE "devType"
            /\ OnlyStarts /\ SameAttempt

\* ...writes device type, PAN id and channels; if one fails, it returns 0 as well...
Configure(at, next) == /\ AppAt(at) /\ Request
                       /\ nvFailed' \in BOOLEAN
                       /\ pc' = IF nvFailed' THEN "up" ELSE next
                       /\ OnlyStarts /\ UNCHANGED <<devState, netVars, gaveUp>>

SetNVDevType == Configure("devType", "panID")
SetNVPanID == Configure("panID", "chanList")
SetNVChanList == Configure("chanList", "register")
WriteConfig == SetNVDevType \/ SetNVPanID \/ SetNVChanList

\* ...registers the endpoint and starts: if zdoInit fails, nothing is waited for...
RegisterAf == /\ AppAt("register") /\ Request
              /\ pc' = "init"
              /\ OnlyStarts /\ SameAttempt

ZdoInit == /\ AppAt("init") /\ Request
           /\ \/ pc' = "starting" /\ UNCHANGED gaveUp
              \/ pc' = "check" /\ gaveUp' = TRUE
           /\ OnlyStarts /\ UNCHANGED <<nvFailed, devState, netVars>>

\* ...and waits for the state of a coordinator, or until nothing comes any more.
Starting == /\ AppAt("starting") /\ Fetch("app")
            /\ pc' = "started"
            /\ OnlyStarts /\ SameAttempt

StartingEnds == /\ AppAt("starting") /\ TimesOut
                /\ pc' = "check"
                /\ gaveUp' = (devState # DEV_ZB_COORD)
                /\ OnlyStarts /\ UNCHANGED <<nvFailed, devState, netVars>>

Started == /\ AppAt("started")
           /\ pc' = IF devState = DEV_ZB_COORD THEN "check" ELSE "starting"
           /\ OnlyStarts /\ SameAttempt /\ NoCallback /\ UNCHANGED srsp

\* After "Network Error" appProcess returns, and appTask calls it again.
Check == /\ AppAt("check")
         /\ \/ /\ devState < DEV_END_DEVICE /\ NoCallback /\ UNCHANGED srsp
               /\ pc' = "flush"
            \/ /\ devState >= DEV_END_DEVICE /\ Request
               /\ pc' \in {"up", "flush"}
         /\ OnlyStarts /\ SameAttempt

\* "Network up": two more requests...
GetExtAddr == /\ AppAt("up") /\ Request
              /\ pc' = "direct"
              /\ OnlyStarts /\ SameAttempt

WriteDirectCb == /\ AppAt("direct") /\ Request
                 /\ pc' = "ready"
                 /\ OnlyStarts /\ SameAttempt

\* ...and when their callbacks have returned, the in-message thread may go to work.
InitDone == /\ AppAt("ready")
            /\ pc' = "look" /\ idx' = 1
            /\ initDone' = TRUE
            /\ early' = {} /\ indicated' = {} /\ gaveUp' = FALSE
            /\ NoCallback
            /\ UNCHANGED <<nvFailed, devState, srsp, resetting, nodeVars, znpVars>>

----------------------------------------------------------------------------
\* appProcess: the test, statement by statement.

OnlyTests == /\ NoCallback
             /\ UNCHANGED <<nvFailed, initDone, devState, srsp, netVars, gaveUp, overwritten>>

Look == /\ AppAt("look")
        /\ IF testNodes[idx].nodeAddr # NoNode
           THEN pc' = "compare" /\ UNCHANGED idx
           ELSE idx' = (idx % Slots) + 1 /\ UNCHANGED pc
        /\ OnlyTests /\ UNCHANGED <<testNodes, heard, znpVars>>

Compare == /\ AppAt("compare")
           /\ IF testNodes[idx].txSeqNum # testNodes[idx].rxSeqNum
              THEN pc' = "resetTx" /\ UNCHANGED testNodes
              ELSE pc' = "advance" /\ testNodes' = [testNodes EXCEPT ![idx].passCnt = @ + 1]
           /\ heard' = [heard EXCEPT ![idx] = FALSE]
           /\ OnlyTests /\ UNCHANGED <<idx, znpVars>>

ResetTx == /\ AppAt("resetTx")
           /\ testNodes' = [testNodes EXCEPT ![idx].txSeqNum = 0]
           /\ pc' = "resetRx"
           /\ OnlyTests /\ UNCHANGED <<idx, heard, znpVars>>

\* Fault: the sequence number is advanced in the branch of a pass only.
ResetRxSends == /\ AppAt("resetRx")
                /\ testNodes' = [testNodes EXCEPT ![idx].rxSeqNum = 0]
                /\ pc' = "send"
                /\ OnlyTests /\ UNCHANGED <<idx, heard, znpVars>>

ResetRx == /\ AppAt("resetRx")
           /\ testNodes' = [testNodes EXCEPT ![idx].rxSeqNum = 0]
           /\ pc' = "advance"
           /\ OnlyTests /\ UNCHANGED <<idx, heard, znpVars>>

\* Fault: a sequence number that is not a uint8_t.
AdvanceWide == /\ AppAt("advance")
               /\ testNodes' = [testNodes EXCEPT ![idx].txSeqNum = @ + 1]
               /\ pc' = "send"
               /\ OnlyTests /\ UNCHANGED <<idx, heard, znpVars>>

Advance == /\ AppAt("advance")
           /\ testNodes' = [testNodes EXCEPT ![idx].txSeqNum = (@ + 1) % SeqNums]
           /\ pc' = "send"
           /\ OnlyTests /\ UNCHANGED <<idx, heard, znpVars>>

\* sendTestMsg: whether an answer comes in time and whether the ZNP sends the packet are
\* two questions.
Send == /\ AppAt("send")
        /\ \/ UNCHANGED <<air, sends>>
           \/ /\ sends < MaxSends /\ sends' = sends + 1
              /\ air' = air (+) SetToBag({[kind |-> "packet", node |-> testNodes[idx].nodeAddr,
                                           seq |-> testNodes[idx].txSeqNum]})
        /\ \/ pc' = "wait" /\ srsp' = srsp + 1 /\ UNCHANGED idx
           \/ pc' = "look" /\ idx' = (idx % Slots) + 1 /\ UNCHANGED srsp
        /\ NoCallback
        /\ UNCHANGED <<nvFailed, initDone, devState, netVars, gaveUp, nodeVars, annces, states>>

Wait == /\ AppAt("wait") /\ (Fetch("app") \/ TimesOut)
        /\ pc' = "look" /\ idx' = (idx % Slots) + 1
        /\ UNCHANGED <<nvFailed, initDone, devState, netVars, gaveUp, nodeVars, znpVars>>

----------------------------------------------------------------------------
\* appMsgProcess.

MsgWait == /\ initDone /\ Idle("msg") /\ Fetch("msg")
           /\ UNCHANGED <<appVars, devState, netVars, gaveUp, nodeVars, znpVars>>

----------------------------------------------------------------------------
\* The callbacks, on either thread.

Return(t) == /\ handling' = [handling EXCEPT ![t] = Nothing]
             /\ UNCHANGED <<step, found>>

OnlyCallback == UNCHANGED <<appVars, queue, srsp, znpVars, netVars, gaveUp>>

StateChangeCb(t) ==
    /\ handling[t].kind = "state"
    /\ devState' = handling[t].state
    /\ Return(t)
    /\ OnlyCallback /\ UNCHANGED nodeVars

\* The version in a reset indication is printed.
ResetIndCb(t) == /\ handling[t].kind = "reset"
                 /\ Return(t)
                 /\ OnlyCallback /\ UNCHANGED <<devState, nodeVars>>

\* Fault: every slot that has the sender's address (the loop goes on).
IncomingMsgCbGoesOn(t) ==
    /\ handling[t].kind = "echo"
    /\ testNodes' = [i \in Slot |-> IF testNodes[i].nodeAddr = handling[t].node
                                   THEN [testNodes[i] EXCEPT !.rxSeqNum = handling[t].seq]
                                   ELSE testNodes[i]]
    /\ heard' = [i \in Slot |-> heard[i] \/ testNodes[i].nodeAddr = handling[t].node]
    /\ Return(t)
    /\ OnlyCallback /\ UNCHANGED <<devState, overwritten>>

\* The first slot that has the sender's address.
IncomingMsgCb(t) ==
    /\ handling[t].kind = "echo"
    /\ LET own == {i \in Slot : testNodes[i].nodeAddr = handling[t].node}
       IN IF own = {} THEN UNCHANGED <<testNodes, heard>>
          ELSE /\ testNodes' = [testNodes EXCEPT ![First(own)].rxSeqNum = handling[t].seq]
               /\ heard' = [heard EXCEPT ![First(own)] = TRUE]
    /\ Return(t)
    /\ OnlyCallback /\ UNCHANGED <<devState, overwritten>>

\* mtZdoEndDeviceAnnceIndCb looks for an empty slot...
FindSlot(t) ==
    /\ handling[t].kind = "annce" /\ step[t] = "enter"
    /\ LET empty == {i \in Slot : testNodes[i].nodeAddr = NoNode}
       IN IF empty = {} THEN Return(t)
          ELSE /\ found' = [found EXCEPT ![t] = First(empty)]
               /\ step' = [step EXCEPT ![t] = "tx"]
               /\ UNCHANGED handling
    /\ OnlyCallback /\ UNCHANGED <<devState, nodeVars>>

\* ...and fills it in by three stores.
Store(t, at, next, field, value) ==
    /\ handling[t].kind = "annce" /\ step[t] = at
    /\ testNodes' = [testNodes EXCEPT ![found[t]] = [@ EXCEPT ![field] = value]]
    /\ heard' = [heard EXCEPT ![found[t]] = TRUE]
    /\ overwritten' = [overwritten EXCEPT ![found[t]] =
                          @ \/ testNodes[found[t]].nodeAddr # NoNode]
    /\ IF next = "return" THEN Return(t)
       ELSE step' = [step EXCEPT ![t] = next] /\ UNCHANGED <<handling, found>>
    /\ OnlyCallback /\ UNCHANGED devState

StoreTx(t) == Store(t, "tx", "rx", "txSeqNum", 0)
StoreRx(t) == Store(t, "rx", "addr", "rxSeqNum", 0)
StoreAddr(t) == Store(t, "addr", "return", "nodeAddr", handling[t].node)

----------------------------------------------------------------------------
\* The ZNP, the network and the test nodes.

OnlyZnp == UNCHANGED <<appVars, devState, gaveUp, nodeVars, srsp, callbackVars>>

\* The ZNP resets itself some time after sysResetReq, or not at all: what it has indicated
\* so far was said of the network before.
ZnpResets ==
    /\ resetting /\ resetting' = FALSE
    /\ ~initDone  \* bound: nor does it during the test
    /\ queue' = Append(queue, ResetInd)
    /\ early' = early \union indicated /\ indicated' = {}
    /\ OnlyZnp /\ UNCHANGED znpVars

\* bound: none comes during the test, where none has an effect but to be fetched.
IndicateState ==
    /\ ~initDone
    /\ states < MaxStates /\ annces + states < MaxInds /\ states' = states + 1
    /\ \E s \in States : /\ queue' = Append(queue, StateChange(s))
                         /\ indicated' = indicated \union {s}
    /\ OnlyZnp /\ UNCHANGED <<air, sends, annces, resetting, early>>

\* A device joins, or rejoins.
Announce ==
    /\ annces + states < MaxInds /\ annces' = annces + 1
    /\ \E n \in Node : queue' = Append(queue, Annce(n))
    /\ OnlyZnp /\ UNCHANGED <<air, sends, states, netVars>>

\* mtAfIncomingMsgCb of a test node sends back what it got.
EchoBack ==
    /\ \E p \in BagToSet(air) :
           /\ p.kind = "packet"
           /\ air' = (air (-) SetToBag({p}))
                         (+) SetToBag({[kind |-> "echo", node |-> p.node, seq |-> p.seq]})
    /\ OnlyZnp /\ UNCHANGED <<queue, sends, annces, states, netVars>>

Deliver ==
    /\ \E p \in BagToSet(air) :
           /\ p.kind = "echo"
           /\ air' = air (-) SetToBag({p})
           /\ queue' = Append(queue, Echo(p.node, p.seq))
    /\ OnlyZnp /\ UNCHANGED <<sends, annces, states, netVars>>

----------------------------------------------------------------------------
Start == \/ Flush \/ Flushed \/ SetNVStartup \/ SysResetReq \/ FlushRsp
         \/ WriteConfig \/ RegisterAf \/ ZdoInit
         \/ Starting \/ StartingEnds \/ Started \/ Check
         \/ GetExtAddr \/ WriteDirectCb \/ InitDone
Test == Look \/ Compare \/ ResetTx \/ ResetRx \/ Advance \/ Send \/ Wait
Callback(t) == \/ StateChangeCb(t) \/ ResetIndCb(t) \/ IncomingMsgCb(t) \/ FindSlot(t)
               \/ StoreTx(t) \/ StoreRx(t) \/ StoreAddr(t)
Znp == ZnpResets \/ IndicateState \/ Announce \/ EchoBack \/ Deliver

Next == \/ Start
        \/ Test
        \/ MsgWait
        \/ \E t \in Thread : Callback(t)
        \/ Znp

Spec == Init /\ [][Next]_vars

----------------------------------------------------------------------------
SeqNum == 0..(SeqNums - 1)
Indication == [kind : {"state"}, state : States] \union {ResetInd} \union [kind : {"annce"}, node : Node]
              \union [kind : {"echo"}, node : Node, seq : SeqNum]
Packet == [kind : {"packet", "echo"}, node : Node, seq : SeqNum]

Startup == {"flush", "clear", "reset", "flushRsp", "devType", "panID", "chanList", "register",
            "init", "starting", "started", "check", "up", "direct", "ready"}

AppTypeOK ==
    /\ pc \in Startup \union
              {"look", "compare", "resetTx", "resetRx", "advance", "send", "wait"}
    /\ idx \in Slot /\ nvFailed \in BOOLEAN /\ initDone \in BOOLEAN
    /\ devState \in {DEV_HOLD} \union States /\ gaveUp \in BOOLEAN
    /\ resetting \in BOOLEAN /\ early \subseteq States /\ indicated \subseteq States

NodesTypeOK ==
    /\ testNodes \in [Slot -> [nodeAddr : Node \union {NoNode}, txSeqNum : SeqNum,
                               rxSeqNum : SeqNum, passCnt : Nat]]
    /\ heard \in [Slot -> BOOLEAN] /\ overwritten \in [Slot -> BOOLEAN]

QueueTypeOK ==
    /\ queue \in Seq(Indication) /\ srsp \in Nat
    /\ handling \in [Thread -> Indication \union {Nothing}]
    /\ step \in [Thread -> {"enter", "tx", "rx", "addr"}] /\ found \in [Thread -> Slot]

AirTypeOK ==
    /\ BagToSet(air) \subseteq Packet
    /\ sends \in Nat /\ annces \in Nat /\ states \in Nat

\* What is visited is a node.
VisitsNode ==
    pc \in {"compare", "resetTx", "resetRx", "advance", "send"}
        => testNodes[idx].nodeAddr # NoNode

\* The program's variables have the values of their C types, a test packet is sent to a
\* node's address, and a callback stores into a slot of testNodes.
TypeOK == AppTypeOK /\ NodesTypeOK /\ QueueTypeOK /\ AirTypeOK /\ VisitsNode

\* A pass is counted only if an echo was noted in the slot since appProcess was there
\* before: no late, lost or overtaken echo and no error in between makes one echo count
\* twice, whichever thread's callback notes it between whichever statements of appProcess.
\* The first visit of a new node passes, finding 0 = 0.
PassesEchoed ==
    [][\A i \in Slot : testNodes'[i].passCnt # testNodes[i].passCnt => heard[i]]_vars

\* A device that announces itself twice is listed twice, and all its echoes go to the
\* first entry (the search in mtAfIncomingMsgCb ends there): the second is sent packets
\* like any other and never passes after its first visit.
SecondEntryStarves ==
    \A i, j \in Slot :
        /\ i < j /\ testNodes[i].nodeAddr # NoNode
        /\ testNodes[i].nodeAddr = testNodes[j].nodeAddr
        /\ ~overwritten[i] /\ ~overwritten[j]
        => testNodes[j].passCnt <= 1

\* When appProcess says that the network is up, the ZNP has said so since it was reset:
\* that it is a coordinator, or, if startNetwork has not seen that, that it is
\* starting as one, which the test at stressTest.c:522 takes for up and the one at 513
\* does not.  Two exceptions: a write to the ZNP's memory failed, of which startNetwork
\* prints that the start failed and returns 0; and the ZNP said so of the network it had
\* before the reset, but after devState had been set back.  What was said before that
\* never counts.
UpMeansStarted ==
    LET enough == {DEV_ZB_COORD} \union (IF gaveUp THEN {DEV_COORD_STARTING} ELSE {})
    IN pc = "up" /\ ~nvFailed
           => \/ indicated \cap enough # {}
              \/ early \cap enough # {}

\* "find empty slot" (stressTest.c:267): a new node is not put where another one is.
SlotKeepsNode ==
    [][\A i \in Slot : testNodes[i].nodeAddr # NoNode
                          => testNodes'[i].nodeAddr = testNodes[i].nodeAddr]_vars
=============================================================================
