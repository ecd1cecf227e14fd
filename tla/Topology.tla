------------------------------ MODULE Topology ------------------------------
(***************************************************************************)
(* The discovery of the network by LQI requests, in the two examples that  *)
(* make it: nwkTopology.c (appProcess) and dataSendRcv.c (displayDevices,  *)
(* which goes on to ask every device it found for its endpoints).          *)
(*                                                                         *)
(* An LQI response runs mtZdoMgmtLqiRspCb inside the message loop, and the *)
(* callback asks each router it reads about in turn.  Such a request       *)
(* fetches one message, meant to be its SRSP; but the SRSP is queued after *)
(* srspSem has been posted, and the fetch may take the LQI response of     *)
(* another router and run the same callback inside the first.              *)
(*                                                                         *)
(* dataSendRcv has a second thread, appMsgProcess, which fetches messages  *)
(* and runs the same callbacks while initDone is set, between two rounds;  *)
(* a wait that it is in when initDone is cleared goes on into the round.   *)
(*                                                                         *)
(* rpc.c appears as far as that needs: see Rpc for the rest of it.  List   *)
(* indices are one higher than the code's.                                 *)
(***************************************************************************)
EXTENDS Naturals, Sequences, FiniteSets, Bags

CONSTANTS Coordinator,
          Programs,    \* a subset of {"nwkTopology", "dataSendRcv"}
          Meshes,      \* what the routers of the network will answer
          PageSize,    \* neighbours that fit into one LQI response
          Capacity,    \* entries of nodeList, 64 in both programs
          MaxRounds,   \* bound: discoveries
          MaxData,     \* bound: messages that the user of dataSendRcv sends, before a
                       \* loss or an early end only
          MaxSlow(_, _), MaxLoss(_, _)
                       \* bounds, of program and mesh: message loops that end before the
                       \* last message; requests and answers that are lost

Types == {"coordinator", "router", "end"}
Relations == {"parent", "child", "sibling", "none"}
Routers(m) == DOMAIN m

\* dataSendRcv also follows neighbours in "none of the above" relation.
Accepts(p, relation) ==
    relation = "child" \/ (p = "dataSendRcv" /\ relation = "none")

\* StartIndex is always 0: what does not fit into the first response is not asked for.
Page(m, n) ==
    LET table == m[n].table IN
       SubSeq(table, 1, IF Len(table) < PageSize THEN Len(table) ELSE PageSize)

\* The accepted ones among the first neighbours of the page.
ListedAmong(p, m, n) ==
    LET table == Page(m, n)
        among[k \in 0..Len(table)] ==
            IF k = 0 THEN <<>>
            ELSE IF Accepts(p, table[k].relation) THEN Append(among[k - 1], table[k])
            ELSE among[k - 1]
    IN among

Listed(p, m, n) == ListedAmong(p, m, n)[Len(Page(m, n))]

\* Neighbour x is a router that the callback asks.
Names(p, x, r) == Accepts(p, x.relation) /\ x.type = "router" /\ x.addr = r

Follows(p, m, n, r) == \E i \in DOMAIN Page(m, n) : Names(p, Page(m, n)[i], r)

ASSUME ProgramsKnown == Programs \subseteq {"nwkTopology", "dataSendRcv"}
ASSUME BoundsNatural ==
    /\ {PageSize, Capacity, MaxRounds, MaxData} \subseteq Nat
    /\ \A p \in Programs, m \in Meshes : MaxSlow(p, m) \in Nat /\ MaxLoss(p, m) \in Nat

ASSUME TablesOfNeighbours ==
    \A m \in Meshes : \A n \in Routers(m) :
        /\ m[n].table \in Seq({m[n].table[i] : i \in DOMAIN m[n].table})
        /\ \A i \in DOMAIN m[n].table : m[n].table[i].type \in Types

ASSUME RoutersKnown ==
    \A m \in Meshes : Coordinator \in Routers(m) /\ IsFiniteSet(Routers(m))

VARIABLES
    program, mesh,          \* chosen once
    nodeList, nodeCount,
    initDone,
    pc, calls,              \* each thread and the callbacks it is inside of
    request,                \* what each thread is about to ask
    phase, cursor,          \* displayDevices: its part and its two loop indices
    sender, srspSem, queue, \* rpc.c: who has rpcSem
    held,                   \* rpcProcess has posted srspSem and not queued the SRSP yet
    line, asked,            \* frames from the ZNP; questions to the network
    rounds, data, slow, losses, \* how much of the bounds is used
    handled,                \* history: routers whose response was handled this round
    shown,                  \* history: devices asked for their endpoints this round
    alone,                  \* history: the other thread has dispatched nothing this round
    polled                  \* history: messages that its own wait has got since initDone
                            \* was cleared

choice == <<program, mesh>>
threadVars == <<pc, calls, request>>
appVars == <<initDone, phase, cursor>>
wireVars == <<held, line, asked>>
rpcVars == <<sender, srspSem, queue>>
listVars == <<nodeList, nodeCount>>
boundVars == <<rounds, data, slow, losses>>
historyVars == <<handled, shown, alone, polled>>
vars == <<choice, listVars, threadVars, appVars, rpcVars, wireVars, boundVars, historyVars>>

Thread == {"app", "msg"}   \* of appProcess and of appMsgProcess

NoEntry == [addr |-> Coordinator, type |-> "coordinator", children |-> <<>>]
NoRequest == [kind |-> "none", to |-> Coordinator]

Init == /\ program \in Programs
        /\ mesh \in Meshes
        /\ nodeList = [i \in 1..Capacity |-> NoEntry]
        /\ nodeCount = 0
        /\ initDone = FALSE
        /\ pc = [t \in Thread |-> IF t = "app" THEN "console" ELSE "idle"]
        /\ calls = [t \in Thread |-> <<>>]
        /\ request = [t \in Thread |-> NoRequest]
        /\ phase = "discover" /\ cursor = [node |-> 1, child |-> 0]
        /\ sender = {} /\ srspSem = 0 /\ queue = <<>> /\ held = FALSE
        /\ line = <<>> /\ asked = EmptyBag
        /\ rounds = 0 /\ data = 0 /\ slow = 0 /\ losses = 0
        /\ handled = <<>> /\ shown = <<>> /\ alone = TRUE /\ polled = 0

Srsp == [kind |-> "srsp", from |-> Coordinator]
-----------------------------------------------------------------------------
(* A request: rpcSendFrame, then one fetch                                 *)

Goes(t, place) == pc' = [pc EXCEPT ![t] = place]

Ask(t, kind, to) ==
    /\ Goes(t, "send")
    /\ request' = [request EXCEPT ![t] = [kind |-> kind, to |-> to]]

\* The ZNP confirms the request at once and passes the question on, or one or both
\* of request and SRSP are lost.
Send(t) ==
    LET question == SetToBag({request[t]}) IN
    /\ pc[t] = "send"
    /\ sender = {} /\ sender' = {t}
    /\ Goes(t, "wait") /\ request' = [request EXCEPT ![t] = NoRequest]
    /\ \/ /\ line' = Append(line, Srsp)
          /\ asked' = asked (+) question
          /\ UNCHANGED losses
       \/ /\ losses < MaxLoss(program, mesh)
          /\ losses' = losses + 1
          /\ asked' \in {asked, asked (+) question}
          /\ UNCHANGED line
    /\ UNCHANGED <<choice, listVars, calls, appVars, srspSem, queue, held, rounds, data,
                   slow, historyVars>>

\* Fault: the message loops wait without a deadline.
AfterGets(t, place) ==
    CASE place = "poll" -> "idle"
      [] place = "fetch" /\ calls[t] # <<>> -> "callback"
      [] OTHER -> "get"

\* Where the code goes on after a message, or the lack of one.
After(t, place) ==
    CASE place = "poll" -> "idle"
      [] place = "fetch" /\ calls[t] # <<>> -> "callback"
      [] place = "fetch" /\ calls[t] = <<>> /\ phase = "show" -> "get"
      [] place = "fetch" /\ calls[t] = <<>> /\ phase = "data" -> "confirm"
      [] place = "confirm" -> "confirmed"
      [] OTHER -> "loop"

SrspGranted(t) ==
    /\ pc[t] = "wait"
    /\ srspSem > 0
    /\ srspSem' = srspSem - 1
    /\ sender' = {}
    /\ Goes(t, "fetch")
    /\ UNCHANGED <<choice, listVars, calls, request, appVars, queue, wireVars, boundVars,
                   historyVars>>

\* The request fails, and its caller does not look at the status.
SrspTimeout(t) ==
    /\ pc[t] = "wait"
    /\ srspSem = 0 /\ ~held /\ \A i \in DOMAIN line : line[i] # Srsp
    /\ sender' = {}
    /\ Goes(t, After(t, "fetch"))
    /\ UNCHANGED <<choice, listVars, calls, request, appVars, srspSem, queue, wireVars,
                   boundVars, historyVars>>

Succeeds(frame) ==
    frame.kind = "lqi" /\ frame.from \in Routers(mesh) /\ mesh[frame.from].ok

Begins(t, frame, back) ==
    /\ calls' = [calls EXCEPT ![t] = <<[node |-> frame.from, next |-> 0,
                                        at |-> nodeCount + 1, back |-> back]>> \o @]
    /\ Goes(t, "callback")
    /\ handled' = Append(handled, frame.from)

\* Fault: a response that arrives inside a callback is dropped.
HandleUnlessNested(t, frame, back) ==
    \/ Succeeds(frame) /\ calls[t] = <<>> /\ Begins(t, frame, back)
    \/ (~Succeeds(frame) \/ calls[t] # <<>>) /\ Goes(t, back) /\ UNCHANGED <<calls, handled>>

\* mtProcess.  Of the messages modelled, only a successful LQI response does more than
\* print (no device announces itself, to which dataSendRcv would react with a request).
Handle(t, frame, back) ==
    \/ Succeeds(frame) /\ Begins(t, frame, back)
    \/ ~Succeeds(frame) /\ Goes(t, back) /\ UNCHANGED <<calls, handled>>

\* rpcWaitMqClientMsg and rpcGetMqClientMsg with a message in the queue.
Fetch(t) ==
    /\ pc[t] \in {"fetch", "loop", "get", "confirm", "poll"}
    /\ queue # <<>>
    /\ Handle(t, Head(queue), After(t, pc[t]))
    /\ queue' = Tail(queue)
    /\ alone' = (alone /\ t = "app")
    /\ polled' = IF pc[t] = "poll" /\ ~initDone THEN polled + 1 ELSE polled
    /\ UNCHANGED <<choice, listVars, request, appVars, sender, srspSem, wireVars,
                   boundVars, shown>>

\* In the 50 ms of a request its SRSP has not been queued, or another thread has taken it;
\* in the 500 ms after a data request and the 10 s of appMsgProcess nothing has come.
FetchTimeout(t) ==
    /\ pc[t] \in {"fetch", "confirm", "poll"}
    /\ queue = <<>>
    /\ Goes(t, After(t, pc[t]))
    /\ UNCHANGED <<choice, listVars, calls, request, appVars, rpcVars, wireVars, boundVars,
                   historyVars>>
-----------------------------------------------------------------------------
(* mtZdoMgmtLqiRspCb                                                       *)

\* Fault: nwkTopology uses the current count as well.
SlotAlwaysLate(t) == nodeCount + 1

\* nwkTopology keeps the index it found on entry, dataSendRcv looks at the count.
Slot(t) == IF program = "nwkTopology" THEN calls[t][1].at ELSE nodeCount + 1

\* Neither program compares the index with the length of nodeList; what a write
\* outside it would do is not modelled, see InsideNodeList.
BeginEntry(t) ==
    /\ pc[t] = "callback" /\ calls[t][1].next = 0
    /\ Slot(t) <= Capacity
    /\ LET node == calls[t][1].node
       IN nodeList' = [nodeList EXCEPT ![Slot(t)] =
                          [addr |-> node,
                           type |-> IF node = Coordinator THEN "coordinator" ELSE "router",
                           children |-> <<>>]]
    /\ nodeCount' = IF program = "nwkTopology" THEN nodeCount + 1 ELSE nodeCount
    /\ calls' = [calls EXCEPT ![t][1].next = 1]
    /\ UNCHANGED <<choice, pc, request, appVars, rpcVars, wireVars, boundVars, historyVars>>

Neighbour(t) == Page(mesh, calls[t][1].node)[calls[t][1].next]

AtNeighbour(t) ==
    /\ pc[t] = "callback"
    /\ calls[t][1].next \in DOMAIN Page(mesh, calls[t][1].node)
    /\ calls' = [calls EXCEPT ![t][1].next = @ + 1]

AskIfRouter(t, neighbour) ==
    IF neighbour.type = "router" THEN Ask(t, "lqi", neighbour.addr)
                                 ELSE UNCHANGED <<pc, request>>

\* Fault: routers are asked whatever their relation.
PassOverAsks(t) ==
    /\ AtNeighbour(t)
    /\ ~Accepts(program, Neighbour(t).relation)
    /\ AskIfRouter(t, Neighbour(t))
    /\ UNCHANGED <<choice, listVars, appVars, rpcVars, wireVars, boundVars, historyVars>>

PassOver(t) ==
    /\ AtNeighbour(t)
    /\ ~Accepts(program, Neighbour(t).relation)
    /\ UNCHANGED <<choice, listVars, pc, request, appVars, rpcVars, wireVars, boundVars,
                   historyVars>>

ListChild(t) ==
    /\ AtNeighbour(t)
    /\ Accepts(program, Neighbour(t).relation)
    /\ Slot(t) <= Capacity
    /\ nodeList' = [nodeList EXCEPT ![Slot(t)].children =
                       Append(@, [addr |-> Neighbour(t).addr, type |-> Neighbour(t).type])]
    /\ AskIfRouter(t, Neighbour(t))
    /\ UNCHANGED <<choice, nodeCount, appVars, rpcVars, wireVars, boundVars, historyVars>>

\* nodeCount++ at the end of the callback of dataSendRcv reads...
CountRead(t) ==
    /\ program = "dataSendRcv"
    /\ pc[t] = "callback"
    /\ calls[t][1].next > Len(Page(mesh, calls[t][1].node))
    /\ Goes(t, "count")
    /\ calls' = [calls EXCEPT ![t][1].at = nodeCount + 1]
    /\ UNCHANGED <<choice, listVars, request, appVars, rpcVars, wireVars, boundVars,
                   historyVars>>

\* ...and writes: the other thread may have written in between.
CallbackReturns(t) ==
    /\ \/ /\ program = "nwkTopology" /\ pc[t] = "callback"
          /\ calls[t][1].next > Len(Page(mesh, calls[t][1].node))
          /\ UNCHANGED nodeCount
       \/ pc[t] = "count" /\ nodeCount' = calls[t][1].at
    /\ Goes(t, calls[t][1].back)
    /\ calls' = [calls EXCEPT ![t] = Tail(@)]
    /\ UNCHANGED <<choice, nodeList, request, appVars, rpcVars, wireVars, boundVars,
                   historyVars>>
-----------------------------------------------------------------------------
(* appProcess of nwkTopology; appProcess and displayDevices of dataSendRcv *)

\* ENTER, or the destination is to be changed: nodeCount and initDone are cleared...
Change ==
    /\ pc["app"] = "console"
    /\ rounds < MaxRounds /\ rounds' = rounds + 1
    /\ nodeCount' = 0
    /\ initDone' = FALSE
    /\ Goes("app", "display")
    /\ handled' = <<>> /\ shown' = <<>>
    /\ alone' = (calls["msg"] = <<>>) /\ polled' = 0
    /\ UNCHANGED <<choice, nodeList, calls, request, phase, cursor, rpcVars, wireVars, data,
                   slow, losses>>

\* ...and displayDevices clears nodeCount again.
Discover ==
    /\ pc["app"] = "display"
    /\ nodeCount' = 0
    /\ phase' = "discover"
    /\ Ask("app", "lqi", Coordinator)
    /\ UNCHANGED <<choice, nodeList, calls, initDone, cursor, rpcVars, wireVars, boundVars,
                   historyVars>>

Quiet == line = <<>> /\ asked = EmptyBag /\ ~held /\ calls["msg"] = <<>>

\* Up to one second without a message: the deadline is counted in whole seconds.
LoopEnd ==
    /\ pc["app"] = "loop"
    /\ queue = <<>>
    /\ \/ Quiet /\ UNCHANGED slow
       \/ ~Quiet /\ slow < MaxSlow(program, mesh) /\ slow' = slow + 1
    /\ \/ program = "nwkTopology" /\ Goes("app", "console") /\ UNCHANGED <<phase, cursor>>
       \/ /\ program = "dataSendRcv" /\ Goes("app", "show") /\ phase' = "show"
          /\ cursor' = IF phase = "discover" THEN [node |-> 1, child |-> 0] ELSE cursor
    /\ UNCHANGED <<choice, listVars, calls, request, initDone, rpcVars, wireVars, rounds,
                   data, losses, historyVars>>

\* Fault: routers are asked again as children.
AskedAsChildAlways(child) == TRUE

AskedAsChild(child) == child.type = "end"

AskEndpoints(addr) == Ask("app", "ep", addr) /\ shown' = Append(shown, addr)

\* A router is asked first, then those of its children that are end devices.
ShowNext ==
    LET i == cursor.node
        c == cursor.child
        children == nodeList[i].children IN
    /\ pc["app"] = "show"
    /\ i <= nodeCount
    /\ i <= Capacity  \* nested callbacks may count further: reads beyond are not modelled
    /\ \/ /\ c = 0
          /\ AskEndpoints(nodeList[i].addr)
          /\ cursor' = [cursor EXCEPT !.child = 1]
       \/ /\ c \in DOMAIN children /\ AskedAsChild(children[c])
          /\ AskEndpoints(children[c].addr)
          /\ cursor' = [cursor EXCEPT !.child = c + 1]
       \/ /\ c \in DOMAIN children /\ ~AskedAsChild(children[c])
          /\ cursor' = [cursor EXCEPT !.child = c + 1]
          /\ UNCHANGED <<pc, request, shown>>
       \/ /\ c > Len(children)
          /\ cursor' = [node |-> i + 1, child |-> 0]
          /\ UNCHANGED <<pc, request, shown>>
    /\ UNCHANGED <<choice, listVars, calls, initDone, phase, rpcVars, wireVars, boundVars,
                   handled, alone, polled>>

ShowEnds ==
    /\ pc["app"] = "show"
    /\ cursor.node > nodeCount
    /\ Goes("app", "console")
    /\ initDone' = TRUE
    /\ UNCHANGED <<choice, listVars, calls, request, phase, cursor, rpcVars, wireVars,
                   boundVars, historyVars>>

\* A message is sent, its confirmation awaited for half a second, ...
SendData ==
    /\ pc["app"] = "console" /\ program = "dataSendRcv" /\ rounds > 0
    /\ data < MaxData /\ slow + losses = 0 /\ data' = data + 1
    /\ initDone' = FALSE
    /\ polled' = 0
    /\ phase' = "data"
    /\ Ask("app", "data", Coordinator)
    /\ UNCHANGED <<choice, listVars, calls, cursor, rpcVars, wireVars, rounds, slow, losses,
                   handled, shown, alone>>

\* ...and appMsgProcess may fetch again.
DataSent ==
    /\ pc["app"] = "confirmed"
    /\ Goes("app", "console")
    /\ initDone' = TRUE
    /\ UNCHANGED <<choice, listVars, calls, request, phase, cursor, rpcVars, wireVars,
                   boundVars, historyVars>>

\* Fault: the thread does not look at initDone.
MsgWaitAlways ==
    /\ program = "dataSendRcv" /\ pc["msg"] = "idle"
    /\ Goes("msg", "poll")
    /\ UNCHANGED <<choice, listVars, calls, request, appVars, rpcVars, wireVars, boundVars,
                   historyVars>>

\* appMsgProcess, which is called again whenever it returns.
MsgWait ==
    /\ program = "dataSendRcv" /\ pc["msg"] = "idle"
    /\ initDone
    /\ Goes("msg", "poll")
    /\ UNCHANGED <<choice, listVars, calls, request, appVars, rpcVars, wireVars, boundVars,
                   historyVars>>

Step(t) == \/ Send(t) \/ SrspGranted(t) \/ SrspTimeout(t) \/ Fetch(t) \/ FetchTimeout(t)
           \/ BeginEntry(t) \/ PassOver(t) \/ ListChild(t) \/ CountRead(t)
           \/ CallbackReturns(t)
AppStep == Step("app") \/ Discover \/ LoopEnd \/ ShowNext \/ ShowEnds \/ DataSent
MsgStep == Step("msg") \/ MsgWait
-----------------------------------------------------------------------------
(* rpcProcess                                                              *)

OnlyRx == UNCHANGED <<choice, listVars, threadVars, appVars, sender, asked, boundVars,
                      historyVars>>

RxPost ==
    /\ ~held /\ line # <<>> /\ Head(line) = Srsp
    /\ srspSem' = srspSem + 1
    /\ held' = TRUE
    /\ line' = Tail(line)
    /\ OnlyRx /\ UNCHANGED queue

RxLinkSrsp ==
    /\ held
    /\ queue' = <<Srsp>> \o queue
    /\ held' = FALSE
    /\ OnlyRx /\ UNCHANGED <<srspSem, line>>

RxLinkAreq ==
    /\ ~held /\ line # <<>> /\ Head(line) # Srsp
    /\ queue' = Append(queue, Head(line))
    /\ line' = Tail(line)
    /\ OnlyRx /\ UNCHANGED <<srspSem, held>>

RxStep == RxPost \/ RxLinkSrsp \/ RxLinkAreq
-----------------------------------------------------------------------------
(* The network, outside this repository: answers come in any order         *)

OnlyNetwork == UNCHANGED <<choice, listVars, threadVars, appVars, rpcVars, held, rounds,
                           data, slow, historyVars>>

NodeAnswers ==
    /\ \E q \in BagToSet(asked) :
          /\ asked' = asked (-) SetToBag({q})
          /\ line' = Append(line, [kind |-> q.kind, from |-> q.to])
    /\ OnlyNetwork /\ UNCHANGED losses

NodeSilent ==
    /\ losses < MaxLoss(program, mesh)
    /\ losses' = losses + 1
    /\ \E q \in BagToSet(asked) : asked' = asked (-) SetToBag({q})
    /\ OnlyNetwork /\ UNCHANGED line

Next == Change \/ SendData \/ AppStep \/ MsgStep \/ RxStep \/ NodeAnswers \/ NodeSilent

\* The three threads are scheduled, waits with a deadline end, and an answer that is
\* not lost arrives.  Nobody has to press a key.
Fairness == WF_vars(AppStep) /\ WF_vars(MsgStep) /\ WF_vars(RxStep) /\ WF_vars(NodeAnswers)

Spec == Init /\ [][Next]_vars /\ Fairness
-----------------------------------------------------------------------------
Places == {"console", "display", "send", "wait", "fetch", "loop", "get", "callback", "count",
           "show", "confirm", "confirmed"}
MsgPlaces == {"idle", "poll", "send", "wait", "fetch", "callback", "count"}
Child == [addr : (UNION {Routers(m) : m \in Meshes})
                  \cup (UNION {{mesh[n].table[i].addr : i \in DOMAIN mesh[n].table} :
                                  n \in Routers(mesh)}),
          type : Types]

TypeOK ==
    /\ DOMAIN nodeList = 1..Capacity
    /\ \A i \in 1..Capacity : nodeList[i].type \in Types \ {"end"}
                              /\ nodeList[i].children \in Seq(Child)
    /\ nodeCount \in Nat
    /\ pc["app"] \in Places /\ pc["msg"] \in MsgPlaces
    /\ \A t \in Thread : pc[t] \in {"callback", "count"} => calls[t] # <<>>
    /\ \A t \in Thread : pc[t] = "send" <=> request[t] # NoRequest
    /\ phase # "discover" \/ initDone => program = "dataSendRcv"
    /\ sender = {t \in Thread : pc[t] = "wait"}
    /\ srspSem \in 0..1 /\ held \in BOOLEAN
    /\ rounds \in 0..MaxRounds /\ data \in 0..MaxData
    /\ slow \in 0..MaxSlow(program, mesh) /\ losses \in 0..MaxLoss(program, mesh)

\* Each router is in the accepted list of one other, once, and the coordinator in none.
\* Nothing in the code makes sure of it, so the properties that need it say so.
Tree(p, m) ==
    /\ \A n \in Routers(m) : ~Follows(p, m, n, Coordinator)
    /\ \A r, n1, n2 \in Routers(m) :
          \A i \in DOMAIN Page(m, n1), j \in DOMAIN Page(m, n2) :
             Names(p, Page(m, n1)[i], r) /\ Names(p, Page(m, n2)[j], r)
                 => n1 = n2 /\ i = j

\* An end device is in the accepted list of one router, once.  dataSendRcv, which accepts
\* more neighbours than children, may find it in several.
EndDevicesOnce(p, m) ==
    \A n1, n2 \in Routers(m) :
        \A i \in DOMAIN Listed(p, m, n1), j \in DOMAIN Listed(p, m, n2) :
           Listed(p, m, n1)[i].type = "end" =>
              /\ Listed(p, m, n1)[i].addr \notin Routers(m)
              /\ Listed(p, m, n2)[j].type = "end" /\ Listed(p, m, n1)[i].addr = Listed(p, m, n2)[j].addr
                     => n1 = n2 /\ i = j

\* A router whose first response names two routers to ask.
Forks ==
    \E n \in Routers(mesh) : \E i, j \in DOMAIN Page(mesh, n) :
        i # j /\ \A k \in {i, j} : Names(program, Page(mesh, n)[k], Page(mesh, n)[k].addr)

Plain(n) == [addr |-> n,
             type |-> IF n = Coordinator THEN "coordinator" ELSE "router",
             children |-> [i \in DOMAIN Listed(program, mesh, n) |->
                             [addr |-> Listed(program, mesh, n)[i].addr,
                              type |-> Listed(program, mesh, n)[i].type]]]

(***************************************************************************)
(* However the callbacks are nested, the list of nwkTopology has one entry *)
(* for each response handled since nodeCount was reset, and each entry has *)
(* its own router's children and no other's.  dataSendRcv, whose callback  *)
(* looks at the count anew after every request, achieves it only where no  *)
(* response can come inside the callback of another: none names two        *)
(* routers, none is left from the round before, and the other thread has   *)
(* dispatched nothing.                                                     *)
(***************************************************************************)
EntriesOwn ==
    (/\ alone /\ calls["app"] = <<>>
     /\ program = "nwkTopology" \/ (~Forks /\ slow = 0)) =>
        /\ nodeCount = Len(handled)
        /\ \A i \in 1..nodeCount : nodeList[i] = Plain(handled[i])

\* The routers a complete discovery finds: those it can get to from the coordinator
\* through routers that answer.
Found ==
    LET closed(S) == \A n \in S, r \in Routers(mesh) :
                        Follows(program, mesh, n, r) /\ mesh[r].ok => r \in S
        start == {n \in {Coordinator} : mesh[n].ok}
    IN {r \in Routers(mesh) : \A S \in SUBSET Routers(mesh) :
                                 start \subseteq S /\ closed(S) => r \in S}

\* Nothing was lost, and no message loop ended before its last message.
Undisturbed == slow = 0 /\ losses = 0

(***************************************************************************)
(* When the message loop of nwkTopology has ended after the last response, *)
(* the list it prints has every router of the network once (where each is  *)
(* the child of one other), however the answers were ordered and whichever *)
(* call fetched them, and nothing from the round before.                   *)
(***************************************************************************)
EachRouterOnce ==
    (/\ program = "nwkTopology" /\ pc["app"] = "console" /\ rounds > 0
     /\ Undisturbed /\ Tree(program, mesh)) =>
        /\ nodeCount = Cardinality(Found)
        /\ {nodeList[i].addr : i \in 1..nodeCount} = Found

\* The routers found and the end devices they list as their own.
Devices ==
    Found \cup {x.addr : x \in {y \in UNION {{Listed(program, mesh, n)[i] :
                    i \in DOMAIN Listed(program, mesh, n)} : n \in Found} : y.type = "end"}}

(***************************************************************************)
(* displayDevices asks every router found, and every end device listed by  *)
(* one, for its endpoints, and nobody else; and asks it once, if no router *)
(* lists an end device that another lists too.  (Where the lists make a    *)
(* tree, no response names two routers and the other thread has dispatched *)
(* nothing.)  What is left from the round before or from data sent does    *)
(* not disturb it.                                                         *)
(***************************************************************************)
EachDeviceAskedOnce ==
    (/\ program = "dataSendRcv" /\ pc["app"] = "console" /\ rounds > 0
     /\ Undisturbed /\ alone /\ ~Forks /\ Tree(program, mesh)) =>
        /\ {shown[i] : i \in DOMAIN shown} = Devices
        /\ EndDevicesOnce(program, mesh) => Len(shown) = Cardinality(Devices)

\* A callback is about to write outside nodeList.
WritesOutside(t) ==
    /\ pc[t] = "callback" /\ calls[t][1].next <= Len(Page(mesh, calls[t][1].node))
    /\ Slot(t) > Capacity

\* Conditions under which nodeList has room.  On any network, only one thread has
\* handled responses, and no more in this round than nodeList has entries.  On a tree,
\* that is so whoever handles them if all its routers fit in, once more for each message
\* loop that ended too early: the answers that it left behind are counted in the next
\* round, and asked about again.
RoomForHandled == alone /\ Len(handled) <= Capacity
RoomForLateAnswers ==
    Cardinality(Routers(mesh)) * (1 + slow) <= Capacity /\ Tree(program, mesh)

(***************************************************************************)
(* nodeList is not written outside its 64 entries before more than 64      *)
(* responses have been handled in one round, however callbacks are nested; *)
(* and on a network that makes a tree no more are, if all its routers fit  *)
(* in.  Two routers that list each other in relation 3 have dataSendRcv    *)
(* ask on until it writes outside.  (And the variables have their types.)  *)
(***************************************************************************)
InsideNodeList ==
    /\ TypeOK
    /\ RoomForHandled \/ RoomForLateAnswers =>
          nodeCount <= Capacity /\ \A t \in Thread : ~WritesOutside(t)

(***************************************************************************)
(* What initDone achieves: of the messages that come while it is cleared,  *)
(* appMsgProcess takes at most one by itself, the one for which it had     *)
(* begun to wait before.                                                   *)
(***************************************************************************)
OneTaken == polled <= 1

(***************************************************************************)
(* appProcess comes back to the console, or writes outside nodeList (see   *)
(* InsideNodeList): always in nwkTopology, and in dataSendRcv, whose       *)
(* rpcGetMqClientMsg has no deadline, if nothing is lost and the other     *)
(* thread has not taken what it waits for, whether the request before has  *)
(* fetched its SRSP or another message.                                    *)
(***************************************************************************)
DiscoveryEnds ==
    pc["app"] # "console" ~> \/ pc["app"] = "console" \/ WritesOutside("app")
                             \/ program = "dataSendRcv" /\ (losses > 0 \/ ~alone)
=============================================================================
