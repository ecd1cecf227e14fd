------------------------- MODULE TopologyInvariant -------------------------
(***************************************************************************)
(* What holds of every state of Topology: the inductive invariants of      *)
(* TopologyProofs, part by part.                                           *)
(***************************************************************************)
EXTENDS Topology, SequenceLemmas

-----------------------------------------------------------------------------
(* Where the threads are.                                                  *)

Returns == {"callback", "loop", "get", "confirm", "confirmed", "idle"}
Call == [node : Routers(mesh), next : Nat, at : Nat, back : Returns]

ThreadsInv ==
    /\ nodeCount \in Nat
    /\ pc \in [Thread -> Places \cup MsgPlaces]
    /\ pc["app"] \in Places /\ pc["msg"] \in MsgPlaces
    /\ calls \in [Thread -> Seq(Call)]
    /\ \A j \in DOMAIN calls["app"] : calls["app"][j].back # "idle"
    /\ \A j \in DOMAIN calls["msg"] : calls["msg"][j].back \in {"callback", "idle"}
    /\ \A t \in Thread : \A j \in DOMAIN calls[t] :
           calls[t][j].back = "callback" => j + 1 \in DOMAIN calls[t]
    /\ pc["app"] \in {"callback", "count"} => calls["app"] # <<>>
    /\ pc["msg"] \in {"callback", "count", "send", "wait", "fetch"} => calls["msg"] # <<>>

-----------------------------------------------------------------------------
(* What initDone achieves.                                                 *)

\* The wait that has taken a message is over, and no other begins.
TakenInv ==
    polled = 0 \/ (polled = 1 /\ (initDone \/ pc["msg"] # "poll"))

-----------------------------------------------------------------------------
(* What is read of a response, and the entry that comes of it.             *)

Neighbours(m, n) == {m[n].table[i] : i \in DOMAIN m[n].table}

\* The entry of router n after k of its neighbours.
EntryOf(p, m, n, k) ==
    [addr |-> n,
     type |-> IF n = Coordinator THEN "coordinator" ELSE "router",
     children |-> [i \in DOMAIN ListedAmong(p, m, n)[k] |->
                     [addr |-> ListedAmong(p, m, n)[k][i].addr,
                      type |-> ListedAmong(p, m, n)[k][i].type]]]

-----------------------------------------------------------------------------
(* The list of nwkTopology, for program p and mesh m.                      *)

CallsOf(m) == [node : Routers(m), next : Nat, at : Nat, back : Returns]

\* Where nwkTopology is and which callbacks it is inside of: only the topmost has not
\* begun its entry, and the lowest returns to the message loop.
Shape(m, place, stack) ==
    /\ stack \in Seq(CallsOf(m))
    /\ place \in {"console", "display", "send", "wait", "fetch", "loop", "callback"}
    /\ place \in {"console", "display", "loop"} => stack = <<>>
    /\ place = "callback" => stack # <<>>
    /\ \A j \in DOMAIN stack : stack[j].back = IF j = Len(stack) THEN "loop" ELSE "callback"
    /\ \A j \in DOMAIN stack : stack[j].next = 0 => j = 1 /\ place = "callback"
    /\ \A j \in DOMAIN stack : stack[j].next <= Len(Page(m, stack[j].node)) + 1

\* One response has been handled whose entry is not counted yet.
Fresh(stack) == IF stack # <<>> /\ stack[1].next = 0 THEN 1 ELSE 0

\* Each callback has its own response and its own entry, which has the neighbours it has
\* passed; the other entries are complete.
Entries(p, m, stack, h, count, list) ==
    /\ h \in Seq(Routers(m)) /\ count \in Nat /\ count <= Capacity
    /\ Len(h) = count + Fresh(stack)
    /\ DOMAIN list = 1..Capacity
    /\ \A j \in DOMAIN stack : stack[j].at \in DOMAIN h /\ h[stack[j].at] = stack[j].node
    /\ \A j \in DOMAIN stack : stack[j].next = 0 => stack[j].at = Len(h)
    /\ \A i, j \in DOMAIN stack : stack[i].at = stack[j].at => i = j
    /\ \A j \in DOMAIN stack : stack[j].next # 0 =>
          list[stack[j].at] = EntryOf(p, m, stack[j].node, stack[j].next - 1)
    /\ \A i \in 1..count : (\A j \in DOMAIN stack : stack[j].at # i) =>
          list[i] = EntryOf(p, m, h[i], Len(Page(m, h[i])))

Nwk == program = "nwkTopology"
Dsr == program = "dataSendRcv"

\* nwkTopology has one thread.
NwkAlone ==
    Nwk => /\ pc["msg"] = "idle" /\ calls["msg"] = <<>>
           /\ phase = "discover" /\ alone

NwkEntries ==
    Nwk => /\ Shape(mesh, pc["app"], calls["app"])
           /\ Entries(program, mesh, calls["app"], handled, nodeCount, nodeList)
           /\ pc["app"] = "display" => handled = <<>> /\ nodeCount = 0

Chosen == program \in Programs /\ mesh \in Meshes

NwkInv == Chosen /\ NwkAlone /\ NwkEntries

-----------------------------------------------------------------------------
(* nwkTopology asks every router once.                                     *)

Lqi(r) == [kind |-> "lqi", to |-> r]
Answer(r) == [kind |-> "lqi", from |-> r]

Addresses(m) ==
    {Coordinator} \cup UNION {{x.addr : x \in Neighbours(m, n)} : n \in Routers(m)}
Questions(m) ==
    {Lqi(r) : r \in Addresses(m)} \cup [kind : {"ep", "data"}, to : Routers(m) \cup Addresses(m)]
Frames(m) ==
    {Srsp} \cup {Answer(r) : r \in Addresses(m)}
        \cup [kind : {"ep", "data"}, from : Routers(m) \cup Addresses(m)]

BagOf(Q, bag) == bag \in [DOMAIN bag -> Nat \ {0}] /\ DOMAIN bag \subseteq Q
Copies(bag, x) == IF x \in DOMAIN bag THEN bag[x] ELSE 0

About(place, ask, r) == IF place = "send" /\ ask = Lqi(r) THEN 1 ELSE 0

\* Router r is about to be asked, has been asked, has answered or has been handled.
Tokens(r, place, ask, bag, l, q, h) ==
    About(place, ask, r) + Copies(bag, Lqi(r)) + Occurrences(l, Answer(r))
        + Occurrences(q, Answer(r)) + Occurrences(h, r)

\* The callback of response i has passed neighbour k.
Beyond(stack, i, k) == \A j \in DOMAIN stack : stack[j].at = i => k < stack[j].next

\* A callback has asked router r.
Passed(p, m, stack, h, r) ==
    \E i \in DOMAIN h : \E k \in DOMAIN Page(m, h[i]) :
        Names(p, Page(m, h[i])[k], r) /\ Beyond(stack, i, k)

Due(p, m, stack, h, r) == r = Coordinator \/ Passed(p, m, stack, h, r)

\* Each router that will answer is asked once by those that have been handled.
Balanced(p, m, place, ask, bag, l, q, h, stack) ==
    \A r \in Routers(m) : m[r].ok =>
        Tokens(r, place, ask, bag, l, q, h) = IF Due(p, m, stack, h, r) THEN 1 ELSE 0

\* What is under way is a request, a question or an answer of the discovery.
Kinds(m, place, ask, bag, l, q) ==
    /\ place = "send" => ask \in Questions(m)
    /\ BagOf(Questions(m), bag)
    /\ l \in Seq(Frames(m)) /\ q \in Seq(Frames(m))

\* Responses handled are those of routers to find.
HandledFound == \A i \in DOMAIN handled : handled[i] \in Found /\ mesh[handled[i]].ok

OnceInv ==
    Nwk /\ Undisturbed /\ Tree(program, mesh) =>
        /\ DOMAIN request = Thread
        /\ Kinds(mesh, pc["app"], request["app"], asked, line, queue)
        /\ pc["app"] \in {"console", "display"} =>
              line = <<>> /\ queue = <<>> /\ asked = EmptyBag /\ ~held
        /\ pc["app"] # "console" => rounds > 0
        /\ HandledFound
        /\ pc["app"] # "display" /\ rounds > 0 =>
              Balanced(program, mesh, pc["app"], request["app"], asked, line, queue, handled,
                       calls["app"])

UsedInv == rounds \in Nat /\ slow \in Nat /\ losses \in Nat

-----------------------------------------------------------------------------
(* nodeList is not written outside: what is under way, and where the       *)
(* threads are, in both programs and whatever was lost or came late.       *)

\* Addresses a callback may ask, and what may be sent and received.
Askable(p, m) ==
    {r \in Addresses(m) : r = Coordinator \/ \E n \in Routers(m) : Follows(p, m, n, r)}
Requests(p, m) ==
    {Lqi(r) : r \in Askable(p, m)}
        \cup [kind : {"ep", "data"}, to : Routers(m) \cup Addresses(m)]
Messages(p, m) ==
    {Srsp} \cup {Answer(r) : r \in Askable(p, m)}
        \cup [kind : {"ep", "data"}, from : Routers(m) \cup Addresses(m)]

\* What is on its way has the form that requests and messages have.
WireInv ==
    /\ request \in [Thread -> Requests(program, mesh) \cup {NoRequest}]
    /\ \A t \in Thread : pc[t] = "send" <=> request[t] # NoRequest
    /\ BagOf(Requests(program, mesh), asked)
    /\ line \in Seq(Messages(program, mesh)) /\ queue \in Seq(Messages(program, mesh))
    /\ held \in BOOLEAN

\* One thread waits for its SRSP, which comes once.
SemInv ==
    /\ sender = {t \in Thread : pc[t] = "wait"}
    /\ \A t1, t2 \in Thread : pc[t1] = "wait" /\ pc[t2] = "wait" => t1 = t2
    /\ srspSem \in Nat
    /\ sender = {} => srspSem = 0 /\ Occurrences(line, Srsp) = 0
    /\ srspSem + Occurrences(line, Srsp) <= 1

\* nwkTopology never lets a second thread fetch.
FlagInv == Nwk => ~initDone

\* No bound is exceeded.
BoundInv ==
    /\ rounds \in 0..MaxRounds /\ data \in 0..MaxData
    /\ slow \in 0..MaxSlow(program, mesh) /\ losses \in 0..MaxLoss(program, mesh)

\* Entries are those of routers with neighbours of theirs.
ChildOf(m) == [addr : UNION {{x.addr : x \in Neighbours(m, n)} : n \in Routers(m)}, type : Types]
EntryIn(m) == [addr : Routers(m), type : {"coordinator", "router"}, children : Seq(ChildOf(m))]

ListInv ==
    /\ nodeList \in [1..Capacity -> EntryIn(mesh)]
    /\ cursor \in [node : Nat \ {0}, child : Nat]

\* A thread is inside of callbacks in few places, and the first of them alone returns to
\* another place than a callback.
StackFits(place, stack) ==
    /\ place \notin {"send", "wait", "fetch", "callback", "count"} => stack = <<>>
    /\ \A j \in DOMAIN stack : stack[j].back # "callback" => j = Len(stack)

StackInv == \A t \in Thread : StackFits(pc[t], calls[t])

-----------------------------------------------------------------------------
(* What is under way about each router.                                    *)

Wants(x, r) == IF x = Lqi(r) THEN 1 ELSE 0
Asks(req, r) == Wants(req["app"], r) + Wants(req["msg"], r)

\* Threads are about to ask router r, or it has been asked, or its answer has not been
\* handled yet.
UnderWay(req, bag, l, q, r) ==
    Asks(req, r) + Copies(bag, Lqi(r)) + Occurrences(l, Answer(r)) + Occurrences(q, Answer(r))

Under(m, req, bag, l, q) == [r \in Routers(m) |-> UnderWay(req, bag, l, q, r)]

-----------------------------------------------------------------------------
(* Which callbacks have not asked yet.                                     *)

\* Callbacks of router n on the stack that have not passed its neighbour k.
Before(m, n, k) == {c \in CallsOf(m) : c.node = n /\ c.next <= k}
Waiting(m, stack, n, k) == Members(stack, Before(m, n, k))

-----------------------------------------------------------------------------
(* Every request for a router is paid for by a response of the router that *)
(* lists it.                                                               *)

\* Callbacks of both threads.
Opened(c) == Len(c["app"]) + Len(c["msg"])
Open(m, c, n, k) == Waiting(m, c["app"], n, k) + Waiting(m, c["msg"], n, k)
Stacks(m, c) == DOMAIN c = Thread /\ \A t \in Thread : c[t] \in Seq(CallsOf(m))

\* Of the responses of router n, those not needed for what has been asked of its
\* neighbour r, and answered, are of callbacks that have not come to r yet.
Funded(p, m, past, u, c) ==
    \A r, n \in Routers(m) : \A k \in DOMAIN Page(m, n) :
        Names(p, Page(m, n)[k], r) =>
            u[r] + Occurrences(past, r) + Open(m, c, n, k) <= Occurrences(past, n)

\* Nothing is under way and no callback has begun.
AtRest(m, u, c) == c["app"] = <<>> /\ c["msg"] = <<>> /\ \A r \in Routers(m) : u[r] = 0

-----------------------------------------------------------------------------
(* Room for what was handled since nothing was under way.                  *)

UnderNow == Under(mesh, request, asked, line, queue)

\* The discovery before has ended, or none has begun.
Calm == pc["app"] \in {"console", "display"} \/ phase # "discover"

\* A discovery does not end in other places than the console and the loop.
PhaseInv ==
    phase = "discover" =>
        /\ pc["app"] \notin {"show", "get", "confirm", "confirmed"}
        /\ \A j \in DOMAIN calls["app"] :
              calls["app"][j].back \notin {"get", "confirm", "confirmed"}

\* The coordinator has been asked once more than message loops have ended too early, at
\* most.
AskedAgain(m, u, past, late) == u[Coordinator] + Occurrences(past, Coordinator) <= late

\* An entry is counted for each response at most, and none for a callback not at its end.
Account(past) ==
    /\ Nwk => Len(handled) <= Len(past)
    /\ program = "dataSendRcv" =>
          /\ nodeCount + Opened(calls) <= Len(past)
          /\ \A t \in Thread :
                pc[t] = "count" => calls[t][1].at + Opened(calls) <= Len(past) + 1

\* The responses handled since a discovery began with nothing under way.
Room(past) ==
    /\ past \in Seq(Found)
    /\ Funded(program, mesh, past, UnderNow, calls)
    /\ AskedAgain(mesh, UnderNow, past, 1 + slow)
    /\ Calm => AtRest(mesh, UnderNow, calls) \/ AskedAgain(mesh, UnderNow, past, slow)
    /\ Account(past)

RoomInv == Tree(program, mesh) => \E past : Room(past)

\* What else is known of every state.
Around == Chosen /\ ThreadsInv /\ NwkInv /\ StackInv /\ WireInv /\ BoundInv /\ PhaseInv

-----------------------------------------------------------------------------
(* Room in nodeList.                                                       *)

\* What holds of a discovery at all times.
DiscoveryInv == Around /\ SemInv /\ FlagInv /\ ListInv /\ RoomInv

\* On any network no more entries are counted than responses have been handled, while
\* one thread handles them.
CountInv ==
    Dsr /\ alone =>
        /\ calls["msg"] = <<>> /\ handled \in Seq(Routers(mesh))
        /\ nodeCount + Len(calls["app"]) <= Len(handled)
        /\ pc["app"] = "count" => calls["app"][1].at = nodeCount + 1

-----------------------------------------------------------------------------
(* dataSendRcv by itself: one thing is under way at a time.                *)

IsLqi(x) == x.kind = "lqi"

\* No element, and one at most, asks a router or answers for one.
NoLqi(s) == \A i \in DOMAIN s : ~IsLqi(s[i])
OneLqi(s) == \A i, j \in DOMAIN s : IsLqi(s[i]) /\ IsLqi(s[j]) => i = j
NoLqiAsked(bag) == \A x \in DOMAIN bag : ~IsLqi(x)
OneLqiAsked(bag) ==
    \A x, y \in DOMAIN bag : IsLqi(x) /\ IsLqi(y) => x = y /\ Copies(bag, x) = 1

\* Each SRSP is in front of the answer.
SrspFirst(s) == \A i, j \in DOMAIN s : s[i] = Srsp /\ IsLqi(s[j]) => i < j
HasSrsp(s) == \E i \in DOMAIN s : s[i] = Srsp

\* Nothing is left of a discovery.
Still ==
    /\ calls["app"] = <<>> /\ calls["msg"] = <<>>
    /\ \A t \in Thread : ~IsLqi(request[t])
    /\ NoLqiAsked(asked) /\ NoLqi(line) /\ NoLqi(queue)

\* If no message loop has ended too early, nothing is left when it has.
StillInv == Dsr /\ slow = 0 /\ Calm => Still

\* The conditions under which EntriesOwn is claimed of dataSendRcv.
Lone == Dsr /\ alone /\ ~Forks /\ slow = 0

\* The callback has a router to ask before it.
Ahead(c) ==
    \E i \in DOMAIN Page(mesh, c.node) :
        c.next <= i /\ Names(program, Page(mesh, c.node)[i], Page(mesh, c.node)[i].addr)

\* Where the one router is that the discovery is about: the callback of the one before has not
\* come to it, or it is about to be asked, or asked, or has answered; or nowhere.
Whereabouts == {"callback", "request", "asked", "line", "queue", "nowhere"}

TokenAt(where) ==
    /\ where # "callback" => \A j \in DOMAIN calls["app"] : ~Ahead(calls["app"][j])
    /\ where # "request" => ~IsLqi(request["app"])
    /\ IF where = "asked" THEN OneLqiAsked(asked) ELSE NoLqiAsked(asked)
    /\ IF where = "line" THEN OneLqi(line) ELSE NoLqi(line)
    /\ IF where = "queue" THEN OneLqi(queue) ELSE NoLqi(queue)

\* A fetch after a request finds the SRSP or nothing.
InTurn ==
    /\ SrspFirst(line)
    /\ held \/ HasSrsp(line) => NoLqi(queue)
    /\ srspSem > 0 \/ pc["app"] = "fetch" => held \/ (queue # <<>> /\ Head(queue) = Srsp)
    /\ pc["app"] = "send" /\ phase = "discover" => IsLqi(request["app"])

\* An entry has begun and is not counted yet.
Begun(stack) == IF stack # <<>> /\ stack[1].next # 0 THEN 1 ELSE 0

\* The list, and the callback that is at work on it.
ListedAt(p, m, stack, h, count, list) ==
    /\ Len(stack) <= 1
    /\ stack # <<>> => Shape(m, "callback", stack) /\ stack[1].at = count + 1
    /\ Entries(p, m, stack, h, count + Begun(stack), list)

\* A callback that counts its entry has filled it; a discovery begins with an empty list.
Ready(m, place, stack, h, count) ==
    /\ place = "count" => stack[1].next > Len(Page(m, stack[1].node))
    /\ place = "display" => h = <<>> /\ count = 0

Listing ==
    /\ ListedAt(program, mesh, calls["app"], handled, nodeCount, nodeList)
    /\ Ready(mesh, pc["app"], calls["app"], handled, nodeCount)

LoneInv ==
    Lone => /\ calls["msg"] = <<>>
            /\ \E where \in Whereabouts : TokenAt(where)
            /\ InTurn
            /\ Listing

\* What is said of the token and of the order in which it comes.
Flow ==
    /\ calls["msg"] = <<>>
    /\ \E where \in Whereabouts : TokenAt(where)
    /\ InTurn

-----------------------------------------------------------------------------
(* displayDevices asks every device once: what its discovery finds, ...    *)

\* The conditions under which EachDeviceAskedOnce is claimed.
Certain == Lone /\ losses = 0 /\ Tree(program, mesh)

\* Each router that will answer is asked once, as nwkTopology does; nothing that comes
\* after the discovery changes it.
AskedOnceInv ==
    Certain /\ rounds > 0 /\ pc["app"] # "display" =>
        /\ HandledFound
        /\ Balanced(program, mesh, pc["app"], request["app"], asked, line, queue, handled,
                    calls["app"])

-----------------------------------------------------------------------------
(* ... and how its cursor goes through what was found.                     *)

\* Child k of router n is the end device a.
EndAt(p, m, n, k, a) == Listed(p, m, n)[k].type = "end" /\ Listed(p, m, n)[k].addr = a

\* Device a has been asked when the cursor is at child c of entry i (0: at the router).
BeforeCursor(p, m, h, i, c, a) ==
    \/ \E j \in DOMAIN h : (j < i \/ (j = i /\ c > 0)) /\ h[j] = a
    \/ \E j \in DOMAIN h : \E k \in DOMAIN Listed(p, m, h[j]) :
          (j < i \/ (j = i /\ k < c)) /\ EndAt(p, m, h[j], k, a)

-----------------------------------------------------------------------------
(* The devices the cursor has passed are those that were asked.            *)

\* The devices asked are those the cursor has passed, each asked once if listed once.
ShownUpTo(p, m, h, s, i, c) ==
    /\ s \in Seq(Routers(m) \cup Addresses(m))
    /\ EndDevicesOnce(p, m) => Once(s)
    /\ \A a : (\E x \in DOMAIN s : s[x] = a) <=> BeforeCursor(p, m, h, i, c, a)

Displaying == phase # "discover" /\ pc["app"] # "display"

\* The parts of displayDevices follow each other.
PhaseFits ==
    /\ phase = "discover" \/ pc["app"] = "display" => shown = <<>>
    /\ pc["app"] = "console" /\ rounds > 0 => phase # "discover"
    /\ pc["app"] # "console" \/ phase # "discover" => rounds > 0
    /\ pc["app"] \in {"confirm", "confirmed"} => phase = "data"

\* The loop over the devices has come as far as its cursor, and to the end before the
\* console is seen again.
ShownSoFar ==
    Displaying => /\ ShownUpTo(program, mesh, handled, shown, cursor.node, cursor.child)
                  /\ phase = "data" \/ pc["app"] = "console" => cursor.node > nodeCount

ShownInv == Certain => PhaseFits /\ ShownSoFar
=============================================================================
