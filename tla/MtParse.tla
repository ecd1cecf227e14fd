------------------------------ MODULE MtParse ------------------------------
(***************************************************************************)
(* mtProcess and all below it: a frame that the RPC layer hands over is    *)
(* dispatched to its parser, which reads it value by value into a struct   *)
(* and calls the application back.                                         *)
(*                                                                         *)
(* The ZNP lays a message out as the members of the struct say, one after  *)
(* the other; it may also leave out what the parser reads only if the      *)
(* frame is longer (after an error, say).  rpcLen counts cmd0, cmd1, the   *)
(* payload and the FCS.                                                    *)
(***************************************************************************)
EXTENDS MtZdo, MtSys, MtAf, MtSapi

CONSTANTS ListLengths,   \* bound: lengths of the lists that the ZNP sends
          StaleValues    \* bound: what a count read outside the frame may be

ASSUME ParseBounds == ListLengths \subseteq Nat /\ StaleValues \subseteq Nat

Subsystems == {"ZDO", "SYS", "AF", "SAPI"}
MT_MAX_PAYLOAD == 250   \* what a frame of the ZNP can carry

\* The parsers of mtProcess's subsystems, by command.
Indications == [ZDO |-> ZdoIndications, SYS |-> SysIndications, AF |-> AfIndications,
                SAPI |-> SapiIndications]
Srsps == [ZDO |-> ZdoSrsps, SYS |-> SysSrsps, AF |-> AfSrsps, SAPI |-> SapiSrsps]
Table(type, sub) == IF type = "SRSP" THEN Srsps[sub] ELSE Indications[sub]

\* The callbacks of a subsystem's table, by the command they are for.  (mtZdoCb_t has
\* one more, for the concentrator indication, which zdoProcess does not know.)
Callbacks(sub) == DOMAIN Indications[sub] \union DOMAIN Srsps[sub]

----------------------------------------------------------------------------
\* Messages.  A byte of a payload is named by the value it belongs to: the member, the
\* element of a list, the member of the element.

CountPositions(struct) == {i \in DOMAIN struct : struct[i].kind = "count"}

\* The length of the list at position i is the count before it.
ListLength(struct, counts, i) == counts[Max({j \in CountPositions(struct) : j < i})]

\* The member of the element that each of its bytes belongs to.
Slots(widths) == FlattenSeq([s \in DOMAIN widths |-> [b \in 1..widths[s] |-> s]])

\* n elements at position i, the first of them element e.
ElementBytes(widths, i, e, n) ==
    LET slots == Slots(widths)
        size == Len(slots)
    IN [b \in 1..(n * size) |-> <<i, e + (b - 1) \div size, slots[((b - 1) % size) + 1]>>]

MemberBytes(struct, counts, i) ==
    ElementBytes(struct[i].widths, i, 0,
                 IF struct[i].kind = "list" THEN ListLength(struct, counts, i) ELSE 1)

Payload(struct, counts) ==
    FlattenSeq([i \in DOMAIN struct |-> MemberBytes(struct, counts, i)])

\* The position of a parser's "if (rpcLen > n)", which is 0 if it has none.
GuardAt(reads) == SelectInSeq(reads, LAMBDA r : r.kind = "if longer")

\* A frame carries the first size bytes of the payload that its counts give.
Frame(type, sub, cmd, counts, size) ==
    [type |-> type, sub |-> sub, cmd |-> cmd, counts |-> counts, size |-> size]

\* Lists as long as the arrays they go to and the frame allow.
Fullest(struct) ==
    LET fixed == Len(Payload(struct, [i \in CountPositions(struct) |-> 0]))
        room(list) == (MT_MAX_PAYLOAD - fixed) \div SumOf(list.widths)
    IN [i \in CountPositions(struct) |-> Min({struct[i + 1].cap, room(struct[i + 1])})]

\* No list is longer than its array, no message longer than a frame carries.
Sendable(struct, counts) ==
    /\ \A i \in CountPositions(struct) : counts[i] \in 0..struct[i + 1].cap
    /\ Len(Payload(struct, counts)) <= MT_MAX_PAYLOAD

Complete(type, sub, cmd) ==
    LET struct == Table(type, sub)[cmd].struct
        tried == [CountPositions(struct) -> ListLengths] \union {Fullest(struct)}
    IN {Frame(type, sub, cmd, c, Len(Payload(struct, c))) : c \in {d \in tried : Sendable(struct, d)}}

\* Without what comes after the parser's "if (rpcLen > n)".
Bare(type, sub, cmd) ==
    LET p == Table(type, sub)[cmd]
        zero == [i \in CountPositions(p.struct) |-> 0]
    IN IF GuardAt(p.reads) = 0 THEN {}
       ELSE {Frame(type, sub, cmd, zero,
                   Len(Payload(SubSeq(p.struct, 1, GuardAt(p.reads) - 1), zero)))}

Frames == UNION {
    UNION {Complete(k[1], k[2], cmd) \union Bare(k[1], k[2], cmd) : cmd \in DOMAIN Table(k[1], k[2])}
    : k \in {"AREQ", "SRSP"} \X Subsystems}
NoFrame == Frame("AREQ", "ZDO", "", <<>>, 0)

ParserOf(f) == Table(f.type, f.sub)[f.cmd]
RpcLen(f) == f.size + 3

----------------------------------------------------------------------------
VARIABLES pc,         \* "idle", "check", "read", or "callback"
          registered, \* commands whose callback is set
          frame,      \* the frame being processed
          step,       \* the parser's statement
          member,     \* the struct's member it fills
          msgIdx,     \* a uint8_t
          count,      \* the last count read
          element,    \* the list's element it fills
          warned,     \* MT_RPC_ERR_LENGTH was printed
          beyond,     \* something was read outside the payload
          strayed,    \* some value was read from other bytes than its own
          stored      \* <<member, element, index>>: where elements were put

parsing == <<step, member, msgIdx, count, element, warned, beyond, strayed, stored>>
vars == <<pc, registered, frame, parsing>>

Fresh == /\ step = 1 /\ member = 1 /\ msgIdx = 2 /\ count = 0 /\ element = 0
         /\ warned = FALSE /\ beyond = FALSE /\ strayed = FALSE /\ stored = {}

Init == /\ pc = "idle" /\ registered = {}
        /\ frame = NoFrame /\ Fresh

Reads == ParserOf(frame).reads

\* sysRegisterCallbacks and the others: the whole table of one subsystem is replaced.
RegisterCallbacks(sub, cmds) ==
    /\ pc = "idle"
    /\ registered' = (registered \ Callbacks(sub)) \union cmds
    /\ UNCHANGED <<pc, frame, parsing>>

\* mtProcess, the subsystem's process function and its processSrsp: the command's parser
\* runs if its callback is set; it does nothing otherwise.  (What becomes of srspRpcBuff
\* is in Rpc, and so is a frame that no parser is for.)
Process(f) ==
    /\ pc = "idle"
    /\ f.cmd \in registered
    /\ pc' = "check" /\ frame' = f
    /\ UNCHANGED <<registered, parsing>>

\* "if (rpcLen < n)": a warning and nothing else.
Check ==
    /\ pc = "check"
    /\ pc' = "read"
    /\ warned' = (RpcLen(frame) < ParserOf(frame).need)
    /\ UNCHANGED <<registered, frame, step, member, msgIdx, count, element,
                   beyond, strayed, stored>>

\* Reads values of these widths from msgIdx on, as element e of the current member.
\* Outside the payload are the FCS and what the buffer held before, and in front of it,
\* where an index that has wrapped leads, cmd0 and cmd1.
Read(widths, e) ==
    LET payload == Payload(ParserOf(frame).struct, frame.counts)
        own == ElementBytes(widths, member, e, 1)
        at(b) == msgIdx - 2 + b
        inside == {b \in DOMAIN own : at(b) \in 1..frame.size}
    IN /\ beyond' = (beyond \/ inside # DOMAIN own)
       /\ strayed' = (strayed \/ \E b \in inside : payload[at(b)] # own[b])

NextStep == step' = step + 1 /\ member' = member + 1 /\ element' = 0

Reading(kind) == /\ pc = "read" /\ step <= Len(Reads) /\ Reads[step].kind = kind
                 /\ UNCHANGED <<pc, registered, frame, warned>>

ReadField ==
    /\ Reading("field")
    /\ Read(Reads[step].widths, 0)
    /\ msgIdx' = (msgIdx + Reads[step].widths[1]) % 256
    /\ NextStep /\ UNCHANGED <<count, stored>>

ReadCount ==
    /\ Reading("count")
    /\ Read(Reads[step].widths, 0)
    /\ msgIdx' = (msgIdx + Reads[step].widths[1]) % 256
    /\ IF beyond' \/ strayed' THEN count' \in StaleValues ELSE count' = frame.counts[member]
    /\ NextStep /\ UNCHANGED stored

ReadOnly ==
    /\ Reading("peek")
    /\ Read(Reads[step].widths, 0)
    /\ NextStep /\ UNCHANGED <<msgIdx, count, stored>>

\* The indices that an element's values are put at.  With one index, the bytes of an
\* address go to the elements 0, 1, ... and the rest to the one after them.
Indices(list) == IF list.kind = "list" THEN {element} ELSE 0..list.widths[1]

\* Fault: "i <= count".
ReadElementOneMore(kind) ==
    /\ Reading(kind)
    /\ element <= count
    /\ Read(Reads[step].widths, element)
    /\ msgIdx' = (msgIdx + SumOf(Reads[step].widths)) % 256
    /\ stored' = stored \union {<<member, element, x>> : x \in Indices(Reads[step])}
    /\ element' = element + 1
    /\ UNCHANGED <<step, member, count>>

ReadElement(kind) ==
    /\ Reading(kind)
    /\ element < count
    /\ Read(Reads[step].widths, element)
    /\ msgIdx' = (msgIdx + SumOf(Reads[step].widths)) % 256
    /\ stored' = stored \union {<<member, element, x>> : x \in Indices(Reads[step])}
    /\ element' = element + 1
    /\ UNCHANGED <<step, member, count>>

EndOfList(kind) ==
    /\ Reading(kind)
    /\ element >= count
    /\ NextStep /\ UNCHANGED <<msgIdx, count, beyond, strayed, stored>>

\* "if (rpcLen > n)" skips all the rest.
TestLength ==
    /\ Reading("if longer")
    /\ step' = IF RpcLen(frame) > Reads[step].cap THEN step + 1 ELSE Len(Reads) + 1
    /\ UNCHANGED <<member, msgIdx, count, element, beyond, strayed, stored>>

CallBack ==
    /\ pc = "read" /\ step > Len(Reads)
    /\ pc' = "callback"
    /\ UNCHANGED <<registered, frame, parsing>>

\* The callback returns; the next parser has locals of its own.
Return ==
    /\ pc = "callback"
    /\ pc' = "idle" /\ frame' = NoFrame
    /\ step' = 1 /\ member' = 1 /\ msgIdx' = 2 /\ count' = 0 /\ element' = 0
    /\ warned' = FALSE /\ beyond' = FALSE /\ strayed' = FALSE /\ stored' = {}
    /\ UNCHANGED registered

Next == \/ \E sub \in Subsystems : \E cmds \in {{}, Callbacks(sub)} : RegisterCallbacks(sub, cmds)
        \/ \E f \in Frames : Process(f)
        \/ Check
        \/ ReadField
        \/ ReadCount
        \/ ReadOnly
        \/ \E kind \in {"list", "one index list"} : ReadElement(kind) \/ EndOfList(kind)
        \/ TestLength
        \/ CallBack
        \/ Return

Spec == Init /\ [][Next]_vars

----------------------------------------------------------------------------
\* A frame is one that the ZNP sends, what a parser fills is a member of its struct,
\* and its index is a byte.
TypeOK ==
    /\ pc \in {"idle", "check", "read", "callback"}
    /\ registered \subseteq UNION {Callbacks(sub) : sub \in Subsystems}
    /\ frame \in Frames \union {NoFrame}
    /\ pc = "read" => /\ step \in 1..(Len(Reads) + 1)
                      /\ member \in 1..(Len(ParserOf(frame).struct) + 1)
    /\ msgIdx \in 0..255 /\ count \in Nat /\ element \in 0..count
    /\ {warned, beyond, strayed} \subseteq BOOLEAN

\* A simple descriptor response that ends after Len: it is longer than 6 all the same,
\* with cmd0, cmd1 and the FCS counted, and the parser reads on.
ShortDescriptor == frame.cmd = "MT_ZDO_SIMPLE_DESC_RSP" /\ frame.size = 6

\* Every other parser has read nothing outside the payload when it calls back: a list
\* is as long as its count says, and a message without a list is not read as one with
\* (msgIdx and the tests of rpcLen in every parser of mtZdo.c, mtSys.c, mtAf.c, mtSapi.c);
\* and its index is always a byte and that of a member inside its struct.
ReadsInside == TypeOK /\ (pc = "callback" /\ ~ShortDescriptor => ~beyond)

\* Every value handed to a callback was read from its own bytes of the message, none
\* from a neighbour's, whatever lists come before it (the widths and the order of reads
\* in every parser against the members of its struct).  processMsgCbIncoming reads
\* NotUsed from the address before it; and behind a short descriptor msgIdx may wrap, and
\* a list go on with the first bytes of the message.
ReadsOwn ==
    pc = "callback" /\ ~ShortDescriptor /\ frame.cmd # "MT_ZDO_MSG_CB_INCOMING" => ~strayed

\* The i-th element of a list is stored as the i-th and inside the array (the list loops
\* of every parser).  The loops of processMgmtBindRsp share an index.
ElementsInPlace ==
    pc = "callback" /\ ~ShortDescriptor /\ frame.cmd # "MT_ZDO_MGMT_BIND_RSP" =>
        \A s \in stored : s[3] = s[2] /\ s[3] < ParserOf(frame).struct[s[1]].cap

\* A parser that calls back has taken its index exactly to the FCS: it has left no byte of
\* the message unread and taken none of the FCS (the msgIdx of every parser).
WholeMessage ==
    pc = "callback" /\ ~ShortDescriptor /\ frame.cmd # "MT_ZDO_MSG_CB_INCOMING" =>
        msgIdx = RpcLen(frame) - 1

\* No frame that holds all its parser reads is reported as MT_RPC_ERR_LENGTH, "invalid
\* length" (rpc.h): the constants the parsers compare rpcLen with leave room for empty
\* lists.
NoFalseAlarm == pc = "callback" /\ ~beyond => ~warned
=============================================================================
