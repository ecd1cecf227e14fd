------------------------------ MODULE MtLayout ------------------------------
(***************************************************************************)
(* How the MT layer's functions are written down: a request function by    *)
(* the length it gives its buffer and the bytes each of its statements     *)
(* writes, a struct by its members, and a parser by the values it reads.   *)
(* Values themselves do not matter here, their widths and places do.       *)
(***************************************************************************)
EXTENDS Integers, Sequences, SequencesExt

\* A request: writes[i] is the number of bytes its i-th statement (or loop) adds
\* to cmd; waits is TRUE when it calls rpcWaitMqClientMsg after a successful send.
Sreq(cmdLen, writes) ==
    [type |-> "SREQ", cmdLen |-> cmdLen, writes |-> writes, waits |-> TRUE]

Areq(cmdLen, writes, waits) ==
    [type |-> "AREQ", cmdLen |-> cmdLen, writes |-> writes, waits |-> waits]

\* A call: the function, its parameters that the layout depends on, its layout.
Call(fn, args, req) == [fn |-> fn, args |-> args, req |-> req]

\* Members of a struct, and the statements of a parser that read them: a value
\* of w bytes, a list's length, a list of elements made of members of these widths
\* in an array of cap elements.
Field(w) == [kind |-> "field", widths |-> <<w>>, cap |-> 0]
Count(w) == [kind |-> "count", widths |-> <<w>>, cap |-> 0]
List(widths, cap) == [kind |-> "list", widths |-> widths, cap |-> cap]

\* Only members of the structs that requests are passed in: uint8_t[n].
Bytes(n) == [kind |-> "bytes", widths |-> <<n>>, cap |-> 0]

\* Only statements of parsers: a list whose elements' loops use one index for the
\* element and for the bytes of its addresses; a read that leaves msgIdx alone;
\* "if (rpcLen > n)", which covers all that follows.
OneIndexList(widths, cap) == [kind |-> "one index list", widths |-> widths, cap |-> cap]
Peek(w) == [kind |-> "peek", widths |-> <<w>>, cap |-> 0]
IfLonger(n) == [kind |-> "if longer", widths |-> <<>>, cap |-> n]

\* A parser: the struct it fills, n of its "if (rpcLen < n)", and what it reads.
Parser(struct, need, reads) == [struct |-> struct, need |-> need, reads |-> reads]

\* Where the compiler puts the members of a struct of bytes and 16-bit integers (the
\* request structs have no others).
SizeOf(member) ==
    member.widths[1] * (IF member.kind = "list" THEN member.cap ELSE 1)

Aligned(pos, member) ==
    IF member.kind # "bytes" /\ member.widths[1] = 2 THEN pos + (pos % 2) ELSE pos

Offsets(struct) ==
    LET end[i \in 0..Len(struct)] ==
            IF i = 0 THEN 0 ELSE Aligned(end[i - 1], struct[i]) + SizeOf(struct[i])
    IN [i \in DOMAIN struct |-> Aligned(end[i - 1], struct[i])]

SumOf(widths) ==
    LET sum[i \in 0..Len(widths)] == IF i = 0 THEN 0 ELSE sum[i - 1] + widths[i]
    IN sum[Len(widths)]

\* The lengths of a list that are tried: some small ones, a full array and one less.
UpTo(lengths, cap) == {n \in lengths : n < cap} \union {cap - 1, cap}
=============================================================================
