------------------------------ MODULE Framing ------------------------------
(***************************************************************************)
(* The serial frames of rpcSendFrame and rpcProcess, byte by byte:         *)
(*                                                                         *)
(*      SOF | length | cmd0 | cmd1 | payload ... | FCS                     *)
(*                                                                         *)
(* with reads that return any part of what was asked for or fail, bytes    *)
(* that the line changes, and the uint8_t arithmetic of the code.  A byte  *)
(* has Base values (256 in the code); RPC_MAX_LEN is Base as well.  The    *)
(* sender is the ZNP, which lays its frames out as rpcSendFrame does.      *)
(***************************************************************************)
EXTENDS Integers, Sequences

CONSTANTS Base,        \* number of values of a uint8_t, a power of two
          SOF,         \* MT_RPC_SOF
          ExOr(_, _),   \* the exclusive or of two bytes
          Commands,    \* the <<cmd0, cmd1>> pairs that are sent
          Payloads,    \* the payloads that are sent
          MaxFrames,   \* bound: frames sent
          MaxDamaged,  \* bound: frames of which the line changes a byte
          MaxReadErrors,    \* bound: failing reads of a frame's body
          MaxHeaderErrors   \* bound: failing reads of a length byte

Byte == 0..(Base - 1)

ASSUME BaseSuffices == Base \in Nat /\ Base > 8 /\ SOF \in Byte
ASSUME XorOfBytes == \A x, y \in Byte : ExOr(x, y) \in Byte
ASSUME XorCancels == \A x, y, z \in Byte : /\ ExOr(x, z) = ExOr(y, z) => x = y
                                           /\ ExOr(z, x) = ExOr(z, y) => x = y
ASSUME CommandsOfTwoBytes == \A c \in Commands : c \in Seq(Byte) /\ Len(c) = 2
\* A payload is as long as a frame allows, and its length does not look like SOF
\* (0xFE, above the longest payload).
ASSUME PayloadsFit ==
    \A p \in Payloads : p \in Seq(Byte) /\ Len(p) <= Base - 6 /\ Len(p) # SOF

VARIABLES line,        \* bytes written and not read yet
          kept,        \* history: the bodies sent that the line left intact, in order
          damaged,     \* history: how many frames the line has changed
          misleading,  \* history: some body was damaged or holds a start of frame
          rxpc,        \* what rpcProcess reads next
          length,      \* the length byte
          left,        \* rpcTempLen: body bytes still to read
          body,        \* the bytes at rpcBuff[1] and after
          retries,     \* retryAttempts
          readErrors, headerErrors,   \* how much of the bounds is used
          delivered    \* what rpcProcess handed on, in order

sentVars == <<kept, damaged, misleading>>
vars == <<line, sentVars, rxpc, length, left, body, retries, readErrors, headerErrors, delivered>>

\* calcFcs: the exclusive or of the first bytes, their number a uint8_t.  result[i]
\* is the variable after i rounds of the loop.
Results(bytes, size) ==
    LET result[i \in 0..size] == IF i = 0 THEN 0 ELSE ExOr(result[i - 1], bytes[i])
    IN result

Fcs(bytes, size) == Results(bytes, size % Base)[size % Base]

\* What follows the length byte.
Body(cmd, payload) ==
    cmd \o payload \o <<Fcs(<<Len(payload)>> \o cmd \o payload, Len(payload) + 3)>>

\* rpcSendFrame writes its buffer up to a uint8_t number of bytes.
Frame(cmd, payload) ==
    SubSeq(<<SOF, Len(payload)>> \o Body(cmd, payload), 1, (Len(payload) + 5) % Base)

Init == /\ line = <<>>
        /\ kept = <<>> /\ damaged = 0 /\ misleading = FALSE
        /\ rxpc = "sof"
        /\ length = 0 /\ left = 0 /\ body = <<>>
        /\ retries = 0 /\ readErrors = 0 /\ headerErrors = 0
        /\ delivered = <<>>
-----------------------------------------------------------------------------
(* The other end of the line                                               *)

SendFrame ==
    /\ Len(kept) + damaged < MaxFrames
    /\ \E cmd \in Commands, payload \in Payloads :
          LET sent == Body(cmd, payload) IN
          /\ line' = line \o Frame(cmd, payload)
          /\ kept' = Append(kept, sent)
          /\ misleading' = (misleading \/ \E i \in DOMAIN sent : sent[i] = SOF)
    /\ UNCHANGED <<damaged, rxpc, length, left, body, retries, readErrors, headerErrors,
                   delivered>>

\* The line changes one byte after the length byte.
SendDamaged ==
    /\ Len(kept) + damaged < MaxFrames
    /\ damaged < MaxDamaged
    /\ \E cmd \in Commands, payload \in Payloads :
          LET frame == Frame(cmd, payload) IN
          \E i \in 3..Len(frame) : \E b \in Byte \ {frame[i]} :
             line' = line \o [frame EXCEPT ![i] = b]
    /\ damaged' = damaged + 1
    /\ misleading' = TRUE
    /\ UNCHANGED <<kept, rxpc, length, left, body, retries, readErrors, headerErrors, delivered>>

-----------------------------------------------------------------------------
(* rpcProcess                                                              *)

\* A byte that is not SOF is dropped: the next call looks at the next one.
ReadSof ==
    /\ rxpc = "sof"
    /\ line # <<>>
    /\ line' = Tail(line)
    /\ rxpc' = IF Head(line) = SOF THEN "length" ELSE "sof"
    /\ retries' = 0
    /\ UNCHANGED <<sentVars, length, left, body, readErrors, headerErrors, delivered>>

\* rpcLen += 3 is computed in a uint8_t.
ReadLength ==
    /\ rxpc = "length"
    /\ line # <<>>
    /\ line' = Tail(line)
    /\ length' = Head(line)
    /\ left' = (Head(line) + 3) % Base
    /\ body' = <<>>
    /\ rxpc' = IF left' = 0 THEN "check" ELSE "body"
    /\ UNCHANGED <<sentVars, retries, readErrors, headerErrors, delivered>>

\* A failing read of the length is not tried again: the frame is given up.
LengthError ==
    /\ rxpc = "length"
    /\ headerErrors < MaxHeaderErrors
    /\ headerErrors' = headerErrors + 1
    /\ rxpc' = "sof"
    /\ UNCHANGED <<line, sentVars, length, left, body, retries, readErrors, delivered>>

\* Fault: a short read is taken for the whole of what was asked for.
ReadBodyOnce ==
    /\ rxpc = "body"
    /\ \E n \in 1..left :
          /\ n <= Len(line)
          /\ line' = SubSeq(line, n + 1, Len(line))
          /\ body' = body \o SubSeq(line, 1, n)
          /\ left' = 0
    /\ rxpc' = "check"
    /\ UNCHANGED <<sentVars, length, retries, readErrors, headerErrors, delivered>>

ReadBody ==
    /\ rxpc = "body"
    /\ \E n \in 1..left :
          /\ n <= Len(line)
          /\ line' = SubSeq(line, n + 1, Len(line))
          /\ body' = body \o SubSeq(line, 1, n)
          /\ left' = left - n
    /\ rxpc' = IF left' = 0 THEN "check" ELSE "body"
    /\ UNCHANGED <<sentVars, length, retries, readErrors, headerErrors, delivered>>

\* Fault: one attempt fewer.
BodyErrorFourRetries ==
    /\ rxpc = "body"
    /\ readErrors < MaxReadErrors
    /\ readErrors' = readErrors + 1
    /\ retries' = retries + 1
    /\ rxpc' = IF retries < 4 THEN "body" ELSE "sof"
    /\ UNCHANGED <<line, sentVars, length, left, body, headerErrors, delivered>>

\* read returns -1, which rpcTransportRead makes Base - 1: seen as an error if
\* that is more than was asked for, and tried again five times.
BodyError ==
    /\ rxpc = "body"
    /\ left < Base - 1
    /\ readErrors < MaxReadErrors
    /\ readErrors' = readErrors + 1
    /\ retries' = retries + 1
    /\ rxpc' = IF retries < 5 THEN "body" ELSE "sof"
    /\ UNCHANGED <<line, sentVars, length, left, body, headerErrors, delivered>>

\* Fault: the check sequence is not compared.
CheckNothing ==
    /\ rxpc = "check"
    /\ delivered' = Append(delivered, body)
    /\ rxpc' = "sof"
    /\ UNCHANGED <<line, sentVars, length, left, body, retries, readErrors, headerErrors>>

\* The FCS is rpcBuff[length + 3]: the last byte of the body, or, for a length
\* byte whose sum wrapped, a byte behind the buffer, which can be anything.
CheckFcs ==
    /\ rxpc = "check"
    /\ \E fcs \in IF length + 3 < Base THEN {body[length + 3]} ELSE Byte :
          delivered' = IF fcs = Fcs(<<length>> \o body, length + 3)
                       THEN Append(delivered, body) ELSE delivered
    /\ rxpc' = "sof"
    /\ UNCHANGED <<line, sentVars, length, left, body, retries, readErrors, headerErrors>>

RxNext == ReadSof \/ ReadLength \/ LengthError \/ ReadBody \/ BodyError \/ CheckFcs

Next == SendFrame \/ SendDamaged \/ RxNext

Spec == Init /\ [][Next]_vars
-----------------------------------------------------------------------------
TypeOK ==
    /\ line \in Seq(Byte)
    /\ kept \in Seq(Seq(Byte)) /\ damaged \in Nat /\ misleading \in BOOLEAN
    /\ rxpc \in {"sof", "length", "body", "check"}
    /\ length \in Byte /\ left \in Byte
    /\ body \in Seq(Byte)
    /\ retries \in 0..6
    /\ readErrors \in Nat /\ headerErrors \in Nat
    /\ delivered \in Seq(Seq(Byte))

\* What follows a frame that was given up can be taken for the head of a frame, if a
\* body holds a start of frame or was damaged (and may hold one).
NoneGivenUp == headerErrors = 0 /\ readErrors <= 5
InStep == NoneGivenUp \/ ~misleading

(***************************************************************************)
(* While no read of a length byte fails and no frame runs out of retries,  *)
(* rpcProcess hands on exactly the frames the line left intact, in order   *)
(* and unchanged: however reads are cut, with up to five failing reads of  *)
(* a body, with payload bytes that look like a start of frame, and beside  *)
(* frames whose bytes changed.                                             *)
(***************************************************************************)
DeliversIntact ==
    NoneGivenUp => /\ Len(delivered) <= Len(kept)
                   /\ \A i \in DOMAIN delivered : delivered[i] = kept[i]

(***************************************************************************)
(* When everything sent has been read, the intact frames that are missing  *)
(* are those whose length byte could not be read and those whose body      *)
(* needed a sixth retry: a lost frame takes no later frame with it, as     *)
(* long as no byte of it is mistaken for a start of frame.                 *)
(***************************************************************************)
LossIsLocal ==
    (line = <<>> /\ rxpc = "sof" /\ InStep) =>
        Len(delivered) >= Len(kept) - headerErrors - (readErrors \div 6)

(***************************************************************************)
(* In step with the sender, rpcProcess writes and reads inside rpcBuff     *)
(* (a byte mistaken for a length may make rpcLen wrap); and its variables  *)
(* are bytes at all times, its retries at most 6.                          *)
(***************************************************************************)
InsideBuffer ==
    /\ TypeOK
    /\ (rxpc = "check" /\ InStep) => length + 3 < Base /\ Len(body) = length + 3
=============================================================================
