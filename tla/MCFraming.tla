----------------------------- MODULE MCFraming -----------------------------
(* Framing with bytes of four bits: short frames, payloads that hold the   *)
(* start-of-frame byte or look like the head of a frame.                   *)
EXTENDS Framing, Bitwise

ByteXor(x, y) == x ^^ y

Commands12 == {<<1, 2>>}

\* Nothing, something like the head of a frame, and the longest payload.
Awkward == {<<>>, <<14, 0, 3>>, [i \in 1..10 |-> 14]}
=============================================================================
