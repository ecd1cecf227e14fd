--------------------------- MODULE FramingProofs ---------------------------
(***************************************************************************)
(* The reading half of rpcProcess for every size of a byte, every set of   *)
(* commands and payloads that fit a frame, and any number of frames,       *)
(* damaged frames and failing reads: in step with the sender it reads      *)
(* inside its buffer, hands on the intact frames unchanged and in order,   *)
(* and loses no more frames than it gives up.                              *)
(*                                                                         *)
(* The argument marks every byte on the line with the frame it belongs to, *)
(* its place there, and the number of intact frames up to that one         *)
(* (Marked), and relates the variables of rpcProcess to the mark of the    *)
(* byte it has read last (InPlace).                                        *)
(***************************************************************************)
EXTENDS Framing, SequenceLemmas

-----------------------------------------------------------------------------
(* The frame check sequence.                                               *)

\* The results of calcFcs's loop, round by round: they exist, are bytes, and
\* are computed as Results says.
LEMMA ResultsComputed ==
    ASSUME NEW bytes \in Seq(Byte), NEW size \in Nat, size <= Len(bytes)
    PROVE  /\ Results(bytes, size)[0] = 0
           /\ \A i \in 1..size :
                 Results(bytes, size)[i] = ExOr(Results(bytes, size)[i - 1], bytes[i])
           /\ \A i \in 0..size : Results(bytes, size)[i] \in Byte
  <1> DEFINE Round(f, n) == [i \in 0..n |-> IF i = 0 THEN 0 ELSE ExOr(f[i - 1], bytes[i])]
             T == {n \in Nat : \E f : f = Round(f, n)}
             result == Results(bytes, size)
  <1>1. 0 \in T
    <2>1. [i \in 0..0 |-> 0] = Round([i \in 0..0 |-> 0], 0)
      OBVIOUS
    <2> QED
      BY <2>1
  <1>2. ASSUME NEW n \in Nat, n \in T PROVE n + 1 \in T
    <2>1. PICK f : f = Round(f, n)
      BY <1>2
    <2> DEFINE g == [i \in 0..(n + 1) |-> IF i <= n THEN f[i] ELSE ExOr(f[n], bytes[n + 1])]
    <2>2. \A i \in 0..(n + 1) : g[i] = Round(g, n + 1)[i]
      <3> SUFFICES ASSUME NEW i \in 0..(n + 1) PROVE g[i] = Round(g, n + 1)[i]
        OBVIOUS
      <3>1. CASE i = 0
        BY <2>1, <3>1
      <3>2. CASE i # 0 /\ i <= n
        <4>1. i - 1 \in 0..n /\ i \in 0..n
          BY <3>2
        <4>2. f[i] = ExOr(f[i - 1], bytes[i])
          BY <2>1, <3>2, <4>1
        <4> QED
          BY <3>2, <4>1, <4>2
      <3>3. CASE i = n + 1
        <4>1. i - 1 = n /\ i # 0 /\ ~(i <= n) /\ n \in 0..(n + 1)
          BY <3>3
        <4> QED
          BY <3>3, <4>1
      <3> QED
        BY <3>1, <3>2, <3>3
    <2> HIDE DEF g
    <2>3. g = Round(g, n + 1)
      BY <2>2 DEF g
    <2>4. n + 1 \in Nat
      OBVIOUS
    <2> HIDE DEF Round
    <2> QED
      BY <2>3, <2>4, Zenon
  <1>3. size \in T
    <2> HIDE DEF T
    <2>1. Nat \subseteq T
      BY <1>1, <1>2, SetInduction
    <2> QED
      BY <2>1
  <1>4. result = CHOOSE f : f = Round(f, size)
    BY DEF Results
  <1> HIDE DEF result
  <1>5. result = Round(result, size)
    BY <1>3, <1>4
  <1>6. result[0] = 0
    BY <1>5
  <1>7. ASSUME NEW i \in 1..size PROVE result[i] = ExOr(result[i - 1], bytes[i])
    <2>1. i \in 0..size /\ i # 0
      OBVIOUS
    <2> QED
      BY <1>5, <2>1
  <1>8. \A i \in 0..size : result[i] \in Byte
    <2> DEFINE B == {n \in Nat : n <= size => result[n] \in Byte}
    <2>1. 0 \in B
      BY <1>6, BaseSuffices DEF Byte
    <2>2. ASSUME NEW n \in Nat, n \in B PROVE n + 1 \in B
      <3> SUFFICES ASSUME n + 1 <= size PROVE result[n + 1] \in Byte
        OBVIOUS
      <3>1. n + 1 \in 1..size /\ (n + 1) - 1 = n /\ n + 1 \in DOMAIN bytes
        OBVIOUS
      <3>2. result[n + 1] = ExOr(result[n], bytes[n + 1])
        BY <1>7, <3>1
      <3>3. result[n] \in Byte /\ bytes[n + 1] \in Byte
        BY <2>2, <3>1
      <3> QED
        BY <3>2, <3>3, XorOfBytes
    <2> HIDE DEF B
    <2>3. Nat \subseteq B
      BY <2>1, <2>2, SetInduction
    <2> QED
      BY <2>3 DEF B
  <1> QED
    BY <1>6, <1>7, <1>8 DEF result

\* Sequences that agree on the bytes counted have the same check sequence.
LEMMA SameFcs ==
    ASSUME NEW p \in Seq(Byte), NEW q \in Seq(Byte), NEW size \in Nat, size < Base,
           size <= Len(p), size <= Len(q), \A i \in 1..size : p[i] = q[i]
    PROVE  Fcs(p, size) = Fcs(q, size) /\ Fcs(p, size) \in Byte
  <1> DEFINE P == Results(p, size)
             Q == Results(q, size)
             T == {n \in Nat : n <= size => P[n] = Q[n]}
  <1>1. P[0] = 0 /\ Q[0] = 0
    BY ResultsComputed
  <1>2. \A i \in 1..size : P[i] = ExOr(P[i - 1], p[i]) /\ Q[i] = ExOr(Q[i - 1], q[i])
    BY ResultsComputed
  <1>3. \A i \in 0..size : P[i] \in Byte
    BY ResultsComputed
  <1> HIDE DEF P, Q
  <1>4. ASSUME NEW n \in Nat, n \in T PROVE n + 1 \in T
    <2> SUFFICES ASSUME n + 1 <= size PROVE P[n + 1] = Q[n + 1]
      OBVIOUS
    <2>1. n + 1 \in 1..size /\ (n + 1) - 1 = n /\ P[n] = Q[n]
      BY <1>4
    <2> QED
      BY <1>2, <2>1
  <1>5. 0 \in T
    BY <1>1
  <1> HIDE DEF T
  <1>6. Nat \subseteq T
    BY <1>4, <1>5, SetInduction
  <1>7. P[size] = Q[size] /\ P[size] \in Byte
    BY <1>3, <1>6 DEF T
  <1>8. size % Base = size
    BY BaseSuffices, SMTT(60)
  <1> QED
    BY <1>7, <1>8 DEF Fcs, P, Q

\* One byte that differs among those counted gives another check sequence.
LEMMA OtherFcs ==
    ASSUME NEW p \in Seq(Byte), NEW q \in Seq(Byte), NEW size \in Nat, size < Base,
           size <= Len(p), size <= Len(q), NEW k \in 1..size, p[k] # q[k],
           \A i \in 1..size : i # k => p[i] = q[i]
    PROVE  Fcs(p, size) # Fcs(q, size)
  <1> DEFINE P == Results(p, size)
             Q == Results(q, size)
             T == {n \in Nat : n <= size => (P[n] = Q[n] <=> n < k)}
  <1>1. P[0] = 0 /\ Q[0] = 0
    BY ResultsComputed
  <1>2. \A i \in 1..size : P[i] = ExOr(P[i - 1], p[i]) /\ Q[i] = ExOr(Q[i - 1], q[i])
    BY ResultsComputed
  <1>3. \A i \in 0..size : P[i] \in Byte /\ Q[i] \in Byte
    BY ResultsComputed
  <1> HIDE DEF P, Q
  <1>4. ASSUME NEW n \in Nat, n \in T PROVE n + 1 \in T
    <2> SUFFICES ASSUME n + 1 <= size PROVE P[n + 1] = Q[n + 1] <=> n + 1 < k
      OBVIOUS
    <2>1. n + 1 \in 1..size /\ (n + 1) - 1 = n /\ n \in 0..size /\ (P[n] = Q[n] <=> n < k)
      BY <1>4
    <2>2. P[n + 1] = ExOr(P[n], p[n + 1]) /\ Q[n + 1] = ExOr(Q[n], q[n + 1])
      BY <1>2, <2>1
    <2>3. P[n] \in Byte /\ Q[n] \in Byte /\ p[n + 1] \in Byte /\ q[n + 1] \in Byte
      BY <1>3, <2>1
    <2>4. CASE n + 1 < k
      BY <2>1, <2>2, <2>4
    <2>5. CASE n + 1 = k
      <3>1. P[n] = Q[n] /\ p[n + 1] # q[n + 1]
        BY <2>1, <2>5
      <3> QED
        BY <2>2, <2>3, <2>5, <3>1, XorCancels
    <2>6. CASE n + 1 > k
      <3>1. P[n] # Q[n] /\ p[n + 1] = q[n + 1]
        BY <2>1, <2>6
      <3> QED
        BY <2>2, <2>3, <2>6, <3>1, XorCancels
    <2> QED
      BY <2>4, <2>5, <2>6
  <1>5. 0 \in T
    BY <1>1
  <1> HIDE DEF T
  <1>6. Nat \subseteq T
    BY <1>4, <1>5, SetInduction
  <1>7. P[size] # Q[size]
    BY <1>6 DEF T
  <1>8. size % Base = size
    BY BaseSuffices
  <1> QED
    BY <1>7, <1>8 DEF Fcs, P, Q

-----------------------------------------------------------------------------
(* Where rpcProcess is among the bytes sent.                               *)

\* The mark of a byte: what follows the length byte in its frame, its place in the
\* frame, and how many of the frames up to this one the line left intact.
Mark == [wire : Seq(Byte), place : Nat \ {0}, rank : Nat]

LastPlace(m) == Len(m.wire) + 2

ByteOf(m) == IF m.place = 1 THEN SOF
             ELSE IF m.place = 2 THEN Len(m.wire) - 3
             ELSE m.wire[m.place - 2]

\* The last byte is the check sequence of those before it.
Good(wire) == wire[Len(wire)] = Fcs(<<Len(wire) - 3>> \o wire, Len(wire))

OfFrame(m, sent, mislead) ==
    /\ Len(m.wire) >= 3 /\ Len(m.wire) <= Base - 3 /\ Len(m.wire) - 3 # SOF
    /\ m.place <= LastPlace(m)
    /\ Good(m.wire) => m.rank \in DOMAIN sent /\ m.wire = sent[m.rank]
    /\ ~mislead => Good(m.wire) /\ \A i \in DOMAIN m.wire : m.wire[i] # SOF

Follows(m, next) ==
    IF m.place < LastPlace(m)
    THEN next.wire = m.wire /\ next.rank = m.rank /\ next.place = m.place + 1
    ELSE next.place = 1 /\ next.rank = m.rank + (IF Good(next.wire) THEN 1 ELSE 0)

\* chain[1] marks the byte that was read last, the others those on the line.
Marked(bytes, chain, sent, mislead) ==
    /\ chain \in Seq(Mark) /\ Len(chain) = Len(bytes) + 1
    /\ \A i \in DOMAIN chain : chain[i].rank <= Len(sent)
    /\ \A i \in DOMAIN chain : i > 1 => /\ OfFrame(chain[i], sent, mislead)
                                        /\ bytes[i - 1] = ByteOf(chain[i])
                                        /\ Follows(chain[i - 1], chain[i])
    /\ LET end == chain[Len(chain)] IN
          end.place = LastPlace(end) /\ end.rank = Len(sent)

\* The variables of rpcProcess and the byte it has read last.
InPlace(m) ==
    /\ (rxpc = "sof" /\ NoneGivenUp) => m.place = LastPlace(m)
    /\ rxpc # "sof" => OfFrame(m, kept, misleading)
    /\ rxpc = "length" => m.place = 1
    /\ rxpc \in {"body", "check"} =>
          /\ length = Len(m.wire) - 3
          /\ Len(body) + left = Len(m.wire)
          /\ m.place = Len(body) + 2
          /\ \A i \in DOMAIN body : body[i] = m.wire[i]
    /\ rxpc = "check" => left = 0

\* The intact frames rpcProcess is done with.
Handled(m) == IF rxpc # "sof" /\ Good(m.wire) THEN m.rank - 1 ELSE m.rank

\* Six failing reads for every frame given up for want of retries.
Counted(m, lost) ==
    /\ Len(delivered) >= Handled(m) - headerErrors - lost
    /\ 6 * lost + (IF rxpc = "body" THEN retries ELSE 0) <= readErrors
    /\ NoneGivenUp => /\ Len(delivered) = Handled(m)
                      /\ \A i \in DOMAIN delivered : delivered[i] = kept[i]

RetriesBounded == /\ rxpc = "length" => retries = 0
                  /\ rxpc = "body" => retries <= 5 /\ left > 0

\* chain marks the bytes, and lost frames have been given up.
Tracked(chain, lost) ==
    /\ Marked(line, chain, kept, misleading)
    /\ InPlace(chain[1])
    /\ Counted(chain[1], lost)

\* The inductive invariant.
FramingInv ==
    /\ TypeOK
    /\ RetriesBounded
    /\ InStep => \E chain \in Seq(Mark), lost \in Nat : Tracked(chain, lost)

\* r is p and q, sequences over S of lengths m and k, one after the other.
Joins(r, p, m, q, k, S) ==
    /\ r \in Seq(S) /\ Len(r) = m + k
    /\ \A i \in 1..m : r[i] = p[i]
    /\ \A i \in (m + 1)..(m + k) : r[i] = q[i - m]

\* Concatenation, by place.
LEMMA Joined ==
    ASSUME NEW S, NEW p \in Seq(S), NEW q \in Seq(S)
    PROVE  Joins(p \o q, p, Len(p), q, Len(q), S)
  <1>1. p \o q \in Seq(S) /\ Len(p \o q) = Len(p) + Len(q)
    OBVIOUS
  <1>2. \A i \in 1..(Len(p) + Len(q)) :
           (p \o q)[i] = IF i <= Len(p) THEN p[i] ELSE q[i - Len(p)]
    OBVIOUS
  <1>3. Len(p) \in Nat /\ Len(q) \in Nat
    OBVIOUS
  <1>4. /\ \A i \in 1..Len(p) : (p \o q)[i] = p[i]
        /\ \A i \in (Len(p) + 1)..(Len(p) + Len(q)) : (p \o q)[i] = q[i - Len(p)]
    BY <1>2, <1>3
  <1> QED
    BY <1>1, <1>4 DEF Joins

\* A frame is laid out as marked, and its check sequence is right.
LEMMA FrameBytes ==
    ASSUME NEW cmd \in Commands, NEW payload \in Payloads
    PROVE  LET wire == Body(cmd, payload)
               frame == Frame(cmd, payload)
           IN /\ wire \in Seq(Byte) /\ Good(wire)
              /\ Len(wire) >= 3 /\ Len(wire) <= Base - 3 /\ Len(wire) - 3 # SOF
              /\ frame \in Seq(Byte) /\ Len(frame) = Len(wire) + 2
              /\ frame[1] = SOF /\ frame[2] = Len(wire) - 3
              /\ \A i \in DOMAIN wire : frame[i + 2] = wire[i]
  <1> DEFINE n == Len(payload)
             front == <<n>> \o cmd \o payload
             fcs == Fcs(front, n + 3)
             wire == cmd \o payload \o <<fcs>>
             whole == <<SOF, n>> \o wire
  <1>18. cmd \in Seq(Byte) /\ payload \in Seq(Byte)
    BY CommandsOfTwoBytes, PayloadsFit
  <1>1. /\ cmd \in Seq(Byte) /\ Len(cmd) = 2
        /\ payload \in Seq(Byte) /\ n \in Nat /\ n <= Base - 6 /\ n # SOF
    BY CommandsOfTwoBytes, PayloadsFit
  <1>2. n \in Byte /\ Base \in Nat /\ SOF \in Byte
    BY <1>1, BaseSuffices DEF Byte
  <1> DEFINE one == <<n>>
             head == one \o cmd
             tail == cmd \o payload
             r == one \o wire
  <1>17. one \in Seq(Byte) /\ Len(one) = 1 /\ one[1] = n
    BY <1>2
  <1>3. /\ head \in Seq(Byte) /\ Len(head) = 3 /\ head[1] = n
        /\ \A i \in 2..3 : head[i] = cmd[i - 1]
    <2> HIDE DEF n, one
    <2>1. Joins(head, one, 1, cmd, 2, Byte)
      BY <1>1, <1>17, Joined
    <2> HIDE DEF head
    <2> QED
      BY <1>17, <2>1 DEF Joins
  <1>4. /\ front \in Seq(Byte) /\ Len(front) = 3 + n /\ front[1] = n
        /\ \A i \in 2..3 : front[i] = cmd[i - 1]
        /\ \A i \in 4..(n + 3) : front[i] = payload[i - 3]
    <2>1. front = head \o payload /\ Len(payload) = n
      OBVIOUS
    <2> HIDE DEF head, front, n
    <2>2. Joins(front, head, 3, payload, n, Byte)
      BY <1>1, <1>3, <2>1, Joined
    <2> QED
      BY <1>1, <1>3, <2>2 DEF Joins
  <1>5. fcs \in Byte
    <2>1. n + 3 \in Nat /\ n + 3 < Base
      BY <1>1, <1>2
    <2>2. n + 3 <= Len(front)
      BY <1>1, <1>4
    <2> HIDE DEF n, front
    <2> QED
      BY <1>4, <2>1, <2>2, SameFcs
  <1> HIDE DEF fcs
  <1>6. /\ wire \in Seq(Byte) /\ Len(wire) = n + 3 /\ wire[n + 3] = fcs
        /\ \A i \in 1..2 : wire[i] = cmd[i]
        /\ \A i \in 3..(n + 2) : wire[i] = payload[i - 2]
    <2> DEFINE last == <<fcs>>
    <2>1. Len(payload) = n /\ wire = tail \o last
      OBVIOUS
    <2>2. last \in Seq(Byte) /\ Len(last) = 1 /\ last[1] = fcs
      BY <1>5
    <2> HIDE DEF n, wire, last
    <2>3. Joins(tail, cmd, 2, payload, n, Byte)
      BY <1>1, <2>1, Joined
    <2> HIDE DEF tail
    <2>4. /\ tail \in Seq(Byte) /\ Len(tail) = n + 2
          /\ \A i \in 1..2 : tail[i] = cmd[i]
          /\ \A i \in 3..(n + 2) : tail[i] = payload[i - 2]
      BY <1>1, <2>3 DEF Joins
    <2>5. Joins(wire, tail, n + 2, last, 1, Byte)
      BY <2>1, <2>2, <2>4, Joined
    <2>6. /\ wire \in Seq(Byte) /\ Len(wire) = n + 3
          /\ \A i \in 1..(n + 2) : wire[i] = tail[i]
          /\ wire[n + 3] = last[1]
      BY <1>1, <2>5 DEF Joins
    <2> QED
      BY <1>1, <2>2, <2>4, <2>6
  <1>7. /\ r \in Seq(Byte) /\ Len(r) = n + 4
        /\ \A i \in 1..(n + 3) : front[i] = r[i]
    <2> HIDE DEF front, wire, n, one
    <2>2. Joins(r, one, 1, wire, n + 3, Byte)
      BY <1>6, <1>17, Joined
    <2> HIDE DEF r
    <2>3. /\ r \in Seq(Byte) /\ Len(r) = n + 4 /\ r[1] = n
          /\ \A i \in 2..(n + 4) : r[i] = wire[i - 1]
      BY <1>1, <1>17, <2>2 DEF Joins
    <2>4. \A i \in 2..3 : r[i] = cmd[i - 1]
      BY <1>1, <1>6, <2>3
    <2>5. \A i \in 4..(n + 3) : r[i] = payload[i - 3]
      <3> SUFFICES ASSUME NEW i \in 4..(n + 3) PROVE r[i] = payload[i - 3]
        OBVIOUS
      <3>1. i - 1 \in 3..(n + 2) /\ (i - 1) - 2 = i - 3 /\ i \in 2..(n + 4)
        BY <1>1
      <3> QED
        BY <1>6, <2>3, <3>1
    <2> QED
      BY <1>1, <1>4, <2>3, <2>4, <2>5
  <1>8. Good(wire)
    <2>1. n + 3 \in Nat /\ n + 3 < Base
      BY <1>1, <1>2
    <2>2. Len(wire) - 3 = n
      BY <1>1, <1>6
    <2>3. <<n>> \o wire = r
      OBVIOUS
    <2>4. n + 3 <= Len(front) /\ n + 3 <= Len(r)
      BY <1>1, <1>4, <1>7
    <2> HIDE DEF n, front, wire, r
    <2>5. Fcs(front, n + 3) = Fcs(r, n + 3)
      BY <1>4, <1>7, <2>1, <2>4, SameFcs
    <2> QED
      BY <1>6, <2>2, <2>3, <2>5 DEF Good, fcs
  <1>9. whole \in Seq(Byte) /\ Len(whole) = n + 5
    BY <1>2, <1>6
  <1>10. whole[1] = SOF /\ whole[2] = n /\ \A i \in DOMAIN wire : whole[i + 2] = wire[i]
    <2>1. <<SOF, n>> \in Seq(Byte) /\ Len(<<SOF, n>>) = 2 /\ <<SOF, n>>[1] = SOF /\ <<SOF, n>>[2] = n
      BY <1>2
    <2> HIDE DEF n, wire
    <2> QED
      BY <1>6, <2>1
  <1>11. (n + 5) % Base = n + 5
    BY <1>1, <1>2, SMTT(60)
  <1>12. Body(cmd, payload) = wire
    BY DEF Body, fcs
  <1>13. Frame(cmd, payload) = whole
    <2> HIDE DEF wire
    <2>1. Frame(cmd, payload) = SubSeq(whole, 1, n + 5)
      BY <1>11, <1>12 DEF Frame
    <2> HIDE DEF whole, n
    <2> QED
      BY <1>9, <2>1, <1>1
  <1> HIDE DEF whole, wire, r
  <1>14. Len(wire) - 3 = n /\ Len(wire) + 2 = n + 5
    BY <1>1, <1>6
  <1> QED
    BY <1>1, <1>2, <1>6, <1>8, <1>9, <1>10, <1>12, <1>13, <1>14

\* One byte that differs makes the check sequence wrong.
LEMMA DamageShows ==
    ASSUME NEW wire \in Seq(Byte), Len(wire) >= 3, Len(wire) <= Base - 3, Good(wire),
           NEW k \in DOMAIN wire, NEW b \in Byte, b # wire[k]
    PROVE  ~Good([wire EXCEPT ![k] = b])
  <1> DEFINE n == Len(wire)
             other == [wire EXCEPT ![k] = b]
             p == <<n - 3>> \o wire
             q == <<n - 3>> \o other
  <1>1. Base \in Nat /\ n \in Nat /\ n - 3 \in Byte
    BY BaseSuffices DEF Byte
  <1>2. other \in Seq(Byte) /\ Len(other) = n /\ other[k] = b
    OBVIOUS
  <1>3. \A i \in DOMAIN wire : i # k => other[i] = wire[i]
    OBVIOUS
  <1> HIDE DEF other
  <1>4. p \in Seq(Byte) /\ q \in Seq(Byte) /\ Len(p) = n + 1 /\ Len(q) = n + 1
    BY <1>1, <1>2
  <1>5. \A i \in 1..n : p[i + 1] = wire[i] /\ q[i + 1] = other[i]
    BY <1>1, <1>2
  <1>6. p[1] = n - 3 /\ q[1] = n - 3
    BY <1>1, <1>2
  <1>7. wire[n] = Fcs(p, n)
    BY DEF Good
  <1>8. Good(other) <=> other[n] = Fcs(q, n)
    BY <1>2 DEF Good
  <1> HIDE DEF n, p, q
  <1>9. k \in 1..n /\ n < Base /\ DOMAIN wire = 1..n
    BY <1>1 DEF n
  <1>10. CASE k = n
    <2>1. \A i \in 1..n : p[i] = q[i]
      <3> SUFFICES ASSUME NEW i \in 1..n PROVE p[i] = q[i]
        OBVIOUS
      <3>1. CASE i = 1
        BY <1>6, <3>1
      <3>2. CASE i # 1
        <4>1. i - 1 \in 1..n /\ (i - 1) + 1 = i /\ i - 1 # k
          BY <1>1, <1>10, <3>2
        <4> QED
          BY <1>3, <1>5, <1>9, <4>1
      <3> QED
        BY <3>1, <3>2
    <2>2. Fcs(p, n) = Fcs(q, n)
      BY <1>1, <1>4, <1>9, <2>1, SameFcs, SMTT(60)
    <2> QED
      BY <1>2, <1>7, <1>8, <1>10, <2>2 DEF other
  <1>11. CASE k < n
    <2>1. k + 1 \in 1..n
      BY <1>1, <1>9, <1>11
    <2>2. p[k + 1] # q[k + 1]
      BY <1>2, <1>5, <1>9
    <2>3. \A i \in 1..n : i # k + 1 => p[i] = q[i]
      <3> SUFFICES ASSUME NEW i \in 1..n, i # k + 1 PROVE p[i] = q[i]
        OBVIOUS
      <3>1. CASE i = 1
        BY <1>6, <3>1
      <3>2. CASE i # 1
        <4>1. i - 1 \in 1..n /\ (i - 1) + 1 = i /\ i - 1 # k
          BY <1>1, <1>9, <3>2
        <4> QED
          BY <1>3, <1>5, <1>9, <4>1
      <3> QED
        BY <3>1, <3>2
    <2>4. Fcs(p, n) # Fcs(q, n)
      <3>1. n <= Len(p) /\ n <= Len(q)
        BY <1>1, <1>4
      <3> QED
        BY <1>1, <1>4, <1>9, <2>1, <2>2, <2>3, <3>1, OtherFcs
    <2>5. other[n] = wire[n]
      BY <1>1, <1>3, <1>9, <1>11
    <2> QED
      BY <1>7, <1>8, <2>4, <2>5 DEF other
  <1> QED
    BY <1>1, <1>9, <1>10, <1>11

-----------------------------------------------------------------------------
(* The marks as bytes are read and written.                                *)

\* r is what is left of s behind its first n elements.
Left(r, s, n, S) ==
    /\ r \in Seq(S) /\ Len(r) = Len(s) - n
    /\ \A i \in 1..(Len(s) - n) : r[i] = s[n + i]

\* The rest of a sequence, by place.
LEMMA RestOf ==
    ASSUME NEW S, NEW s \in Seq(S), NEW n \in Nat, n <= Len(s)
    PROVE  Left(SubSeq(s, n + 1, Len(s)), s, n, S)
  <1>1. Len(s) \in Nat /\ \A i \in 1..Len(s) : s[i] \in S
    OBVIOUS
  <1>2. SubSeq(s, n + 1, Len(s)) = [i \in 1..(Len(s) - n) |-> s[n + i]]
    <2>1. SubSeq(s, n + 1, Len(s)) = [i \in 1..(1 + Len(s) - (n + 1)) |-> s[i + (n + 1) - 1]]
      OBVIOUS
    <2>2. 1 + Len(s) - (n + 1) = Len(s) - n
      BY <1>1
    <2>3. \A i \in 1..(Len(s) - n) : i + (n + 1) - 1 = n + i
      BY <1>1
    <2> QED
      BY <2>1, <2>2, <2>3
  <1> DEFINE r == SubSeq(s, n + 1, Len(s))
             m == Len(s) - n
  <1>3. m \in Nat /\ \A i \in 1..m : n + i \in 1..Len(s)
    BY <1>1
  <1>4. r = [i \in 1..m |-> s[n + i]]
    BY <1>2
  <1> HIDE DEF r, m
  <1>5. \A i \in 1..m : s[n + i] \in S
    BY <1>1, <1>3
  <1>6. r \in Seq(S)
    BY <1>3, <1>4, <1>5
  <1>7. Len(r) = m /\ \A i \in 1..m : r[i] = s[n + i]
    BY <1>3, <1>4
  <1> QED
    BY <1>6, <1>7 DEF Left, r, m

\* As bytes are read, the marks move on.
LEMMA ReadOn ==
    ASSUME NEW bytes \in Seq(Byte), NEW chain \in Seq(Mark), NEW sent, NEW mislead,
           Marked(bytes, chain, sent, mislead),
           NEW n \in Nat, n <= Len(bytes), NEW rest, Left(rest, bytes, n, Byte)
    PROVE  \E later \in Seq(Mark) : Marked(rest, later, sent, mislead) /\ later[1] = chain[n + 1]
  <1>1. Len(chain) = Len(bytes) + 1 /\ Len(bytes) \in Nat /\ Len(chain) \in Nat
    BY DEF Marked
  <1> DEFINE later == SubSeq(chain, n + 1, Len(chain))
             m == Len(bytes) - n
  <1>3. n <= Len(chain)
    BY <1>1
  <1>4. Left(later, chain, n, Mark)
    BY <1>3, RestOf
  <1>5. m \in Nat /\ Len(chain) - n = m + 1
    BY <1>1
  <1> HIDE DEF later
  <1>6. Len(rest) = m /\ \A i \in 1..m : rest[i] = bytes[n + i]
    BY DEF Left
  <1>7. later \in Seq(Mark) /\ Len(later) = m + 1 /\ \A i \in 1..(m + 1) : later[i] = chain[n + i]
    BY <1>4, <1>5 DEF Left
  <1>8. DOMAIN later = 1..(m + 1) /\ DOMAIN chain = 1..Len(chain)
    BY <1>7
  <1>9. \A i \in DOMAIN later : n + i \in DOMAIN chain /\ later[i] = chain[n + i]
    BY <1>1, <1>5, <1>7, <1>8
  <1>10. later[1] = chain[n + 1]
    BY <1>5, <1>7
  <1>11. later[Len(later)] = chain[Len(chain)]
    <2>1. n + (m + 1) = Len(chain) /\ m + 1 \in 1..(m + 1)
      BY <1>1, <1>5
    <2> QED
      BY <1>7, <2>1
  <1>12. \A i \in DOMAIN later : later[i].rank <= Len(sent)
    BY <1>9 DEF Marked
  <1>13. ASSUME NEW i \in DOMAIN later, i > 1
         PROVE  /\ OfFrame(later[i], sent, mislead)
                /\ rest[i - 1] = ByteOf(later[i])
                /\ Follows(later[i - 1], later[i])
    <2>1. i \in Nat /\ i - 1 \in DOMAIN later /\ i - 1 \in 1..m /\ n + (i - 1) = (n + i) - 1 /\ n + i > 1
      BY <1>5, <1>8, <1>13
    <2>2. n + i \in DOMAIN chain /\ later[i] = chain[n + i] /\ later[i - 1] = chain[n + (i - 1)]
      BY <1>9, <2>1
    <2>3. rest[i - 1] = bytes[n + (i - 1)]
      BY <1>6, <2>1
    <2>4. /\ OfFrame(chain[n + i], sent, mislead)
          /\ bytes[(n + i) - 1] = ByteOf(chain[n + i])
          /\ Follows(chain[(n + i) - 1], chain[n + i])
      BY <2>1, <2>2 DEF Marked
    <2> QED
      BY <2>1, <2>2, <2>3, <2>4
  <1>14. LET end == later[Len(later)] IN end.place = LastPlace(end) /\ end.rank = Len(sent)
    BY <1>11 DEF Marked
  <1>15. Len(later) = Len(rest) + 1
    BY <1>6, <1>7
  <1>16. Marked(rest, later, sent, mislead)
    <2> HIDE DEF m
    <2> QED
      BY <1>7, <1>12, <1>13, <1>14, <1>15 DEF Marked
  <1> QED
    BY <1>7, <1>10, <1>16

\* The bytes up to the last place of a frame are those of the frame.
LEMMA WithinFrame ==
    ASSUME NEW bytes \in Seq(Byte), NEW chain \in Seq(Mark), NEW sent, NEW mislead,
           Marked(bytes, chain, sent, mislead),
           NEW n \in Nat, n <= Len(bytes), chain[1].place + n <= LastPlace(chain[1])
    PROVE  \A i \in 0..n : /\ chain[i + 1].wire = chain[1].wire
                           /\ chain[i + 1].rank = chain[1].rank
                           /\ chain[i + 1].place = chain[1].place + i
                           /\ i > 0 => bytes[i] = ByteOf(chain[i + 1])
  <1>1. Len(chain) = Len(bytes) + 1 /\ Len(bytes) \in Nat /\ DOMAIN chain = 1..Len(chain)
    BY DEF Marked
  <1>2. \A i \in DOMAIN chain : i > 1 => /\ bytes[i - 1] = ByteOf(chain[i])
                                         /\ Follows(chain[i - 1], chain[i])
    BY DEF Marked
  <1>3. 1 \in DOMAIN chain
    BY <1>1
  <1>4. chain[1] \in Mark
    BY <1>3
  <1>5. chain[1].place \in Nat /\ LastPlace(chain[1]) \in Nat
    BY <1>4 DEF Mark, LastPlace
  <1> DEFINE first == chain[1].place
             last == LastPlace(chain[1])
             AsFirst(i) == /\ chain[i + 1].wire = chain[1].wire
                           /\ chain[i + 1].rank = chain[1].rank
                           /\ chain[i + 1].place = first + i
             T == {i \in Nat : i <= n => AsFirst(i)}
  <1>6. 0 \in T
    BY <1>5
  <1>7. ASSUME NEW i \in Nat, i \in T PROVE i + 1 \in T
    <2> SUFFICES ASSUME i + 1 <= n PROVE AsFirst(i + 1)
      OBVIOUS
    <2>1. (i + 1) + 1 \in DOMAIN chain /\ (i + 1) + 1 > 1 /\ ((i + 1) + 1) - 1 = i + 1
      BY <1>1
    <2>2. Follows(chain[i + 1], chain[(i + 1) + 1])
      BY <1>2, <2>1
    <2>3. AsFirst(i)
      BY <1>7
    <2>4. LastPlace(chain[i + 1]) = last
      BY <2>3 DEF LastPlace
    <2>5. first + i < last
      BY <1>5, SMTT(60)
    <2>6. (first + i) + 1 = first + (i + 1)
      BY <1>5, SMTT(60)
    <2> HIDE DEF first, last
    <2>7. /\ chain[(i + 1) + 1].wire = chain[i + 1].wire
          /\ chain[(i + 1) + 1].rank = chain[i + 1].rank
          /\ chain[(i + 1) + 1].place = chain[i + 1].place + 1
      BY <2>2, <2>3, <2>4, <2>5 DEF Follows
    <2> QED
      BY <2>3, <2>6, <2>7
  <1> HIDE DEF T
  <1>8. Nat \subseteq T
    BY <1>6, <1>7, SetInduction
  <1>9. ASSUME NEW i \in 0..n PROVE AsFirst(i)
    BY <1>8 DEF T
  <1>10. ASSUME NEW i \in 0..n, i > 0 PROVE bytes[i] = ByteOf(chain[i + 1])
    <2>1. i + 1 \in DOMAIN chain /\ i + 1 > 1 /\ (i + 1) - 1 = i
      BY <1>1, <1>10
    <2> QED
      BY <1>2, <2>1
  <1> QED
    BY <1>9, <1>10

\* The marks of one frame.
Marks(wire, rank) ==
    [p \in 1..(Len(wire) + 2) |-> [wire |-> wire, place |-> p, rank |-> rank]]

\* The bytes of a frame, as its marks say.
LaidOut(frame, wire) ==
    /\ wire \in Seq(Byte) /\ Len(wire) >= 3
    /\ frame \in Seq(Byte) /\ Len(frame) = Len(wire) + 2
    /\ frame[1] = SOF /\ frame[2] = Len(wire) - 3
    /\ \A i \in DOMAIN wire : frame[i + 2] = wire[i]

\* The history has grown, or not.
Extends(after, sent) == \A i \in DOMAIN sent : i \in DOMAIN after /\ after[i] = sent[i]

\* The history does not forget what may mislead.
Keeps(misleadAfter, mislead) == mislead => misleadAfter

\* The marks of the last frame are marks of a frame.
LastFits(wire, after, mislead) ==
    \A m \in Mark : (m.wire = wire /\ m.rank = Len(after) /\ m.place <= LastPlace(m))
                         => OfFrame(m, after, mislead)

\* A frame stays one of the history's, as that grows.
LEMMA StillOfFrame ==
    ASSUME NEW m, NEW sent, NEW after, NEW mislead, NEW misleadAfter,
           OfFrame(m, sent, mislead), Keeps(misleadAfter, mislead),
           Extends(after, sent)
    PROVE  OfFrame(m, after, misleadAfter)
  BY DEF OfFrame, Extends, Keeps

\* When a frame is written, its marks are put behind the others.
LEMMA WriteFrame ==
    ASSUME NEW bytes \in Seq(Byte), NEW chain \in Seq(Mark),
           NEW sent \in Seq(Seq(Byte)), NEW mislead, Marked(bytes, chain, sent, mislead),
           NEW after \in Seq(Seq(Byte)), NEW misleadAfter, Keeps(misleadAfter, mislead),
           Extends(after, sent), NEW wire, NEW frame, LaidOut(frame, wire),
           Len(after) = Len(sent) + (IF Good(wire) THEN 1 ELSE 0),
           LastFits(wire, after, misleadAfter)
    PROVE  \E longer \in Seq(Mark) : /\ Marked(bytes \o frame, longer, after, misleadAfter)
                                     /\ longer[1] = chain[1]
  <1> DEFINE n == Len(wire) + 2
             c == Len(bytes) + 1
             new == Marks(wire, Len(after))
             longer == chain \o new
             all == bytes \o frame
  <1>0. /\ wire \in Seq(Byte) /\ Len(wire) >= 3
        /\ frame \in Seq(Byte) /\ Len(frame) = Len(wire) + 2
        /\ frame[1] = SOF /\ frame[2] = Len(wire) - 3
        /\ \A i \in DOMAIN wire : frame[i + 2] = wire[i]
    BY DEF LaidOut
  <1> USE <1>0
  <1>1. /\ Len(chain) = c /\ Len(bytes) \in Nat /\ Len(wire) \in Nat
        /\ Len(sent) \in Nat /\ Len(after) \in Nat /\ c \in Nat /\ n \in Nat /\ n >= 5 /\ c >= 1
    BY SMTT(60) DEF Marked
  <1>2. Len(sent) <= Len(after)
    BY <1>1
  <1>3. \A p \in 1..n : new[p] = [wire |-> wire, place |-> p, rank |-> Len(after)]
    BY DEF Marks
  <1>4. \A p \in 1..n : new[p] \in Mark
    <2> SUFFICES ASSUME NEW p \in 1..n PROVE new[p] \in Mark
      OBVIOUS
    <2>1. p \in Nat \ {0}
      OBVIOUS
    <2>2. new[p] = [wire |-> wire, place |-> p, rank |-> Len(after)]
      BY <1>3
    <2>3. Len(after) \in Nat
      BY <1>1
    <2> HIDE DEF new, n
    <2> QED
      BY <2>1, <2>2, <2>3 DEF Mark
  <1>5. new \in Seq(Mark) /\ Len(new) = n
    <2> DEFINE M(p) == [wire |-> wire, place |-> p, rank |-> Len(after)]
    <2>1. new = [p \in 1..n |-> M(p)]
      BY DEF Marks
    <2>2. \A p \in 1..n : M(p) \in Mark
      BY <1>3, <1>4
    <2> HIDE DEF new, n, M
    <2> QED
      BY <1>1, <2>1, <2>2
  <1> HIDE DEF new
  <1>6. Joins(longer, chain, c, new, n, Mark)
    <2> HIDE DEF c, n
    <2> QED
      BY <1>1, <1>5, Joined
  <1>7. Joins(all, bytes, Len(bytes), frame, n, Byte)
    BY Joined
  <1> HIDE DEF longer, all
  <1>8. /\ longer \in Seq(Mark) /\ Len(longer) = c + n
        /\ \A i \in 1..c : longer[i] = chain[i]
        /\ \A i \in (c + 1)..(c + n) : longer[i] = new[i - c]
    BY <1>6 DEF Joins
  <1>9. /\ Len(all) = Len(bytes) + n
        /\ \A i \in 1..Len(bytes) : all[i] = bytes[i]
        /\ \A i \in (Len(bytes) + 1)..(Len(bytes) + n) : all[i] = frame[i - Len(bytes)]
    BY <1>7 DEF Joins
  <1>10. DOMAIN longer = 1..(c + n) /\ DOMAIN chain = 1..c
    BY <1>1, <1>8
  <1>11. ASSUME NEW p \in 1..n
         PROVE  /\ longer[c + p] = [wire |-> wire, place |-> p, rank |-> Len(after)]
                /\ all[(c + p) - 1] = frame[p]
    <2>1. c + p \in (c + 1)..(c + n) /\ (c + p) - c = p
      BY <1>1
    <2>2. /\ (c + p) - 1 \in (Len(bytes) + 1)..(Len(bytes) + n)
          /\ ((c + p) - 1) - Len(bytes) = p
      BY <1>1, SMTT(60)
    <2>3. longer[c + p] = new[p]
      BY <1>8, <2>1
    <2>4. all[(c + p) - 1] = frame[p]
      BY <1>9, <2>2
    <2> QED
      BY <1>3, <2>3, <2>4
  <1>12. \A i \in DOMAIN longer : i <= c \/ \E p \in 1..n : i = c + p
    <2> SUFFICES ASSUME NEW i \in 1..(c + n), ~(i <= c) PROVE \E p \in 1..n : i = c + p
      BY <1>10
    <2>1. i - c \in 1..n /\ i = c + (i - c)
      BY <1>1
    <2> QED
      BY <2>1
  <1>13. ASSUME NEW i \in DOMAIN longer PROVE longer[i].rank <= Len(after)
    <2>1. CASE i <= c
      <3>1. i \in 1..c /\ i \in DOMAIN chain
        BY <1>10, <2>1
      <3>2. longer[i] = chain[i]
        BY <1>8, <3>1
      <3>3. chain[i].rank <= Len(sent) /\ chain[i] \in Mark
        BY <3>1 DEF Marked
      <3>4. chain[i].rank \in Nat
        BY <3>3 DEF Mark
      <3> QED
        BY <1>1, <1>2, <3>2, <3>3, <3>4, SMTT(60)
    <2>2. ASSUME NEW p \in 1..n, i = c + p PROVE longer[i].rank <= Len(after)
      <3>1. longer[c + p] = [wire |-> wire, place |-> p, rank |-> Len(after)]
        BY <1>11, <2>2
      <3>2. longer[i].rank = Len(after)
        BY <2>2, <3>1
      <3> QED
        BY <1>1, <3>2
    <2> QED
      BY <1>12, <2>1, <2>2
  <1>14. chain[c].place = LastPlace(chain[c]) /\ chain[c].rank = Len(sent) /\ longer[c] = chain[c]
    BY <1>1, <1>8 DEF Marked
  <1>15. ASSUME NEW i \in DOMAIN longer, i > 1
         PROVE  /\ OfFrame(longer[i], after, misleadAfter)
                /\ all[i - 1] = ByteOf(longer[i])
                /\ Follows(longer[i - 1], longer[i])
    <2>1. CASE i <= c
      <3>1. i \in 1..c /\ i - 1 \in 1..c /\ i \in DOMAIN chain /\ i - 1 \in 1..Len(bytes)
        BY <1>1, <1>10, <1>15, <2>1, SMTT(60)
      <3>2. longer[i] = chain[i] /\ longer[i - 1] = chain[i - 1] /\ all[i - 1] = bytes[i - 1]
        BY <1>8, <1>9, <3>1
      <3>3. /\ OfFrame(chain[i], sent, mislead)
            /\ bytes[i - 1] = ByteOf(chain[i])
            /\ Follows(chain[i - 1], chain[i])
        BY <1>15, <3>1 DEF Marked
      <3>4. OfFrame(chain[i], after, misleadAfter)
        BY <3>3, StillOfFrame
      <3> QED
        BY <3>2, <3>3, <3>4
    <2>2. ASSUME NEW p \in 1..n, i = c + p
          PROVE  /\ OfFrame(longer[i], after, misleadAfter)
                 /\ all[i - 1] = ByteOf(longer[i])
                 /\ Follows(longer[i - 1], longer[i])
      <3> DEFINE m == [wire |-> wire, place |-> p, rank |-> Len(after)]
      <3>1. longer[i] = m /\ all[i - 1] = frame[p]
        BY <1>11, <2>2
      <3>2. m \in Mark /\ m.wire = wire /\ m.rank = Len(after) /\ m.place = p
        BY <1>3, <1>4
      <3> HIDE DEF m
      <3>3. LastPlace(m) = n
        BY <3>2 DEF LastPlace
      <3>4. OfFrame(m, after, misleadAfter)
        BY <3>2, <3>3, SMTT(60) DEF LastFits
      <3>5. frame[p] = ByteOf(m)
        <4>1. CASE p = 1
          BY <3>2, <4>1 DEF ByteOf
        <4>2. CASE p = 2
          BY <3>2, <4>2 DEF ByteOf
        <4>3. CASE p > 2
          <5>1. p - 2 \in DOMAIN wire /\ (p - 2) + 2 = p /\ p # 1 /\ p # 2
            BY <1>1, <4>3
          <5> QED
            BY <3>2, <5>1 DEF ByteOf
        <4> QED
          BY <4>1, <4>2, <4>3
      <3>6. Follows(longer[i - 1], m)
        <4>1. CASE p = 1
          <5>1. i - 1 = c
            BY <1>1, <2>2, <4>1
          <5>2. longer[i - 1] = chain[c] /\ chain[c] \in Mark
            BY <1>1, <1>14, <5>1
          <5>3. chain[c].place \in Nat /\ ~(chain[c].place < LastPlace(chain[c]))
            BY <1>14, <5>2, SMTT(60) DEF Mark
          <5> QED
            BY <1>14, <3>2, <4>1, <5>2, <5>3 DEF Follows
        <4>2. CASE p > 1
          <5>1. p - 1 \in 1..n /\ i - 1 = c + (p - 1) /\ p - 1 < n /\ (p - 1) + 1 = p
            BY <1>1, <2>2, <4>2, SMTT(60)
          <5> DEFINE m1 == [wire |-> wire, place |-> p - 1, rank |-> Len(after)]
          <5>2. longer[i - 1] = m1
            BY <1>11, <5>1
          <5>3. m1.wire = wire /\ m1.rank = Len(after) /\ m1.place = p - 1
            OBVIOUS
          <5> HIDE DEF m1
          <5>4. LastPlace(m1) = n
            BY <5>3 DEF LastPlace
          <5> QED
            BY <3>2, <5>1, <5>2, <5>3, <5>4 DEF Follows
        <4> QED
          BY <4>1, <4>2
      <3> QED
        BY <3>1, <3>4, <3>5, <3>6
    <2> QED
      BY <1>12, <2>1, <2>2
  <1>16. LET end == longer[Len(longer)] IN end.place = LastPlace(end) /\ end.rank = Len(after)
    <2>1. n \in 1..n
      BY <1>1
    <2>2. longer[Len(longer)] = [wire |-> wire, place |-> n, rank |-> Len(after)]
      BY <1>8, <1>11, <2>1
    <2> QED
      BY <2>2 DEF LastPlace
  <1>17. Len(longer) = Len(all) + 1
    BY <1>1, <1>8, <1>9
  <1>18. Marked(all, longer, after, misleadAfter)
    <2> HIDE DEF c, n
    <2> QED
      BY <1>8, <1>13, <1>15, <1>16, <1>17 DEF Marked
  <1>19. longer[1] = chain[1]
    BY <1>1, <1>8
  <1> QED
    BY <1>8, <1>18, <1>19 DEF all

-----------------------------------------------------------------------------
(* The variables of rpcProcess stay in their types.                        *)

rxVars == <<rxpc, length, left, body, retries, readErrors, headerErrors, delivered>>

\* Nothing is on the line at the start.
LEMMA InitFraming == Init => FramingInv
  <1> SUFFICES ASSUME Init PROVE FramingInv
    OBVIOUS
  <1> USE DEF Init
  <1> DEFINE m == [wire |-> <<>>, place |-> 2, rank |-> 0]
             chain == <<m>>
  <1>1. TypeOK
    <2>1. 0 \in Byte
      BY BaseSuffices DEF Byte
    <2>2. line \in Seq(Byte) /\ body \in Seq(Byte)
      OBVIOUS
    <2>3. kept \in Seq(Seq(Byte)) /\ delivered \in Seq(Seq(Byte))
      OBVIOUS
    <2>4. misleading \in BOOLEAN /\ rxpc \in {"sof", "length", "body", "check"}
      OBVIOUS
    <2>5. damaged \in Nat /\ retries \in 0..6 /\ readErrors \in Nat /\ headerErrors \in Nat
      OBVIOUS
    <2> QED
      BY <2>1, <2>2, <2>3, <2>4, <2>5 DEF TypeOK
  <1>2. RetriesBounded
    BY DEF RetriesBounded
  <1>3. m \in Mark /\ m.place = LastPlace(m) /\ m.rank = 0
    BY DEF Mark, LastPlace
  <1> HIDE DEF m
  <1>4. chain \in Seq(Mark) /\ Len(chain) = 1 /\ chain[1] = m /\ DOMAIN chain = 1..1
    BY <1>3
  <1> HIDE DEF chain
  <1>5. Marked(line, chain, kept, misleading)
    <2>1. Len(line) = 0 /\ Len(kept) = 0
      OBVIOUS
    <2>2. \A i \in DOMAIN chain : i = 1
      BY <1>4
    <2> QED
      BY <1>3, <1>4, <2>1, <2>2 DEF Marked
  <1>6. InPlace(m)
    BY <1>3 DEF InPlace
  <1>7. Counted(m, 0)
    <2>1. Handled(m) = 0
      BY <1>3 DEF Handled
    <2>2. Len(delivered) = 0 /\ DOMAIN delivered = {}
      OBVIOUS
    <2> QED
      BY <2>1, <2>2 DEF Counted
  <1>8. Tracked(chain, 0)
    BY <1>4, <1>5, <1>6, <1>7 DEF Tracked
  <1> QED
    BY <1>1, <1>2, <1>4, <1>8 DEF FramingInv

\* What is in transit and what the history keeps are bytes.
LEMMA SendsBytes ==
    ASSUME NEW s \in Seq(Byte), NEW frame \in Seq(Byte), NEW k \in 1..Len(frame), NEW b \in Byte
    PROVE  s \o frame \in Seq(Byte) /\ s \o [frame EXCEPT ![k] = b] \in Seq(Byte)
  <1>1. [frame EXCEPT ![k] = b] \in Seq(Byte)
    OBVIOUS
  <1> QED
    BY <1>1

\* Each action keeps the variables in their types and the retries bounded.
LEMMA TypesKept == TypeOK /\ RetriesBounded /\ [Next]_vars => TypeOK' /\ RetriesBounded'
  <1> SUFFICES ASSUME TypeOK, RetriesBounded, [Next]_vars PROVE TypeOK' /\ RetriesBounded'
    OBVIOUS
  <1>0. Base \in Nat /\ Base > 8 /\ \A x : x \in Byte <=> x \in Int /\ 0 <= x /\ x < Base
    BY BaseSuffices DEF Byte
  <1>1. CASE SendFrame
    <2> PICK cmd \in Commands, payload \in Payloads :
           /\ line' = line \o Frame(cmd, payload)
           /\ kept' = Append(kept, Body(cmd, payload))
      BY <1>1 DEF SendFrame
    <2>1. Frame(cmd, payload) \in Seq(Byte) /\ Body(cmd, payload) \in Seq(Byte)
      BY FrameBytes
    <2>2. line' \in Seq(Byte) /\ kept' \in Seq(Seq(Byte))
      BY <2>1 DEF TypeOK
    <2>3. misleading' \in BOOLEAN
      BY <1>1 DEF SendFrame, TypeOK
    <2>4. UNCHANGED <<damaged, rxVars>>
      BY <1>1 DEF SendFrame, rxVars
    <2> QED
      BY <2>2, <2>3, <2>4 DEF TypeOK, RetriesBounded, rxVars
  <1>2. CASE SendDamaged
    <2> PICK cmd \in Commands, payload \in Payloads :
           \E i \in 3..Len(Frame(cmd, payload)) : \E b \in Byte :
              line' = line \o [Frame(cmd, payload) EXCEPT ![i] = b]
      BY <1>2 DEF SendDamaged
    <2> PICK i \in 3..Len(Frame(cmd, payload)), b \in Byte :
           line' = line \o [Frame(cmd, payload) EXCEPT ![i] = b]
      OBVIOUS
    <2>1. Frame(cmd, payload) \in Seq(Byte)
      BY FrameBytes
    <2>2. line \in Seq(Byte) /\ i \in 1..Len(Frame(cmd, payload))
      BY <2>1 DEF TypeOK
    <2>3. line' \in Seq(Byte)
      BY <2>1, <2>2, SendsBytes
    <2>4. UNCHANGED <<kept, rxVars>> /\ damaged' = damaged + 1 /\ misleading' = TRUE
      BY <1>2 DEF SendDamaged, rxVars
    <2> QED
      BY <2>3, <2>4 DEF TypeOK, RetriesBounded, rxVars
  <1>3. CASE ReadSof
    <2>1. line' \in Seq(Byte)
      BY <1>3 DEF ReadSof, TypeOK
    <2> QED
      BY <1>3, <2>1 DEF ReadSof, TypeOK, RetriesBounded, sentVars
  <1>4. CASE ReadLength
    <2>1. line' \in Seq(Byte) /\ Head(line) \in Byte
      BY <1>4 DEF ReadLength, TypeOK
    <2>2. length' \in Byte /\ left' \in Byte
      <3>1. length' = Head(line) /\ left' = (Head(line) + 3) % Base
        BY <1>4 DEF ReadLength
      <3> QED
        BY <1>0, <2>1, <3>1
    <2>3. retries = 0
      BY <1>4 DEF ReadLength, RetriesBounded
    <2>4. rxpc' = (IF left' = 0 THEN "check" ELSE "body") /\ (left' = 0 \/ left' > 0)
      BY <1>0, <1>4, <2>2 DEF ReadLength
    <2>5. body' = <<>> /\ UNCHANGED <<sentVars, retries, readErrors, headerErrors, delivered>>
      BY <1>4 DEF ReadLength
    <2> QED
      BY <2>1, <2>2, <2>3, <2>4, <2>5 DEF TypeOK, RetriesBounded, sentVars
  <1>5. CASE LengthError
    BY <1>5 DEF LengthError, TypeOK, RetriesBounded, sentVars
  <1>6. CASE ReadBody
    <2> PICK n \in 1..left : /\ n <= Len(line)
                             /\ line' = SubSeq(line, n + 1, Len(line))
                             /\ body' = body \o SubSeq(line, 1, n)
                             /\ left' = left - n
      BY <1>6 DEF ReadBody
    <2>1. line' \in Seq(Byte) /\ body' \in Seq(Byte)
      BY SMTT(60) DEF TypeOK
    <2>2. left' \in Byte /\ (left' = 0 \/ left' > 0)
      <3>1. left \in Byte
        BY DEF TypeOK
      <3>2. left' = left - n /\ n \in 1..left
        OBVIOUS
      <3>3. left - n >= 0 /\ left - n <= left /\ left < Base /\ left \in Int /\ n \in Int
        BY <1>0, <3>1, <3>2
      <3>4. left - n \in Byte /\ (left - n = 0 \/ left - n > 0)
        BY <1>0, <3>3 DEF Byte
      <3> QED
        BY <3>2, <3>4
    <2>3. /\ rxpc = "body" /\ rxpc' = (IF left' = 0 THEN "check" ELSE "body")
          /\ UNCHANGED <<sentVars, length, retries, readErrors, headerErrors, delivered>>
      BY <1>6 DEF ReadBody
    <2> QED
      BY <2>1, <2>2, <2>3 DEF TypeOK, RetriesBounded, sentVars
  <1>7. CASE BodyError
    <2>1. retries' \in 0..6 /\ (retries < 5 => retries' <= 5)
      BY <1>7 DEF BodyError, TypeOK, RetriesBounded
    <2> QED
      BY <1>7, <2>1 DEF BodyError, TypeOK, RetriesBounded, sentVars
  <1>8. CASE CheckFcs
    <2>1. delivered' = delivered \/ delivered' = Append(delivered, body)
      BY <1>8 DEF CheckFcs
    <2>2. delivered' \in Seq(Seq(Byte))
      <3> DEFINE S == Seq(Byte)
      <3>1. delivered \in Seq(S) /\ body \in S
        BY DEF TypeOK
      <3> HIDE DEF S
      <3>2. delivered' \in Seq(S)
        BY <2>1, <3>1
      <3> QED
        BY <3>2 DEF S
    <2> QED
      BY <1>8, <2>2 DEF CheckFcs, TypeOK, RetriesBounded, sentVars
  <1>9. CASE UNCHANGED vars
    BY <1>9 DEF vars, sentVars, TypeOK, RetriesBounded
  <1> QED
    BY <1>1, <1>2, <1>3, <1>4, <1>5, <1>6, <1>7, <1>8, <1>9 DEF Next, RxNext

\* Once out of step, for good.
LEMMA OutOfStepForGood ==
    ASSUME TypeOK, [Next]_vars
    PROVE  (NoneGivenUp' => NoneGivenUp) /\ (InStep' => InStep)
  <1>1. readErrors \in Nat /\ headerErrors \in Nat /\ misleading \in BOOLEAN
    BY DEF TypeOK
  <1>2. readErrors' = readErrors \/ readErrors' = readErrors + 1
    BY DEF Next, RxNext, SendFrame, SendDamaged, ReadSof, ReadLength, LengthError, ReadBody,
           BodyError, CheckFcs, vars
  <1>3. headerErrors' = headerErrors \/ headerErrors' = headerErrors + 1
    BY DEF Next, RxNext, SendFrame, SendDamaged, ReadSof, ReadLength, LengthError, ReadBody,
           BodyError, CheckFcs, vars
  <1>4. misleading => misleading'
    BY DEF Next, RxNext, SendFrame, SendDamaged, ReadSof, ReadLength, LengthError, ReadBody,
           BodyError, CheckFcs, vars, sentVars
  <1>5. NoneGivenUp' => NoneGivenUp
    BY <1>1, <1>2, <1>3 DEF NoneGivenUp
  <1> QED
    BY <1>4, <1>5 DEF InStep

-----------------------------------------------------------------------------
(* The marks stay with rpcProcess, action by action.                       *)

\* The other end writes: rpcProcess is where it was.
LEMMA WritesTracked ==
    ASSUME TypeOK, kept' \in Seq(Seq(Byte)),
           NEW chain \in Seq(Mark), NEW lost \in Nat, Tracked(chain, lost),
           UNCHANGED rxVars, Keeps(misleading', misleading),
           Extends(kept', kept),
           NEW longer \in Seq(Mark), Marked(line', longer, kept', misleading'),
           longer[1] = chain[1]
    PROVE  Tracked(longer, lost)'
  <1> DEFINE m == chain[1]
  <1>1. m \in Mark /\ m.rank <= Len(kept) /\ m.rank \in Nat
    <2>1. 1 \in DOMAIN chain
      <3>1. Len(chain) = Len(line) + 1 /\ Len(line) \in Nat
        BY DEF Tracked, Marked, TypeOK
      <3> QED
        BY <3>1
    <2>2. m \in Mark /\ m.rank <= Len(kept)
      BY <2>1, SMTT(60) DEF Tracked, Marked
    <2> QED
      BY <2>2 DEF Mark
  <1> HIDE DEF m
  <1>2. InPlace(m) /\ Counted(m, lost)
    BY DEF Tracked, m
  <1>3. NoneGivenUp' <=> NoneGivenUp
    BY DEF rxVars, NoneGivenUp
  <1>4. OfFrame(m, kept, misleading) => OfFrame(m, kept', misleading')
    BY StillOfFrame
  <1>5. InPlace(m)'
    BY <1>2, <1>3, <1>4 DEF InPlace, rxVars
  <1>6. Handled(m)' = Handled(m)
    BY DEF Handled, rxVars
  <1>7. Counted(m, lost)'
    <2>1. ASSUME NoneGivenUp
          PROVE  /\ Len(delivered) = Handled(m)
                 /\ \A i \in DOMAIN delivered : delivered[i] = kept'[i]
      <3>1. Len(delivered) = Handled(m) /\ \A i \in DOMAIN delivered : delivered[i] = kept[i]
        BY <1>2, <2>1 DEF Counted
      <3>2. Len(delivered) <= Len(kept)
        BY <1>1, <3>1 DEF Handled, TypeOK
      <3>3. \A i \in DOMAIN delivered : i \in DOMAIN kept
        BY <3>2 DEF TypeOK
      <3> QED
        BY <3>1, <3>3 DEF Extends
    <2>2. /\ Len(delivered') >= Handled(m)' - headerErrors' - lost
          /\ 6 * lost + (IF rxpc' = "body" THEN retries' ELSE 0) <= readErrors'
      BY <1>2, <1>6 DEF Counted, rxVars
    <2>3. delivered' = delivered
      BY DEF rxVars
    <2> QED
      BY <1>3, <1>6, <2>1, <2>2, <2>3 DEF Counted
  <1>8. longer[1] = m
    BY DEF m
  <1> QED
    BY <1>5, <1>7, <1>8 DEF Tracked

\* rpcSendFrame, the line leaving the frame intact.
LEMMA SendFrameTracked ==
    ASSUME TypeOK, kept' \in Seq(Seq(Byte)), SendFrame,
           NEW chain \in Seq(Mark), NEW lost \in Nat, Tracked(chain, lost)
    PROVE  \E after \in Seq(Mark), lostAfter \in Nat : Tracked(after, lostAfter)'
  <1>0. PICK cmd \in Commands, payload \in Payloads :
         LET sent == Body(cmd, payload) IN
         /\ line' = line \o Frame(cmd, payload)
         /\ kept' = Append(kept, sent)
         /\ misleading' = (misleading \/ \E i \in DOMAIN sent : sent[i] = SOF)
    BY DEF SendFrame
  <1> DEFINE wire == Body(cmd, payload)
             frame == Frame(cmd, payload)
  <1>1. /\ wire \in Seq(Byte) /\ Good(wire)
        /\ Len(wire) >= 3 /\ Len(wire) <= Base - 3 /\ Len(wire) - 3 # SOF
        /\ frame \in Seq(Byte) /\ Len(frame) = Len(wire) + 2
        /\ frame[1] = SOF /\ frame[2] = Len(wire) - 3
        /\ \A i \in DOMAIN wire : frame[i + 2] = wire[i]
    BY FrameBytes
  <1>2. line' = line \o frame
    BY <1>0
  <1>3. kept' = Append(kept, wire)
    BY <1>0
  <1>4. (misleading => misleading') /\ (~misleading' => \A i \in DOMAIN wire : wire[i] # SOF)
    BY <1>0
  <1> HIDE DEF wire, frame
  <1>5. line \in Seq(Byte) /\ kept \in Seq(Seq(Byte))
    BY DEF TypeOK
  <1>6. /\ Len(kept') = Len(kept) + 1 /\ kept'[Len(kept')] = wire /\ Len(kept') \in DOMAIN kept'
        /\ Extends(kept', kept)
    <2> DEFINE S == Seq(Byte)
    <2>1. kept \in Seq(S) /\ wire \in S
      BY <1>1, <1>5
    <2> HIDE DEF S
    <2> QED
      BY <1>3, <2>1 DEF Extends
  <1>7. LastFits(wire, kept', misleading')
    BY <1>1, <1>4, <1>6 DEF LastFits, OfFrame
  <1>8. Marked(line, chain, kept, misleading)
    BY DEF Tracked
  <1>9. Len(kept') = Len(kept) + (IF Good(wire) THEN 1 ELSE 0)
    BY <1>1, <1>6
  <1>13. LaidOut(frame, wire)
    BY <1>1 DEF LaidOut
  <1>10. PICK longer \in Seq(Mark) :
            Marked(line \o frame, longer, kept', misleading') /\ longer[1] = chain[1]
    <2>1. Keeps(misleading', misleading)
      BY <1>4 DEF Keeps
    <2>2. Extends(kept', kept)
      BY <1>6
    <2> QED
      BY <1>5, <1>7, <1>8, <1>9, <1>13, <2>1, <2>2, WriteFrame
  <1>11. UNCHANGED rxVars
    BY DEF SendFrame, rxVars
  <1>12. Tracked(longer, lost)'
    <2>1. Keeps(misleading', misleading)
      BY <1>4 DEF Keeps
    <2> QED
      BY <1>2, <1>6, <1>10, <1>11, <2>1, WritesTracked
  <1> QED
    BY <1>12

\* A frame of which the line changes a byte.
LEMMA SendDamagedTracked ==
    ASSUME TypeOK, SendDamaged,
           NEW chain \in Seq(Mark), NEW lost \in Nat, Tracked(chain, lost)
    PROVE  \E after \in Seq(Mark), lostAfter \in Nat : Tracked(after, lostAfter)'
  <1>20. PICK cmd \in Commands, payload \in Payloads :
         \E i \in 3..Len(Frame(cmd, payload)) : \E b \in Byte \ {Frame(cmd, payload)[i]} :
            line' = line \o [Frame(cmd, payload) EXCEPT ![i] = b]
    BY DEF SendDamaged
  <1> DEFINE intact == Body(cmd, payload)
             frame == Frame(cmd, payload)
  <1>21. PICK k \in 3..Len(frame) :
         \E b \in Byte \ {frame[k]} : line' = line \o [frame EXCEPT ![k] = b]
    BY <1>20
  <1>22. PICK b \in Byte \ {frame[k]} : line' = line \o [frame EXCEPT ![k] = b]
    BY <1>21
  <1>1. /\ intact \in Seq(Byte) /\ Good(intact)
        /\ Len(intact) >= 3 /\ Len(intact) <= Base - 3 /\ Len(intact) - 3 # SOF
        /\ frame \in Seq(Byte) /\ Len(frame) = Len(intact) + 2
        /\ frame[1] = SOF /\ frame[2] = Len(intact) - 3
        /\ \A i \in DOMAIN intact : frame[i + 2] = intact[i]
    BY FrameBytes
  <1> HIDE DEF intact, frame
  <1> DEFINE wire == [intact EXCEPT ![k - 2] = b]
             changed == [frame EXCEPT ![k] = b]
  <1>2. k \in Nat /\ k - 2 \in DOMAIN intact /\ k \in DOMAIN frame /\ (k - 2) + 2 = k /\ k > 2
    BY <1>1
  <1>3. b # intact[k - 2] /\ b \in Byte
    BY <1>1, <1>2
  <1>4. wire \in Seq(Byte) /\ Len(wire) = Len(intact) /\ DOMAIN wire = DOMAIN intact
    BY <1>1, <1>2, <1>3
  <1>5. ~Good(wire)
    BY <1>1, <1>2, <1>3, DamageShows
  <1>6. changed \in Seq(Byte) /\ Len(changed) = Len(frame)
    BY <1>1, <1>3
  <1>7. changed[1] = SOF /\ changed[2] = Len(wire) - 3
    <2>1. 1 \in DOMAIN frame /\ 2 \in DOMAIN frame /\ k # 1 /\ k # 2
      BY <1>1, <1>2
    <2>2. changed[1] = frame[1] /\ changed[2] = frame[2]
      BY <2>1
    <2> QED
      BY <1>1, <1>4, <2>2
  <1>8. ASSUME NEW i \in DOMAIN wire PROVE changed[i + 2] = wire[i]
    <2>1. i \in DOMAIN intact /\ i \in Nat /\ i + 2 \in DOMAIN frame
      BY <1>1, <1>4
    <2>2. CASE i = k - 2
      BY <1>2, <2>1, <2>2
    <2>3. CASE i # k - 2
      <3>1. i + 2 # k
        BY <1>2, <2>1, <2>3
      <3>2. changed[i + 2] = frame[i + 2] /\ wire[i] = intact[i]
        BY <2>1, <2>3, <3>1
      <3> QED
        BY <1>1, <2>1, <3>2
    <2> QED
      BY <2>2, <2>3
  <1>9. line' = line \o changed
    BY <1>22
  <1> HIDE DEF wire, changed
  <1>10. line \in Seq(Byte) /\ kept \in Seq(Seq(Byte))
    BY DEF TypeOK
  <1>11. kept' = kept /\ misleading' = TRUE /\ UNCHANGED rxVars
    BY DEF SendDamaged, rxVars
  <1>12. LastFits(wire, kept', misleading') /\ Extends(kept', kept)
    BY <1>1, <1>4, <1>5, <1>11 DEF LastFits, OfFrame, Extends
  <1>13. Marked(line, chain, kept, misleading)
    BY DEF Tracked
  <1>14. Len(kept') = Len(kept) + (IF Good(wire) THEN 1 ELSE 0) /\ kept' \in Seq(Seq(Byte))
    BY <1>5, <1>10, <1>11
  <1>15. LaidOut(changed, wire)
    BY <1>1, <1>4, <1>6, <1>7, <1>8 DEF LaidOut
  <1>16. Keeps(misleading', misleading)
    BY <1>11 DEF Keeps
  <1>17. PICK longer \in Seq(Mark) :
            Marked(line \o changed, longer, kept', misleading') /\ longer[1] = chain[1]
    BY <1>10, <1>12, <1>13, <1>14, <1>15, <1>16, WriteFrame
  <1>18. Tracked(longer, lost)'
    BY <1>9, <1>10, <1>11, <1>12, <1>14, <1>16, <1>17, WritesTracked
  <1> QED
    BY <1>18

\* The mark of the byte read last.
LEMMA LastRead ==
    ASSUME TypeOK, NEW chain \in Seq(Mark), Marked(line, chain, kept, misleading)
    PROVE  /\ chain[1] \in Mark /\ chain[1].wire \in Seq(Byte) /\ Len(chain[1].wire) \in Nat
           /\ chain[1].place \in Nat /\ chain[1].place > 0
           /\ LastPlace(chain[1]) = Len(chain[1].wire) + 2
           /\ chain[1].rank \in Nat /\ chain[1].rank <= Len(kept)
  <1>1. 1 \in DOMAIN chain
    <2>1. Len(chain) = Len(line) + 1 /\ Len(line) \in Nat
      BY DEF Marked, TypeOK
    <2> QED
      BY <2>1
  <1>2. chain[1] \in Mark /\ chain[1].rank <= Len(kept)
    BY <1>1 DEF Marked
  <1> QED
    BY <1>2 DEF Mark, LastPlace

\* The next byte and its mark.
LEMMA NextByte ==
    ASSUME TypeOK, NEW chain \in Seq(Mark), Marked(line, chain, kept, misleading), line # <<>>
    PROVE  \E later \in Seq(Mark) : /\ Marked(Tail(line), later, kept, misleading)
                                    /\ OfFrame(later[1], kept, misleading)
                                    /\ Head(line) = ByteOf(later[1])
                                    /\ Follows(chain[1], later[1])
  <1>1. line \in Seq(Byte) /\ Len(line) \in Nat /\ Len(line) >= 1
    <2>1. line \in Seq(Byte)
      BY DEF TypeOK
    <2> QED
      BY <2>1
  <1>2. Tail(line) = SubSeq(line, 1 + 1, Len(line)) /\ Head(line) = line[1]
    BY <1>1
  <1>3. 1 + 1 \in DOMAIN chain /\ 1 + 1 > 1 /\ (1 + 1) - 1 = 1
    <2>1. Len(chain) = Len(line) + 1
      BY DEF Marked
    <2> QED
      BY <1>1, <2>1
  <1>4. /\ OfFrame(chain[1 + 1], kept, misleading)
        /\ line[1] = ByteOf(chain[1 + 1])
        /\ Follows(chain[1], chain[1 + 1])
    BY <1>3 DEF Marked
  <1>5. PICK later \in Seq(Mark) : /\ Marked(Tail(line), later, kept, misleading)
                                   /\ later[1] = chain[1 + 1]
    <2>1. PICK n \in Nat : n = 1
      OBVIOUS
    <2>2. PICK rest : rest = Tail(line)
      OBVIOUS
    <2>3. n <= Len(line) /\ rest = SubSeq(line, n + 1, Len(line))
      BY <1>1, <1>2, <2>1, <2>2
    <2>4. line \in Seq(Byte) /\ Left(rest, line, n, Byte)
      <3>1. line \in Seq(Byte)
        BY <1>1
      <3> QED
        BY <2>3, <3>1, RestOf
    <2>6. n <= Len(line)
      BY <2>3
    <2>5. \E later \in Seq(Mark) : Marked(rest, later, kept, misleading) /\ later[1] = chain[n + 1]
      BY <2>4, <2>6, ReadOn
    <2> QED
      BY <2>1, <2>2, <2>5
  <1> QED
    BY <1>2, <1>4, <1>5

\* The byte that rpcProcess takes for a start of frame is one, and it skips no other.
LEMMA ReadSofTracked ==
    ASSUME TypeOK, InStep, ReadSof, TypeOK',
           NEW chain \in Seq(Mark), NEW lost \in Nat, Tracked(chain, lost)
    PROVE  \E after \in Seq(Mark), lostAfter \in Nat : Tracked(after, lostAfter)'
  <1>1. /\ rxpc = "sof" /\ line # <<>> /\ line' = Tail(line)
        /\ rxpc' = IF Head(line) = SOF THEN "length" ELSE "sof"
        /\ retries' = 0
        /\ UNCHANGED <<sentVars, length, left, body, readErrors, headerErrors, delivered>>
    BY DEF ReadSof
  <1>2. Marked(line, chain, kept, misleading)
    BY DEF Tracked
  <1>3. PICK later \in Seq(Mark) : /\ Marked(Tail(line), later, kept, misleading)
                                   /\ OfFrame(later[1], kept, misleading)
                                   /\ Head(line) = ByteOf(later[1])
                                   /\ Follows(chain[1], later[1])
    BY <1>1, <1>2, NextByte
  <1>4. UNCHANGED <<kept, misleading>> /\ (NoneGivenUp' <=> NoneGivenUp)
    BY <1>1 DEF sentVars, NoneGivenUp
  <1>5. Marked(line, later, kept, misleading)'
    BY <1>1, <1>3, <1>4
  <1> DEFINE m == chain[1]
             next == later[1]
  <1>6. /\ m \in Mark /\ m.place \in Nat /\ m.place > 0 /\ LastPlace(m) = Len(m.wire) + 2
        /\ m.rank \in Nat /\ Len(m.wire) \in Nat
    BY <1>2, LastRead
  <1>7. /\ next \in Mark /\ next.place \in Nat /\ next.place > 0 /\ next.wire \in Seq(Byte)
        /\ LastPlace(next) = Len(next.wire) + 2 /\ next.rank \in Nat /\ Len(next.wire) \in Nat
    <2>1. TypeOK' /\ Marked(line, later, kept, misleading)'
      BY <1>5
    <2>2. 1 \in DOMAIN later
      <3>1. Len(later) = Len(line') + 1 /\ Len(line') \in Nat
        BY <2>1 DEF Marked, TypeOK
      <3> QED
        BY <3>1
    <2>3. next \in Mark
      BY <2>2
    <2> QED
      BY <2>3 DEF Mark, LastPlace
  <1>8. OfFrame(next, kept, misleading) /\ Head(line) = ByteOf(next) /\ Follows(m, next)
    BY <1>3
  <1>9. InPlace(m) /\ Counted(m, lost)
    BY DEF Tracked
  <1> HIDE DEF m, next
  <1>10. next.place = 1 <=> ~(m.place < LastPlace(m))
    BY <1>6, <1>8 DEF Follows
  <1>11. next.place = 1 => Head(line) = SOF
    BY <1>8 DEF ByteOf
  <1>12. Head(line) = SOF => next.place = 1
    <2>1. CASE NoneGivenUp
      BY <1>1, <1>6, <1>9, <1>10, <2>1 DEF InPlace
    <2>2. CASE ~misleading
      <3>1. \A i \in DOMAIN next.wire : next.wire[i] # SOF
        BY <1>8, <2>2 DEF OfFrame
      <3>2. Len(next.wire) - 3 # SOF /\ next.place <= LastPlace(next)
        BY <1>8 DEF OfFrame
      <3>3. next.place > 2 => next.place - 2 \in DOMAIN next.wire
        BY <1>7, <3>2
      <3>4. CASE next.place = 2
        BY <1>8, <3>2, <3>4 DEF ByteOf
      <3>5. CASE next.place > 2
        BY <1>8, <3>1, <3>3, <3>5 DEF ByteOf
      <3> QED
        BY <1>7, <3>4, <3>5
    <2> QED
      BY <2>1, <2>2 DEF InStep
  <1>13. InPlace(next)'
    <2>1. CASE next.place = 1
      <3>1. rxpc' = "length"
        BY <1>1, <1>11, <2>1
      <3> QED
        BY <1>4, <1>8, <2>1, <3>1 DEF InPlace
    <2>2. CASE next.place # 1
      <3>1. rxpc' = "sof" /\ ~NoneGivenUp
        BY <1>1, <1>6, <1>9, <1>10, <1>12, <2>2 DEF InPlace
      <3> QED
        BY <1>4, <3>1 DEF InPlace
    <2> QED
      BY <2>1, <2>2
  <1>14. Handled(next)' = Handled(m)
    <2>1. Handled(m) = m.rank
      BY <1>1 DEF Handled
    <2>2. CASE next.place = 1
      <3>1. rxpc' = "length"
        BY <1>1, <1>11, <2>2
      <3>2. next.rank = m.rank + (IF Good(next.wire) THEN 1 ELSE 0)
        BY <1>8, <1>10, <2>2 DEF Follows
      <3>3. Handled(next)' = IF Good(next.wire) THEN next.rank - 1 ELSE next.rank
        BY <3>1 DEF Handled
      <3> QED
        BY <1>6, <1>7, <2>1, <3>2, <3>3
    <2>3. CASE next.place # 1
      <3>1. rxpc' = "sof"
        BY <1>1, <1>12, <2>3
      <3>2. next.rank = m.rank
        BY <1>8, <1>10, <2>3 DEF Follows
      <3> QED
        BY <2>1, <3>1, <3>2 DEF Handled
    <2> QED
      BY <2>2, <2>3
  <1>15. Counted(next, lost)'
    <2>1. rxpc' # "body" /\ rxpc # "body"
      BY <1>1
    <2> QED
      BY <1>1, <1>4, <1>9, <1>14, <2>1 DEF Counted
  <1>16. Tracked(later, lost)'
    BY <1>5, <1>13, <1>15 DEF Tracked, next
  <1> QED
    BY <1>16

\* The length byte is that of the frame.
LEMMA ReadLengthTracked ==
    ASSUME TypeOK, ReadLength, TypeOK', RetriesBounded,
           NEW chain \in Seq(Mark), NEW lost \in Nat, Tracked(chain, lost)
    PROVE  \E after \in Seq(Mark), lostAfter \in Nat : Tracked(after, lostAfter)'
  <1>1. /\ rxpc = "length" /\ line # <<>> /\ line' = Tail(line)
        /\ length' = Head(line) /\ left' = (Head(line) + 3) % Base /\ body' = <<>>
        /\ rxpc' = IF left' = 0 THEN "check" ELSE "body"
        /\ UNCHANGED <<sentVars, retries, readErrors, headerErrors, delivered>>
    BY DEF ReadLength
  <1>2. Marked(line, chain, kept, misleading)
    BY DEF Tracked
  <1>3. PICK later \in Seq(Mark) : /\ Marked(Tail(line), later, kept, misleading)
                                   /\ OfFrame(later[1], kept, misleading)
                                   /\ Head(line) = ByteOf(later[1])
                                   /\ Follows(chain[1], later[1])
    BY <1>1, <1>2, NextByte
  <1>4. UNCHANGED <<kept, misleading>> /\ (NoneGivenUp' <=> NoneGivenUp)
    BY <1>1 DEF sentVars, NoneGivenUp
  <1>5. Marked(line, later, kept, misleading)'
    BY <1>1, <1>3, <1>4
  <1> DEFINE m == chain[1]
             next == later[1]
  <1>6. /\ m \in Mark /\ LastPlace(m) = Len(m.wire) + 2 /\ m.rank \in Nat /\ Len(m.wire) \in Nat
    BY <1>2, LastRead
  <1>7. OfFrame(next, kept, misleading) /\ Head(line) = ByteOf(next) /\ Follows(m, next)
    BY <1>3
  <1>8. InPlace(m) /\ Counted(m, lost)
    BY DEF Tracked
  <1> HIDE DEF m, next
  <1>9. m.place = 1
    BY <1>1, <1>8 DEF InPlace
  <1>10. next.wire = m.wire /\ next.rank = m.rank /\ next.place = 2
    BY <1>6, <1>7, <1>9 DEF Follows
  <1>11. /\ Len(next.wire) \in Nat /\ Len(next.wire) >= 3 /\ Len(next.wire) <= Base - 3
         /\ Base \in Nat
    BY <1>6, <1>7, <1>10, BaseSuffices DEF OfFrame
  <1>12. length' = Len(next.wire) - 3
    BY <1>1, <1>7, <1>10 DEF ByteOf
  <1>13. left' = Len(next.wire) /\ rxpc' = "body"
    <2>1. left' = Len(next.wire) % Base
      <3>1. (Len(next.wire) - 3) + 3 = Len(next.wire)
        BY <1>11
      <3> QED
        BY <1>1, <1>12, <3>1
    <2>2. \A a \in Nat : a < Base => a % Base = a
      BY BaseSuffices
    <2>3. left' = Len(next.wire)
      <3>1. PICK a : a = Len(next.wire)
        OBVIOUS
      <3>2. a \in Nat /\ a < Base
        BY <1>11, <3>1
      <3>3. a % Base = a
        BY <2>2, <3>2
      <3> QED
        BY <2>1, <3>1, <3>3
    <2> QED
      BY <1>1, <1>11, <2>3
  <1>14. InPlace(next)'
    <2>1. Len(body') = 0 /\ DOMAIN body' = {}
      BY <1>1
    <2> QED
      BY <1>4, <1>7, <1>10, <1>11, <1>12, <1>13, <2>1 DEF InPlace
  <1>15. Handled(next)' = Handled(m)
    BY <1>1, <1>10, <1>13 DEF Handled
  <1>16. Counted(next, lost)'
    <2>1. retries' = 0
      BY <1>1 DEF RetriesBounded
    <2> QED
      BY <1>1, <1>4, <1>8, <1>13, <1>15, <2>1 DEF Counted
  <1>17. Tracked(later, lost)'
    BY <1>5, <1>14, <1>16 DEF Tracked, next
  <1> QED
    BY <1>17

\* However few bytes a read of the body returns, they are the next of the frame.
LEMMA ReadBodyTracked ==
    ASSUME TypeOK, ReadBody, TypeOK',
           NEW chain \in Seq(Mark), NEW lost \in Nat, Tracked(chain, lost)
    PROVE  \E after \in Seq(Mark), lostAfter \in Nat : Tracked(after, lostAfter)'
  <1>1. /\ rxpc = "body" /\ rxpc' = IF left' = 0 THEN "check" ELSE "body"
        /\ UNCHANGED <<sentVars, length, retries, readErrors, headerErrors, delivered>>
    BY DEF ReadBody
  <1>2. PICK n \in 1..left : /\ n <= Len(line)
                             /\ line' = SubSeq(line, n + 1, Len(line))
                             /\ body' = body \o SubSeq(line, 1, n)
                             /\ left' = left - n
    BY DEF ReadBody
  <1>3. Marked(line, chain, kept, misleading) /\ InPlace(chain[1]) /\ Counted(chain[1], lost)
    BY DEF Tracked
  <1>4. line \in Seq(Byte) /\ body \in Seq(Byte) /\ left \in Nat /\ Len(body) \in Nat
    <2>1. line \in Seq(Byte) /\ body \in Seq(Byte) /\ left \in Byte
      BY DEF TypeOK
    <2>2. left \in Nat
      BY <2>1, BaseSuffices DEF Byte
    <2> QED
      BY <2>1, <2>2
  <1>5. n \in Nat /\ n >= 1 /\ n <= left /\ n <= Len(line) /\ Len(line) \in Nat
    BY <1>2, <1>4
  <1>6. Left(line', line, n, Byte)
    BY <1>2, <1>4, <1>5, RestOf
  <1>7. PICK later \in Seq(Mark) :
           Marked(line', later, kept, misleading) /\ later[1] = chain[n + 1]
    BY <1>3, <1>4, <1>5, <1>6, ReadOn
  <1>8. UNCHANGED <<kept, misleading>> /\ (NoneGivenUp' <=> NoneGivenUp)
    BY <1>1 DEF sentVars, NoneGivenUp
  <1>9. Marked(line, later, kept, misleading)'
    BY <1>7, <1>8
  <1> DEFINE m == chain[1]
             next == later[1]
             size == Len(body)
             wire == m.wire
  <1>10. /\ m \in Mark /\ wire \in Seq(Byte) /\ m.place \in Nat /\ Len(wire) \in Nat
         /\ LastPlace(m) = Len(wire) + 2
    BY <1>3, LastRead
  <1>11. /\ OfFrame(m, kept, misleading) /\ length = Len(wire) - 3 /\ size + left = Len(wire)
         /\ m.place = size + 2 /\ \A i \in DOMAIN body : body[i] = wire[i]
    BY <1>1, <1>3 DEF InPlace
  <1>12. m.place + n <= LastPlace(m)
    BY <1>4, <1>5, <1>10, <1>11, SMTT(60)
  <1>13. \A i \in 0..n : /\ chain[i + 1].wire = wire
                         /\ chain[i + 1].rank = m.rank
                         /\ chain[i + 1].place = m.place + i
                         /\ i > 0 => line[i] = ByteOf(chain[i + 1])
    BY <1>3, <1>4, <1>5, <1>12, WithinFrame
  <1>14. next.wire = wire /\ next.rank = m.rank /\ next.place = size + 2 + n
    <2>1. n \in 0..n
      BY <1>5
    <2> QED
      BY <1>7, <1>11, <1>13, <2>1
  <1> HIDE DEF m, next, wire, size
  <1>15. ASSUME NEW i \in 1..n PROVE line[i] = wire[size + i]
    <2> DEFINE mark == chain[i + 1]
    <2>1. i \in 0..n /\ i > 0 /\ size \in Nat
      BY <1>4, <1>5 DEF size
    <2>2. mark.wire = wire /\ mark.place = size + 2 + i /\ line[i] = ByteOf(mark)
      BY <1>11, <1>13, <2>1
    <2> HIDE DEF mark
    <2>3. mark.place # 1 /\ mark.place # 2 /\ mark.place - 2 = size + i
      BY <2>1, <2>2
    <2> QED
      BY <2>2, <2>3 DEF ByteOf
  <1> DEFINE part == SubSeq(line, 1, n)
  <1>16. part \in Seq(Byte) /\ Len(part) = n /\ \A i \in 1..n : part[i] = line[i]
    BY <1>4, <1>5
  <1>17. body' = body \o part
    BY <1>2
  <1> HIDE DEF part
  <1>18. Joins(body', body, size, part, n, Byte)
    BY <1>4, <1>16, <1>17, Joined DEF size
  <1>19. /\ body' \in Seq(Byte) /\ Len(body') = size + n
         /\ \A i \in 1..size : body'[i] = body[i]
         /\ \A i \in (size + 1)..(size + n) : body'[i] = part[i - size]
    BY <1>18 DEF Joins
  <1>20. size \in Nat /\ DOMAIN body = 1..size /\ DOMAIN body' = 1..(size + n)
    BY <1>4, <1>5, <1>19 DEF size
  <1>21. \A i \in DOMAIN body' : body'[i] = wire[i]
    <2> SUFFICES ASSUME NEW i \in 1..(size + n) PROVE body'[i] = wire[i]
      BY <1>20
    <2>1. CASE i <= size
      <3>1. i \in 1..size
        BY <1>20, <2>1
      <3> QED
        BY <1>11, <1>19, <1>20, <3>1
    <2>2. CASE i > size
      <3>1. i \in (size + 1)..(size + n) /\ i - size \in 1..n /\ size + (i - size) = i
        BY <1>5, <1>20, <2>2
      <3>2. body'[i] = line[i - size]
        BY <1>16, <1>19, <3>1
      <3>3. line[i - size] = wire[size + (i - size)]
        BY <1>15, <3>1
      <3> QED
        BY <3>1, <3>2, <3>3
    <2> QED
      BY <1>5, <1>20, <2>1, <2>2
  <1>22. left' = left - n /\ left \in Nat
    BY <1>2, <1>4
  <1>23. InPlace(next)'
    <2>1. OfFrame(next, kept, misleading)
      <3>1. LastPlace(next) = LastPlace(m)
        BY <1>14 DEF LastPlace, wire
      <3>2. next.place <= LastPlace(next)
        BY <1>5, <1>11, <1>12, <1>14, <1>20, <3>1
      <3> QED
        BY <1>11, <1>14, <3>2 DEF OfFrame, wire
    <2>2. length' = length /\ rxpc' \in {"body", "check"} /\ (rxpc' = "check" => left' = 0)
      BY <1>1
    <2>3. Len(body') + left' = Len(wire) /\ next.place = Len(body') + 2
      <3>1. (size + n) + (left - n) = size + left /\ size + 2 + n = (size + n) + 2
        BY <1>5, <1>20, <1>22
      <3> QED
        BY <1>11, <1>14, <1>19, <1>22, <3>1
    <2> QED
      BY <1>8, <1>11, <1>14, <1>21, <2>1, <2>2, <2>3 DEF InPlace
  <1>24. Handled(next)' = Handled(m)
    <2>1. rxpc' # "sof" /\ rxpc # "sof"
      BY <1>1
    <2> QED
      BY <1>14, <2>1 DEF Handled, wire
  <1>25. Counted(next, lost)'
    <2>1. Counted(m, lost)
      BY <1>3 DEF m
    <2>2. retries \in Nat /\ rxpc' \in {"body", "check"}
      BY <1>1 DEF TypeOK
    <2>3. 6 * lost + (IF rxpc' = "body" THEN retries' ELSE 0) <= readErrors'
      BY <1>1, <2>1, <2>2, SMTT(60) DEF Counted, TypeOK
    <2>4. Len(delivered') >= Handled(next)' - headerErrors' - lost
      BY <1>1, <1>24, <2>1 DEF Counted
    <2>5. UNCHANGED <<delivered, kept>>
      BY <1>1, <1>8
    <2> QED
      BY <1>8, <1>24, <2>1, <2>3, <2>4, <2>5 DEF Counted
  <1>26. Tracked(later, lost)'
    BY <1>9, <1>23, <1>25 DEF Tracked, next
  <1> QED
    BY <1>26

\* A frame given up stays behind: the marks do not move.
LEMMA GiveUpTracked ==
    ASSUME TypeOK, RetriesBounded, LengthError \/ BodyError, InStep',
           NEW chain \in Seq(Mark), NEW lost \in Nat, Tracked(chain, lost)
    PROVE  \E after \in Seq(Mark), lostAfter \in Nat : Tracked(after, lostAfter)'
  <1> DEFINE m == chain[1]
  <1>1. Marked(line, chain, kept, misleading) /\ InPlace(m) /\ Counted(m, lost)
    BY DEF Tracked
  <1>2. m \in Mark /\ m.rank \in Nat
    BY <1>1, LastRead
  <1> HIDE DEF m
  <1>3. UNCHANGED <<line, kept, misleading, length, left, body, delivered>>
    BY DEF LengthError, BodyError, sentVars
  <1>4. Marked(line, chain, kept, misleading)'
    BY <1>1, <1>3
  <1>5. /\ readErrors \in Nat /\ headerErrors \in Nat /\ Len(delivered) \in Nat
        /\ retries \in 0..6
    BY DEF TypeOK
  <1>6. Handled(m) \in Int /\ Handled(m) <= m.rank /\ m.rank - 1 <= Handled(m)
    BY <1>2 DEF Handled
  <1>7. CASE LengthError
    <2>1. /\ rxpc = "length" /\ rxpc' = "sof" /\ headerErrors' = headerErrors + 1
          /\ UNCHANGED <<readErrors, retries>>
      BY <1>7 DEF LengthError
    <2>2. ~NoneGivenUp'
      BY <1>5, <2>1 DEF NoneGivenUp
    <2>3. InPlace(m)'
      BY <2>1, <2>2 DEF InPlace
    <2>4. Handled(m)' = m.rank
      BY <2>1 DEF Handled
    <2>5. 6 * lost <= readErrors
      BY <1>1, <2>1 DEF Counted
    <2>6. Len(delivered) >= m.rank - (headerErrors + 1) - lost
      BY <1>1, <1>2, <1>5, <1>6, SMTT(60) DEF Counted
    <2>7. Counted(m, lost)'
      BY <1>3, <2>1, <2>2, <2>4, <2>5, <2>6 DEF Counted
    <2>8. Tracked(chain, lost)'
      BY <1>4, <2>3, <2>7 DEF Tracked, m
    <2> QED
      BY <2>8
  <1>8. CASE BodyError
    <2>1. /\ rxpc = "body" /\ readErrors' = readErrors + 1 /\ retries' = retries + 1
          /\ rxpc' = IF retries < 5 THEN "body" ELSE "sof"
          /\ UNCHANGED headerErrors
      BY <1>8 DEF BodyError
    <2>2. retries \in 0..5 /\ 6 * lost + retries <= readErrors
      BY <1>1, <1>5, <2>1 DEF Counted, RetriesBounded
    <2>3. NoneGivenUp' => NoneGivenUp
      BY <1>5, <2>1 DEF NoneGivenUp
    <2>4. CASE retries < 5
      <3>1. rxpc' = "body"
        BY <2>1, <2>4
      <3>2. InPlace(m)'
        BY <1>1, <1>3, <2>1, <3>1 DEF InPlace
      <3>3. Handled(m)' = Handled(m)
        BY <2>1, <3>1 DEF Handled
      <3>4. 6 * lost + (retries + 1) <= readErrors + 1
        BY <1>5, <2>2
      <3>5. Counted(m, lost)'
        BY <1>1, <1>3, <2>1, <2>3, <3>1, <3>3, <3>4 DEF Counted
      <3>6. Tracked(chain, lost)'
        BY <1>4, <3>2, <3>5 DEF Tracked, m
      <3> QED
        BY <3>6
    <2>5. CASE retries = 5
      <3>1. rxpc' = "sof" /\ readErrors' >= 6
        BY <1>5, <2>1, <2>2, <2>5
      <3>2. ~NoneGivenUp'
        BY <1>5, <2>1, <3>1 DEF NoneGivenUp
      <3>3. InPlace(m)'
        BY <3>1, <3>2 DEF InPlace
      <3>4. Handled(m)' = m.rank
        BY <3>1 DEF Handled
      <3>5. lost + 1 \in Nat /\ 6 * (lost + 1) <= readErrors'
        BY <1>5, <2>1, <2>2, <2>5
      <3>6. Len(delivered) >= m.rank - headerErrors - (lost + 1)
        BY <1>1, <1>2, <1>5, <1>6 DEF Counted
      <3>7. Counted(m, lost + 1)'
        BY <1>3, <2>1, <3>1, <3>2, <3>4, <3>5, <3>6 DEF Counted
      <3>8. Tracked(chain, lost + 1)'
        BY <1>4, <3>3, <3>7 DEF Tracked, m
      <3> QED
        BY <3>5, <3>8
    <2> QED
      BY <2>2, <2>4, <2>5
  <1> QED
    BY <1>7, <1>8

\* An intact frame is handed on, a damaged one is not.
LEMMA CheckFcsTracked ==
    ASSUME TypeOK, CheckFcs,
           NEW chain \in Seq(Mark), NEW lost \in Nat, Tracked(chain, lost)
    PROVE  \E after \in Seq(Mark), lostAfter \in Nat : Tracked(after, lostAfter)'
  <1> DEFINE m == chain[1]
             wire == m.wire
  <1>1. Marked(line, chain, kept, misleading) /\ InPlace(m) /\ Counted(m, lost)
    BY DEF Tracked
  <1>2. /\ m \in Mark /\ m.rank \in Nat /\ wire \in Seq(Byte) /\ Len(wire) \in Nat
        /\ m.rank <= Len(kept) /\ LastPlace(m) = Len(wire) + 2
    BY <1>1, LastRead
  <1> HIDE DEF m
  <1>3. rxpc = "check" /\ rxpc' = "sof"
        /\ UNCHANGED <<line, sentVars, length, left, body, retries, readErrors, headerErrors>>
    BY DEF CheckFcs
  <1>4. /\ length = Len(wire) - 3 /\ left = 0 /\ Len(body) + left = Len(wire)
        /\ m.place = Len(body) + 2 /\ \A i \in DOMAIN body : body[i] = wire[i]
        /\ Len(wire) >= 3 /\ Len(wire) <= Base - 3
        /\ (Good(wire) => m.rank \in DOMAIN kept /\ wire = kept[m.rank])
    BY <1>1, <1>3 DEF InPlace, OfFrame
  <1>5. body \in Seq(Byte) /\ delivered \in Seq(Seq(Byte)) /\ kept \in Seq(Seq(Byte))
    BY DEF TypeOK
  <1>6. Len(body) = Len(wire)
    BY <1>4, <1>5
  <1>7. body = wire
    BY <1>2, <1>4, <1>5, <1>6
  <1>8. length + 3 = Len(wire) /\ length + 3 < Base
    BY <1>2, <1>4, BaseSuffices
  <1>9. delivered' = IF Good(wire) THEN Append(delivered, wire) ELSE delivered
    <2>1. \E fcs \in {body[length + 3]} :
             delivered' = IF fcs = Fcs(<<length>> \o body, length + 3)
                          THEN Append(delivered, body) ELSE delivered
      BY <1>8 DEF CheckFcs
    <2>2. delivered' = IF body[length + 3] = Fcs(<<length>> \o body, length + 3)
                       THEN Append(delivered, body) ELSE delivered
      BY <2>1
    <2>3. (body[length + 3] = Fcs(<<length>> \o body, length + 3)) <=> Good(wire)
      BY <1>4, <1>7, <1>8 DEF Good
    <2> QED
      BY <1>7, <2>2, <2>3
  <1>10. UNCHANGED <<line, kept, misleading, readErrors, headerErrors>>
         /\ (NoneGivenUp' <=> NoneGivenUp)
    BY <1>3 DEF sentVars, NoneGivenUp
  <1>11. Marked(line, chain, kept, misleading)'
    BY <1>1, <1>10
  <1>12. m.place = LastPlace(m)
    BY <1>2, <1>4, <1>6
  <1>13. InPlace(m)'
    BY <1>3, <1>12 DEF InPlace
  <1>14. Handled(m)' = m.rank
    BY <1>3 DEF Handled
  <1>15. Handled(m) = IF Good(wire) THEN m.rank - 1 ELSE m.rank
    BY <1>3 DEF Handled
  <1>16. Len(delivered) \in Nat /\ readErrors \in Nat /\ headerErrors \in Nat
    BY DEF TypeOK
  <1>17. 6 * lost <= readErrors
    BY <1>1, <1>3 DEF Counted
  <1>18. CASE Good(wire)
    <2>1. /\ Len(delivered') = Len(delivered) + 1 /\ delivered'[Len(delivered) + 1] = wire
          /\ DOMAIN delivered' = 1..(Len(delivered) + 1) /\ DOMAIN delivered = 1..Len(delivered)
          /\ \A i \in DOMAIN delivered : delivered'[i] = delivered[i]
      <3> DEFINE S == Seq(Byte)
      <3>1. delivered \in Seq(S) /\ wire \in S /\ delivered' = Append(delivered, wire)
        BY <1>2, <1>5, <1>9, <1>18
      <3> HIDE DEF S, wire
      <3> QED
        BY <3>1
    <2>2. Len(delivered') >= m.rank - headerErrors - lost
      BY <1>1, <1>2, <1>15, <1>16, <1>18, <2>1, SMTT(60) DEF Counted
    <2>3. ASSUME NoneGivenUp
          PROVE  Len(delivered') = m.rank /\ \A i \in DOMAIN delivered' : delivered'[i] = kept[i]
      <3>1. Len(delivered) = m.rank - 1 /\ \A i \in DOMAIN delivered : delivered[i] = kept[i]
        BY <1>1, <1>15, <1>18, <2>3 DEF Counted
      <3>2. Len(delivered) + 1 = m.rank
        BY <1>2, <3>1
      <3>3. kept[m.rank] = wire
        BY <1>4, <1>18
      <3>4. ASSUME NEW i \in DOMAIN delivered' PROVE delivered'[i] = kept[i]
        <4>1. CASE i = Len(delivered) + 1
          BY <2>1, <3>2, <3>3, <4>1
        <4>2. CASE i # Len(delivered) + 1
          <5>1. i \in DOMAIN delivered
            BY <1>16, <2>1, <4>2
          <5> QED
            BY <2>1, <3>1, <5>1
        <4> QED
          BY <4>1, <4>2
      <3> QED
        BY <2>1, <3>2, <3>4
    <2> QED
      <3>1. Counted(m, lost)'
        BY <1>3, <1>10, <1>14, <1>17, <2>2, <2>3 DEF Counted
      <3>2. Tracked(chain, lost)'
        BY <1>11, <1>13, <3>1 DEF Tracked, m
      <3> QED
        BY <3>2
  <1>19. CASE ~Good(wire)
    <2>1. delivered' = delivered
      BY <1>9, <1>19
    <2>2. Counted(m, lost)'
      BY <1>1, <1>3, <1>10, <1>14, <1>15, <1>17, <1>19, <2>1 DEF Counted
    <2>3. Tracked(chain, lost)'
      BY <1>11, <1>13, <2>2 DEF Tracked, m
    <2> QED
      BY <2>3
  <1> QED
    BY <1>18, <1>19

-----------------------------------------------------------------------------
(* The theorems.                                                           *)

\* The invariant holds at the start, and every action keeps it.
THEOREM FramingInvariant == Spec => []FramingInv
  <1>1. FramingInv /\ [Next]_vars => FramingInv'
    <2> SUFFICES ASSUME FramingInv, [Next]_vars PROVE FramingInv'
      OBVIOUS
    <2>1. TypeOK /\ RetriesBounded /\ TypeOK' /\ RetriesBounded'
      BY TypesKept DEF FramingInv
    <2> SUFFICES ASSUME InStep'
                 PROVE  \E after \in Seq(Mark), lostAfter \in Nat : Tracked(after, lostAfter)'
      BY <2>1 DEF FramingInv
    <2>2. InStep
      BY <2>1, OutOfStepForGood
    <2>3. PICK chain \in Seq(Mark), lost \in Nat : Tracked(chain, lost)
      BY <2>2 DEF FramingInv
    <2>4. kept' \in Seq(Seq(Byte))
      BY <2>1 DEF TypeOK
    <2>5. CASE SendFrame
      BY <2>1, <2>3, <2>4, <2>5, SendFrameTracked
    <2>6. CASE SendDamaged
      BY <2>1, <2>3, <2>6, SendDamagedTracked
    <2>7. CASE ReadSof
      BY <2>1, <2>2, <2>3, <2>7, ReadSofTracked
    <2>8. CASE ReadLength
      BY <2>1, <2>3, <2>8, ReadLengthTracked
    <2>9. CASE LengthError \/ BodyError
      BY <2>1, <2>3, <2>9, GiveUpTracked
    <2>10. CASE ReadBody
      BY <2>1, <2>3, <2>10, ReadBodyTracked
    <2>11. CASE CheckFcs
      BY <2>1, <2>3, <2>11, CheckFcsTracked
    <2>12. CASE UNCHANGED vars
      <3>1. Tracked(chain, lost)'
        BY <2>3, <2>12 DEF Tracked, vars, sentVars, InPlace, Counted, Handled, NoneGivenUp
      <3> QED
        BY <3>1
    <2> QED
      BY <2>5, <2>6, <2>7, <2>8, <2>9, <2>10, <2>11, <2>12 DEF Next, RxNext
  <1> QED
    BY <1>1, InitFraming, PTL DEF Spec

\* In step with the sender, rpcProcess writes and reads inside rpcBuff.
THEOREM FramingInsideBuffer == Spec => []InsideBuffer
  <1>1. FramingInv => InsideBuffer
    <2> SUFFICES ASSUME FramingInv PROVE InsideBuffer
      OBVIOUS
    <2>1. TypeOK
      BY DEF FramingInv
    <2>2. ASSUME rxpc = "check", InStep PROVE length + 3 < Base /\ Len(body) = length + 3
      <3>1. PICK chain \in Seq(Mark), lost \in Nat : Tracked(chain, lost)
        BY <2>2 DEF FramingInv
      <3> DEFINE m == chain[1]
      <3>2. Len(m.wire) \in Nat
        BY <2>1, <3>1, LastRead DEF Tracked
      <3>3. InPlace(m)
        BY <3>1 DEF Tracked
      <3> HIDE DEF m
      <3>4. /\ OfFrame(m, kept, misleading) /\ length = Len(m.wire) - 3
            /\ Len(body) + left = Len(m.wire) /\ left = 0
        BY <2>2, <3>3 DEF InPlace
      <3>5. Len(m.wire) <= Base - 3 /\ Base \in Nat /\ Len(body) \in Nat
        BY <2>1, <3>4, BaseSuffices DEF OfFrame, TypeOK
      <3> QED
        BY <3>2, <3>4, <3>5
    <2> QED
      BY <2>1, <2>2 DEF InsideBuffer
  <1> QED
    BY <1>1, FramingInvariant, PTL

\* While no frame is given up, exactly the intact frames are handed on, in order.
THEOREM FramingDeliversIntact == Spec => []DeliversIntact
  <1>1. FramingInv => DeliversIntact
    <2> SUFFICES ASSUME FramingInv, NoneGivenUp
                 PROVE  /\ Len(delivered) <= Len(kept)
                        /\ \A i \in DOMAIN delivered : delivered[i] = kept[i]
      BY DEF DeliversIntact
    <2>1. PICK chain \in Seq(Mark), lost \in Nat : Tracked(chain, lost)
      BY DEF FramingInv, InStep
    <2> DEFINE m == chain[1]
    <2>2. TypeOK
      BY DEF FramingInv
    <2>3. m.rank \in Nat /\ m.rank <= Len(kept) /\ Len(kept) \in Nat
      BY <2>1, <2>2, LastRead DEF Tracked, TypeOK
    <2>4. Counted(m, lost)
      BY <2>1 DEF Tracked
    <2> HIDE DEF m
    <2> QED
      BY <2>3, <2>4 DEF Counted, Handled
  <1> QED
    BY <1>1, FramingInvariant, PTL

\* No more intact frames are missing than rpcProcess gave up.
THEOREM FramingLossIsLocal == Spec => []LossIsLocal
  <1>1. FramingInv => LossIsLocal
    <2> SUFFICES ASSUME FramingInv, line = <<>>, rxpc = "sof", InStep
                 PROVE  Len(delivered) >= Len(kept) - headerErrors - (readErrors \div 6)
      BY DEF LossIsLocal
    <2>1. PICK chain \in Seq(Mark), lost \in Nat : Tracked(chain, lost)
      BY DEF FramingInv
    <2> DEFINE m == chain[1]
    <2>2. Len(chain) = 1
      BY <2>1 DEF Tracked, Marked
    <2>3. m.rank = Len(kept)
      BY <2>1, <2>2 DEF Tracked, Marked
    <2>4. Counted(m, lost)
      BY <2>1 DEF Tracked
    <2> HIDE DEF m
    <2>5. Len(delivered) >= Len(kept) - headerErrors - lost /\ 6 * lost <= readErrors
      BY <2>3, <2>4 DEF Counted, Handled
    <2>6. /\ readErrors \in Nat /\ headerErrors \in Nat /\ Len(kept) \in Nat
          /\ Len(delivered) \in Nat
      BY DEF FramingInv, TypeOK
    <2>7. lost <= readErrors \div 6
      BY <2>5, <2>6
    <2> QED
      BY <2>5, <2>6, <2>7
  <1> QED
    BY <1>1, FramingInvariant, PTL

=============================================================================
