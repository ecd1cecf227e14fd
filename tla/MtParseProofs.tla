---------------------------- MODULE MtParseProofs ----------------------------
(***************************************************************************)
(* MtParse for lists of every length and every stale count: no parser of   *)
(* the four MT subsystems reads outside its message, each value is read    *)
(* from its own bytes, list elements go to their own places, and a parser  *)
(* ends at the FCS.                                                        *)
(*                                                                         *)
(* First what FlattenSeq computes, then where the bytes of a message are,  *)
(* then every parser of the tables against the members of its struct; with *)
(* that, an invariant that relates msgIdx to the statement that is next.   *)
(***************************************************************************)
EXTENDS MtParse, SequenceLemmas, TLAPS

-----------------------------------------------------------------------------
(* Sequences one behind the other.                                         *)

\* How many elements come before each, and altogether.
Begins(s) ==
    CHOOSE e \in [0..Len(s) -> Nat] :
        e[0] = 0 /\ \A i \in 1..Len(s) : e[i] = e[i - 1] + Len(s[i])

\* Begins is what it says, for every sequence of sequences.
LEMMA BeginsAre ==
    ASSUME NEW T, NEW s \in Seq(Seq(T))
    PROVE  /\ Begins(s) \in [0..Len(s) -> Nat] /\ Begins(s)[0] = 0
           /\ \A i \in 1..Len(s) : Begins(s)[i] = Begins(s)[i - 1] + Len(s[i])
  <1> DEFINE n == Len(s)
             G == [v \in Nat |-> [i \in 1..n |-> v + Len(s[i])]]
             Fits(e) == e[0] = 0 /\ \A i \in 1..n : e[i] = e[i - 1] + Len(s[i])
  <1>1. n \in Nat /\ \A i \in 1..n : s[i] \in Seq(T) /\ Len(s[i]) \in Nat
    OBVIOUS
  <1>2. \A v \in Nat : \A i \in 1..n : G[v][i] = v + Len(s[i]) /\ G[v][i] \in Nat
    BY <1>1
  <1> HIDE DEF n, G
  <1>3. PICK e \in [0..n -> Nat] : e[0] = 0 /\ \A i \in 1..n : e[i] = G[e[i - 1]][i]
    <2>1. StepsIn(G, n, Nat)
      BY <1>2 DEF StepsIn
    <2>2. Computable(0, G, n, Nat)
      BY <1>1, <2>1, RecursionExists
    <2> QED
      BY <2>2 DEF Computable
  <1>4. ASSUME NEW i \in 1..n PROVE e[i] = e[i - 1] + Len(s[i])
    <2>1. i - 1 \in 0..n
      BY <1>1
    <2> QED
      BY <1>2, <1>3, <2>1
  <1>5. Fits(e)
    BY <1>3, <1>4
  <1>6. Begins(s) = CHOOSE f \in [0..n -> Nat] : Fits(f)
    BY DEF Begins, n
  <1> HIDE DEF Fits
  <1>7. Begins(s) \in [0..n -> Nat] /\ Fits(Begins(s))
    BY <1>5, <1>6
  <1> QED
    BY <1>7 DEF Fits, n

\* An element that is farther on begins no earlier.
LEMMA BeginsGrow ==
    ASSUME NEW T, NEW s \in Seq(Seq(T)), NEW k \in 0..Len(s)
    PROVE  \A m \in k..Len(s) : Begins(s)[k] <= Begins(s)[m]
  <1> DEFINE n == Len(s)
             e == Begins(s)
             S == {i \in 0..n : k <= i => e[k] <= e[i]}
  <1>1. n \in Nat /\ \A i \in 1..n : Len(s[i]) \in Nat
    OBVIOUS
  <1>2. e \in [0..n -> Nat] /\ \A i \in 1..n : e[i] = e[i - 1] + Len(s[i])
    BY BeginsAre
  <1> HIDE DEF n, e
  <1>3. 0 \in S
    <2>1. 0 \in 0..n /\ (k <= 0 => k = 0) /\ e[0] \in Nat
      BY <1>1, <1>2 DEF n
    <2> QED
      BY <2>1
  <1>4. ASSUME NEW i \in 1..n, i - 1 \in S PROVE i \in S
    <2>1. i - 1 \in 0..n /\ i \in 0..n /\ k \in 0..n
      BY <1>1 DEF n
    <2>2. e[i] \in Nat /\ e[i - 1] \in Nat /\ e[k] \in Nat /\ e[i] = e[i - 1] + Len(s[i])
      BY <1>2, <2>1
    <2>3. e[i - 1] <= e[i]
      BY <1>1, <2>2
    <2>4. CASE k <= i - 1
      BY <1>4, <2>1, <2>2, <2>3, <2>4
    <2>5. CASE k = i
      BY <2>1, <2>2, <2>5
    <2>6. CASE k > i
      BY <2>1, <2>6
    <2> QED
      BY <2>1, <2>4, <2>5, <2>6
  <1> HIDE DEF S
  <1>5. \A i \in 0..n : i \in S
    BY <1>1, <1>3, <1>4, CountingUp
  <1>6. \A m \in k..n : m \in 0..n /\ k <= m
    BY DEF n
  <1> QED
    BY <1>5, <1>6 DEF S, n, e

\* What is where in a concatenation.
LEMMA Concatenated ==
    ASSUME NEW T, NEW u \in Seq(T), NEW v \in Seq(T)
    PROVE  /\ u \o v \in Seq(T) /\ Len(u \o v) = Len(u) + Len(v)
           /\ Len(u) \in Nat /\ Len(v) \in Nat
           /\ \A k \in 1..Len(u) : (u \o v)[k] = u[k]
           /\ \A b \in 1..Len(v) : (u \o v)[Len(u) + b] = v[b]
  OBVIOUS

\* The computation of FlattenSeq.
Flattening(s, f) ==
    [i \in 1..Len(s) |-> IF i = 1 THEN s[i] ELSE f[i - 1] \o s[i]]

\* FlattenSeq appends the sequences one after the other.
LEMMA FlattensStep ==
    ASSUME NEW T, NEW s \in Seq(Seq(T)), s # <<>>
    PROVE  \E f : /\ FlattenSeq(s) = f[Len(s)] /\ f[1] = s[1]
                  /\ \A i \in 2..Len(s) : f[i] = f[i - 1] \o s[i]
  <1> DEFINE n == Len(s)
             f == CHOOSE h : h = Flattening(s, h)
             G == [v \in Seq(T) |-> [i \in 1..n |-> IF i = 1 THEN s[i] ELSE v \o s[i]]]
  <1>1. n \in Nat /\ n > 0 /\ \A i \in 1..n : s[i] \in Seq(T)
    OBVIOUS
  <1>2. FlattenSeq(s) = f[n]
    BY <1>1 DEF FlattenSeq, Flattening
  <1>3. ASSUME NEW v \in Seq(T), NEW i \in 1..n
        PROVE  G[v][i] = (IF i = 1 THEN s[i] ELSE v \o s[i]) /\ G[v][i] \in Seq(T)
    BY <1>1, Concatenated
  <1> HIDE DEF G, n
  <1>4. PICK g \in [0..n -> Seq(T)] : g[0] = <<>> /\ \A i \in 1..n : g[i] = G[g[i - 1]][i]
    <2>1. StepsIn(G, n, Seq(T))
      BY <1>3 DEF StepsIn
    <2>2. <<>> \in Seq(T)
      OBVIOUS
    <2>3. Computable(<<>>, G, n, Seq(T))
      BY <1>1, <2>1, <2>2, RecursionExists
    <2> QED
      BY <2>3 DEF Computable
  <1> DEFINE h == [i \in 1..n |-> g[i]]
  <1>5. h = Flattening(s, h)
    <2>1. ASSUME NEW i \in 1..n
          PROVE  h[i] = IF i = 1 THEN s[i] ELSE h[i - 1] \o s[i]
      <3>1. i - 1 \in 0..n /\ (i # 1 => i - 1 \in 1..n)
        BY <1>1
      <3>2. g[i - 1] \in Seq(T)
        BY <1>4, <3>1
      <3>3. g[i] = IF i = 1 THEN s[i] ELSE g[i - 1] \o s[i]
        BY <1>3, <1>4, <3>2
      <3>4. h[i] = g[i] /\ (i # 1 => h[i - 1] = g[i - 1])
        BY <3>1
      <3> QED
        BY <3>3, <3>4
    <2>2. h = [i \in 1..n |-> h[i]]
      OBVIOUS
    <2> HIDE DEF h
    <2>3. h = [i \in 1..n |-> IF i = 1 THEN s[i] ELSE h[i - 1] \o s[i]]
      BY <2>1, <2>2
    <2> QED
      BY <2>3 DEF Flattening, n
  <1> HIDE DEF h
  <1>6. f = Flattening(s, f)
    BY <1>5
  <1> HIDE DEF f
  <1>7. ASSUME NEW i \in 1..n PROVE f[i] = IF i = 1 THEN s[i] ELSE f[i - 1] \o s[i]
    <2>1. Flattening(s, f)[i] = IF i = 1 THEN s[i] ELSE f[i - 1] \o s[i]
      BY DEF Flattening, n
    <2> QED
      BY <1>6, <2>1
  <1>8. f[1] = s[1] /\ \A i \in 2..n : f[i] = f[i - 1] \o s[i]
    <2>1. 1 \in 1..n /\ \A i \in 2..n : i \in 1..n /\ i # 1
      BY <1>1
    <2> QED
      BY <1>7, <2>1
  <1> QED
    BY <1>2, <1>8 DEF n

\* Each element of a member is found behind all that come before.
LEMMA Flattened ==
    ASSUME NEW T, NEW s \in Seq(Seq(T))
    PROVE  /\ FlattenSeq(s) \in Seq(T)
           /\ Len(FlattenSeq(s)) = Begins(s)[Len(s)]
           /\ \A i \in 1..Len(s) : \A b \in 1..Len(s[i]) :
                  FlattenSeq(s)[Begins(s)[i - 1] + b] = s[i][b]
  <1> DEFINE n == Len(s)
             e == Begins(s)
  <1>1. n \in Nat /\ \A i \in 1..n : s[i] \in Seq(T) /\ Len(s[i]) \in Nat
    OBVIOUS
  <1>2. /\ e \in [0..n -> Nat] /\ e[0] = 0
        /\ \A i \in 1..n : e[i] = e[i - 1] + Len(s[i])
    BY BeginsAre
  <1>3. CASE s = <<>>
    <2>1. n = 0 /\ FlattenSeq(s) = <<>>
      BY <1>3 DEF FlattenSeq
    <2> QED
      BY <1>2, <1>3, <2>1
  <1>4. CASE s # <<>>
    <2>1. n > 0
      BY <1>4
    <2>2. PICK f : /\ FlattenSeq(s) = f[n] /\ f[1] = s[1]
                   /\ \A i \in 2..n : f[i] = f[i - 1] \o s[i]
      BY <1>4, FlattensStep
    <2> HIDE DEF n, e
    <2> DEFINE Found(i) == \A j \in 1..i : \A b \in 1..Len(s[j]) : f[i][e[j - 1] + b] = s[j][b]
               Right(i) == f[i] \in Seq(T) /\ Len(f[i]) = e[i] /\ Found(i)
               S == {i \in 0..n : i > 0 => Right(i)}
    <2>3. 0 \in S
      BY <1>1
    <2>4. ASSUME NEW i \in 1..n, i - 1 \in S PROVE i \in S
      <3>1. CASE i = 1
        <4>1. f[1] = s[1] /\ e[1] = e[0] + Len(s[1]) /\ e[1 - 1] = e[0] /\ e[0] = 0
              /\ s[1] \in Seq(T) /\ Len(s[1]) \in Nat
          BY <1>1, <1>2, <2>1, <2>2
        <4>2. Len(f[1]) = e[1] /\ f[1] \in Seq(T)
          BY <4>1
        <4>3. Found(1)
          <5> SUFFICES ASSUME NEW j \in 1..1, NEW b \in 1..Len(s[j])
                       PROVE  f[1][e[j - 1] + b] = s[j][b]
            OBVIOUS
          <5>1. j = 1
            OBVIOUS
          <5>2. e[j - 1] + b = b
            BY <4>1, <5>1
          <5> QED
            BY <4>1, <5>1, <5>2
        <4> HIDE DEF Found
        <4> QED
          BY <3>1, <4>2, <4>3
      <3>2. CASE i # 1
        <4> DEFINE u == f[i - 1]
                   v == s[i]
        <4>1. i - 1 \in 1..n /\ i \in 2..n /\ i - 1 > 0 /\ i \in 0..n
          BY <1>1, <3>2
        <4> HIDE DEF Found
        <4>2. u \in Seq(T) /\ Len(u) = e[i - 1] /\ Found(i - 1)
          BY <2>4, <4>1
        <4>3. v \in Seq(T) /\ f[i] = u \o v /\ e[i] = e[i - 1] + Len(v)
          BY <1>1, <1>2, <2>2, <4>1
        <4> HIDE DEF u, v, S
        <4>4. /\ f[i] \in Seq(T) /\ Len(f[i]) = Len(u) + Len(v)
              /\ Len(u) \in Nat /\ Len(v) \in Nat
              /\ \A k \in 1..Len(u) : f[i][k] = u[k]
              /\ \A b \in 1..Len(v) : f[i][Len(u) + b] = v[b]
          <5>0. u \in Seq(T) /\ v \in Seq(T)
            BY <4>2, <4>3
          <5>1. /\ u \o v \in Seq(T) /\ Len(u \o v) = Len(u) + Len(v)
                /\ Len(u) \in Nat /\ Len(v) \in Nat
                /\ \A k \in 1..Len(u) : (u \o v)[k] = u[k]
                /\ \A b \in 1..Len(v) : (u \o v)[Len(u) + b] = v[b]
            BY <5>0, Concatenated
          <5> DEFINE w == u \o v
          <5> HIDE DEF w
          <5>2. f[i] = w
            BY <4>3 DEF w
          <5> QED
            BY <5>1, <5>2 DEF w
        <4>5. Found(i)
          <5> SUFFICES ASSUME NEW j \in 1..i, NEW b \in 1..Len(s[j])
                       PROVE  f[i][e[j - 1] + b] = s[j][b]
            BY DEF Found
          <5>1. CASE j = i
            BY <4>2, <4>4, <5>1 DEF v
          <5>2. CASE j # i
            <6>1. j \in 1..(i - 1) /\ j \in 1..n /\ j \in 0..n /\ j - 1 \in 0..n /\ i - 1 \in j..n
              BY <1>1, <4>1, <5>2
            <6>2. u[e[j - 1] + b] = s[j][b]
              BY <4>2, <6>1 DEF Found, u
            <6>3. e[j] = e[j - 1] + Len(s[j]) /\ e[j - 1] \in Nat /\ e[j] \in Nat
                  /\ Len(s[j]) \in Nat
              BY <1>1, <1>2, <6>1
            <6>4. e[j] <= e[i - 1]
              BY <6>1, BeginsGrow DEF e, n
            <6>5. e[j - 1] + b \in 1..Len(u)
              <7> DEFINE low == e[j - 1]
                         high == e[j]
                         end == e[i - 1]
                         more == Len(s[j])
              <7>1. /\ low \in Nat /\ high \in Nat /\ more \in Nat /\ high = low + more
                    /\ high <= end /\ Len(u) = end /\ Len(u) \in Nat /\ b \in 1..more
                BY <4>2, <4>4, <6>3, <6>4
              <7> HIDE DEF low, high, end, more
              <7>2. low + b \in 1..Len(u)
                BY <7>1
              <7> QED
                BY <7>2 DEF low
            <6> QED
              BY <4>4, <6>2, <6>5
          <5> QED
            BY <5>1, <5>2
        <4>6. Right(i)
          BY <4>2, <4>3, <4>4, <4>5
        <4> HIDE DEF Right
        <4> QED
          BY <4>1, <4>6 DEF S
      <3> QED
        BY <3>1, <3>2
    <2> HIDE DEF S
    <2>5. \A i \in 0..n : i \in S
      BY <1>1, <2>3, <2>4, CountingUp
    <2>6. Right(n)
      <3>1. n \in S /\ n > 0
        BY <1>1, <2>1, <2>5 DEF n
      <3> HIDE DEF Right
      <3> QED
        BY <3>1 DEF S
    <2> QED
      BY <2>2, <2>6 DEF n, e
  <1> QED
    BY <1>3, <1>4

\* Sequences of the same elements each begin at the same places.
LEMMA BeginsSame ==
    ASSUME NEW T, NEW s \in Seq(Seq(T)), NEW t \in Seq(Seq(T)), Len(t) <= Len(s),
           \A i \in 1..Len(t) : Len(t[i]) = Len(s[i])
    PROVE  \A i \in 0..Len(t) : Begins(t)[i] = Begins(s)[i]
  <1> DEFINE m == Len(t)
             d == Begins(t)
             e == Begins(s)
  <1>1. m \in Nat /\ \A i \in 1..m : i \in 1..Len(s)
    OBVIOUS
  <1>2. d[0] = 0 /\ \A i \in 1..m : d[i] = d[i - 1] + Len(t[i])
    BY BeginsAre
  <1>3. e[0] = 0 /\ \A i \in 1..m : e[i] = e[i - 1] + Len(s[i])
    BY <1>1, BeginsAre
  <1>4. \A i \in 1..m : Len(t[i]) = Len(s[i])
    OBVIOUS
  <1> HIDE DEF m, d, e
  <1>5. Lockstep(d, e, m)
    BY <1>2, <1>3, <1>4 DEF Lockstep
  <1> QED
    BY <1>1, <1>5, SameComputed DEF m, d, e

-----------------------------------------------------------------------------
(* The bytes of members and elements.                                      *)

\* The element a byte belongs to, and its place in it.
LEMMA Divided ==
    ASSUME NEW d \in Nat, d > 0, NEW k \in Nat, NEW c \in 0..(d - 1)
    PROVE  (k * d + c) \div d = k /\ (k * d + c) % d = c
  <1> DEFINE x == k * d + c
             q == x \div d
             r == x % d
  <1>1. x \in Nat
    OBVIOUS
  <1>2. q \in Nat /\ r \in 0..(d - 1) /\ x = d * q + r
    <2> HIDE DEF x
    <2> QED
      BY <1>1
  <1> HIDE DEF q, r
  <1>3. d * q + r = k * d + c
    BY <1>2
  <1>4. CASE q = k
    BY <1>3, <1>4, <1>2 DEF q, r, x
  <1>5. CASE q >= k + 1
    <2>1. d * q >= d * (k + 1)
      BY <1>2, <1>5
    <2>2. d * (k + 1) = k * d + d
      OBVIOUS
    <2> QED
      BY <1>2, <1>3, <2>1, <2>2
  <1>6. CASE q + 1 <= k
    <2>1. d * (q + 1) <= d * k
      BY <1>2, <1>6
    <2>2. d * (q + 1) = d * q + d /\ d * k = k * d
      BY <1>2
    <2> QED
      BY <1>2, <1>3, <2>1, <2>2
  <1> QED
    BY <1>2, <1>4, <1>5, <1>6

\* The members of an element are as many bytes as their widths add up to.
LEMMA SlotsSize ==
    ASSUME NEW w \in Seq(Nat)
    PROVE  /\ Slots(w) \in Seq(Nat) /\ Len(Slots(w)) = SumOf(w) /\ SumOf(w) \in Nat
           /\ \A i \in 1..Len(w) : w[i] <= SumOf(w)
           /\ Len(w) = 1 => SumOf(w) = w[1]
  <1> DEFINE n == Len(w)
             t == [s \in DOMAIN w |-> [b \in 1..w[s] |-> s]]
             e == Begins(t)
             R(f) == [i \in 0..n |-> IF i = 0 THEN 0 ELSE f[i - 1] + w[i]]
             sum == CHOOSE f : f = R(f)
  <1>1. n \in Nat /\ DOMAIN w = 1..n /\ \A i \in 1..n : w[i] \in Nat
    OBVIOUS
  <1>2. t \in Seq(Seq(Nat)) /\ Len(t) = n /\ \A i \in 1..n : Len(t[i]) = w[i]
    <2>1. \A i \in 1..n : t[i] = [b \in 1..w[i] |-> i]
      BY <1>1
    <2>2. ASSUME NEW i \in 1..n PROVE t[i] \in Seq(Nat) /\ Len(t[i]) = w[i]
      <3>1. i \in Nat /\ w[i] \in Nat
        BY <1>1
      <3> DEFINE v == [b \in 1..w[i] |-> i]
      <3>2. v \in [1..w[i] -> Nat]
        BY <3>1
      <3>3. v \in Seq(Nat) /\ Len(v) = w[i]
        BY <3>1, <3>2
      <3> QED
        BY <2>1, <3>3
    <2>3. t = [i \in 1..n |-> t[i]]
      BY <1>1
    <2> HIDE DEF t, n
    <2>4. t \in [1..n -> Seq(Nat)]
      BY <2>2, <2>3
    <2>5. t \in Seq(Seq(Nat)) /\ Len(t) = n
      BY <1>1, <2>3, <2>4
    <2> QED
      BY <2>2, <2>5
  <1>3. Slots(w) = FlattenSeq(t)
    BY DEF Slots
  <1>4. SumOf(w) = sum[n]
    BY DEF SumOf
  <1> HIDE DEF t, n
  <1>5. /\ e \in [0..n -> Nat] /\ e[0] = 0
        /\ \A i \in 1..n : e[i] = e[i - 1] + w[i]
    BY <1>2, BeginsAre
  <1>6. Slots(w) \in Seq(Nat) /\ Len(Slots(w)) = e[n]
    BY <1>2, <1>3, Flattened
  <1> HIDE DEF e
  <1>7. e = R(e)
    <2>1. ASSUME NEW i \in 0..n PROVE e[i] = IF i = 0 THEN 0 ELSE e[i - 1] + w[i]
      <3>1. i # 0 => i \in 1..n
        BY <1>1
      <3> QED
        BY <1>5, <3>1
    <2>2. e = [i \in 0..n |-> e[i]]
      BY <1>5
    <2> QED
      BY <2>1, <2>2
  <1>8. sum = R(sum)
    <2> HIDE DEF R
    <2> QED
      BY <1>7 DEF sum
  <1> HIDE DEF sum
  <1>9. Lockstep(sum, e, n)
    <2>1. ASSUME NEW i \in 0..n PROVE sum[i] = IF i = 0 THEN 0 ELSE sum[i - 1] + w[i]
      <3>1. R(sum)[i] = IF i = 0 THEN 0 ELSE sum[i - 1] + w[i]
        OBVIOUS
      <3> HIDE DEF R
      <3> QED
        BY <1>8, <3>1
    <2>2. 0 \in 0..n /\ \A i \in 1..n : i \in 0..n /\ i # 0
      BY <1>1
    <2> HIDE DEF R
    <2>3. sum[0] = 0 /\ \A i \in 1..n : sum[i] = sum[i - 1] + w[i]
      BY <2>1, <2>2
    <2> QED
      BY <1>5, <2>3 DEF Lockstep
  <1>10. sum[n] = e[n] /\ e[n] \in Nat
    <2>1. n \in 0..n
      BY <1>1
    <2> HIDE DEF R
    <2> QED
      BY <1>1, <1>5, <1>9, <2>1, SameComputed
  <1> HIDE DEF R
  <1>11. ASSUME NEW i \in 1..n PROVE w[i] <= e[n]
    <2>1. i \in 0..Len(t) /\ Len(t) \in i..Len(t) /\ i - 1 \in 0..n /\ i \in 0..n /\ Len(t) = n
      BY <1>1, <1>2
    <2>2. e[i] <= e[Len(t)]
      BY <1>2, <2>1, BeginsGrow DEF e
    <2>3. e[i] \in Nat /\ e[i - 1] \in Nat /\ e[i] = e[i - 1] + w[i] /\ w[i] \in Nat
      BY <1>1, <1>5, <2>1
    <2> QED
      BY <1>10, <2>1, <2>2, <2>3
  <1>12. n = 1 => e[n] = w[1]
    <2> SUFFICES ASSUME n = 1 PROVE e[1] = w[1]
      OBVIOUS
    <2>1. 1 \in 1..n /\ 1 - 1 = 0
      OBVIOUS
    <2>2. e[1] = e[0] + w[1] /\ w[1] \in Nat
      BY <1>1, <1>5, <2>1
    <2> QED
      BY <1>5, <2>2
  <1> QED
    BY <1>4, <1>6, <1>10, <1>11, <1>12 DEF n

Mark == Nat \X Nat \X Nat

\* Each element has the same bytes, at its own place.
ElementsAt(w, i, e, n) ==
    /\ ElementBytes(w, i, e, n) \in Seq(Mark)
    /\ Len(ElementBytes(w, i, e, n)) = n * SumOf(w) /\ n * SumOf(w) \in Nat
    /\ \A k \in 0..(n - 1) : \A b \in 1..SumOf(w) :
           /\ k * SumOf(w) + b \in 1..(n * SumOf(w))
           /\ ElementBytes(w, i, e, n)[k * SumOf(w) + b] = <<i, e + k, Slots(w)[b]>>

\* ElementBytes lays them out so.
LEMMA ElementsLaid ==
    ASSUME NEW w \in Seq(Nat), SumOf(w) > 0, NEW i \in Nat, NEW e \in Nat, NEW n \in Nat
    PROVE  ElementsAt(w, i, e, n)
  <1> DEFINE d == SumOf(w)
             s == Slots(w)
             total == n * d
             v == [b \in 1..total |-> <<i, e + (b - 1) \div d, s[((b - 1) % d) + 1]>>]
  <1>1. s \in Seq(Nat) /\ Len(s) = d /\ d \in Nat /\ d > 0
    BY SlotsSize
  <1>2. total \in Nat
    BY <1>1
  <1>3. ElementBytes(w, i, e, n) = v
    BY <1>1 DEF ElementBytes
  <1> HIDE DEF s, d
  <1>4. ASSUME NEW b \in 1..total
        PROVE  <<i, e + (b - 1) \div d, s[((b - 1) % d) + 1]>> \in Mark
    <2>1. b - 1 \in Nat
      BY <1>2
    <2>2. (b - 1) \div d \in Nat /\ (b - 1) % d \in 0..(d - 1)
      BY <1>1, <2>1
    <2>3. ((b - 1) % d) + 1 \in 1..d
      BY <1>1, <2>2
    <2>4. s[((b - 1) % d) + 1] \in Nat
      BY <1>1, <2>3
    <2>5. e + (b - 1) \div d \in Nat
      BY <2>2
    <2> QED
      BY <2>4, <2>5 DEF Mark
  <1> HIDE DEF total
  <1>5. v \in [1..total -> Mark]
    BY <1>4
  <1>6. v \in Seq(Mark) /\ Len(v) = total
    <2>1. v = [b \in 1..total |-> v[b]]
      OBVIOUS
    <2> HIDE DEF v
    <2> QED
      BY <1>2, <1>5, <2>1
  <1>7. ASSUME NEW k \in 0..(n - 1), NEW b \in 1..d
        PROVE  k * d + b \in 1..total /\ v[k * d + b] = <<i, e + k, s[b]>>
    <2> DEFINE c == b - 1
    <2>1. k \in Nat /\ c \in 0..(d - 1) /\ k * d \in Nat /\ k * d + b = k * d + c + 1
      BY <1>1
    <2>2. (k * d + c) \div d = k /\ (k * d + c) % d = c
      BY <1>1, <2>1, Divided
    <2>3. k * d + b \in 1..total
      <3>1. (k + 1) * d <= n * d
        BY <1>1
      <3>2. (k + 1) * d = k * d + d
        BY <1>1
      <3> QED
        BY <1>1, <1>2, <2>1, <3>1, <3>2 DEF total
    <2>4. (k * d + b) - 1 = k * d + c /\ c + 1 = b
      BY <1>1, <2>1
    <2>5. v[k * d + b] = <<i, e + ((k * d + b) - 1) \div d, s[((((k * d + b) - 1) % d) + 1)]>>
      BY <2>3
    <2> HIDE DEF c, v
    <2> QED
      BY <2>2, <2>3, <2>4, <2>5
  <1> HIDE DEF v
  <1> QED
    BY <1>2, <1>3, <1>6, <1>7 DEF ElementsAt, total, d, s

-----------------------------------------------------------------------------
(* A message, laid out.                                                    *)

Member == [kind : {"field", "count", "list"}, widths : Seq(Nat), cap : Nat]

\* A list has its length before it, all else is a single value.
Struct(struct) ==
    /\ struct \in Seq(Member)
    /\ \A i \in 1..Len(struct) :
           /\ Len(struct[i].widths) > 0 /\ struct[i].widths[1] > 0
           /\ struct[i].kind # "list" => Len(struct[i].widths) = 1
           /\ struct[i].kind = "list" => i > 1 /\ struct[i - 1].kind = "count"

Counted(struct, counts) == \A i \in CountPositions(struct) : counts[i] \in Nat

\* How many elements a member has, and the bytes of one.
Elements(struct, counts, i) == IF struct[i].kind = "list" THEN counts[i - 1] ELSE 1
Width(struct, i) == SumOf(struct[i].widths)

\* The bytes before each member.
Places(struct, counts) == Begins([i \in DOMAIN struct |-> MemberBytes(struct, counts, i)])

\* What can be said of a member by itself.
LEMMA MemberIs ==
    ASSUME NEW struct, Struct(struct), NEW i \in 1..Len(struct)
    PROVE  /\ Len(struct) \in Nat /\ DOMAIN struct = 1..Len(struct)
           /\ struct[i].kind \in {"field", "count", "list"} /\ struct[i].cap \in Nat
           /\ struct[i].widths \in Seq(Nat)
           /\ Width(struct, i) \in Nat /\ Width(struct, i) > 0
           /\ struct[i].kind # "list" => Width(struct, i) = struct[i].widths[1]
           /\ struct[i].kind = "list" => i > 1 /\ i - 1 \in CountPositions(struct)
           /\ struct[i].kind = "count" => i \in CountPositions(struct)
  <1>1. struct \in Seq(Member) /\ Len(struct) \in Nat /\ DOMAIN struct = 1..Len(struct)
    BY DEF Struct
  <1>2. struct[i] \in Member
    BY <1>1
  <1>3. /\ struct[i].kind \in {"field", "count", "list"} /\ struct[i].cap \in Nat
        /\ struct[i].widths \in Seq(Nat)
    BY <1>2 DEF Member
  <1>4. /\ Len(struct[i].widths) > 0 /\ struct[i].widths[1] > 0
        /\ struct[i].kind # "list" => Len(struct[i].widths) = 1
        /\ struct[i].kind = "list" => i > 1 /\ struct[i - 1].kind = "count"
    BY DEF Struct
  <1> DEFINE w == struct[i].widths
  <1>5. w \in Seq(Nat) /\ Len(w) > 0 /\ w[1] > 0
    BY <1>3, <1>4
  <1> HIDE DEF w
  <1>6. SumOf(w) \in Nat /\ (Len(w) = 1 => SumOf(w) = w[1])
    BY <1>5, SlotsSize
  <1>7. SumOf(w) > 0
    <2>1. 1 \in 1..Len(w) /\ w[1] \in Nat
      BY <1>5
    <2>2. w[1] <= SumOf(w)
      BY <1>5, <2>1, SlotsSize
    <2> QED
      BY <1>5, <1>6, <2>1, <2>2
  <1>8. Width(struct, i) = SumOf(w)
    BY DEF Width, w
  <1>9. struct[i].kind # "list" => Width(struct, i) = struct[i].widths[1]
    BY <1>4, <1>6, <1>8 DEF w
  <1>10. struct[i].kind = "list" => i > 1 /\ i - 1 \in CountPositions(struct)
    <2> SUFFICES ASSUME struct[i].kind = "list"
                 PROVE  i > 1 /\ i - 1 \in CountPositions(struct)
      OBVIOUS
    <2>1. i > 1 /\ struct[i - 1].kind = "count"
      BY <1>4
    <2>2. i - 1 \in 1..Len(struct)
      BY <1>1, <2>1
    <2> QED
      BY <1>1, <2>1, <2>2 DEF CountPositions
  <1>11. struct[i].kind = "count" => i \in CountPositions(struct)
    BY <1>1 DEF CountPositions
  <1> QED
    BY <1>1, <1>3, <1>6, <1>7, <1>8, <1>9, <1>10, <1>11

\* The length of a list is the count right before it.
LEMMA LengthBefore ==
    ASSUME NEW struct, Struct(struct), NEW counts, NEW i \in 1..Len(struct),
           struct[i].kind = "list"
    PROVE  ListLength(struct, counts, i) = counts[i - 1]
  <1> DEFINE J == {j \in CountPositions(struct) : j < i}
  <1>1. i > 1 /\ i - 1 \in CountPositions(struct) /\ DOMAIN struct = 1..Len(struct)
    BY MemberIs
  <1>2. i - 1 \in J
    BY <1>1
  <1>3. \A j \in J : j \in Int /\ j <= i - 1
    BY <1>1 DEF CountPositions
  <1> HIDE DEF J
  <1>4. Max(J) = i - 1
    <2>1. i - 1 \in Int /\ \A j \in J : i - 1 >= j
      BY <1>3
    <2>2. \A m \in J : (\A j \in J : m >= j) => m = i - 1
      BY <1>2, <1>3
    <2> QED
      BY <1>2, <2>1, <2>2 DEF Max
  <1> QED
    BY <1>4 DEF ListLength, J

\* The bytes of a member are those of its elements, one after the other.
LEMMA MembersLaid ==
    ASSUME NEW struct, Struct(struct), NEW counts, Counted(struct, counts),
           NEW i \in 1..Len(struct)
    PROVE  /\ Elements(struct, counts, i) \in Nat
           /\ MemberBytes(struct, counts, i) \in Seq(Mark)
           /\ Len(MemberBytes(struct, counts, i))
                  = Elements(struct, counts, i) * Width(struct, i)
           /\ \A k \in 0..(Elements(struct, counts, i) - 1) : \A b \in 1..Width(struct, i) :
                  /\ k * Width(struct, i) + b
                         \in 1..(Elements(struct, counts, i) * Width(struct, i))
                  /\ MemberBytes(struct, counts, i)[k * Width(struct, i) + b]
                         = <<i, k, Slots(struct[i].widths)[b]>>
  <1> DEFINE n == Elements(struct, counts, i)
             w == struct[i].widths
             m == MemberBytes(struct, counts, i)
  <1>1. /\ w \in Seq(Nat) /\ Width(struct, i) = SumOf(w) /\ SumOf(w) > 0
        /\ i \in Nat
        /\ struct[i].kind = "list" => i - 1 \in CountPositions(struct)
    BY MemberIs DEF Width
  <1>2. n \in Nat
    BY <1>1 DEF Counted, Elements
  <1>3. m = ElementBytes(w, i, 0, n)
    BY LengthBefore DEF MemberBytes, Elements
  <1> HIDE DEF n, w, m
  <1>4. /\ m \in Seq(Mark) /\ Len(m) = n * SumOf(w)
        /\ \A k \in 0..(n - 1) : \A b \in 1..SumOf(w) :
               /\ k * SumOf(w) + b \in 1..(n * SumOf(w))
               /\ m[k * SumOf(w) + b] = <<i, 0 + k, Slots(w)[b]>>
    <2>1. w \in Seq(Nat) /\ SumOf(w) > 0 /\ i \in Nat /\ 0 \in Nat /\ n \in Nat
      BY <1>1, <1>2
    <2>3. ElementsAt(w, i, 0, n)
      BY <2>1, ElementsLaid
    <2>2. /\ ElementBytes(w, i, 0, n) \in Seq(Mark)
          /\ Len(ElementBytes(w, i, 0, n)) = n * SumOf(w)
          /\ \A k \in 0..(n - 1) : \A b \in 1..SumOf(w) :
                 /\ k * SumOf(w) + b \in 1..(n * SumOf(w))
                 /\ ElementBytes(w, i, 0, n)[k * SumOf(w) + b] = <<i, 0 + k, Slots(w)[b]>>
      BY <2>3 DEF ElementsAt
    <2> QED
      BY <2>2, <1>3, Zenon
  <1>5. \A k \in 0..(n - 1) : 0 + k = k
    BY <1>2
  <1>6. \A k \in 0..(n - 1) : \A b \in 1..SumOf(w) :
            /\ k * SumOf(w) + b \in 1..(n * SumOf(w))
            /\ m[k * SumOf(w) + b] = <<i, k, Slots(w)[b]>>
    BY <1>4, <1>5
  <1> QED
    BY <1>1, <1>2, <1>4, <1>6 DEF n, w, m

\* Each byte of a member is the one its place says.
MemberLaid(struct, counts, i) ==
    \A k \in 0..(Elements(struct, counts, i) - 1) : \A b \in 1..Width(struct, i) :
        Payload(struct, counts)[Places(struct, counts)[i - 1] + (k * Width(struct, i) + b)]
            = <<i, k, Slots(struct[i].widths)[b]>>

\* The payload is the members, one after the other.
LEMMA PayloadLaid ==
    ASSUME NEW struct, Struct(struct), NEW counts, Counted(struct, counts)
    PROVE  /\ Len(struct) \in Nat
           /\ Places(struct, counts) \in [0..Len(struct) -> Nat]
           /\ Places(struct, counts)[0] = 0
           /\ Len(Payload(struct, counts)) = Places(struct, counts)[Len(struct)]
           /\ \A i \in 1..Len(struct) :
                  Places(struct, counts)[i] = Places(struct, counts)[i - 1]
                      + Elements(struct, counts, i) * Width(struct, i)
           /\ \A i \in 0..Len(struct) :
                  Places(struct, counts)[i] <= Places(struct, counts)[Len(struct)]
           /\ \A i \in 1..Len(struct) : MemberLaid(struct, counts, i)
  <1> DEFINE n == Len(struct)
             s == [i \in DOMAIN struct |-> MemberBytes(struct, counts, i)]
             e == Places(struct, counts)
             p == Payload(struct, counts)
             most(i) == Elements(struct, counts, i)
             width(i) == Width(struct, i)
  <1>1. n \in Nat /\ DOMAIN struct = 1..n
    BY DEF Struct
  <1>2. \A i \in 1..n : /\ s[i] \in Seq(Mark) /\ Len(s[i]) = most(i) * width(i)
                        /\ s[i] = MemberBytes(struct, counts, i)
    BY <1>1, MembersLaid
  <1>3. s \in Seq(Seq(Mark)) /\ Len(s) = n
    <2>1. s = [i \in 1..n |-> s[i]]
      BY <1>1
    <2> HIDE DEF s, n
    <2>2. s \in [1..n -> Seq(Mark)]
      BY <1>2, <2>1
    <2> QED
      BY <1>1, <2>1, <2>2
  <1>4. e = Begins(s) /\ p = FlattenSeq(s)
    BY DEF Places, Payload
  <1> HIDE DEF s, e, p
  <1>5. /\ e \in [0..n -> Nat] /\ e[0] = 0
        /\ \A i \in 1..n : e[i] = e[i - 1] + Len(s[i])
    BY <1>3, <1>4, BeginsAre
  <1>6. Len(p) = e[n]
    BY <1>3, <1>4, Flattened
  <1>7. \A i \in 1..n : \A b \in 1..Len(s[i]) : p[e[i - 1] + b] = s[i][b]
    BY <1>3, <1>4, Flattened
  <1>8. \A i \in 0..n : e[i] <= e[n]
    <2>1. \A i \in 0..n : n \in i..n
      BY <1>1
    <2> QED
      BY <1>3, <1>4, <2>1, BeginsGrow
  <1>9. \A i \in 1..n : e[i] = e[i - 1] + most(i) * width(i)
    BY <1>2, <1>5
  <1>10. ASSUME NEW i \in 1..n, NEW k \in 0..(most(i) - 1), NEW b \in 1..width(i)
         PROVE  p[e[i - 1] + (k * width(i) + b)] = <<i, k, Slots(struct[i].widths)[b]>>
    <2> DEFINE c == k * width(i) + b
    <2>1. c \in 1..(most(i) * width(i)) /\ s[i][c] = <<i, k, Slots(struct[i].widths)[b]>>
      BY <1>2, MembersLaid
    <2> HIDE DEF c, most, width
    <2>2. p[e[i - 1] + c] = s[i][c]
      BY <1>2, <1>7, <2>1
    <2> QED
      BY <2>1, <2>2 DEF c
  <1>11. \A i \in 1..n : MemberLaid(struct, counts, i)
    BY <1>10 DEF MemberLaid, e, p
  <1> QED
    BY <1>1, <1>5, <1>6, <1>8, <1>9, <1>11 DEF n, e, p

\* A message that ends after some of the members has the bytes before the next.
LEMMA PayloadCut ==
    ASSUME NEW struct, Struct(struct), NEW counts, Counted(struct, counts),
           NEW m \in 0..Len(struct)
    PROVE  Len(Payload(SubSeq(struct, 1, m), counts)) = Places(struct, counts)[m]
  <1> DEFINE n == Len(struct)
             u == SubSeq(struct, 1, m)
             s == [i \in DOMAIN struct |-> MemberBytes(struct, counts, i)]
             t == [i \in DOMAIN u |-> MemberBytes(u, counts, i)]
  <1>1. n \in Nat /\ struct \in Seq(Member) /\ DOMAIN struct = 1..n /\ m \in Nat /\ m <= n
    BY DEF Struct
  <1>2. u \in Seq(Member) /\ Len(u) = m /\ DOMAIN u = 1..m /\ \A i \in 1..m : u[i] = struct[i]
    <2>1. u = [i \in 1..m |-> struct[i]]
      BY <1>1
    <2>2. \A i \in 1..m : struct[i] \in Member
      BY <1>1
    <2> HIDE DEF u
    <2> QED
      BY <1>1, <2>1, <2>2
  <1> HIDE DEF u, n
  <1>3. Struct(u)
    <2> SUFFICES ASSUME NEW i \in 1..m
                 PROVE  /\ Len(u[i].widths) > 0 /\ u[i].widths[1] > 0
                        /\ u[i].kind # "list" => Len(u[i].widths) = 1
                        /\ u[i].kind = "list" => i > 1 /\ u[i - 1].kind = "count"
      BY <1>2 DEF Struct
    <2>1. i \in 1..n /\ u[i] = struct[i] /\ (i > 1 => u[i - 1] = struct[i - 1])
      BY <1>1, <1>2
    <2> QED
      BY <2>1 DEF Struct, n
  <1>4. Counted(u, counts)
    <2>1. \A i \in CountPositions(u) : i \in CountPositions(struct)
      BY <1>1, <1>2 DEF CountPositions
    <2> QED
      BY <2>1 DEF Counted
  <1>5. \A i \in 1..m : /\ Elements(u, counts, i) = Elements(struct, counts, i)
                        /\ Width(u, i) = Width(struct, i)
    BY <1>2 DEF Elements, Width
  <1>6. /\ Places(u, counts)[0] = 0
        /\ \A i \in 1..m : Places(u, counts)[i] = Places(u, counts)[i - 1]
               + Elements(u, counts, i) * Width(u, i)
        /\ Len(Payload(u, counts)) = Places(u, counts)[m]
    BY <1>2, <1>3, <1>4, PayloadLaid
  <1>7. /\ Places(struct, counts)[0] = 0
        /\ \A i \in 1..m : Places(struct, counts)[i] = Places(struct, counts)[i - 1]
               + Elements(struct, counts, i) * Width(struct, i)
    <2>1. \A i \in 1..m : i \in 1..Len(struct)
      BY <1>1 DEF n
    <2> QED
      BY <2>1, PayloadLaid
  <1>8. Lockstep(Places(u, counts), Places(struct, counts), m)
    BY <1>5, <1>6, <1>7 DEF Lockstep
  <1>9. Places(u, counts)[m] = Places(struct, counts)[m]
    BY <1>1, <1>8, SameComputed
  <1> QED
    BY <1>6, <1>9 DEF u

-----------------------------------------------------------------------------
(* The parsers.                                                            *)

\* What a message takes without its lists, up to 15 members.
Single(struct, i) ==
    IF i \in DOMAIN struct /\ struct[i].kind # "list" THEN struct[i].widths[1] ELSE 0
Fixed(struct) ==
    Single(struct, 1) + Single(struct, 2) + Single(struct, 3) + Single(struct, 4)
    + Single(struct, 5) + Single(struct, 6) + Single(struct, 7) + Single(struct, 8)
    + Single(struct, 9) + Single(struct, 10) + Single(struct, 11) + Single(struct, 12)
    + Single(struct, 13) + Single(struct, 14) + Single(struct, 15)

Limited(struct) == Len(struct) <= 15

\* A message is no shorter than Fixed says, and just as long if all its lists are empty.
LEMMA FixedFits ==
    ASSUME NEW struct, Struct(struct), Limited(struct), NEW counts, Counted(struct, counts)
    PROVE  /\ Fixed(struct) \in Nat /\ Fixed(struct) <= Places(struct, counts)[Len(struct)]
           /\ (\A i \in CountPositions(struct) : counts[i] = 0) =>
                  Fixed(struct) = Places(struct, counts)[Len(struct)]
  <1> DEFINE n == Len(struct)
             e == Places(struct, counts)
             E(i) == IF i <= n THEN e[i] ELSE e[n]
             S(i) == Single(struct, i)
             most(i) == Elements(struct, counts, i)
             width(i) == Width(struct, i)
  <1>1. n \in Nat /\ n <= 15 /\ DOMAIN struct = 1..n
    BY DEF Struct, Limited
  <1>2. e \in [0..n -> Nat] /\ e[0] = 0
    BY PayloadLaid
  <1>3. \A i \in 1..n : e[i] = e[i - 1] + most(i) * width(i)
    BY PayloadLaid
  <1>4. \A i \in 1..n : /\ struct[i].kind # "list" => most(i) = 1 /\ S(i) = width(i)
                        /\ struct[i].kind = "list" => S(i) = 0
                        /\ most(i) \in Nat /\ width(i) \in Nat
    BY <1>1, MemberIs, MembersLaid DEF Elements, Single
  <1> DEFINE empty == \A i \in CountPositions(struct) : counts[i] = 0
  <1>5. \A i \in 1..n : /\ S(i) \in Nat /\ e[i] >= e[i - 1] + S(i)
                        /\ empty => e[i] = e[i - 1] + S(i)
    <2> SUFFICES ASSUME NEW i \in 1..n
                 PROVE  /\ S(i) \in Nat /\ e[i] >= e[i - 1] + S(i)
                        /\ empty => e[i] = e[i - 1] + S(i)
      OBVIOUS
    <2>1. i - 1 \in 0..n /\ e[i - 1] \in Nat
      BY <1>1, <1>2
    <2>2. struct[i].kind = "list" => i - 1 \in CountPositions(struct)
      BY MemberIs
    <2>3. struct[i].kind = "list" /\ empty => most(i) = 0
      BY <2>2 DEF Elements
    <2> HIDE DEF S, e, most, width, empty
    <2>4. most(i) * width(i) \in Nat
      BY <1>4
    <2>5. e[i] = e[i - 1] + most(i) * width(i)
      BY <1>3
    <2>6. CASE struct[i].kind = "list"
      <3>1. S(i) = 0 /\ width(i) \in Nat
        BY <1>4, <2>6
      <3>2. most(i) = 0 => most(i) * width(i) = 0
        BY <3>1
      <3> QED
        BY <2>1, <2>3, <2>4, <2>5, <2>6, <3>1, <3>2
    <2>7. CASE struct[i].kind # "list"
      <3>1. most(i) = 1 /\ S(i) = width(i) /\ width(i) \in Nat
        BY <1>4, <2>7
      <3>2. most(i) * width(i) = width(i)
        BY <3>1
      <3> QED
        BY <2>1, <2>5, <3>1, <3>2
    <2> QED
      BY <2>6, <2>7
  <1>6. \A i \in 1..15 : i \notin 1..n => S(i) = 0
    BY <1>1 DEF Single
  <1> HIDE DEF S, e, n, empty
  <1> DEFINE Grows(j, i) == E(i) \in Nat /\ S(i) \in Nat /\ E(i) >= E(j) + S(i)
             Equals(j, i) == S(i) \in Nat /\ E(i) = E(j) + S(i)
  <1>7. ASSUME NEW i \in 1..15 PROVE Grows(i - 1, i) /\ (empty => Equals(i - 1, i))
    <2>1. CASE i <= n
      <3>1. i \in 1..n /\ i \in 0..n /\ i - 1 \in 0..n /\ i - 1 <= n
        BY <1>1, <2>1
      <3>2. E(i) = e[i] /\ E(i - 1) = e[i - 1] /\ e[i] \in Nat
        BY <1>2, <3>1
      <3> QED
        BY <1>5, <3>1, <3>2
    <2>2. CASE ~(i <= n)
      <3>1. i \notin 1..n /\ n \in 0..n /\ (i - 1 <= n => i - 1 = n)
        BY <1>1, <2>2
      <3>2. S(i) = 0 /\ e[n] \in Nat
        BY <1>2, <1>6, <3>1
      <3>3. E(i) = e[n] /\ E(i - 1) = e[n]
        BY <2>2, <3>1
      <3> QED
        BY <3>2, <3>3
    <2> QED
      BY <2>1, <2>2
  <1>8. E(0) = 0 /\ E(15) = e[n]
    <2>1. 0 <= n /\ (15 <= n => n = 15)
      BY <1>1
    <2> QED
      BY <1>2, <2>1
  <1> HIDE DEF E, Grows, Equals
  <1>9. \A i \in 1..15, j \in 0..14 : j = i - 1 => Grows(j, i) /\ (empty => Equals(j, i))
    BY <1>7
  <1>10. /\ Grows(0, 1) /\ Grows(1, 2) /\ Grows(2, 3) /\ Grows(3, 4) /\ Grows(4, 5)
         /\ Grows(5, 6) /\ Grows(6, 7) /\ Grows(7, 8) /\ Grows(8, 9) /\ Grows(9, 10)
         /\ Grows(10, 11) /\ Grows(11, 12) /\ Grows(12, 13) /\ Grows(13, 14) /\ Grows(14, 15)
    BY <1>9
  <1>11. Fixed(struct) \in Nat /\ Fixed(struct) <= E(15)
    BY <1>8, <1>10 DEF Fixed, S, Grows
  <1>12. ASSUME empty PROVE Fixed(struct) = E(15)
    <2>1. /\ Equals(0, 1) /\ Equals(1, 2) /\ Equals(2, 3) /\ Equals(3, 4) /\ Equals(4, 5)
         /\ Equals(5, 6) /\ Equals(6, 7) /\ Equals(7, 8) /\ Equals(8, 9) /\ Equals(9, 10)
         /\ Equals(10, 11) /\ Equals(11, 12) /\ Equals(12, 13) /\ Equals(13, 14) /\ Equals(14, 15)
      BY <1>9, <1>12
    <2> QED
      BY <1>8, <2>1 DEF Fixed, S, Equals
  <1> QED
    BY <1>8, <1>11, <1>12 DEF e, n, empty

\* The member that a statement is for: the statement at g tests rpcLen.
MemberAt(g, j) == IF g = 0 \/ j <= g THEN j ELSE j - 1

Fills(read, m) ==
    /\ read.widths = m.widths
    /\ \/ m.kind = "field" /\ read.kind \in {"field", "peek"}
       \/ m.kind = "count" /\ read.kind = "count"
       \/ m.kind = "list" /\ read.kind \in {"list", "one index list"}

\* Every member of a parser's struct is read in its turn and at its width, and the lengths
\* the parser tests leave room for empty lists.
Parses(p, g) ==
    /\ Struct(p.struct) /\ Limited(p.struct)
    /\ \A i \in 1..Len(p.struct) :
           p.struct[i].kind = "count" => i + 1 <= Len(p.struct) /\ p.struct[i + 1].kind = "list"
    /\ g \in 0..Len(p.struct)
    /\ Len(p.reads) = Len(p.struct) + (IF g = 0 THEN 0 ELSE 1)
    /\ DOMAIN p.reads = 1..Len(p.reads)
    /\ \A j \in 1..Len(p.reads) : j # g => Fills(p.reads[j], p.struct[MemberAt(g, j)])
    /\ g > 0 => /\ p.reads[g].kind = "if longer"
                /\ p.reads[g].cap \in Nat /\ p.reads[g].cap < Fixed(p.struct) + 3
    /\ p.need \in Nat /\ p.need <= Fixed(p.struct) + 3 /\ Fixed(p.struct) <= 100

\* A member by itself, and a struct of such members.
Sensible(m) == /\ m \in Member /\ Len(m.widths) > 0 /\ m.widths[1] > 0
               /\ m.kind # "list" => Len(m.widths) = 1

Laid(s) ==
    /\ s \in Seq(Member) /\ Limited(s)
    /\ \A i \in 1..Len(s) :
           /\ Sensible(s[i])
           /\ s[i].kind = "list" => i > 1 /\ s[i - 1].kind = "count"
           /\ s[i].kind = "count" => i + 1 <= Len(s) /\ s[i + 1].kind = "list"

\* A struct of n members, the lists among them at the places given.
Outline(s, n, lists) ==
    /\ Len(s) = n /\ DOMAIN s = 1..n /\ s = [i \in 1..n |-> s[i]]
    /\ \A i \in 1..n : Sensible(s[i])
    /\ \A i \in 1..n : i \in lists <=> s[i].kind = "list"
    /\ \A i \in 1..n : i + 1 \in lists <=> s[i].kind = "count"
    /\ \A i \in 1..n : i \in lists => i > 1

\* A struct of which each member is known is laid out well.
LEMMA OutlineLaid ==
    ASSUME NEW s, NEW n \in 0..15, NEW lists \in SUBSET (2..n), Outline(s, n, lists)
    PROVE  Laid(s)
  <1>1. /\ Len(s) = n /\ s = [i \in 1..n |-> s[i]]
        /\ \A i \in 1..n : Sensible(s[i])
        /\ \A i \in 1..n : i \in lists <=> s[i].kind = "list"
        /\ \A i \in 1..n : i + 1 \in lists <=> s[i].kind = "count"
    BY DEF Outline
  <1>2. \A i \in 1..n : s[i] \in Member
    BY <1>1 DEF Sensible
  <1>3. s \in Seq(Member)
    BY <1>1, <1>2
  <1>4. Limited(s)
    BY <1>1 DEF Limited
  <1>5. ASSUME NEW i \in 1..n
        PROVE  /\ s[i].kind = "list" => i > 1 /\ s[i - 1].kind = "count"
               /\ s[i].kind = "count" => i + 1 <= n /\ s[i + 1].kind = "list"
    <2>1. ASSUME s[i].kind = "list" PROVE i > 1 /\ s[i - 1].kind = "count"
      <3>1. i \in lists
        BY <1>1, <2>1
      <3>2. i - 1 \in 1..n /\ (i - 1) + 1 \in lists
        BY <3>1
      <3> QED
        BY <1>1, <3>1, <3>2
    <2>2. ASSUME s[i].kind = "count" PROVE i + 1 <= n /\ s[i + 1].kind = "list"
      <3>1. i + 1 \in lists
        BY <1>1, <2>2
      <3>2. i + 1 \in 1..n
        BY <3>1
      <3> QED
        BY <1>1, <3>1, <3>2
    <2> QED
      BY <2>1, <2>2
  <1> QED
    BY <1>1, <1>3, <1>4, <1>5 DEF Laid

Weighed(s, n, lists) ==
    \A i \in 1..15 :
        Single(s, i) = IF i \in 1..n /\ i \notin lists THEN s[i].widths[1] ELSE 0

\* What the members of such a struct add to Fixed.
LEMMA OutlineWeighed ==
    ASSUME NEW s, NEW n \in 0..15, NEW lists, Outline(s, n, lists)
    PROVE  Weighed(s, n, lists)
  BY DEF Outline, Single, Weighed

\* No statement of the parser reads twice at one place, or has one index for two things.
Straight(p) == \A j \in 1..Len(p.reads) : p.reads[j].kind \notin {"peek", "one index list"}

\* A parser that reads the members as they are parses.
LEMMA PlainParses ==
    ASSUME NEW s, Laid(s), NEW need \in Nat, need <= Fixed(s) + 3, Fixed(s) <= 100
    PROVE  Parses(Parser(s, need, s), 0) /\ Straight(Parser(s, need, s))
  <1> DEFINE p == Parser(s, need, s)
  <1>1. p.struct = s /\ p.reads = s /\ p.need = need
    BY DEF Parser
  <1> HIDE DEF p
  <1>2. s \in Seq(Member) /\ Limited(s) /\ DOMAIN s = 1..Len(s) /\ Len(s) \in Nat
    BY DEF Laid
  <1>3. Struct(s)
    BY <1>2 DEF Laid, Struct, Sensible
  <1>4. \A i \in 1..Len(s) : s[i].kind = "count" => i + 1 <= Len(s) /\ s[i + 1].kind = "list"
    BY DEF Laid
  <1>5. \A j \in 1..Len(s) : Fills(s[j], s[j]) /\ s[j].kind \in {"field", "count", "list"}
    <2>1. \A m \in Member : Fills(m, m) /\ m.kind \in {"field", "count", "list"}
      BY DEF Fills, Member
    <2> QED
      BY <1>2, <2>1
  <1>6. \A j \in 1..Len(s) : MemberAt(0, j) = j
    BY DEF MemberAt
  <1>7. Straight(p)
    BY <1>1, <1>5 DEF Straight
  <1> QED
    BY <1>1, <1>2, <1>3, <1>4, <1>5, <1>6, <1>7 DEF Parses, p

\* The statements r fill the members of s, and the one at g tests rpcLen.
Guarded(r, s, g, n) ==
    /\ Len(r) = Len(s) + 1 /\ DOMAIN r = 1..Len(r)
    /\ g \in 1..Len(s) /\ r[g] = IfLonger(n)
    /\ \A j \in 1..Len(r) : j # g => Fills(r[j], s[MemberAt(g, j)])

\* So does one that also tests rpcLen, if empty lists pass the test.
LEMMA GuardedParses ==
    ASSUME NEW s, Laid(s), NEW need \in Nat, need <= Fixed(s) + 3, Fixed(s) <= 100,
           NEW r, NEW g, NEW n \in Nat, n < Fixed(s) + 3, Guarded(r, s, g, n)
    PROVE  Parses(Parser(s, need, r), g)
  <1> DEFINE p == Parser(s, need, r)
  <1>1. p.struct = s /\ p.reads = r /\ p.need = need
    BY DEF Parser
  <1> HIDE DEF p
  <1>2. s \in Seq(Member) /\ Limited(s) /\ DOMAIN s = 1..Len(s) /\ Len(s) \in Nat
    BY DEF Laid
  <1>3. Struct(s)
    BY <1>2 DEF Laid, Struct, Sensible
  <1>4. \A i \in 1..Len(s) : s[i].kind = "count" => i + 1 <= Len(s) /\ s[i + 1].kind = "list"
    BY DEF Laid
  <1>5. /\ Len(r) = Len(s) + 1 /\ DOMAIN r = 1..Len(r)
        /\ g \in 1..Len(s) /\ r[g] = IfLonger(n)
        /\ \A j \in 1..Len(r) : j # g => Fills(r[j], s[MemberAt(g, j)])
    BY DEF Guarded
  <1>6. r[g].kind = "if longer" /\ r[g].cap = n
    <2>1. IfLonger(n).kind = "if longer" /\ IfLonger(n).cap = n
      BY DEF IfLonger
    <2> QED
      BY <1>5, <2>1, Zenon
  <1>7. g \in 0..Len(s) /\ g # 0
    BY <1>2, <1>5
  <1> QED
    BY <1>1, <1>2, <1>3, <1>4, <1>5, <1>6, <1>7 DEF Parses, p

\* What the statement of a value of w bytes or of a length is.
LEMMA ValuesAre ==
    /\ \A w \in {1, 2, 4, 8, 16} : /\ Sensible(Field(w)) /\ Field(w).kind = "field"
                                   /\ Field(w).widths[1] = w
    /\ \A w \in {1, 2} : /\ Sensible(Count(w)) /\ Count(w).kind = "count"
                         /\ Count(w).widths[1] = w
  BY DEF Sensible, Member, Field, Count

Array(m) == Sensible(m) /\ m.kind = "list"

\* The lists that the structs have.
LEMMA ListsAre ==
    \A cap \in Nat :
        /\ Array(List(<<1>>, cap)) /\ Array(List(<<2>>, cap))
        /\ Array(List(<<2, 1, 2>>, cap)) /\ Array(List(<<8, 1, 1, 1, 1>>, cap))
        /\ Array(List(<<8, 1, 1, 1, 8, 1>>, cap)) /\ Array(List(<<8, 8, 2, 1, 1, 1, 1>>, cap))
        /\ Array(List(<<2, 2, 1, 1, 1, 1, 1, 1, 1, 1, 1, 8>>, cap))
  BY DEF Array, Sensible, Member, List

Lays(s, k) == Laid(s) /\ Fixed(s) = k

\* A struct like that of StateChange takes 1 byte.
LEMMA StateChangeLaid ==
    Lays(<<Field(1)>>, 1)
  <1> DEFINE s == <<Field(1)>>
  <1>1. Outline(s, 1, {})
    BY ListsAre, ValuesAre DEF Array, Outline
  <1>2. s[1].widths[1] = 1
    BY ValuesAre
  <1> HIDE DEF s
  <1>3. Weighed(s, 1, {})
    BY <1>1, OutlineWeighed
  <1>4. /\ Single(s, 1) = 1 /\ Single(s, 2) = 0 /\ Single(s, 3) = 0 /\ Single(s, 4) = 0
        /\ Single(s, 5) = 0 /\ Single(s, 6) = 0 /\ Single(s, 7) = 0 /\ Single(s, 8) = 0
        /\ Single(s, 9) = 0 /\ Single(s, 10) = 0 /\ Single(s, 11) = 0 /\ Single(s, 12) = 0
        /\ Single(s, 13) = 0 /\ Single(s, 14) = 0 /\ Single(s, 15) = 0
    BY <1>2, <1>3 DEF Weighed
  <1>5. Fixed(s) = 1 + 0 + 0 + 0 + 0 + 0 + 0 + 0 + 0 + 0 + 0 + 0 + 0 + 0 + 0
    BY <1>4, Zenon DEF Fixed
  <1>6. Laid(s)
    BY <1>1, OutlineLaid
  <1> QED
    BY <1>5, <1>6 DEF Lays, s

\* A struct like that of NwkAddrRsp takes 13 bytes and its list.
LEMMA NwkAddrRspLaid ==
    Lays(<<Field(1), Field(8), Field(2), Field(1), Count(1), List(<<2>>, 70)>>, 13)
  <1> DEFINE s == <<Field(1), Field(8), Field(2), Field(1), Count(1), List(<<2>>, 70)>>
  <1>1. Outline(s, 6, {6})
    BY ListsAre, ValuesAre DEF Array, Outline
  <1>2. /\ s[1].widths[1] = 1 /\ s[2].widths[1] = 8 /\ s[3].widths[1] = 2 /\ s[4].widths[1] = 1
        /\ s[5].widths[1] = 1
    BY ValuesAre
  <1> HIDE DEF s
  <1>3. Weighed(s, 6, {6})
    BY <1>1, OutlineWeighed
  <1>4. /\ Single(s, 1) = 1 /\ Single(s, 2) = 8 /\ Single(s, 3) = 2 /\ Single(s, 4) = 1
        /\ Single(s, 5) = 1 /\ Single(s, 6) = 0 /\ Single(s, 7) = 0 /\ Single(s, 8) = 0
        /\ Single(s, 9) = 0 /\ Single(s, 10) = 0 /\ Single(s, 11) = 0 /\ Single(s, 12) = 0
        /\ Single(s, 13) = 0 /\ Single(s, 14) = 0 /\ Single(s, 15) = 0
    BY <1>2, <1>3 DEF Weighed
  <1>5. Fixed(s) = 1 + 8 + 2 + 1 + 1 + 0 + 0 + 0 + 0 + 0 + 0 + 0 + 0 + 0 + 0
    BY <1>4, Zenon DEF Fixed
  <1>6. Laid(s)
    BY <1>1, OutlineLaid
  <1> QED
    BY <1>5, <1>6 DEF Lays, s

\* A struct like that of NodeDescRsp takes 18 bytes.
LEMMA NodeDescRspLaid ==
    Lays(<<Field(2), Field(1), Field(2), Field(1), Field(1), Field(1), Field(2), Field(1),
          Field(2), Field(2), Field(2), Field(1)>>, 18)
  <1> DEFINE s == <<Field(2), Field(1), Field(2), Field(1), Field(1), Field(1), Field(2),
                   Field(1), Field(2), Field(2), Field(2), Field(1)>>
  <1>1. Outline(s, 12, {})
    BY ListsAre, ValuesAre DEF Array, Outline
  <1>2. /\ s[1].widths[1] = 2 /\ s[2].widths[1] = 1 /\ s[3].widths[1] = 2 /\ s[4].widths[1] = 1
        /\ s[5].widths[1] = 1 /\ s[6].widths[1] = 1 /\ s[7].widths[1] = 2 /\ s[8].widths[1] = 1
        /\ s[9].widths[1] = 2 /\ s[10].widths[1] = 2 /\ s[11].widths[1] = 2
        /\ s[12].widths[1] = 1
    BY ValuesAre
  <1> HIDE DEF s
  <1>3. Weighed(s, 12, {})
    BY <1>1, OutlineWeighed
  <1>4. /\ Single(s, 1) = 2 /\ Single(s, 2) = 1 /\ Single(s, 3) = 2 /\ Single(s, 4) = 1
        /\ Single(s, 5) = 1 /\ Single(s, 6) = 1 /\ Single(s, 7) = 2 /\ Single(s, 8) = 1
        /\ Single(s, 9) = 2 /\ Single(s, 10) = 2 /\ Single(s, 11) = 2 /\ Single(s, 12) = 1
        /\ Single(s, 13) = 0 /\ Single(s, 14) = 0 /\ Single(s, 15) = 0
    BY <1>2, <1>3 DEF Weighed
  <1>5. Fixed(s) = 2 + 1 + 2 + 1 + 1 + 1 + 2 + 1 + 2 + 2 + 2 + 1 + 0 + 0 + 0
    BY <1>4, Zenon DEF Fixed
  <1>6. Laid(s)
    BY <1>1, OutlineLaid
  <1> QED
    BY <1>5, <1>6 DEF Lays, s

\* A struct like that of PowerDescRsp takes 7 bytes.
LEMMA PowerDescRspLaid ==
    Lays(<<Field(2), Field(1), Field(2), Field(1), Field(1)>>, 7)
  <1> DEFINE s == <<Field(2), Field(1), Field(2), Field(1), Field(1)>>
  <1>1. Outline(s, 5, {})
    BY ListsAre, ValuesAre DEF Array, Outline
  <1>2. /\ s[1].widths[1] = 2 /\ s[2].widths[1] = 1 /\ s[3].widths[1] = 2 /\ s[4].widths[1] = 1
        /\ s[5].widths[1] = 1
    BY ValuesAre
  <1> HIDE DEF s
  <1>3. Weighed(s, 5, {})
    BY <1>1, OutlineWeighed
  <1>4. /\ Single(s, 1) = 2 /\ Single(s, 2) = 1 /\ Single(s, 3) = 2 /\ Single(s, 4) = 1
        /\ Single(s, 5) = 1 /\ Single(s, 6) = 0 /\ Single(s, 7) = 0 /\ Single(s, 8) = 0
        /\ Single(s, 9) = 0 /\ Single(s, 10) = 0 /\ Single(s, 11) = 0 /\ Single(s, 12) = 0
        /\ Single(s, 13) = 0 /\ Single(s, 14) = 0 /\ Single(s, 15) = 0
    BY <1>2, <1>3 DEF Weighed
  <1>5. Fixed(s) = 2 + 1 + 2 + 1 + 1 + 0 + 0 + 0 + 0 + 0 + 0 + 0 + 0 + 0 + 0
    BY <1>4, Zenon DEF Fixed
  <1>6. Laid(s)
    BY <1>1, OutlineLaid
  <1> QED
    BY <1>5, <1>6 DEF Lays, s

\* A struct like that of SimpleDescRsp takes 14 bytes and its two lists.
LEMMA SimpleDescRspLaid ==
    Lays(<<Field(2), Field(1), Field(2), Field(1), Field(1), Field(2), Field(2), Field(1),
          Count(1), List(<<2>>, 16), Count(1), List(<<2>>, 16)>>, 14)
  <1> DEFINE s == <<Field(2), Field(1), Field(2), Field(1), Field(1), Field(2), Field(2),
                   Field(1), Count(1), List(<<2>>, 16), Count(1), List(<<2>>, 16)>>
  <1>1. Outline(s, 12, {10, 12})
    BY ListsAre, ValuesAre DEF Array, Outline
  <1>2. /\ s[1].widths[1] = 2 /\ s[2].widths[1] = 1 /\ s[3].widths[1] = 2 /\ s[4].widths[1] = 1
        /\ s[5].widths[1] = 1 /\ s[6].widths[1] = 2 /\ s[7].widths[1] = 2 /\ s[8].widths[1] = 1
        /\ s[9].widths[1] = 1 /\ s[11].widths[1] = 1
    BY ValuesAre
  <1> HIDE DEF s
  <1>3. Weighed(s, 12, {10, 12})
    BY <1>1, OutlineWeighed
  <1>4. /\ Single(s, 1) = 2 /\ Single(s, 2) = 1 /\ Single(s, 3) = 2 /\ Single(s, 4) = 1
        /\ Single(s, 5) = 1 /\ Single(s, 6) = 2 /\ Single(s, 7) = 2 /\ Single(s, 8) = 1
        /\ Single(s, 9) = 1 /\ Single(s, 10) = 0 /\ Single(s, 11) = 1 /\ Single(s, 12) = 0
        /\ Single(s, 13) = 0 /\ Single(s, 14) = 0 /\ Single(s, 15) = 0
    BY <1>2, <1>3 DEF Weighed
  <1>5. Fixed(s) = 2 + 1 + 2 + 1 + 1 + 2 + 2 + 1 + 1 + 0 + 1 + 0 + 0 + 0 + 0
    BY <1>4, Zenon DEF Fixed
  <1>6. Laid(s)
    BY <1>1, OutlineLaid
  <1> QED
    BY <1>5, <1>6 DEF Lays, s

\* A struct like that of ActiveEpRsp takes 6 bytes and its list.
LEMMA ActiveEpRspLaid ==
    Lays(<<Field(2), Field(1), Field(2), Count(1), List(<<1>>, 77)>>, 6)
  <1> DEFINE s == <<Field(2), Field(1), Field(2), Count(1), List(<<1>>, 77)>>
  <1>1. Outline(s, 5, {5})
    BY ListsAre, ValuesAre DEF Array, Outline
  <1>2. s[1].widths[1] = 2 /\ s[2].widths[1] = 1 /\ s[3].widths[1] = 2 /\ s[4].widths[1] = 1
    BY ValuesAre
  <1> HIDE DEF s
  <1>3. Weighed(s, 5, {5})
    BY <1>1, OutlineWeighed
  <1>4. /\ Single(s, 1) = 2 /\ Single(s, 2) = 1 /\ Single(s, 3) = 2 /\ Single(s, 4) = 1
        /\ Single(s, 5) = 0 /\ Single(s, 6) = 0 /\ Single(s, 7) = 0 /\ Single(s, 8) = 0
        /\ Single(s, 9) = 0 /\ Single(s, 10) = 0 /\ Single(s, 11) = 0 /\ Single(s, 12) = 0
        /\ Single(s, 13) = 0 /\ Single(s, 14) = 0 /\ Single(s, 15) = 0
    BY <1>2, <1>3 DEF Weighed
  <1>5. Fixed(s) = 2 + 1 + 2 + 1 + 0 + 0 + 0 + 0 + 0 + 0 + 0 + 0 + 0 + 0 + 0
    BY <1>4, Zenon DEF Fixed
  <1>6. Laid(s)
    BY <1>1, OutlineLaid
  <1> QED
    BY <1>5, <1>6 DEF Lays, s

\* A struct like that of UserDescConf takes 5 bytes.
LEMMA UserDescConfLaid ==
    Lays(<<Field(2), Field(1), Field(2)>>, 5)
  <1> DEFINE s == <<Field(2), Field(1), Field(2)>>
  <1>1. Outline(s, 3, {})
    BY ListsAre, ValuesAre DEF Array, Outline
  <1>2. s[1].widths[1] = 2 /\ s[2].widths[1] = 1 /\ s[3].widths[1] = 2
    BY ValuesAre
  <1> HIDE DEF s
  <1>3. Weighed(s, 3, {})
    BY <1>1, OutlineWeighed
  <1>4. /\ Single(s, 1) = 2 /\ Single(s, 2) = 1 /\ Single(s, 3) = 2 /\ Single(s, 4) = 0
        /\ Single(s, 5) = 0 /\ Single(s, 6) = 0 /\ Single(s, 7) = 0 /\ Single(s, 8) = 0
        /\ Single(s, 9) = 0 /\ Single(s, 10) = 0 /\ Single(s, 11) = 0 /\ Single(s, 12) = 0
        /\ Single(s, 13) = 0 /\ Single(s, 14) = 0 /\ Single(s, 15) = 0
    BY <1>2, <1>3 DEF Weighed
  <1>5. Fixed(s) = 2 + 1 + 2 + 0 + 0 + 0 + 0 + 0 + 0 + 0 + 0 + 0 + 0 + 0 + 0
    BY <1>4, Zenon DEF Fixed
  <1>6. Laid(s)
    BY <1>1, OutlineLaid
  <1> QED
    BY <1>5, <1>6 DEF Lays, s

\* A struct like that of EndDeviceBindRsp takes 3 bytes.
LEMMA EndDeviceBindRspLaid ==
    Lays(<<Field(2), Field(1)>>, 3)
  <1> DEFINE s == <<Field(2), Field(1)>>
  <1>1. Outline(s, 2, {})
    BY ListsAre, ValuesAre DEF Array, Outline
  <1>2. s[1].widths[1] = 2 /\ s[2].widths[1] = 1
    BY ValuesAre
  <1> HIDE DEF s
  <1>3. Weighed(s, 2, {})
    BY <1>1, OutlineWeighed
  <1>4. /\ Single(s, 1) = 2 /\ Single(s, 2) = 1 /\ Single(s, 3) = 0 /\ Single(s, 4) = 0
        /\ Single(s, 5) = 0 /\ Single(s, 6) = 0 /\ Single(s, 7) = 0 /\ Single(s, 8) = 0
        /\ Single(s, 9) = 0 /\ Single(s, 10) = 0 /\ Single(s, 11) = 0 /\ Single(s, 12) = 0
        /\ Single(s, 13) = 0 /\ Single(s, 14) = 0 /\ Single(s, 15) = 0
    BY <1>2, <1>3 DEF Weighed
  <1>5. Fixed(s) = 2 + 1 + 0 + 0 + 0 + 0 + 0 + 0 + 0 + 0 + 0 + 0 + 0 + 0 + 0
    BY <1>4, Zenon DEF Fixed
  <1>6. Laid(s)
    BY <1>1, OutlineLaid
  <1> QED
    BY <1>5, <1>6 DEF Lays, s

\* A struct like that of MgmtNwkDiscRsp takes 6 bytes and its list.
LEMMA MgmtNwkDiscRspLaid ==
    Lays(<<Field(2), Field(1), Field(1), Field(1), Count(1), List(<<8, 1, 1, 1, 1>>, 72)>>, 6)
  <1> DEFINE s == <<Field(2), Field(1), Field(1), Field(1), Count(1),
                   List(<<8, 1, 1, 1, 1>>, 72)>>
  <1>1. Outline(s, 6, {6})
    BY ListsAre, ValuesAre DEF Array, Outline
  <1>2. /\ s[1].widths[1] = 2 /\ s[2].widths[1] = 1 /\ s[3].widths[1] = 1 /\ s[4].widths[1] = 1
        /\ s[5].widths[1] = 1
    BY ValuesAre
  <1> HIDE DEF s
  <1>3. Weighed(s, 6, {6})
    BY <1>1, OutlineWeighed
  <1>4. /\ Single(s, 1) = 2 /\ Single(s, 2) = 1 /\ Single(s, 3) = 1 /\ Single(s, 4) = 1
        /\ Single(s, 5) = 1 /\ Single(s, 6) = 0 /\ Single(s, 7) = 0 /\ Single(s, 8) = 0
        /\ Single(s, 9) = 0 /\ Single(s, 10) = 0 /\ Single(s, 11) = 0 /\ Single(s, 12) = 0
        /\ Single(s, 13) = 0 /\ Single(s, 14) = 0 /\ Single(s, 15) = 0
    BY <1>2, <1>3 DEF Weighed
  <1>5. Fixed(s) = 2 + 1 + 1 + 1 + 1 + 0 + 0 + 0 + 0 + 0 + 0 + 0 + 0 + 0 + 0
    BY <1>4, Zenon DEF Fixed
  <1>6. Laid(s)
    BY <1>1, OutlineLaid
  <1> QED
    BY <1>5, <1>6 DEF Lays, s

\* A struct like that of MgmtLqiRsp takes 6 bytes and its list.
LEMMA MgmtLqiRspLaid ==
    Lays(<<Field(2), Field(1), Field(1), Field(1), Count(1),
          List(<<8, 8, 2, 1, 1, 1, 1>>, 66)>>, 6)
  <1> DEFINE s == <<Field(2), Field(1), Field(1), Field(1), Count(1),
                   List(<<8, 8, 2, 1, 1, 1, 1>>, 66)>>
  <1>1. Outline(s, 6, {6})
    BY ListsAre, ValuesAre DEF Array, Outline
  <1>2. /\ s[1].widths[1] = 2 /\ s[2].widths[1] = 1 /\ s[3].widths[1] = 1 /\ s[4].widths[1] = 1
        /\ s[5].widths[1] = 1
    BY ValuesAre
  <1> HIDE DEF s
  <1>3. Weighed(s, 6, {6})
    BY <1>1, OutlineWeighed
  <1>4. /\ Single(s, 1) = 2 /\ Single(s, 2) = 1 /\ Single(s, 3) = 1 /\ Single(s, 4) = 1
        /\ Single(s, 5) = 1 /\ Single(s, 6) = 0 /\ Single(s, 7) = 0 /\ Single(s, 8) = 0
        /\ Single(s, 9) = 0 /\ Single(s, 10) = 0 /\ Single(s, 11) = 0 /\ Single(s, 12) = 0
        /\ Single(s, 13) = 0 /\ Single(s, 14) = 0 /\ Single(s, 15) = 0
    BY <1>2, <1>3 DEF Weighed
  <1>5. Fixed(s) = 2 + 1 + 1 + 1 + 1 + 0 + 0 + 0 + 0 + 0 + 0 + 0 + 0 + 0 + 0
    BY <1>4, Zenon DEF Fixed
  <1>6. Laid(s)
    BY <1>1, OutlineLaid
  <1> QED
    BY <1>5, <1>6 DEF Lays, s

\* A struct like that of MgmtRtgRsp takes 6 bytes and its list.
LEMMA MgmtRtgRspLaid ==
    Lays(<<Field(2), Field(1), Field(1), Field(1), Count(1), List(<<2, 1, 2>>, 75)>>, 6)
  <1> DEFINE s == <<Field(2), Field(1), Field(1), Field(1), Count(1), List(<<2, 1, 2>>, 75)>>
  <1>1. Outline(s, 6, {6})
    BY ListsAre, ValuesAre DEF Array, Outline
  <1>2. /\ s[1].widths[1] = 2 /\ s[2].widths[1] = 1 /\ s[3].widths[1] = 1 /\ s[4].widths[1] = 1
        /\ s[5].widths[1] = 1
    BY ValuesAre
  <1> HIDE DEF s
  <1>3. Weighed(s, 6, {6})
    BY <1>1, OutlineWeighed
  <1>4. /\ Single(s, 1) = 2 /\ Single(s, 2) = 1 /\ Single(s, 3) = 1 /\ Single(s, 4) = 1
        /\ Single(s, 5) = 1 /\ Single(s, 6) = 0 /\ Single(s, 7) = 0 /\ Single(s, 8) = 0
        /\ Single(s, 9) = 0 /\ Single(s, 10) = 0 /\ Single(s, 11) = 0 /\ Single(s, 12) = 0
        /\ Single(s, 13) = 0 /\ Single(s, 14) = 0 /\ Single(s, 15) = 0
    BY <1>2, <1>3 DEF Weighed
  <1>5. Fixed(s) = 2 + 1 + 1 + 1 + 1 + 0 + 0 + 0 + 0 + 0 + 0 + 0 + 0 + 0 + 0
    BY <1>4, Zenon DEF Fixed
  <1>6. Laid(s)
    BY <1>1, OutlineLaid
  <1> QED
    BY <1>5, <1>6 DEF Lays, s

\* A struct like that of MgmtBindRsp takes 6 bytes and its list.
LEMMA MgmtBindRspLaid ==
    Lays(<<Field(2), Field(1), Field(1), Field(1), Count(1), List(<<8, 1, 1, 1, 8, 1>>, 75)>>, 6)
  <1> DEFINE s == <<Field(2), Field(1), Field(1), Field(1), Count(1),
                   List(<<8, 1, 1, 1, 8, 1>>, 75)>>
  <1>1. Outline(s, 6, {6})
    BY ListsAre, ValuesAre DEF Array, Outline
  <1>2. /\ s[1].widths[1] = 2 /\ s[2].widths[1] = 1 /\ s[3].widths[1] = 1 /\ s[4].widths[1] = 1
        /\ s[5].widths[1] = 1
    BY ValuesAre
  <1> HIDE DEF s
  <1>3. Weighed(s, 6, {6})
    BY <1>1, OutlineWeighed
  <1>4. /\ Single(s, 1) = 2 /\ Single(s, 2) = 1 /\ Single(s, 3) = 1 /\ Single(s, 4) = 1
        /\ Single(s, 5) = 1 /\ Single(s, 6) = 0 /\ Single(s, 7) = 0 /\ Single(s, 8) = 0
        /\ Single(s, 9) = 0 /\ Single(s, 10) = 0 /\ Single(s, 11) = 0 /\ Single(s, 12) = 0
        /\ Single(s, 13) = 0 /\ Single(s, 14) = 0 /\ Single(s, 15) = 0
    BY <1>2, <1>3 DEF Weighed
  <1>5. Fixed(s) = 2 + 1 + 1 + 1 + 1 + 0 + 0 + 0 + 0 + 0 + 0 + 0 + 0 + 0 + 0
    BY <1>4, Zenon DEF Fixed
  <1>6. Laid(s)
    BY <1>1, OutlineLaid
  <1> QED
    BY <1>5, <1>6 DEF Lays, s

\* A struct like that of EndDeviceAnnceInd takes 13 bytes.
LEMMA EndDeviceAnnceIndLaid ==
    Lays(<<Field(2), Field(2), Field(8), Field(1)>>, 13)
  <1> DEFINE s == <<Field(2), Field(2), Field(8), Field(1)>>
  <1>1. Outline(s, 4, {})
    BY ListsAre, ValuesAre DEF Array, Outline
  <1>2. s[1].widths[1] = 2 /\ s[2].widths[1] = 2 /\ s[3].widths[1] = 8 /\ s[4].widths[1] = 1
    BY ValuesAre
  <1> HIDE DEF s
  <1>3. Weighed(s, 4, {})
    BY <1>1, OutlineWeighed
  <1>4. /\ Single(s, 1) = 2 /\ Single(s, 2) = 2 /\ Single(s, 3) = 8 /\ Single(s, 4) = 1
        /\ Single(s, 5) = 0 /\ Single(s, 6) = 0 /\ Single(s, 7) = 0 /\ Single(s, 8) = 0
        /\ Single(s, 9) = 0 /\ Single(s, 10) = 0 /\ Single(s, 11) = 0 /\ Single(s, 12) = 0
        /\ Single(s, 13) = 0 /\ Single(s, 14) = 0 /\ Single(s, 15) = 0
    BY <1>2, <1>3 DEF Weighed
  <1>5. Fixed(s) = 2 + 2 + 8 + 1 + 0 + 0 + 0 + 0 + 0 + 0 + 0 + 0 + 0 + 0 + 0
    BY <1>4, Zenon DEF Fixed
  <1>6. Laid(s)
    BY <1>1, OutlineLaid
  <1> QED
    BY <1>5, <1>6 DEF Lays, s

\* A struct like that of MatchDescRspSent takes 4 bytes and its two lists.
LEMMA MatchDescRspSentLaid ==
    Lays(<<Field(2), Count(1), List(<<2>>, 16), Count(1), List(<<2>>, 16)>>, 4)
  <1> DEFINE s == <<Field(2), Count(1), List(<<2>>, 16), Count(1), List(<<2>>, 16)>>
  <1>1. Outline(s, 5, {3, 5})
    BY ListsAre, ValuesAre DEF Array, Outline
  <1>2. s[1].widths[1] = 2 /\ s[2].widths[1] = 1 /\ s[4].widths[1] = 1
    BY ValuesAre
  <1> HIDE DEF s
  <1>3. Weighed(s, 5, {3, 5})
    BY <1>1, OutlineWeighed
  <1>4. /\ Single(s, 1) = 2 /\ Single(s, 2) = 1 /\ Single(s, 3) = 0 /\ Single(s, 4) = 1
        /\ Single(s, 5) = 0 /\ Single(s, 6) = 0 /\ Single(s, 7) = 0 /\ Single(s, 8) = 0
        /\ Single(s, 9) = 0 /\ Single(s, 10) = 0 /\ Single(s, 11) = 0 /\ Single(s, 12) = 0
        /\ Single(s, 13) = 0 /\ Single(s, 14) = 0 /\ Single(s, 15) = 0
    BY <1>2, <1>3 DEF Weighed
  <1>5. Fixed(s) = 2 + 1 + 0 + 1 + 0 + 0 + 0 + 0 + 0 + 0 + 0 + 0 + 0 + 0 + 0
    BY <1>4, Zenon DEF Fixed
  <1>6. Laid(s)
    BY <1>1, OutlineLaid
  <1> QED
    BY <1>5, <1>6 DEF Lays, s

\* A struct like that of SrcRtgInd takes 3 bytes and its list.
LEMMA SrcRtgIndLaid ==
    Lays(<<Field(2), Count(1), List(<<2>>, 255)>>, 3)
  <1> DEFINE s == <<Field(2), Count(1), List(<<2>>, 255)>>
  <1>1. Outline(s, 3, {3})
    BY ListsAre, ValuesAre DEF Array, Outline
  <1>2. s[1].widths[1] = 2 /\ s[2].widths[1] = 1
    BY ValuesAre
  <1> HIDE DEF s
  <1>3. Weighed(s, 3, {3})
    BY <1>1, OutlineWeighed
  <1>4. /\ Single(s, 1) = 2 /\ Single(s, 2) = 1 /\ Single(s, 3) = 0 /\ Single(s, 4) = 0
        /\ Single(s, 5) = 0 /\ Single(s, 6) = 0 /\ Single(s, 7) = 0 /\ Single(s, 8) = 0
        /\ Single(s, 9) = 0 /\ Single(s, 10) = 0 /\ Single(s, 11) = 0 /\ Single(s, 12) = 0
        /\ Single(s, 13) = 0 /\ Single(s, 14) = 0 /\ Single(s, 15) = 0
    BY <1>2, <1>3 DEF Weighed
  <1>5. Fixed(s) = 2 + 1 + 0 + 0 + 0 + 0 + 0 + 0 + 0 + 0 + 0 + 0 + 0 + 0 + 0
    BY <1>4, Zenon DEF Fixed
  <1>6. Laid(s)
    BY <1>1, OutlineLaid
  <1> QED
    BY <1>5, <1>6 DEF Lays, s

\* A struct like that of BeaconNotifyInd takes 1 byte and its list.
LEMMA BeaconNotifyIndLaid ==
    Lays(<<Count(1), List(<<2, 2, 1, 1, 1, 1, 1, 1, 1, 1, 1, 8>>, 21)>>, 1)
  <1> DEFINE s == <<Count(1), List(<<2, 2, 1, 1, 1, 1, 1, 1, 1, 1, 1, 8>>, 21)>>
  <1>1. Outline(s, 2, {2})
    BY ListsAre, ValuesAre DEF Array, Outline
  <1>2. s[1].widths[1] = 1
    BY ValuesAre
  <1> HIDE DEF s
  <1>3. Weighed(s, 2, {2})
    BY <1>1, OutlineWeighed
  <1>4. /\ Single(s, 1) = 1 /\ Single(s, 2) = 0 /\ Single(s, 3) = 0 /\ Single(s, 4) = 0
        /\ Single(s, 5) = 0 /\ Single(s, 6) = 0 /\ Single(s, 7) = 0 /\ Single(s, 8) = 0
        /\ Single(s, 9) = 0 /\ Single(s, 10) = 0 /\ Single(s, 11) = 0 /\ Single(s, 12) = 0
        /\ Single(s, 13) = 0 /\ Single(s, 14) = 0 /\ Single(s, 15) = 0
    BY <1>2, <1>3 DEF Weighed
  <1>5. Fixed(s) = 1 + 0 + 0 + 0 + 0 + 0 + 0 + 0 + 0 + 0 + 0 + 0 + 0 + 0 + 0
    BY <1>4, Zenon DEF Fixed
  <1>6. Laid(s)
    BY <1>1, OutlineLaid
  <1> QED
    BY <1>5, <1>6 DEF Lays, s

\* A struct like that of JoinCnf takes 5 bytes.
LEMMA JoinCnfLaid ==
    Lays(<<Field(1), Field(2), Field(2)>>, 5)
  <1> DEFINE s == <<Field(1), Field(2), Field(2)>>
  <1>1. Outline(s, 3, {})
    BY ListsAre, ValuesAre DEF Array, Outline
  <1>2. s[1].widths[1] = 1 /\ s[2].widths[1] = 2 /\ s[3].widths[1] = 2
    BY ValuesAre
  <1> HIDE DEF s
  <1>3. Weighed(s, 3, {})
    BY <1>1, OutlineWeighed
  <1>4. /\ Single(s, 1) = 1 /\ Single(s, 2) = 2 /\ Single(s, 3) = 2 /\ Single(s, 4) = 0
        /\ Single(s, 5) = 0 /\ Single(s, 6) = 0 /\ Single(s, 7) = 0 /\ Single(s, 8) = 0
        /\ Single(s, 9) = 0 /\ Single(s, 10) = 0 /\ Single(s, 11) = 0 /\ Single(s, 12) = 0
        /\ Single(s, 13) = 0 /\ Single(s, 14) = 0 /\ Single(s, 15) = 0
    BY <1>2, <1>3 DEF Weighed
  <1>5. Fixed(s) = 1 + 2 + 2 + 0 + 0 + 0 + 0 + 0 + 0 + 0 + 0 + 0 + 0 + 0 + 0
    BY <1>4, Zenon DEF Fixed
  <1>6. Laid(s)
    BY <1>1, OutlineLaid
  <1> QED
    BY <1>5, <1>6 DEF Lays, s

\* A struct like that of LeaveInd takes 13 bytes.
LEMMA LeaveIndLaid ==
    Lays(<<Field(2), Field(8), Field(1), Field(1), Field(1)>>, 13)
  <1> DEFINE s == <<Field(2), Field(8), Field(1), Field(1), Field(1)>>
  <1>1. Outline(s, 5, {})
    BY ListsAre, ValuesAre DEF Array, Outline
  <1>2. /\ s[1].widths[1] = 2 /\ s[2].widths[1] = 8 /\ s[3].widths[1] = 1 /\ s[4].widths[1] = 1
        /\ s[5].widths[1] = 1
    BY ValuesAre
  <1> HIDE DEF s
  <1>3. Weighed(s, 5, {})
    BY <1>1, OutlineWeighed
  <1>4. /\ Single(s, 1) = 2 /\ Single(s, 2) = 8 /\ Single(s, 3) = 1 /\ Single(s, 4) = 1
        /\ Single(s, 5) = 1 /\ Single(s, 6) = 0 /\ Single(s, 7) = 0 /\ Single(s, 8) = 0
        /\ Single(s, 9) = 0 /\ Single(s, 10) = 0 /\ Single(s, 11) = 0 /\ Single(s, 12) = 0
        /\ Single(s, 13) = 0 /\ Single(s, 14) = 0 /\ Single(s, 15) = 0
    BY <1>2, <1>3 DEF Weighed
  <1>5. Fixed(s) = 2 + 8 + 1 + 1 + 1 + 0 + 0 + 0 + 0 + 0 + 0 + 0 + 0 + 0 + 0
    BY <1>4, Zenon DEF Fixed
  <1>6. Laid(s)
    BY <1>1, OutlineLaid
  <1> QED
    BY <1>5, <1>6 DEF Lays, s

\* A struct like that of MsgCbIncoming takes 21 bytes.
LEMMA MsgCbIncomingLaid ==
    Lays(<<Field(2), Field(1), Field(2), Field(1), Field(1), Field(2), Field(1), Field(8),
          Field(2), Field(1)>>, 21)
  <1> DEFINE s == <<Field(2), Field(1), Field(2), Field(1), Field(1), Field(2), Field(1),
                   Field(8), Field(2), Field(1)>>
  <1>1. Outline(s, 10, {})
    BY ListsAre, ValuesAre DEF Array, Outline
  <1>2. /\ s[1].widths[1] = 2 /\ s[2].widths[1] = 1 /\ s[3].widths[1] = 2 /\ s[4].widths[1] = 1
        /\ s[5].widths[1] = 1 /\ s[6].widths[1] = 2 /\ s[7].widths[1] = 1 /\ s[8].widths[1] = 8
        /\ s[9].widths[1] = 2 /\ s[10].widths[1] = 1
    BY ValuesAre
  <1> HIDE DEF s
  <1>3. Weighed(s, 10, {})
    BY <1>1, OutlineWeighed
  <1>4. /\ Single(s, 1) = 2 /\ Single(s, 2) = 1 /\ Single(s, 3) = 2 /\ Single(s, 4) = 1
        /\ Single(s, 5) = 1 /\ Single(s, 6) = 2 /\ Single(s, 7) = 1 /\ Single(s, 8) = 8
        /\ Single(s, 9) = 2 /\ Single(s, 10) = 1 /\ Single(s, 11) = 0 /\ Single(s, 12) = 0
        /\ Single(s, 13) = 0 /\ Single(s, 14) = 0 /\ Single(s, 15) = 0
    BY <1>2, <1>3 DEF Weighed
  <1>5. Fixed(s) = 2 + 1 + 2 + 1 + 1 + 2 + 1 + 8 + 2 + 1 + 0 + 0 + 0 + 0 + 0
    BY <1>4, Zenon DEF Fixed
  <1>6. Laid(s)
    BY <1>1, OutlineLaid
  <1> QED
    BY <1>5, <1>6 DEF Lays, s

\* A struct like that of GetLinkKeySrsp takes 25 bytes.
LEMMA GetLinkKeySrspLaid ==
    Lays(<<Field(1), Field(8), Field(16)>>, 25)
  <1> DEFINE s == <<Field(1), Field(8), Field(16)>>
  <1>1. Outline(s, 3, {})
    BY ListsAre, ValuesAre DEF Array, Outline
  <1>2. s[1].widths[1] = 1 /\ s[2].widths[1] = 8 /\ s[3].widths[1] = 16
    BY ValuesAre
  <1> HIDE DEF s
  <1>3. Weighed(s, 3, {})
    BY <1>1, OutlineWeighed
  <1>4. /\ Single(s, 1) = 1 /\ Single(s, 2) = 8 /\ Single(s, 3) = 16 /\ Single(s, 4) = 0
        /\ Single(s, 5) = 0 /\ Single(s, 6) = 0 /\ Single(s, 7) = 0 /\ Single(s, 8) = 0
        /\ Single(s, 9) = 0 /\ Single(s, 10) = 0 /\ Single(s, 11) = 0 /\ Single(s, 12) = 0
        /\ Single(s, 13) = 0 /\ Single(s, 14) = 0 /\ Single(s, 15) = 0
    BY <1>2, <1>3 DEF Weighed
  <1>5. Fixed(s) = 1 + 8 + 16 + 0 + 0 + 0 + 0 + 0 + 0 + 0 + 0 + 0 + 0 + 0 + 0
    BY <1>4, Zenon DEF Fixed
  <1>6. Laid(s)
    BY <1>1, OutlineLaid
  <1> QED
    BY <1>5, <1>6 DEF Lays, s

\* A struct like that of ResetInd takes 6 bytes.
LEMMA ResetIndLaid ==
    Lays(<<Field(1), Field(1), Field(1), Field(1), Field(1), Field(1)>>, 6)
  <1> DEFINE s == <<Field(1), Field(1), Field(1), Field(1), Field(1), Field(1)>>
  <1>1. Outline(s, 6, {})
    BY ListsAre, ValuesAre DEF Array, Outline
  <1>2. /\ s[1].widths[1] = 1 /\ s[2].widths[1] = 1 /\ s[3].widths[1] = 1 /\ s[4].widths[1] = 1
        /\ s[5].widths[1] = 1 /\ s[6].widths[1] = 1
    BY ValuesAre
  <1> HIDE DEF s
  <1>3. Weighed(s, 6, {})
    BY <1>1, OutlineWeighed
  <1>4. /\ Single(s, 1) = 1 /\ Single(s, 2) = 1 /\ Single(s, 3) = 1 /\ Single(s, 4) = 1
        /\ Single(s, 5) = 1 /\ Single(s, 6) = 1 /\ Single(s, 7) = 0 /\ Single(s, 8) = 0
        /\ Single(s, 9) = 0 /\ Single(s, 10) = 0 /\ Single(s, 11) = 0 /\ Single(s, 12) = 0
        /\ Single(s, 13) = 0 /\ Single(s, 14) = 0 /\ Single(s, 15) = 0
    BY <1>2, <1>3 DEF Weighed
  <1>5. Fixed(s) = 1 + 1 + 1 + 1 + 1 + 1 + 0 + 0 + 0 + 0 + 0 + 0 + 0 + 0 + 0
    BY <1>4, Zenon DEF Fixed
  <1>6. Laid(s)
    BY <1>1, OutlineLaid
  <1> QED
    BY <1>5, <1>6 DEF Lays, s

\* A struct like that of PingSrsp takes 2 bytes.
LEMMA PingSrspLaid ==
    Lays(<<Field(2)>>, 2)
  <1> DEFINE s == <<Field(2)>>
  <1>1. Outline(s, 1, {})
    BY ListsAre, ValuesAre DEF Array, Outline
  <1>2. s[1].widths[1] = 2
    BY ValuesAre
  <1> HIDE DEF s
  <1>3. Weighed(s, 1, {})
    BY <1>1, OutlineWeighed
  <1>4. /\ Single(s, 1) = 2 /\ Single(s, 2) = 0 /\ Single(s, 3) = 0 /\ Single(s, 4) = 0
        /\ Single(s, 5) = 0 /\ Single(s, 6) = 0 /\ Single(s, 7) = 0 /\ Single(s, 8) = 0
        /\ Single(s, 9) = 0 /\ Single(s, 10) = 0 /\ Single(s, 11) = 0 /\ Single(s, 12) = 0
        /\ Single(s, 13) = 0 /\ Single(s, 14) = 0 /\ Single(s, 15) = 0
    BY <1>2, <1>3 DEF Weighed
  <1>5. Fixed(s) = 2 + 0 + 0 + 0 + 0 + 0 + 0 + 0 + 0 + 0 + 0 + 0 + 0 + 0 + 0
    BY <1>4, Zenon DEF Fixed
  <1>6. Laid(s)
    BY <1>1, OutlineLaid
  <1> QED
    BY <1>5, <1>6 DEF Lays, s

\* A struct like that of GetExtAddrSrsp takes 8 bytes.
LEMMA GetExtAddrSrspLaid ==
    Lays(<<Field(8)>>, 8)
  <1> DEFINE s == <<Field(8)>>
  <1>1. Outline(s, 1, {})
    BY ListsAre, ValuesAre DEF Array, Outline
  <1>2. s[1].widths[1] = 8
    BY ValuesAre
  <1> HIDE DEF s
  <1>3. Weighed(s, 1, {})
    BY <1>1, OutlineWeighed
  <1>4. /\ Single(s, 1) = 8 /\ Single(s, 2) = 0 /\ Single(s, 3) = 0 /\ Single(s, 4) = 0
        /\ Single(s, 5) = 0 /\ Single(s, 6) = 0 /\ Single(s, 7) = 0 /\ Single(s, 8) = 0
        /\ Single(s, 9) = 0 /\ Single(s, 10) = 0 /\ Single(s, 11) = 0 /\ Single(s, 12) = 0
        /\ Single(s, 13) = 0 /\ Single(s, 14) = 0 /\ Single(s, 15) = 0
    BY <1>2, <1>3 DEF Weighed
  <1>5. Fixed(s) = 8 + 0 + 0 + 0 + 0 + 0 + 0 + 0 + 0 + 0 + 0 + 0 + 0 + 0 + 0
    BY <1>4, Zenon DEF Fixed
  <1>6. Laid(s)
    BY <1>1, OutlineLaid
  <1> QED
    BY <1>5, <1>6 DEF Lays, s

\* A struct like that of RamReadSrsp takes 2 bytes and its list.
LEMMA RamReadSrspLaid ==
    Lays(<<Field(1), Count(1), List(<<1>>, 128)>>, 2)
  <1> DEFINE s == <<Field(1), Count(1), List(<<1>>, 128)>>
  <1>1. Outline(s, 3, {3})
    BY ListsAre, ValuesAre DEF Array, Outline
  <1>2. s[1].widths[1] = 1 /\ s[2].widths[1] = 1
    BY ValuesAre
  <1> HIDE DEF s
  <1>3. Weighed(s, 3, {3})
    BY <1>1, OutlineWeighed
  <1>4. /\ Single(s, 1) = 1 /\ Single(s, 2) = 1 /\ Single(s, 3) = 0 /\ Single(s, 4) = 0
        /\ Single(s, 5) = 0 /\ Single(s, 6) = 0 /\ Single(s, 7) = 0 /\ Single(s, 8) = 0
        /\ Single(s, 9) = 0 /\ Single(s, 10) = 0 /\ Single(s, 11) = 0 /\ Single(s, 12) = 0
        /\ Single(s, 13) = 0 /\ Single(s, 14) = 0 /\ Single(s, 15) = 0
    BY <1>2, <1>3 DEF Weighed
  <1>5. Fixed(s) = 1 + 1 + 0 + 0 + 0 + 0 + 0 + 0 + 0 + 0 + 0 + 0 + 0 + 0 + 0
    BY <1>4, Zenon DEF Fixed
  <1>6. Laid(s)
    BY <1>1, OutlineLaid
  <1> QED
    BY <1>5, <1>6 DEF Lays, s

\* A struct like that of VersionSrsp takes 5 bytes.
LEMMA VersionSrspLaid ==
    Lays(<<Field(1), Field(1), Field(1), Field(1), Field(1)>>, 5)
  <1> DEFINE s == <<Field(1), Field(1), Field(1), Field(1), Field(1)>>
  <1>1. Outline(s, 5, {})
    BY ListsAre, ValuesAre DEF Array, Outline
  <1>2. /\ s[1].widths[1] = 1 /\ s[2].widths[1] = 1 /\ s[3].widths[1] = 1 /\ s[4].widths[1] = 1
        /\ s[5].widths[1] = 1
    BY ValuesAre
  <1> HIDE DEF s
  <1>3. Weighed(s, 5, {})
    BY <1>1, OutlineWeighed
  <1>4. /\ Single(s, 1) = 1 /\ Single(s, 2) = 1 /\ Single(s, 3) = 1 /\ Single(s, 4) = 1
        /\ Single(s, 5) = 1 /\ Single(s, 6) = 0 /\ Single(s, 7) = 0 /\ Single(s, 8) = 0
        /\ Single(s, 9) = 0 /\ Single(s, 10) = 0 /\ Single(s, 11) = 0 /\ Single(s, 12) = 0
        /\ Single(s, 13) = 0 /\ Single(s, 14) = 0 /\ Single(s, 15) = 0
    BY <1>2, <1>3 DEF Weighed
  <1>5. Fixed(s) = 1 + 1 + 1 + 1 + 1 + 0 + 0 + 0 + 0 + 0 + 0 + 0 + 0 + 0 + 0
    BY <1>4, Zenon DEF Fixed
  <1>6. Laid(s)
    BY <1>1, OutlineLaid
  <1> QED
    BY <1>5, <1>6 DEF Lays, s

\* A struct like that of OsalNvReadSrsp takes 2 bytes and its list.
LEMMA OsalNvReadSrspLaid ==
    Lays(<<Field(1), Count(1), List(<<1>>, 248)>>, 2)
  <1> DEFINE s == <<Field(1), Count(1), List(<<1>>, 248)>>
  <1>1. Outline(s, 3, {3})
    BY ListsAre, ValuesAre DEF Array, Outline
  <1>2. s[1].widths[1] = 1 /\ s[2].widths[1] = 1
    BY ValuesAre
  <1> HIDE DEF s
  <1>3. Weighed(s, 3, {3})
    BY <1>1, OutlineWeighed
  <1>4. /\ Single(s, 1) = 1 /\ Single(s, 2) = 1 /\ Single(s, 3) = 0 /\ Single(s, 4) = 0
        /\ Single(s, 5) = 0 /\ Single(s, 6) = 0 /\ Single(s, 7) = 0 /\ Single(s, 8) = 0
        /\ Single(s, 9) = 0 /\ Single(s, 10) = 0 /\ Single(s, 11) = 0 /\ Single(s, 12) = 0
        /\ Single(s, 13) = 0 /\ Single(s, 14) = 0 /\ Single(s, 15) = 0
    BY <1>2, <1>3 DEF Weighed
  <1>5. Fixed(s) = 1 + 1 + 0 + 0 + 0 + 0 + 0 + 0 + 0 + 0 + 0 + 0 + 0 + 0 + 0
    BY <1>4, Zenon DEF Fixed
  <1>6. Laid(s)
    BY <1>1, OutlineLaid
  <1> QED
    BY <1>5, <1>6 DEF Lays, s

\* A struct like that of GetTimeSrsp takes 11 bytes.
LEMMA GetTimeSrspLaid ==
    Lays(<<Field(4), Field(1), Field(1), Field(1), Field(1), Field(1), Field(2)>>, 11)
  <1> DEFINE s == <<Field(4), Field(1), Field(1), Field(1), Field(1), Field(1), Field(2)>>
  <1>1. Outline(s, 7, {})
    BY ListsAre, ValuesAre DEF Array, Outline
  <1>2. /\ s[1].widths[1] = 4 /\ s[2].widths[1] = 1 /\ s[3].widths[1] = 1 /\ s[4].widths[1] = 1
        /\ s[5].widths[1] = 1 /\ s[6].widths[1] = 1 /\ s[7].widths[1] = 2
    BY ValuesAre
  <1> HIDE DEF s
  <1>3. Weighed(s, 7, {})
    BY <1>1, OutlineWeighed
  <1>4. /\ Single(s, 1) = 4 /\ Single(s, 2) = 1 /\ Single(s, 3) = 1 /\ Single(s, 4) = 1
        /\ Single(s, 5) = 1 /\ Single(s, 6) = 1 /\ Single(s, 7) = 2 /\ Single(s, 8) = 0
        /\ Single(s, 9) = 0 /\ Single(s, 10) = 0 /\ Single(s, 11) = 0 /\ Single(s, 12) = 0
        /\ Single(s, 13) = 0 /\ Single(s, 14) = 0 /\ Single(s, 15) = 0
    BY <1>2, <1>3 DEF Weighed
  <1>5. Fixed(s) = 4 + 1 + 1 + 1 + 1 + 1 + 2 + 0 + 0 + 0 + 0 + 0 + 0 + 0 + 0
    BY <1>4, Zenon DEF Fixed
  <1>6. Laid(s)
    BY <1>1, OutlineLaid
  <1> QED
    BY <1>5, <1>6 DEF Lays, s

\* A struct like that of DataConfirm takes 3 bytes.
LEMMA DataConfirmLaid ==
    Lays(<<Field(1), Field(1), Field(1)>>, 3)
  <1> DEFINE s == <<Field(1), Field(1), Field(1)>>
  <1>1. Outline(s, 3, {})
    BY ListsAre, ValuesAre DEF Array, Outline
  <1>2. s[1].widths[1] = 1 /\ s[2].widths[1] = 1 /\ s[3].widths[1] = 1
    BY ValuesAre
  <1> HIDE DEF s
  <1>3. Weighed(s, 3, {})
    BY <1>1, OutlineWeighed
  <1>4. /\ Single(s, 1) = 1 /\ Single(s, 2) = 1 /\ Single(s, 3) = 1 /\ Single(s, 4) = 0
        /\ Single(s, 5) = 0 /\ Single(s, 6) = 0 /\ Single(s, 7) = 0 /\ Single(s, 8) = 0
        /\ Single(s, 9) = 0 /\ Single(s, 10) = 0 /\ Single(s, 11) = 0 /\ Single(s, 12) = 0
        /\ Single(s, 13) = 0 /\ Single(s, 14) = 0 /\ Single(s, 15) = 0
    BY <1>2, <1>3 DEF Weighed
  <1>5. Fixed(s) = 1 + 1 + 1 + 0 + 0 + 0 + 0 + 0 + 0 + 0 + 0 + 0 + 0 + 0 + 0
    BY <1>4, Zenon DEF Fixed
  <1>6. Laid(s)
    BY <1>1, OutlineLaid
  <1> QED
    BY <1>5, <1>6 DEF Lays, s

\* A struct like that of IncomingMsg takes 17 bytes and its list.
LEMMA IncomingMsgLaid ==
    Lays(<<Field(2), Field(2), Field(2), Field(1), Field(1), Field(1), Field(1), Field(1),
          Field(4), Field(1), Count(1), List(<<1>>, 99)>>, 17)
  <1> DEFINE s == <<Field(2), Field(2), Field(2), Field(1), Field(1), Field(1), Field(1),
                   Field(1), Field(4), Field(1), Count(1), List(<<1>>, 99)>>
  <1>1. Outline(s, 12, {12})
    BY ListsAre, ValuesAre DEF Array, Outline
  <1>2. /\ s[1].widths[1] = 2 /\ s[2].widths[1] = 2 /\ s[3].widths[1] = 2 /\ s[4].widths[1] = 1
        /\ s[5].widths[1] = 1 /\ s[6].widths[1] = 1 /\ s[7].widths[1] = 1 /\ s[8].widths[1] = 1
        /\ s[9].widths[1] = 4 /\ s[10].widths[1] = 1 /\ s[11].widths[1] = 1
    BY ValuesAre
  <1> HIDE DEF s
  <1>3. Weighed(s, 12, {12})
    BY <1>1, OutlineWeighed
  <1>4. /\ Single(s, 1) = 2 /\ Single(s, 2) = 2 /\ Single(s, 3) = 2 /\ Single(s, 4) = 1
        /\ Single(s, 5) = 1 /\ Single(s, 6) = 1 /\ Single(s, 7) = 1 /\ Single(s, 8) = 1
        /\ Single(s, 9) = 4 /\ Single(s, 10) = 1 /\ Single(s, 11) = 1 /\ Single(s, 12) = 0
        /\ Single(s, 13) = 0 /\ Single(s, 14) = 0 /\ Single(s, 15) = 0
    BY <1>2, <1>3 DEF Weighed
  <1>5. Fixed(s) = 2 + 2 + 2 + 1 + 1 + 1 + 1 + 1 + 4 + 1 + 1 + 0 + 0 + 0 + 0
    BY <1>4, Zenon DEF Fixed
  <1>6. Laid(s)
    BY <1>1, OutlineLaid
  <1> QED
    BY <1>5, <1>6 DEF Lays, s

\* A struct like that of IncomingMsgExt takes 26 bytes and its list.
LEMMA IncomingMsgExtLaid ==
    Lays(<<Field(2), Field(2), Field(1), Field(8), Field(1), Field(2), Field(1), Field(1),
          Field(1), Field(1), Field(4), Field(1), Count(1), List(<<1>>, 99)>>, 26)
  <1> DEFINE s == <<Field(2), Field(2), Field(1), Field(8), Field(1), Field(2), Field(1),
                   Field(1), Field(1), Field(1), Field(4), Field(1), Count(1),
                   List(<<1>>, 99)>>
  <1>1. Outline(s, 14, {14})
    BY ListsAre, ValuesAre DEF Array, Outline
  <1>2. /\ s[1].widths[1] = 2 /\ s[2].widths[1] = 2 /\ s[3].widths[1] = 1 /\ s[4].widths[1] = 8
        /\ s[5].widths[1] = 1 /\ s[6].widths[1] = 2 /\ s[7].widths[1] = 1 /\ s[8].widths[1] = 1
        /\ s[9].widths[1] = 1 /\ s[10].widths[1] = 1 /\ s[11].widths[1] = 4
        /\ s[12].widths[1] = 1 /\ s[13].widths[1] = 1
    BY ValuesAre
  <1> HIDE DEF s
  <1>3. Weighed(s, 14, {14})
    BY <1>1, OutlineWeighed
  <1>4. /\ Single(s, 1) = 2 /\ Single(s, 2) = 2 /\ Single(s, 3) = 1 /\ Single(s, 4) = 8
        /\ Single(s, 5) = 1 /\ Single(s, 6) = 2 /\ Single(s, 7) = 1 /\ Single(s, 8) = 1
        /\ Single(s, 9) = 1 /\ Single(s, 10) = 1 /\ Single(s, 11) = 4 /\ Single(s, 12) = 1
        /\ Single(s, 13) = 1 /\ Single(s, 14) = 0 /\ Single(s, 15) = 0
    BY <1>2, <1>3 DEF Weighed
  <1>5. Fixed(s) = 2 + 2 + 1 + 8 + 1 + 2 + 1 + 1 + 1 + 1 + 4 + 1 + 1 + 0 + 0
    BY <1>4, Zenon DEF Fixed
  <1>6. Laid(s)
    BY <1>1, OutlineLaid
  <1> QED
    BY <1>5, <1>6 DEF Lays, s

\* A struct like that of ReflectError takes 6 bytes.
LEMMA ReflectErrorLaid ==
    Lays(<<Field(1), Field(1), Field(1), Field(1), Field(2)>>, 6)
  <1> DEFINE s == <<Field(1), Field(1), Field(1), Field(1), Field(2)>>
  <1>1. Outline(s, 5, {})
    BY ListsAre, ValuesAre DEF Array, Outline
  <1>2. /\ s[1].widths[1] = 1 /\ s[2].widths[1] = 1 /\ s[3].widths[1] = 1 /\ s[4].widths[1] = 1
        /\ s[5].widths[1] = 2
    BY ValuesAre
  <1> HIDE DEF s
  <1>3. Weighed(s, 5, {})
    BY <1>1, OutlineWeighed
  <1>4. /\ Single(s, 1) = 1 /\ Single(s, 2) = 1 /\ Single(s, 3) = 1 /\ Single(s, 4) = 1
        /\ Single(s, 5) = 2 /\ Single(s, 6) = 0 /\ Single(s, 7) = 0 /\ Single(s, 8) = 0
        /\ Single(s, 9) = 0 /\ Single(s, 10) = 0 /\ Single(s, 11) = 0 /\ Single(s, 12) = 0
        /\ Single(s, 13) = 0 /\ Single(s, 14) = 0 /\ Single(s, 15) = 0
    BY <1>2, <1>3 DEF Weighed
  <1>5. Fixed(s) = 1 + 1 + 1 + 1 + 2 + 0 + 0 + 0 + 0 + 0 + 0 + 0 + 0 + 0 + 0
    BY <1>4, Zenon DEF Fixed
  <1>6. Laid(s)
    BY <1>1, OutlineLaid
  <1> QED
    BY <1>5, <1>6 DEF Lays, s

\* A struct like that of FindDeviceCnf takes 10 bytes.
LEMMA FindDeviceCnfLaid ==
    Lays(<<Field(2), Field(8)>>, 10)
  <1> DEFINE s == <<Field(2), Field(8)>>
  <1>1. Outline(s, 2, {})
    BY ListsAre, ValuesAre DEF Array, Outline
  <1>2. s[1].widths[1] = 2 /\ s[2].widths[1] = 8
    BY ValuesAre
  <1> HIDE DEF s
  <1>3. Weighed(s, 2, {})
    BY <1>1, OutlineWeighed
  <1>4. /\ Single(s, 1) = 2 /\ Single(s, 2) = 8 /\ Single(s, 3) = 0 /\ Single(s, 4) = 0
        /\ Single(s, 5) = 0 /\ Single(s, 6) = 0 /\ Single(s, 7) = 0 /\ Single(s, 8) = 0
        /\ Single(s, 9) = 0 /\ Single(s, 10) = 0 /\ Single(s, 11) = 0 /\ Single(s, 12) = 0
        /\ Single(s, 13) = 0 /\ Single(s, 14) = 0 /\ Single(s, 15) = 0
    BY <1>2, <1>3 DEF Weighed
  <1>5. Fixed(s) = 2 + 8 + 0 + 0 + 0 + 0 + 0 + 0 + 0 + 0 + 0 + 0 + 0 + 0 + 0
    BY <1>4, Zenon DEF Fixed
  <1>6. Laid(s)
    BY <1>1, OutlineLaid
  <1> QED
    BY <1>5, <1>6 DEF Lays, s

\* A struct like that of SendDataCnf takes 2 bytes.
LEMMA SendDataCnfLaid ==
    Lays(<<Field(1), Field(1)>>, 2)
  <1> DEFINE s == <<Field(1), Field(1)>>
  <1>1. Outline(s, 2, {})
    BY ListsAre, ValuesAre DEF Array, Outline
  <1>2. s[1].widths[1] = 1 /\ s[2].widths[1] = 1
    BY ValuesAre
  <1> HIDE DEF s
  <1>3. Weighed(s, 2, {})
    BY <1>1, OutlineWeighed
  <1>4. /\ Single(s, 1) = 1 /\ Single(s, 2) = 1 /\ Single(s, 3) = 0 /\ Single(s, 4) = 0
        /\ Single(s, 5) = 0 /\ Single(s, 6) = 0 /\ Single(s, 7) = 0 /\ Single(s, 8) = 0
        /\ Single(s, 9) = 0 /\ Single(s, 10) = 0 /\ Single(s, 11) = 0 /\ Single(s, 12) = 0
        /\ Single(s, 13) = 0 /\ Single(s, 14) = 0 /\ Single(s, 15) = 0
    BY <1>2, <1>3 DEF Weighed
  <1>5. Fixed(s) = 1 + 1 + 0 + 0 + 0 + 0 + 0 + 0 + 0 + 0 + 0 + 0 + 0 + 0 + 0
    BY <1>4, Zenon DEF Fixed
  <1>6. Laid(s)
    BY <1>1, OutlineLaid
  <1> QED
    BY <1>5, <1>6 DEF Lays, s

\* A struct like that of ReceiveDataInd takes 6 bytes and its list.
LEMMA ReceiveDataIndLaid ==
    Lays(<<Field(2), Field(2), Count(2), List(<<1>>, 84)>>, 6)
  <1> DEFINE s == <<Field(2), Field(2), Count(2), List(<<1>>, 84)>>
  <1>1. Outline(s, 4, {4})
    BY ListsAre, ValuesAre DEF Array, Outline
  <1>2. s[1].widths[1] = 2 /\ s[2].widths[1] = 2 /\ s[3].widths[1] = 2
    BY ValuesAre
  <1> HIDE DEF s
  <1>3. Weighed(s, 4, {4})
    BY <1>1, OutlineWeighed
  <1>4. /\ Single(s, 1) = 2 /\ Single(s, 2) = 2 /\ Single(s, 3) = 2 /\ Single(s, 4) = 0
        /\ Single(s, 5) = 0 /\ Single(s, 6) = 0 /\ Single(s, 7) = 0 /\ Single(s, 8) = 0
        /\ Single(s, 9) = 0 /\ Single(s, 10) = 0 /\ Single(s, 11) = 0 /\ Single(s, 12) = 0
        /\ Single(s, 13) = 0 /\ Single(s, 14) = 0 /\ Single(s, 15) = 0
    BY <1>2, <1>3 DEF Weighed
  <1>5. Fixed(s) = 2 + 2 + 2 + 0 + 0 + 0 + 0 + 0 + 0 + 0 + 0 + 0 + 0 + 0 + 0
    BY <1>4, Zenon DEF Fixed
  <1>6. Laid(s)
    BY <1>1, OutlineLaid
  <1> QED
    BY <1>5, <1>6 DEF Lays, s

\* A struct like that of ReadConfigurationSrsp takes 3 bytes and its list.
LEMMA ReadConfigurationSrspLaid ==
    Lays(<<Field(1), Field(1), Count(1), List(<<1>>, 128)>>, 3)
  <1> DEFINE s == <<Field(1), Field(1), Count(1), List(<<1>>, 128)>>
  <1>1. Outline(s, 4, {4})
    BY ListsAre, ValuesAre DEF Array, Outline
  <1>2. s[1].widths[1] = 1 /\ s[2].widths[1] = 1 /\ s[3].widths[1] = 1
    BY ValuesAre
  <1> HIDE DEF s
  <1>3. Weighed(s, 4, {4})
    BY <1>1, OutlineWeighed
  <1>4. /\ Single(s, 1) = 1 /\ Single(s, 2) = 1 /\ Single(s, 3) = 1 /\ Single(s, 4) = 0
        /\ Single(s, 5) = 0 /\ Single(s, 6) = 0 /\ Single(s, 7) = 0 /\ Single(s, 8) = 0
        /\ Single(s, 9) = 0 /\ Single(s, 10) = 0 /\ Single(s, 11) = 0 /\ Single(s, 12) = 0
        /\ Single(s, 13) = 0 /\ Single(s, 14) = 0 /\ Single(s, 15) = 0
    BY <1>2, <1>3 DEF Weighed
  <1>5. Fixed(s) = 1 + 1 + 1 + 0 + 0 + 0 + 0 + 0 + 0 + 0 + 0 + 0 + 0 + 0 + 0
    BY <1>4, Zenon DEF Fixed
  <1>6. Laid(s)
    BY <1>1, OutlineLaid
  <1> QED
    BY <1>5, <1>6 DEF Lays, s

\* A struct like that of GetDeviceInfoSrsp takes 9 bytes.
LEMMA GetDeviceInfoSrspLaid ==
    Lays(<<Field(1), Field(8)>>, 9)
  <1> DEFINE s == <<Field(1), Field(8)>>
  <1>1. Outline(s, 2, {})
    BY ListsAre, ValuesAre DEF Array, Outline
  <1>2. s[1].widths[1] = 1 /\ s[2].widths[1] = 8
    BY ValuesAre
  <1> HIDE DEF s
  <1>3. Weighed(s, 2, {})
    BY <1>1, OutlineWeighed
  <1>4. /\ Single(s, 1) = 1 /\ Single(s, 2) = 8 /\ Single(s, 3) = 0 /\ Single(s, 4) = 0
        /\ Single(s, 5) = 0 /\ Single(s, 6) = 0 /\ Single(s, 7) = 0 /\ Single(s, 8) = 0
        /\ Single(s, 9) = 0 /\ Single(s, 10) = 0 /\ Single(s, 11) = 0 /\ Single(s, 12) = 0
        /\ Single(s, 13) = 0 /\ Single(s, 14) = 0 /\ Single(s, 15) = 0
    BY <1>2, <1>3 DEF Weighed
  <1>5. Fixed(s) = 1 + 8 + 0 + 0 + 0 + 0 + 0 + 0 + 0 + 0 + 0 + 0 + 0 + 0 + 0
    BY <1>4, Zenon DEF Fixed
  <1>6. Laid(s)
    BY <1>1, OutlineLaid
  <1> QED
    BY <1>5, <1>6 DEF Lays, s

-----------------------------------------------------------------------------
(* The parsers' tables.                                                    *)

\* Only the last list is behind a test of rpcLen.
Ends(p, g) == g > 0 => g = Len(p.struct) /\ p.struct[g].kind = "list"
Orderly(p, g) == Parses(p, g) /\ Straight(p) /\ Ends(p, g)
Ordered(p) == \E g : Orderly(p, g)

\* A parser that reads the members of its struct one by one is orderly.
LEMMA PlainOrderly ==
    ASSUME NEW s, NEW k \in 0..100, Lays(s, k), NEW need \in Nat, need <= k + 3
    PROVE  Orderly(Parser(s, need, s), 0)
  <1>1. Laid(s) /\ Fixed(s) = k
    BY DEF Lays
  <1>2. Parses(Parser(s, need, s), 0) /\ Straight(Parser(s, need, s))
    BY <1>1, PlainParses
  <1> QED
    BY <1>2 DEF Orderly, Ends

\* The statements r are those of s and, at g, the test of rpcLen.
Inserted(r, s, g, n) ==
    /\ Len(r) = Len(s) + 1 /\ DOMAIN r = 1..Len(r)
    /\ g \in 1..Len(s) /\ r[g] = IfLonger(n)
    /\ \A j \in 1..Len(r) : j # g => r[j] = s[MemberAt(g, j)]

\* One that also tests rpcLen parses the members.
LEMMA InsertedParses ==
    ASSUME NEW s, NEW k \in 0..100, Lays(s, k), NEW need \in Nat, need <= k + 3,
           NEW r, NEW g, NEW n \in Nat, n < k + 3, Inserted(r, s, g, n)
    PROVE  Parses(Parser(s, need, r), g) /\ Straight(Parser(s, need, r))
  <1>1. Laid(s) /\ Fixed(s) = k
    BY DEF Lays
  <1>2. /\ Len(r) = Len(s) + 1 /\ DOMAIN r = 1..Len(r)
        /\ g \in 1..Len(s) /\ r[g] = IfLonger(n)
        /\ \A j \in 1..Len(r) : j # g => r[j] = s[MemberAt(g, j)]
    BY DEF Inserted
  <1>3. s \in Seq(Member) /\ Len(s) \in Nat
    BY <1>1 DEF Laid
  <1>4. ASSUME NEW j \in 1..Len(r), j # g
        PROVE  Fills(r[j], s[MemberAt(g, j)]) /\ r[j].kind \in {"field", "count", "list"}
    <2>1. MemberAt(g, j) \in 1..Len(s)
      BY <1>2, <1>3, <1>4 DEF MemberAt
    <2>2. \A m \in Member : Fills(m, m) /\ m.kind \in {"field", "count", "list"}
      BY DEF Fills, Member
    <2>3. s[MemberAt(g, j)] \in Member
      BY <1>3, <2>1
    <2>4. r[j] = s[MemberAt(g, j)]
      BY <1>2, <1>4
    <2> QED
      BY <2>2, <2>3, <2>4
  <1>5. Guarded(r, s, g, n)
    BY <1>2, <1>4 DEF Guarded
  <1>6. Parses(Parser(s, need, r), g)
    BY <1>1, <1>5, GuardedParses
  <1>7. r[g].kind = "if longer"
    <2>1. IfLonger(n).kind = "if longer"
      BY DEF IfLonger
    <2> QED
      BY <1>2, <2>1, Zenon
  <1>8. Straight(Parser(s, need, r))
    <2>1. Parser(s, need, r).reads = r
      BY DEF Parser
    <2>2. \A j \in 1..Len(r) : r[j].kind \notin {"peek", "one index list"}
      BY <1>4, <1>7
    <2> QED
      BY <2>1, <2>2 DEF Straight
  <1> QED
    BY <1>6, <1>8

LastList(s, g) == g = Len(s) /\ s[g].kind = "list"

\* It is orderly if it tests rpcLen before its last list.
LEMMA GuardedOrderly ==
    ASSUME NEW s, NEW k \in 0..100, Lays(s, k), NEW need \in Nat, need <= k + 3,
           NEW r, NEW n \in Nat, n < k + 3, NEW g, Inserted(r, s, g, n),
           LastList(s, g)
    PROVE  Orderly(Parser(s, need, r), g)
  <1>1. Parses(Parser(s, need, r), g) /\ Straight(Parser(s, need, r))
    BY InsertedParses
  <1>2. Parser(s, need, r).struct = s
    BY DEF Parser
  <1> QED
    BY <1>1, <1>2 DEF Orderly, Ends, LastList

\* No value is read where the next one is, and no list's loops share an index.
OneByOne(p) == \A j \in 1..Len(p.reads) : p.reads[j].kind # "peek"
OneIndexEach(p) == \A j \in 1..Len(p.reads) : p.reads[j].kind # "one index list"
OnlyFields(p) == \A i \in 1..Len(p.struct) : p.struct[i].kind = "field"

\* The parser of a simple descriptor response tests the length after Len.
Brief(p) ==
    /\ p.need = 6 /\ 4 <= Len(p.struct) /\ p.reads[5].cap = 6
    /\ p.struct[1].kind = "field" /\ p.struct[1].widths[1] = 2
    /\ p.struct[2].kind = "field" /\ p.struct[2].widths[1] = 1
    /\ p.struct[3].kind = "field" /\ p.struct[3].widths[1] = 2
    /\ p.struct[4].kind = "field" /\ p.struct[4].widths[1] = 1

\* The parsers of the ZDO subsystem's indications, but for three.
LEMMA ZdoIndicationsOrderly ==
    /\ Ordered(processStateChange) /\ Ordered(processNwkAddrRsp) /\ Ordered(processIeeeAddrRsp)
    /\ Ordered(processNodeDescRsp) /\ Ordered(processPowerDescRsp)
    /\ Ordered(processActiveEpRsp) /\ Ordered(processMatchDescRsp)
    /\ Ordered(processComplexDescRsp) /\ Ordered(processUserDescRsp)
    /\ Ordered(processUserDescConf) /\ Ordered(processServerDiscRsp)
    /\ Ordered(processEndDeviceBindRsp) /\ Ordered(processBindRsp) /\ Ordered(processUnbindRsp)
    /\ Ordered(processMgmtNwkDiscRsp) /\ Ordered(processMgmtLqiRsp)
    /\ Ordered(processMgmtRtgRsp) /\ Ordered(processMgmtLeaveRsp)
    /\ Ordered(processMgmtDirectJoinRsp) /\ Ordered(processMgmtPermitJoinRsp)
    /\ Ordered(processEndDeviceAnnceInd) /\ Ordered(processMatchDescRspSent)
    /\ Ordered(processStatusErrorRsp) /\ Ordered(processSrcRtgInd)
    /\ Ordered(processBeaconNotifyInd) /\ Ordered(processJoinCnf)
    /\ Ordered(processNwkDiscoveryCnf) /\ Ordered(processLeaveInd)
  <1>1. Orderly(processStateChange, 0)
    BY StateChangeLaid, PlainOrderly DEF processStateChange
  <1>2. Orderly(processNwkAddrRsp, 6)
    <2> DEFINE s == <<Field(1), Field(8), Field(2), Field(1), Count(1), List(<<2>>, 70)>>
               r == <<Field(1), Field(8), Field(2), Field(1), Count(1), IfLonger(13),
                      List(<<2>>, 70)>>
    <2>1. Inserted(r, s, 6, 13)
      BY DEF Inserted, MemberAt
    <2>2. LastList(s, 6)
      BY ListsAre DEF Array, LastList
    <2>3. Lays(s, 13)
      BY NwkAddrRspLaid
    <2> HIDE DEF s, r
    <2>4. Orderly(Parser(s, 13, r), 6)
      BY <2>1, <2>2, <2>3, GuardedOrderly
    <2> QED
      BY <2>4 DEF processNwkAddrRsp, NwkAddrRspFormat, s, r
  <1>3. Orderly(processIeeeAddrRsp, 6)
    <2> DEFINE s == <<Field(1), Field(8), Field(2), Field(1), Count(1), List(<<2>>, 70)>>
               r == <<Field(1), Field(8), Field(2), Field(1), Count(1), IfLonger(13),
                      List(<<2>>, 70)>>
    <2>1. Inserted(r, s, 6, 13)
      BY DEF Inserted, MemberAt
    <2>2. LastList(s, 6)
      BY ListsAre DEF Array, LastList
    <2>3. Lays(s, 13)
      BY NwkAddrRspLaid
    <2> HIDE DEF s, r
    <2>4. Orderly(Parser(s, 13, r), 6)
      BY <2>1, <2>2, <2>3, GuardedOrderly
    <2> QED
      BY <2>4 DEF processIeeeAddrRsp, IeeeAddrRspFormat, s, r
  <1>4. Orderly(processNodeDescRsp, 0)
    BY NodeDescRspLaid, PlainOrderly DEF processNodeDescRsp, NodeDescRspFormat
  <1>5. Orderly(processPowerDescRsp, 0)
    BY PowerDescRspLaid, PlainOrderly DEF processPowerDescRsp, PowerDescRspFormat
  <1>6. Orderly(processActiveEpRsp, 5)
    <2> DEFINE s == <<Field(2), Field(1), Field(2), Count(1), List(<<1>>, 77)>>
               r == <<Field(2), Field(1), Field(2), Count(1), IfLonger(6), List(<<1>>, 77)>>
    <2>1. Inserted(r, s, 5, 6)
      BY DEF Inserted, MemberAt
    <2>2. LastList(s, 5)
      BY ListsAre DEF Array, LastList
    <2>3. Lays(s, 6)
      BY ActiveEpRspLaid
    <2> HIDE DEF s, r
    <2>4. Orderly(Parser(s, 6, r), 5)
      BY <2>1, <2>2, <2>3, GuardedOrderly
    <2> QED
      BY <2>4 DEF processActiveEpRsp, ActiveEpRspFormat, s, r
  <1>7. Orderly(processMatchDescRsp, 5)
    <2> DEFINE s == <<Field(2), Field(1), Field(2), Count(1), List(<<1>>, 77)>>
               r == <<Field(2), Field(1), Field(2), Count(1), IfLonger(6), List(<<1>>, 77)>>
    <2>1. Inserted(r, s, 5, 6)
      BY DEF Inserted, MemberAt
    <2>2. LastList(s, 5)
      BY ListsAre DEF Array, LastList
    <2>3. Lays(s, 6)
      BY ActiveEpRspLaid
    <2> HIDE DEF s, r
    <2>4. Orderly(Parser(s, 6, r), 5)
      BY <2>1, <2>2, <2>3, GuardedOrderly
    <2> QED
      BY <2>4 DEF processMatchDescRsp, MatchDescRspFormat, s, r
  <1>8. Orderly(processComplexDescRsp, 5)
    <2> DEFINE s == <<Field(2), Field(1), Field(2), Count(1), List(<<1>>, 77)>>
               r == <<Field(2), Field(1), Field(2), Count(1), IfLonger(6), List(<<1>>, 77)>>
    <2>1. Inserted(r, s, 5, 6)
      BY DEF Inserted, MemberAt
    <2>2. LastList(s, 5)
      BY ListsAre DEF Array, LastList
    <2>3. Lays(s, 6)
      BY ActiveEpRspLaid
    <2> HIDE DEF s, r
    <2>4. Orderly(Parser(s, 6, r), 5)
      BY <2>1, <2>2, <2>3, GuardedOrderly
    <2> QED
      BY <2>4 DEF processComplexDescRsp, ComplexDescRspFormat, s, r
  <1>9. Orderly(processUserDescRsp, 5)
    <2> DEFINE s == <<Field(2), Field(1), Field(2), Count(1), List(<<1>>, 77)>>
               r == <<Field(2), Field(1), Field(2), Count(1), IfLonger(6), List(<<1>>, 77)>>
    <2>1. Inserted(r, s, 5, 6)
      BY DEF Inserted, MemberAt
    <2>2. LastList(s, 5)
      BY ListsAre DEF Array, LastList
    <2>3. Lays(s, 6)
      BY ActiveEpRspLaid
    <2> HIDE DEF s, r
    <2>4. Orderly(Parser(s, 6, r), 5)
      BY <2>1, <2>2, <2>3, GuardedOrderly
    <2> QED
      BY <2>4 DEF processUserDescRsp, UserDescRspFormat, s, r
  <1>10. Orderly(processUserDescConf, 0)
    BY UserDescConfLaid, PlainOrderly DEF processUserDescConf, UserDescConfFormat
  <1>11. Orderly(processServerDiscRsp, 0)
    BY UserDescConfLaid, PlainOrderly DEF processServerDiscRsp, ServerDiscRspFormat
  <1>12. Orderly(processEndDeviceBindRsp, 0)
    BY EndDeviceBindRspLaid, PlainOrderly DEF processEndDeviceBindRsp, EndDeviceBindRspFormat
  <1>13. Orderly(processBindRsp, 0)
    BY EndDeviceBindRspLaid, PlainOrderly DEF processBindRsp, BindRspFormat
  <1>14. Orderly(processUnbindRsp, 0)
    BY EndDeviceBindRspLaid, PlainOrderly DEF processUnbindRsp, UnbindRspFormat
  <1>15. Orderly(processMgmtNwkDiscRsp, 6)
    <2> DEFINE s == <<Field(2), Field(1), Field(1), Field(1), Count(1),
                     List(<<8, 1, 1, 1, 1>>, 72)>>
               r == <<Field(2), Field(1), Field(1), Field(1), Count(1), IfLonger(6),
                      List(<<8, 1, 1, 1, 1>>, 72)>>
    <2>1. Inserted(r, s, 6, 6)
      BY DEF Inserted, MemberAt
    <2>2. LastList(s, 6)
      BY ListsAre DEF Array, LastList
    <2>3. Lays(s, 6)
      BY MgmtNwkDiscRspLaid
    <2> HIDE DEF s, r
    <2>4. Orderly(Parser(s, 6, r), 6)
      BY <2>1, <2>2, <2>3, GuardedOrderly
    <2> QED
      BY <2>4 DEF processMgmtNwkDiscRsp, MgmtNwkDiscRspFormat, NetworkListItemFormat, s, r
  <1>16. Orderly(processMgmtLqiRsp, 6)
    <2> DEFINE s == <<Field(2), Field(1), Field(1), Field(1), Count(1),
                     List(<<8, 8, 2, 1, 1, 1, 1>>, 66)>>
               r == <<Field(2), Field(1), Field(1), Field(1), Count(1), IfLonger(6),
                      List(<<8, 8, 2, 1, 1, 1, 1>>, 66)>>
    <2>1. Inserted(r, s, 6, 6)
      BY DEF Inserted, MemberAt
    <2>2. LastList(s, 6)
      BY ListsAre DEF Array, LastList
    <2>3. Lays(s, 6)
      BY MgmtLqiRspLaid
    <2> HIDE DEF s, r
    <2>4. Orderly(Parser(s, 6, r), 6)
      BY <2>1, <2>2, <2>3, GuardedOrderly
    <2> QED
      BY <2>4 DEF processMgmtLqiRsp, MgmtLqiRspFormat, NeighborLqiListItemFormat, s, r
  <1>17. Orderly(processMgmtRtgRsp, 6)
    <2> DEFINE s == <<Field(2), Field(1), Field(1), Field(1), Count(1), List(<<2, 1, 2>>, 75)>>
               r == <<Field(2), Field(1), Field(1), Field(1), Count(1), IfLonger(6),
                      List(<<2, 1, 2>>, 75)>>
    <2>1. Inserted(r, s, 6, 6)
      BY DEF Inserted, MemberAt
    <2>2. LastList(s, 6)
      BY ListsAre DEF Array, LastList
    <2>3. Lays(s, 6)
      BY MgmtRtgRspLaid
    <2> HIDE DEF s, r
    <2>4. Orderly(Parser(s, 6, r), 6)
      BY <2>1, <2>2, <2>3, GuardedOrderly
    <2> QED
      BY <2>4 DEF processMgmtRtgRsp, MgmtRtgRspFormat, RoutingTableListItemFormat, s, r
  <1>18. Orderly(processMgmtLeaveRsp, 0)
    BY EndDeviceBindRspLaid, PlainOrderly DEF processMgmtLeaveRsp, MgmtLeaveRspFormat
  <1>19. Orderly(processMgmtDirectJoinRsp, 0)
    BY EndDeviceBindRspLaid, PlainOrderly DEF processMgmtDirectJoinRsp, MgmtDirectJoinRspFormat
  <1>20. Orderly(processMgmtPermitJoinRsp, 0)
    BY EndDeviceBindRspLaid, PlainOrderly DEF processMgmtPermitJoinRsp, MgmtPermitJoinRspFormat
  <1>21. Orderly(processEndDeviceAnnceInd, 0)
    BY EndDeviceAnnceIndLaid, PlainOrderly DEF processEndDeviceAnnceInd, EndDeviceAnnceIndFormat
  <1>22. Orderly(processMatchDescRspSent, 0)
    BY MatchDescRspSentLaid, PlainOrderly DEF processMatchDescRspSent, MatchDescRspSentFormat
  <1>23. Orderly(processStatusErrorRsp, 0)
    BY EndDeviceBindRspLaid, PlainOrderly DEF processStatusErrorRsp, StatusErrorRspFormat
  <1>24. Orderly(processSrcRtgInd, 0)
    BY SrcRtgIndLaid, PlainOrderly DEF processSrcRtgInd, SrcRtgIndFormat
  <1>25. Orderly(processBeaconNotifyInd, 2)
    <2> DEFINE s == <<Count(1), List(<<2, 2, 1, 1, 1, 1, 1, 1, 1, 1, 1, 8>>, 21)>>
               r == <<Count(1), IfLonger(1),
                      List(<<2, 2, 1, 1, 1, 1, 1, 1, 1, 1, 1, 8>>, 21)>>
    <2>1. Inserted(r, s, 2, 1)
      BY DEF Inserted, MemberAt
    <2>2. LastList(s, 2)
      BY ListsAre DEF Array, LastList
    <2>3. Lays(s, 1)
      BY BeaconNotifyIndLaid
    <2> HIDE DEF s, r
    <2>4. Orderly(Parser(s, 1, r), 2)
      BY <2>1, <2>2, <2>3, GuardedOrderly
    <2> QED
      BY <2>4 DEF processBeaconNotifyInd, BeaconNotifyIndFormat, BeaconListItemFormat, s, r
  <1>26. Orderly(processJoinCnf, 0)
    BY JoinCnfLaid, PlainOrderly DEF processJoinCnf, JoinCnfFormat
  <1>27. Orderly(processNwkDiscoveryCnf, 0)
    BY StateChangeLaid, PlainOrderly DEF processNwkDiscoveryCnf, NwkDiscoveryCnfFormat
  <1>28. Orderly(processLeaveInd, 0)
    BY LeaveIndLaid, PlainOrderly DEF processLeaveInd, LeaveIndFormat
  <1> QED
    BY <1>1, <1>2, <1>3, <1>4, <1>5, <1>6, <1>7, <1>8, <1>9, <1>10, <1>11, <1>12, <1>13,
       <1>14, <1>15, <1>16, <1>17, <1>18, <1>19, <1>20, <1>21, <1>22, <1>23, <1>24, <1>25,
       <1>26, <1>27, <1>28 DEF Ordered

\* The parser of the ZDO subsystem's SRSP.
LEMMA ZdoSrspsOrderly ==
    Ordered(processGetLinkKey)
  <1>1. Orderly(processGetLinkKey, 0)
    BY GetLinkKeySrspLaid, PlainOrderly DEF processGetLinkKey, GetLinkKeySrspFormat
  <1> QED
    BY <1>1 DEF Ordered

\* The parsers of the SYS subsystem's indications.
LEMMA SysIndicationsOrderly ==
    Ordered(processResetInd) /\ Ordered(processOsalTimerExpired)
  <1>1. Orderly(processResetInd, 0)
    BY ResetIndLaid, PlainOrderly DEF processResetInd, ResetIndFormat
  <1>2. Orderly(processOsalTimerExpired, 0)
    BY StateChangeLaid, PlainOrderly DEF processOsalTimerExpired, OsalTimerExpiredFormat
  <1> QED
    BY <1>1, <1>2 DEF Ordered

\* The parsers of the SYS subsystem's SRSPs.
LEMMA SysSrspsOrderly ==
    /\ Ordered(processPingSrsp) /\ Ordered(processGetExtAddrSrsp)
    /\ Ordered(processRamReadSrsp) /\ Ordered(processVersionSrsp)
    /\ Ordered(processOsalNvReadSrsp) /\ Ordered(processOsalNvLengthSrsp)
    /\ Ordered(processStackTuneSrsp) /\ Ordered(processAdcReadSrsp) /\ Ordered(processGpioSrsp)
    /\ Ordered(processRandomSrsp) /\ Ordered(processGetTimeSrsp)
    /\ Ordered(processSetTxPowerSrsp)
  <1>1. Orderly(processPingSrsp, 0)
    BY PingSrspLaid, PlainOrderly DEF processPingSrsp, PingSrspFormat
  <1>2. Orderly(processGetExtAddrSrsp, 0)
    BY GetExtAddrSrspLaid, PlainOrderly DEF processGetExtAddrSrsp, GetExtAddrSrspFormat
  <1>3. Orderly(processRamReadSrsp, 3)
    <2> DEFINE s == <<Field(1), Count(1), List(<<1>>, 128)>>
               r == <<Field(1), Count(1), IfLonger(2), List(<<1>>, 128)>>
    <2>1. Inserted(r, s, 3, 2)
      BY DEF Inserted, MemberAt
    <2>2. LastList(s, 3)
      BY ListsAre DEF Array, LastList
    <2>3. Lays(s, 2)
      BY RamReadSrspLaid
    <2> HIDE DEF s, r
    <2>4. Orderly(Parser(s, 2, r), 3)
      BY <2>1, <2>2, <2>3, GuardedOrderly
    <2> QED
      BY <2>4 DEF processRamReadSrsp, RamReadSrspFormat, s, r
  <1>4. Orderly(processVersionSrsp, 0)
    BY VersionSrspLaid, PlainOrderly DEF processVersionSrsp, VersionSrspFormat
  <1>5. Orderly(processOsalNvReadSrsp, 3)
    <2> DEFINE s == <<Field(1), Count(1), List(<<1>>, 248)>>
               r == <<Field(1), Count(1), IfLonger(2), List(<<1>>, 248)>>
    <2>1. Inserted(r, s, 3, 2)
      BY DEF Inserted, MemberAt
    <2>2. LastList(s, 3)
      BY ListsAre DEF Array, LastList
    <2>3. Lays(s, 2)
      BY OsalNvReadSrspLaid
    <2> HIDE DEF s, r
    <2>4. Orderly(Parser(s, 2, r), 3)
      BY <2>1, <2>2, <2>3, GuardedOrderly
    <2> QED
      BY <2>4 DEF processOsalNvReadSrsp, OsalNvReadSrspFormat, s, r
  <1>6. Orderly(processOsalNvLengthSrsp, 0)
    BY PingSrspLaid, PlainOrderly DEF processOsalNvLengthSrsp, OsalNvLengthSrspFormat
  <1>7. Orderly(processStackTuneSrsp, 0)
    BY StateChangeLaid, PlainOrderly DEF processStackTuneSrsp, StackTuneSrspFormat
  <1>8. Orderly(processAdcReadSrsp, 0)
    BY PingSrspLaid, PlainOrderly DEF processAdcReadSrsp, AdcReadSrspFormat
  <1>9. Orderly(processGpioSrsp, 0)
    BY StateChangeLaid, PlainOrderly DEF processGpioSrsp, GpioSrspFormat
  <1>10. Orderly(processRandomSrsp, 0)
    BY PingSrspLaid, PlainOrderly DEF processRandomSrsp, RandomSrspFormat
  <1>11. Orderly(processGetTimeSrsp, 0)
    BY GetTimeSrspLaid, PlainOrderly DEF processGetTimeSrsp, GetTimeSrspFormat
  <1>12. Orderly(processSetTxPowerSrsp, 0)
    BY StateChangeLaid, PlainOrderly DEF processSetTxPowerSrsp, SetTxPowerSrspFormat
  <1> QED
    BY <1>1, <1>2, <1>3, <1>4, <1>5, <1>6, <1>7, <1>8, <1>9, <1>10, <1>11, <1>12 DEF Ordered

\* The parsers of the AF subsystem's indications.
LEMMA AfIndicationsOrderly ==
    /\ Ordered(processDataConfirm) /\ Ordered(processIncomingMsg)
    /\ Ordered(processIncomingMsgExt) /\ Ordered(processReflectError)
  <1>1. Orderly(processDataConfirm, 0)
    BY DataConfirmLaid, PlainOrderly DEF processDataConfirm, DataConfirmFormat
  <1>2. Orderly(processIncomingMsg, 12)
    <2> DEFINE s == <<Field(2), Field(2), Field(2), Field(1), Field(1), Field(1), Field(1),
                     Field(1), Field(4), Field(1), Count(1), List(<<1>>, 99)>>
               r == <<Field(2), Field(2), Field(2), Field(1), Field(1), Field(1), Field(1),
                      Field(1), Field(4), Field(1), Count(1), IfLonger(17), List(<<1>>, 99)>>
    <2>1. Inserted(r, s, 12, 17)
      BY DEF Inserted, MemberAt
    <2>2. LastList(s, 12)
      BY ListsAre DEF Array, LastList
    <2>3. Lays(s, 17)
      BY IncomingMsgLaid
    <2> HIDE DEF s, r
    <2>4. Orderly(Parser(s, 17, r), 12)
      BY <2>1, <2>2, <2>3, GuardedOrderly
    <2> QED
      BY <2>4 DEF processIncomingMsg, IncomingMsgFormat, s, r
  <1>3. Orderly(processIncomingMsgExt, 0)
    BY IncomingMsgExtLaid, PlainOrderly DEF processIncomingMsgExt, IncomingMsgExtFormat
  <1>4. Orderly(processReflectError, 0)
    BY ReflectErrorLaid, PlainOrderly DEF processReflectError, ReflectErrorFormat
  <1> QED
    BY <1>1, <1>2, <1>3, <1>4 DEF Ordered

\* The parsers of the AF subsystem's SRSPs.
LEMMA AfSrspsOrderly ==
    Ordered(processDataRetrieveSrsp)
  <1>1. Orderly(processDataRetrieveSrsp, 3)
    <2> DEFINE s == <<Field(1), Count(1), List(<<1>>, 248)>>
               r == <<Field(1), Count(1), IfLonger(2), List(<<1>>, 248)>>
    <2>1. Inserted(r, s, 3, 2)
      BY DEF Inserted, MemberAt
    <2>2. LastList(s, 3)
      BY ListsAre DEF Array, LastList
    <2>3. Lays(s, 2)
      BY OsalNvReadSrspLaid
    <2> HIDE DEF s, r
    <2>4. Orderly(Parser(s, 2, r), 3)
      BY <2>1, <2>2, <2>3, GuardedOrderly
    <2> QED
      BY <2>4 DEF processDataRetrieveSrsp, DataRetrieveSrspFormat, s, r
  <1> QED
    BY <1>1 DEF Ordered

\* The parsers of the SAPI subsystem's indications.
LEMMA SapiIndicationsOrderly ==
    /\ Ordered(processFindDeviceCnf) /\ Ordered(processSendDataCnf)
    /\ Ordered(processReceiveDataInd) /\ Ordered(processAllowBindCnf)
    /\ Ordered(processBindCnf) /\ Ordered(processStartCnf)
  <1>1. Orderly(processFindDeviceCnf, 0)
    BY FindDeviceCnfLaid, PlainOrderly DEF processFindDeviceCnf, FindDeviceCnfFormat
  <1>2. Orderly(processSendDataCnf, 0)
    BY SendDataCnfLaid, PlainOrderly DEF processSendDataCnf, SendDataCnfFormat
  <1>3. Orderly(processReceiveDataInd, 4)
    <2> DEFINE s == <<Field(2), Field(2), Count(2), List(<<1>>, 84)>>
               r == <<Field(2), Field(2), Count(2), IfLonger(6), List(<<1>>, 84)>>
    <2>1. Inserted(r, s, 4, 6)
      BY DEF Inserted, MemberAt
    <2>2. LastList(s, 4)
      BY ListsAre DEF Array, LastList
    <2>3. Lays(s, 6)
      BY ReceiveDataIndLaid
    <2> HIDE DEF s, r
    <2>4. Orderly(Parser(s, 6, r), 4)
      BY <2>1, <2>2, <2>3, GuardedOrderly
    <2> QED
      BY <2>4 DEF processReceiveDataInd, ReceiveDataIndFormat, s, r
  <1>4. Orderly(processAllowBindCnf, 0)
    BY PingSrspLaid, PlainOrderly DEF processAllowBindCnf, AllowBindCnfFormat
  <1>5. Orderly(processBindCnf, 0)
    BY EndDeviceBindRspLaid, PlainOrderly DEF processBindCnf, BindCnfFormat
  <1>6. Orderly(processStartCnf, 0)
    BY StateChangeLaid, PlainOrderly DEF processStartCnf, StartCnfFormat
  <1> QED
    BY <1>1, <1>2, <1>3, <1>4, <1>5, <1>6 DEF Ordered

\* The parsers of the SAPI subsystem's SRSPs.
LEMMA SapiSrspsOrderly ==
    Ordered(processReadConfigurationSrsp) /\ Ordered(processGetDeviceInfoSrsp)
  <1>1. Orderly(processReadConfigurationSrsp, 4)
    <2> DEFINE s == <<Field(1), Field(1), Count(1), List(<<1>>, 128)>>
               r == <<Field(1), Field(1), Count(1), IfLonger(3), List(<<1>>, 128)>>
    <2>1. Inserted(r, s, 4, 3)
      BY DEF Inserted, MemberAt
    <2>2. LastList(s, 4)
      BY ListsAre DEF Array, LastList
    <2>3. Lays(s, 3)
      BY ReadConfigurationSrspLaid
    <2> HIDE DEF s, r
    <2>4. Orderly(Parser(s, 3, r), 4)
      BY <2>1, <2>2, <2>3, GuardedOrderly
    <2> QED
      BY <2>4 DEF processReadConfigurationSrsp, ReadConfigurationSrspFormat, s, r
  <1>2. Orderly(processGetDeviceInfoSrsp, 0)
    BY GetDeviceInfoSrspLaid, PlainOrderly DEF processGetDeviceInfoSrsp, GetDeviceInfoSrspFormat
  <1> QED
    BY <1>1, <1>2 DEF Ordered

\* The three that are not orderly, and what can be said of them.
LEMMA ZdoSpecials ==
    /\ Parses(processSimpleDescRsp, 5) /\ Straight(processSimpleDescRsp)
    /\ Brief(processSimpleDescRsp)
    /\ Parses(processMgmtBindRsp, 6) /\ Ends(processMgmtBindRsp, 6)
    /\ OneByOne(processMgmtBindRsp)
    /\ Parses(processMsgCbIncoming, 0) /\ OneIndexEach(processMsgCbIncoming)
    /\ OnlyFields(processMsgCbIncoming)
  <1>1. /\ Parses(processSimpleDescRsp, 5) /\ Straight(processSimpleDescRsp)
        /\ Brief(processSimpleDescRsp)
    <2> DEFINE s == <<Field(2), Field(1), Field(2), Field(1), Field(1), Field(2), Field(2),
                      Field(1), Count(1), List(<<2>>, 16), Count(1), List(<<2>>, 16)>>
               r == <<Field(2), Field(1), Field(2), Field(1), IfLonger(6), Field(1), Field(2),
                      Field(2), Field(1), Count(1), List(<<2>>, 16), Count(1), List(<<2>>, 16)>>
    <2>1. Inserted(r, s, 5, 6)
      BY DEF Inserted, MemberAt
    <2>2. Lays(s, 14)
      BY SimpleDescRspLaid
    <2>3. /\ 4 <= Len(s) /\ s[1] = Field(2) /\ s[2] = Field(1) /\ s[3] = Field(2)
          /\ s[4] = Field(1) /\ r[5] = IfLonger(6)
      OBVIOUS
    <2> HIDE DEF s, r
    <2>4. Parses(Parser(s, 6, r), 5) /\ Straight(Parser(s, 6, r))
      BY <2>1, <2>2, InsertedParses
    <2>5. processSimpleDescRsp = Parser(s, 6, r)
      BY DEF processSimpleDescRsp, SimpleDescRspFormat, s, r
    <2>6. /\ Field(1).kind = "field" /\ Field(1).widths[1] = 1
          /\ Field(2).kind = "field" /\ Field(2).widths[1] = 2 /\ IfLonger(6).cap = 6
      BY ValuesAre DEF IfLonger
    <2>7. Brief(Parser(s, 6, r))
      BY <2>3, <2>6, Zenon DEF Brief, Parser
    <2> QED
      BY <2>4, <2>5, <2>7
  <1>2. /\ Parses(processMgmtBindRsp, 6) /\ Ends(processMgmtBindRsp, 6)
        /\ OneByOne(processMgmtBindRsp)
    <2> DEFINE l == List(<<8, 1, 1, 1, 8, 1>>, 75)
               o == OneIndexList(<<8, 1, 1, 1, 8, 1>>, 75)
               s == <<Field(2), Field(1), Field(1), Field(1), Count(1), l>>
               r == <<Field(2), Field(1), Field(1), Field(1), Count(1), IfLonger(6), o>>
    <2>1. Lays(s, 6)
      BY MgmtBindRspLaid
    <2>2. Fills(o, l) /\ o.kind = "one index list"
      BY DEF Fills, OneIndexList, List
    <2>3. l.kind = "list"
      BY DEF List
    <2>4. \A w \in {1, 2, 4, 8, 16} : Fills(Field(w), Field(w)) /\ Field(w).kind = "field"
      BY DEF Fills, Field
    <2>5. Fills(Count(1), Count(1)) /\ Count(1).kind = "count"
      BY DEF Fills, Count
    <2>6. IfLonger(6).kind = "if longer"
      BY DEF IfLonger
    <2> HIDE DEF l, o
    <2>7. Guarded(r, s, 6, 6)
      <3>1. Len(r) = 7 /\ Len(s) = 6 /\ DOMAIN r = 1..7 /\ r[6] = IfLonger(6)
        OBVIOUS
      <3>2. /\ Fills(r[1], s[1]) /\ Fills(r[2], s[2]) /\ Fills(r[3], s[3]) /\ Fills(r[4], s[4])
            /\ Fills(r[5], s[5]) /\ Fills(r[7], s[6])
        BY <2>2, <2>4, <2>5
      <3> HIDE DEF r, s
      <3>3. \A j \in 1..7 : j # 6 => Fills(r[j], s[MemberAt(6, j)])
        BY <3>2 DEF MemberAt
      <3> QED
        BY <3>1, <3>3 DEF Guarded
    <2>8. Len(r) = 7 /\ \A j \in 1..7 : r[j].kind # "peek"
      <3> DEFINE Kept(a) == a.kind # "peek"
      <3>1. /\ Kept(r[1]) /\ Kept(r[2]) /\ Kept(r[3]) /\ Kept(r[4]) /\ Kept(r[5])
            /\ Kept(r[6]) /\ Kept(r[7])
        BY <2>2, <2>4, <2>5, <2>6
      <3>2. Len(r) = 7
        OBVIOUS
      <3> HIDE DEF r, Kept
      <3>3. \A j \in 1..7 : Kept(r[j])
        BY <3>1
      <3> QED
        BY <3>2, <3>3 DEF Kept
    <2>9. LastList(s, 6)
      BY <2>3 DEF LastList
    <2> HIDE DEF s, r
    <2>10. Laid(s) /\ Fixed(s) = 6
      BY <2>1 DEF Lays
    <2>11. Parses(Parser(s, 6, r), 6)
      BY <2>7, <2>10, GuardedParses
    <2>12. Parser(s, 6, r).struct = s /\ Parser(s, 6, r).reads = r
      BY DEF Parser
    <2>13. Ends(Parser(s, 6, r), 6)
      BY <2>9, <2>12 DEF Ends, LastList
    <2>14. OneByOne(Parser(s, 6, r))
      BY <2>8, <2>12 DEF OneByOne
    <2>15. processMgmtBindRsp = Parser(s, 6, r)
      BY DEF processMgmtBindRsp, MgmtBindRspFormat, BindingTableListItemFormat, s, r, l, o
    <2> QED
      BY <2>11, <2>13, <2>14, <2>15
  <1>3. /\ Parses(processMsgCbIncoming, 0) /\ OneIndexEach(processMsgCbIncoming)
        /\ OnlyFields(processMsgCbIncoming)
    <2> DEFINE s == <<Field(2), Field(1), Field(2), Field(1), Field(1), Field(2), Field(1),
                      Field(8), Field(2), Field(1)>>
               r == <<Field(2), Field(1), Field(2), Field(1), Field(1), Field(2), Field(1),
                      Field(8), Peek(2), Peek(1)>>
               p == Parser(s, 9, r)
               Fits(a, m) == Fills(a, m) /\ a.kind # "one index list" /\ m.kind = "field"
    <2>2. \A w \in {1, 2, 4, 8, 16} : Fits(Field(w), Field(w)) /\ Fits(Peek(w), Field(w))
      BY DEF Fills, Field, Peek
    <2> HIDE DEF Fits
    <2>3. /\ Len(r) = 10 /\ Len(s) = 10 /\ DOMAIN r = 1..10
          /\ \A j \in 1..10 : Fills(r[j], s[j]) /\ r[j].kind # "one index list"
                              /\ s[j].kind = "field"
      <3>1. /\ Fits(r[1], s[1]) /\ Fits(r[2], s[2]) /\ Fits(r[3], s[3]) /\ Fits(r[4], s[4])
            /\ Fits(r[5], s[5]) /\ Fits(r[6], s[6]) /\ Fits(r[7], s[7]) /\ Fits(r[8], s[8])
            /\ Fits(r[9], s[9]) /\ Fits(r[10], s[10])
        BY <2>2
      <3>2. Len(r) = 10 /\ Len(s) = 10 /\ DOMAIN r = 1..10
        OBVIOUS
      <3> HIDE DEF r, s, Fits
      <3>3. \A j \in 1..10 : Fits(r[j], s[j])
        BY <3>1
      <3> QED
        BY <3>2, <3>3 DEF Fits
    <2>1. Lays(s, 21)
      BY MsgCbIncomingLaid
    <2>4. p.struct = s /\ p.reads = r /\ p.need = 9
      BY DEF Parser
    <2> HIDE DEF s, r, p
    <2>5. Laid(s) /\ Fixed(s) = 21
      BY <2>1 DEF Lays
    <2>6. Struct(s) /\ Limited(s)
      BY <2>5 DEF Laid, Struct, Sensible
    <2>7. /\ \A j \in 1..10 : Fills(r[j], s[MemberAt(0, j)])
          /\ \A j \in 1..10 : s[j].kind # "count"
      <3>1. \A j \in 1..10 : MemberAt(0, j) = j
        BY DEF MemberAt
      <3> QED
        BY <2>3, <3>1
    <2>8. Parses(p, 0)
      <3>1. \A i \in 1..Len(s) : s[i].kind # "count"
        BY <2>3, <2>7
      <3>2. 0 \in 0..Len(s) /\ Len(r) = Len(s) + (IF 0 = 0 THEN 0 ELSE 1) /\ DOMAIN r = 1..Len(r)
        <4>1. 0 \in 0..10 /\ 10 = 10 + (IF 0 = 0 THEN 0 ELSE 1)
          OBVIOUS
        <4> QED
          BY <2>3, <4>1, Zenon
      <3>3. \A j \in 1..Len(r) : Fills(r[j], s[MemberAt(0, j)])
        BY <2>3, <2>7
      <3>4. 9 \in Nat /\ 9 <= Fixed(s) + 3 /\ Fixed(s) <= 100 /\ ~(0 > 0)
        BY <2>5
      <3> QED
        BY <2>4, <2>6, <3>1, <3>2, <3>3, <3>4, Zenon DEF Parses
    <2>9. OneIndexEach(p) /\ OnlyFields(p)
      BY <2>3, <2>4 DEF OneIndexEach, OnlyFields
    <2>10. p = processMsgCbIncoming
      BY DEF processMsgCbIncoming, MsgCbIncomingFormat, s, r, p
    <2> QED
      BY <2>8, <2>9, <2>10
  <1> QED
    BY <1>1, <1>2, <1>3

\* What is known of the parser of a command.
Known(cmd, p) ==
    \/ Ordered(p)
    \/ cmd = "MT_ZDO_SIMPLE_DESC_RSP" /\ Parses(p, 5) /\ Straight(p) /\ Brief(p)
    \/ cmd = "MT_ZDO_MGMT_BIND_RSP" /\ Parses(p, 6) /\ Ends(p, 6) /\ OneByOne(p)
    \/ /\ cmd = "MT_ZDO_MSG_CB_INCOMING"
       /\ Parses(p, 0) /\ OneIndexEach(p) /\ OnlyFields(p)

\* Every parser of the tables is orderly or one of the three.
LEMMA TablesKnown ==
    ASSUME NEW type \in {"AREQ", "SRSP"}, NEW sub \in Subsystems,
           NEW cmd \in DOMAIN Table(type, sub)
    PROVE  Known(cmd, Table(type, sub)[cmd])
  <1>1. \A c \in DOMAIN ZdoIndications : Known(c, ZdoIndications[c])
    <2> DEFINE T == ZdoIndications
               K(c) == Known(c, T[c])
    <2>1. /\ T.MT_ZDO_STATE_CHANGE_IND = processStateChange
          /\ T.MT_ZDO_NWK_ADDR_RSP = processNwkAddrRsp
          /\ T.MT_ZDO_IEEE_ADDR_RSP = processIeeeAddrRsp
          /\ T.MT_ZDO_NODE_DESC_RSP = processNodeDescRsp
          /\ T.MT_ZDO_POWER_DESC_RSP = processPowerDescRsp
          /\ T.MT_ZDO_SIMPLE_DESC_RSP = processSimpleDescRsp
          /\ T.MT_ZDO_ACTIVE_EP_RSP = processActiveEpRsp
          /\ T.MT_ZDO_MATCH_DESC_RSP = processMatchDescRsp
      BY DEF ZdoIndications
    <2>2. /\ T.MT_ZDO_COMPLEX_DESC_RSP = processComplexDescRsp
          /\ T.MT_ZDO_USER_DESC_RSP = processUserDescRsp
          /\ T.MT_ZDO_USER_DESC_CONF = processUserDescConf
          /\ T.MT_ZDO_SERVER_DISC_RSP = processServerDiscRsp
          /\ T.MT_ZDO_END_DEVICE_BIND_RSP = processEndDeviceBindRsp
          /\ T.MT_ZDO_BIND_RSP = processBindRsp /\ T.MT_ZDO_UNBIND_RSP = processUnbindRsp
          /\ T.MT_ZDO_MGMT_NWK_DISC_RSP = processMgmtNwkDiscRsp
      BY DEF ZdoIndications
    <2>3. /\ T.MT_ZDO_MGMT_LQI_RSP = processMgmtLqiRsp
          /\ T.MT_ZDO_MGMT_RTG_RSP = processMgmtRtgRsp
          /\ T.MT_ZDO_MGMT_BIND_RSP = processMgmtBindRsp
          /\ T.MT_ZDO_MGMT_LEAVE_RSP = processMgmtLeaveRsp
          /\ T.MT_ZDO_MGMT_DIRECT_JOIN_RSP = processMgmtDirectJoinRsp
          /\ T.MT_ZDO_MGMT_PERMIT_JOIN_RSP = processMgmtPermitJoinRsp
          /\ T.MT_ZDO_END_DEVICE_ANNCE_IND = processEndDeviceAnnceInd
          /\ T.MT_ZDO_MATCH_DESC_RSP_SENT = processMatchDescRspSent
      BY DEF ZdoIndications
    <2>4. /\ T.MT_ZDO_STATUS_ERROR_RSP = processStatusErrorRsp
          /\ T.MT_ZDO_SRC_RTG_IND = processSrcRtgInd
          /\ T.MT_ZDO_BEACON_NOTIFY_IND = processBeaconNotifyInd
          /\ T.MT_ZDO_JOIN_CNF = processJoinCnf
          /\ T.MT_ZDO_NWK_DISCOVERY_CNF = processNwkDiscoveryCnf
          /\ T.MT_ZDO_LEAVE_IND = processLeaveInd
          /\ T.MT_ZDO_MSG_CB_INCOMING = processMsgCbIncoming
      BY DEF ZdoIndications
    <2>5. DOMAIN T =
              {"MT_ZDO_STATE_CHANGE_IND", "MT_ZDO_NWK_ADDR_RSP",
               "MT_ZDO_IEEE_ADDR_RSP", "MT_ZDO_NODE_DESC_RSP",
               "MT_ZDO_POWER_DESC_RSP", "MT_ZDO_SIMPLE_DESC_RSP",
               "MT_ZDO_ACTIVE_EP_RSP", "MT_ZDO_MATCH_DESC_RSP",
               "MT_ZDO_COMPLEX_DESC_RSP", "MT_ZDO_USER_DESC_RSP",
               "MT_ZDO_USER_DESC_CONF", "MT_ZDO_SERVER_DISC_RSP",
               "MT_ZDO_END_DEVICE_BIND_RSP", "MT_ZDO_BIND_RSP", "MT_ZDO_UNBIND_RSP",
               "MT_ZDO_MGMT_NWK_DISC_RSP", "MT_ZDO_MGMT_LQI_RSP",
               "MT_ZDO_MGMT_RTG_RSP", "MT_ZDO_MGMT_BIND_RSP", "MT_ZDO_MGMT_LEAVE_RSP",
               "MT_ZDO_MGMT_DIRECT_JOIN_RSP", "MT_ZDO_MGMT_PERMIT_JOIN_RSP",
               "MT_ZDO_END_DEVICE_ANNCE_IND", "MT_ZDO_MATCH_DESC_RSP_SENT",
               "MT_ZDO_STATUS_ERROR_RSP", "MT_ZDO_SRC_RTG_IND",
               "MT_ZDO_BEACON_NOTIFY_IND", "MT_ZDO_JOIN_CNF",
               "MT_ZDO_NWK_DISCOVERY_CNF", "MT_ZDO_LEAVE_IND",
               "MT_ZDO_MSG_CB_INCOMING"}
      BY DEF ZdoIndications
    <2> HIDE DEF T
    <2>6. /\ K("MT_ZDO_STATE_CHANGE_IND") /\ K("MT_ZDO_NWK_ADDR_RSP")
          /\ K("MT_ZDO_IEEE_ADDR_RSP") /\ K("MT_ZDO_NODE_DESC_RSP")
          /\ K("MT_ZDO_POWER_DESC_RSP") /\ K("MT_ZDO_SIMPLE_DESC_RSP")
          /\ K("MT_ZDO_ACTIVE_EP_RSP") /\ K("MT_ZDO_MATCH_DESC_RSP")
      BY <2>1, ZdoIndicationsOrderly, ZdoSpecials DEF Known
    <2>7. /\ K("MT_ZDO_COMPLEX_DESC_RSP") /\ K("MT_ZDO_USER_DESC_RSP")
          /\ K("MT_ZDO_USER_DESC_CONF") /\ K("MT_ZDO_SERVER_DISC_RSP")
          /\ K("MT_ZDO_END_DEVICE_BIND_RSP") /\ K("MT_ZDO_BIND_RSP") /\ K("MT_ZDO_UNBIND_RSP")
          /\ K("MT_ZDO_MGMT_NWK_DISC_RSP")
      BY <2>2, ZdoIndicationsOrderly, ZdoSpecials DEF Known
    <2>8. /\ K("MT_ZDO_MGMT_LQI_RSP") /\ K("MT_ZDO_MGMT_RTG_RSP") /\ K("MT_ZDO_MGMT_BIND_RSP")
          /\ K("MT_ZDO_MGMT_LEAVE_RSP") /\ K("MT_ZDO_MGMT_DIRECT_JOIN_RSP")
          /\ K("MT_ZDO_MGMT_PERMIT_JOIN_RSP") /\ K("MT_ZDO_END_DEVICE_ANNCE_IND")
          /\ K("MT_ZDO_MATCH_DESC_RSP_SENT")
      BY <2>3, ZdoIndicationsOrderly, ZdoSpecials DEF Known
    <2>9. /\ K("MT_ZDO_STATUS_ERROR_RSP") /\ K("MT_ZDO_SRC_RTG_IND")
          /\ K("MT_ZDO_BEACON_NOTIFY_IND") /\ K("MT_ZDO_JOIN_CNF")
          /\ K("MT_ZDO_NWK_DISCOVERY_CNF") /\ K("MT_ZDO_LEAVE_IND")
          /\ K("MT_ZDO_MSG_CB_INCOMING")
      BY <2>4, ZdoIndicationsOrderly, ZdoSpecials DEF Known
    <2> HIDE DEF K
    <2>10. \A c \in DOMAIN T : K(c)
      BY <2>5, <2>6, <2>7, <2>8, <2>9
    <2> QED
      BY <2>10 DEF K, T
  <1>2. \A c \in DOMAIN ZdoSrsps : Known(c, ZdoSrsps[c])
    BY ZdoSrspsOrderly DEF ZdoSrsps, Known
  <1>3. \A c \in DOMAIN SysIndications : Known(c, SysIndications[c])
    BY SysIndicationsOrderly DEF SysIndications, Known
  <1>4. \A c \in DOMAIN SysSrsps : Known(c, SysSrsps[c])
    BY SysSrspsOrderly DEF SysSrsps, Known
  <1>5. \A c \in DOMAIN AfIndications : Known(c, AfIndications[c])
    BY AfIndicationsOrderly DEF AfIndications, Known
  <1>6. \A c \in DOMAIN AfSrsps : Known(c, AfSrsps[c])
    BY AfSrspsOrderly DEF AfSrsps, Known
  <1>7. \A c \in DOMAIN SapiIndications : Known(c, SapiIndications[c])
    BY SapiIndicationsOrderly DEF SapiIndications, Known
  <1>8. \A c \in DOMAIN SapiSrsps : Known(c, SapiSrsps[c])
    BY SapiSrspsOrderly DEF SapiSrsps, Known
  <1>9. Table(type, sub) \in {ZdoIndications, SysIndications, AfIndications, SapiIndications,
                              ZdoSrsps, SysSrsps, AfSrsps, SapiSrsps}
    BY DEF Table, Subsystems, Indications, Srsps
  <1> QED
    BY <1>1, <1>2, <1>3, <1>4, <1>5, <1>6, <1>7, <1>8, <1>9

\* GuardAt finds a parser's test of rpcLen.
LEMMA GuardFound ==
    ASSUME NEW p, NEW g, Parses(p, g)
    PROVE  GuardAt(p.reads) = g
  <1> DEFINE r == p.reads
             n == Len(p.struct)
             m == Len(r)
             I == {i \in 1..m : r[i].kind = "if longer"}
  <1>1. GuardAt(p.reads) = IF I # {} THEN Min(I) ELSE 0
    BY DEF GuardAt, SelectInSeq
  <1>2. p.struct \in Seq(Member)
    BY DEF Parses, Struct
  <1>3. n \in Nat
    BY <1>2
  <1>4. g \in 0..n /\ m = n + (IF g = 0 THEN 0 ELSE 1)
    BY DEF Parses
  <1>5. /\ \A j \in 1..m : j # g => Fills(r[j], p.struct[MemberAt(g, j)])
        /\ g > 0 => r[g].kind = "if longer"
    BY DEF Parses
  <1> HIDE DEF n, m, r
  <1>6. m \in Nat /\ (g # 0 => m = n + 1) /\ g \in Nat /\ g <= n
    BY <1>3, <1>4
  <1>7. \A i \in I : i = g /\ i > 0
    <2>1. \A a, b : Fills(a, b) => a.kind # "if longer"
      BY DEF Fills
    <2>2. \A j \in 1..m : j # g => r[j].kind # "if longer"
      BY <1>5, <2>1
    <2>3. \A i \in I : i \in 1..m /\ i = g
      BY <2>2, Zenon
    <2>4. \A i \in 1..m : i > 0
      BY <1>6
    <2> QED
      BY <2>3, <2>4, Zenon
  <1>8. g > 0 => g \in I
    <2>1. g > 0 => g \in 1..m
      BY <1>3, <1>6
    <2> QED
      BY <1>5, <2>1
  <1> HIDE DEF I
  <1>9. CASE g = 0
    <2>1. I = {}
      BY <1>7, <1>9
    <2> QED
      BY <1>1, <1>9, <2>1
  <1>10. CASE g # 0
    <2>1. g > 0 /\ g \in Nat
      BY <1>6, <1>10
    <2>2. I = {g}
      BY <1>7, <1>8, <2>1
    <2>3. Min({g}) = g
      BY <2>1 DEF Min
    <2> QED
      BY <1>1, <2>2, <2>3
  <1> QED
    BY <1>9, <1>10

\* What the next steps need of a parser.
Usual(cmd, p, g) ==
    /\ Parses(p, g)
    /\ cmd # "MT_ZDO_MGMT_BIND_RSP" => OneIndexEach(p)
    /\ cmd # "MT_ZDO_MSG_CB_INCOMING" => OneByOne(p)
    /\ OneByOne(p) \/ OnlyFields(p)
    /\ Ends(p, g) \/ (cmd = "MT_ZDO_SIMPLE_DESC_RSP" /\ g = 5 /\ Brief(p))

\* So the next steps can be taken of every parser.
LEMMA KnownUsual ==
    ASSUME NEW cmd, NEW p, Known(cmd, p)
    PROVE  \E g : Usual(cmd, p, g)
  <1>1. Straight(p) => OneIndexEach(p) /\ OneByOne(p)
    BY DEF Straight, OneIndexEach, OneByOne
  <1>2. Ends(p, 0)
    BY DEF Ends
  <1>3. CASE Ordered(p)
    BY <1>1, <1>3 DEF Ordered, Orderly, Usual
  <1>4. CASE cmd = "MT_ZDO_SIMPLE_DESC_RSP" /\ Parses(p, 5) /\ Straight(p) /\ Brief(p)
    <2>1. Usual(cmd, p, 5)
      BY <1>1, <1>4 DEF Usual
    <2> QED
      BY <2>1
  <1>5. CASE cmd = "MT_ZDO_MGMT_BIND_RSP" /\ Parses(p, 6) /\ Ends(p, 6) /\ OneByOne(p)
    <2>1. Usual(cmd, p, 6)
      BY <1>5 DEF Usual
    <2> QED
      BY <2>1
  <1>6. CASE /\ cmd = "MT_ZDO_MSG_CB_INCOMING"
             /\ Parses(p, 0) /\ OneIndexEach(p) /\ OnlyFields(p)
    <2>1. Usual(cmd, p, 0)
      BY <1>2, <1>6 DEF Usual
    <2> QED
      BY <2>1
  <1> QED
    BY <1>3, <1>4, <1>5, <1>6 DEF Known

-----------------------------------------------------------------------------
(* Frames.                                                                 *)

\* A simple descriptor response that ends after Len.
Short(f) == f.cmd = "MT_ZDO_SIMPLE_DESC_RSP" /\ f.size = 6

\* A parser finds all it reads in its frame, but for the short descriptor.
Sound(f, p, g) ==
    /\ Usual(f.cmd, p, g)
    /\ Counted(p.struct, f.counts)
    /\ \A i \in CountPositions(p.struct) : f.counts[i] <= p.struct[i + 1].cap
    /\ f.size \in 0..250
    /\ ~Short(f) => f.size = Places(p.struct, f.counts)[Len(p.struct)]
    /\ f.size + 3 >= p.need
    /\ g > 0 => f.size + 3 > p.reads[g].cap

\* A message that fits into a frame holds all that its parser reads.
LEMMA CompleteSound ==
    ASSUME NEW f, NEW p, NEW g, Usual(f.cmd, p, g), Sendable(p.struct, f.counts),
           f.size = Len(Payload(p.struct, f.counts))
    PROVE  Sound(f, p, g)
  <1> DEFINE s == p.struct
             last == Places(s, f.counts)[Len(s)]
             k == Fixed(s)
  <1>1. /\ Struct(s) /\ Limited(s) /\ p.need <= k + 3 /\ p.need \in Nat
        /\ g > 0 => p.reads[g].cap < k + 3 /\ p.reads[g].cap \in Nat
    BY DEF Usual, Parses
  <1>2. \A i \in CountPositions(s) : i + 1 \in 1..Len(s) /\ s[i + 1].cap \in Nat
    <2>1. s \in Seq(Member) /\ Len(s) \in Nat /\ DOMAIN s = 1..Len(s)
      BY <1>1 DEF Struct
    <2>2. \A i \in 1..Len(s) : s[i].kind = "count" => i + 1 <= Len(s)
      BY DEF Usual, Parses
    <2> HIDE DEF s
    <2>3. \A i \in CountPositions(s) : i + 1 \in 1..Len(s)
      BY <2>1, <2>2 DEF CountPositions
    <2>4. \A i \in 1..Len(s) : s[i] \in Member
      BY <2>1
    <2>5. \A i \in 1..Len(s) : s[i].cap \in Nat
      BY <2>4 DEF Member
    <2> QED
      BY <2>3, <2>5
  <1>3. \A i \in CountPositions(s) : f.counts[i] \in Nat /\ f.counts[i] <= s[i + 1].cap
    BY <1>2 DEF Sendable
  <1>4. Counted(s, f.counts)
    BY <1>3 DEF Counted
  <1>5. Len(Payload(s, f.counts)) = last /\ last \in Nat
    <2>1. Places(s, f.counts) \in [0..Len(s) -> Nat] /\ Len(s) \in 0..Len(s)
      BY <1>1, <1>4, PayloadLaid
    <2> QED
      BY <1>1, <1>4, <2>1, PayloadLaid
  <1>6. Len(Payload(s, f.counts)) <= 250
    BY DEF Sendable, MT_MAX_PAYLOAD
  <1>7. k \in Nat /\ k <= last
    BY <1>1, <1>4, FixedFits
  <1> HIDE DEF last, k
  <1>8. f.size = last /\ last <= 250
    BY <1>5, <1>6
  <1>9. f.size \in 0..250 /\ f.size + 3 >= p.need /\ (g > 0 => f.size + 3 > p.reads[g].cap)
    BY <1>1, <1>5, <1>7, <1>8
  <1> QED
    BY <1>3, <1>4, <1>8, <1>9 DEF Sound, last

\* A message cut off before the tested list is the message with that list empty.
LEMMA BareSound ==
    ASSUME NEW f, NEW p, NEW g, Usual(f.cmd, p, g), g # 0,
           f.counts = [i \in CountPositions(p.struct) |-> 0],
           f.size = Len(Payload(SubSeq(p.struct, 1, g - 1), f.counts))
    PROVE  Sound(f, p, g)
  <1> DEFINE s == p.struct
             n == Len(s)
             e == Places(s, f.counts)
             k == Fixed(s)
             w(i) == Width(s, i)
             most(i) == Elements(s, f.counts, i)
  <1>1. /\ Struct(s) /\ Limited(s) /\ p.need \in Nat /\ k <= 100 /\ p.need <= k + 3
        /\ g \in 0..n
    BY DEF Usual, Parses
  <1>2. n \in Nat /\ s \in Seq(Member) /\ DOMAIN s = 1..n
    BY <1>1 DEF Struct
  <1>3. /\ g > 0 /\ g \in Nat /\ g <= n /\ g - 1 \in 0..n
        /\ p.reads[g].cap \in Nat /\ p.reads[g].cap < k + 3
    <2>1. g > 0 => p.reads[g].cap \in Nat /\ p.reads[g].cap < k + 3
      BY DEF Usual, Parses
    <2> HIDE DEF n, k
    <2>2. g > 0 /\ g \in Nat /\ g <= n /\ g - 1 \in 0..n
      BY <1>1, <1>2
    <2> QED
      BY <2>1, <2>2
  <1>4. /\ \A i \in CountPositions(s) : f.counts[i] = 0
        /\ Counted(s, f.counts)
    BY DEF Counted
  <1>5. f.size = e[g - 1]
    BY <1>1, <1>3, <1>4, PayloadCut
  <1>6. /\ e \in [0..n -> Nat] /\ e[0] = 0
        /\ \A i \in 1..n : e[i] = e[i - 1] + most(i) * w(i)
        /\ \A i \in 0..n : e[i] <= e[n]
    <2>1. e \in [0..n -> Nat] /\ e[0] = 0
      BY <1>1, <1>4, PayloadLaid
    <2>2. \A i \in 1..n : e[i] = e[i - 1] + most(i) * w(i)
      BY <1>1, <1>4, PayloadLaid
    <2>3. \A i \in 0..n : e[i] <= e[n]
      BY <1>1, <1>4, PayloadLaid
    <2> QED
      BY <2>1, <2>2, <2>3
  <1>7. k \in Nat /\ k = e[n]
    BY <1>1, <1>4, FixedFits
  <1>8. \A i \in CountPositions(s) : f.counts[i] <= s[i + 1].cap
    <2>1. \A i \in 1..n : s[i].kind = "count" => i + 1 <= n
      BY DEF Usual, Parses
    <2> HIDE DEF s, n
    <2>2. \A i \in CountPositions(s) : i + 1 \in 1..n
      BY <1>2, <2>1 DEF CountPositions
    <2>3. \A i \in 1..n : s[i].cap \in Nat
      <3>1. \A i \in 1..n : s[i] \in Member
        BY <1>2
      <3> QED
        BY <3>1 DEF Member
    <2> QED
      BY <1>4, <2>2, <2>3
  <1>9. f.size \in 0..250
    <2> HIDE DEF e, n, k
    <2>1. e[g - 1] \in Nat /\ e[g - 1] <= e[n]
      BY <1>3, <1>6
    <2>2. e[n] \in Nat /\ e[n] <= 100
      BY <1>1, <1>7
    <2> DEFINE x == e[g - 1]
               y == e[n]
    <2>3. x \in Nat /\ x <= y /\ y \in Nat /\ y <= 100 /\ f.size = x
      BY <1>5, <2>1, <2>2
    <2> HIDE DEF x, y
    <2>4. x \in 0..250
      BY <2>3
    <2> QED
      BY <2>3, <2>4, Zenon
  <1>10. CASE Ends(p, g)
    <2>1. g = n /\ s[g].kind = "list"
      BY <1>3, <1>10 DEF Ends
    <2>2. g \in 1..n
      BY <1>3
    <2>3. g - 1 \in CountPositions(s) /\ w(g) \in Nat
      BY <1>1, <2>1, <2>2, MemberIs
    <2>4. most(g) = 0
      BY <1>4, <2>1, <2>3 DEF Elements
    <2>5. e[g] = e[g - 1] + most(g) * w(g)
      BY <1>6, <2>2
    <2> HIDE DEF e, n, w, most, k
    <2>6. most(g) * w(g) = 0
      BY <2>3, <2>4
    <2>7. e[g - 1] \in Nat
      BY <1>3, <1>6
    <2>8. f.size = e[n] /\ f.size = k
      BY <1>5, <1>7, <2>1, <2>5, <2>6, <2>7
    <2>9. f.size + 3 >= p.need /\ f.size + 3 > p.reads[g].cap
      BY <1>1, <1>3, <1>7, <2>8
    <2> QED
      BY <1>4, <1>8, <1>9, <2>8, <2>9, SMTT(60) DEF Sound, e, n
  <1>11. CASE f.cmd = "MT_ZDO_SIMPLE_DESC_RSP" /\ g = 5 /\ Brief(p)
    <2>1. /\ p.need = 6 /\ 4 <= n /\ p.reads[5].cap = 6
          /\ s[1].kind = "field" /\ s[1].widths[1] = 2
          /\ s[2].kind = "field" /\ s[2].widths[1] = 1
          /\ s[3].kind = "field" /\ s[3].widths[1] = 2
          /\ s[4].kind = "field" /\ s[4].widths[1] = 1
      BY <1>11 DEF Brief
    <2>2. 1 \in 1..n /\ 2 \in 1..n /\ 3 \in 1..n /\ 4 \in 1..n
      BY <1>2, <2>1
    <2>3. w(1) = 2 /\ w(2) = 1 /\ w(3) = 2 /\ w(4) = 1
      BY <1>1, <2>1, <2>2, MemberIs
    <2>4. most(1) = 1 /\ most(2) = 1 /\ most(3) = 1 /\ most(4) = 1
      BY <2>1 DEF Elements
    <2> HIDE DEF e, n, w, most, k
    <2>5. e[1] = e[1 - 1] + most(1) * w(1) /\ e[2] = e[2 - 1] + most(2) * w(2)
      BY <1>6, <2>2
    <2>6. e[3] = e[3 - 1] + most(3) * w(3) /\ e[4] = e[4 - 1] + most(4) * w(4)
      BY <1>6, <2>2
    <2>7. e[4] = 6
      BY <1>6, <2>3, <2>4, <2>5, <2>6
    <2>8. f.size = 6
      <3>1. g - 1 = 4
        BY <1>11
      <3> QED
        BY <1>5, <2>7, <3>1
    <2>9. Short(f)
      BY <1>11, <2>8 DEF Short
    <2>10. f.size + 3 >= p.need /\ f.size + 3 > p.reads[g].cap
      BY <1>11, <2>1, <2>8
    <2> QED
      BY <1>4, <1>8, <1>9, <2>9, <2>10, SMTT(60) DEF Sound
  <1> QED
    BY <1>10, <1>11 DEF Usual

\* So every frame that the ZNP sends holds what its parser reads.
LEMMA FramesSound ==
    ASSUME NEW f \in Frames
    PROVE  \E g : Sound(f, ParserOf(f), g)
  <1>1. PICK key \in {"AREQ", "SRSP"} \X Subsystems :
            f \in UNION {Complete(key[1], key[2], cmd) \union Bare(key[1], key[2], cmd) :
                         cmd \in DOMAIN Table(key[1], key[2])}
    BY DEF Frames
  <1> DEFINE type == key[1]
             sub == key[2]
  <1>2. type \in {"AREQ", "SRSP"} /\ sub \in Subsystems
    BY <1>1
  <1>3. PICK cmd \in DOMAIN Table(type, sub) :
            f \in Complete(type, sub, cmd) \/ f \in Bare(type, sub, cmd)
    BY <1>1
  <1> HIDE DEF type, sub
  <1> DEFINE p == Table(type, sub)[cmd]
  <1>4. PICK g : Usual(cmd, p, g)
    BY <1>2, TablesKnown, KnownUsual
  <1>5. CASE f \in Complete(type, sub, cmd)
    <2>1. PICK c : /\ Sendable(p.struct, c)
                   /\ f = Frame(type, sub, cmd, c, Len(Payload(p.struct, c)))
      BY <1>5 DEF Complete
    <2>2. /\ f.counts = c /\ f.size = Len(Payload(p.struct, c)) /\ f.cmd = cmd
          /\ ParserOf(f) = p
      BY <2>1 DEF Frame, ParserOf
    <2> QED
      BY <1>4, <2>1, <2>2, CompleteSound
  <1>6. CASE f \in Bare(type, sub, cmd)
    <2> DEFINE zero == [i \in CountPositions(p.struct) |-> 0]
    <2>1. GuardAt(p.reads) = g
      BY <1>4, GuardFound DEF Usual
    <2>2. /\ g # 0
          /\ f = Frame(type, sub, cmd, zero, Len(Payload(SubSeq(p.struct, 1, g - 1), zero)))
      BY <1>6, <2>1 DEF Bare
    <2> HIDE DEF zero, p
    <2>3. /\ f.counts = zero /\ f.size = Len(Payload(SubSeq(p.struct, 1, g - 1), zero))
          /\ f.cmd = cmd /\ ParserOf(f) = p
      BY <2>2 DEF Frame, ParserOf, p
    <2> QED
      BY <1>4, <2>2, <2>3, BareSound DEF zero
  <1> QED
    BY <1>3, <1>5, <1>6

-----------------------------------------------------------------------------
(* Reading.                                                                *)

\* The bytes before element k of member i.
Offset(s, counts, i, k) ==
    IF k = 0 THEN Places(s, counts)[i - 1] ELSE Places(s, counts)[i - 1] + k * Width(s, i)

\* Element k of member i is there, and x bytes are not beyond it.
Ahead(s, counts, i, k, x) ==
    i \in 1..Len(s) /\ k < Elements(s, counts, i) /\ x <= Offset(s, counts, i, k)

\* The bytes of a single element.
LEMMA OneLaid ==
    ASSUME NEW w \in Seq(Nat), SumOf(w) > 0, NEW i \in Nat, NEW k \in Nat
    PROVE  /\ DOMAIN ElementBytes(w, i, k, 1) = 1..SumOf(w)
           /\ \A b \in 1..SumOf(w) : ElementBytes(w, i, k, 1)[b] = <<i, k, Slots(w)[b]>>
  <1> DEFINE own == ElementBytes(w, i, k, 1)
             d == SumOf(w)
             slots == Slots(w)
  <1>1. d \in Nat
    BY SlotsSize
  <1>2. /\ own \in Seq(Mark) /\ Len(own) = 1 * d
        /\ \A j \in 0..(1 - 1) : \A b \in 1..d : own[j * d + b] = <<i, k + j, slots[b]>>
    <2>1. ElementsAt(w, i, k, 1)
      BY ElementsLaid
    <2> QED
      BY <2>1 DEF ElementsAt, d, own, slots
  <1> HIDE DEF own, d, slots
  <1>3. DOMAIN own = 1..d /\ 0 \in 0..(1 - 1)
    BY <1>1, <1>2
  <1>4. \A b \in 1..d : own[0 * d + b] = <<i, k + 0, slots[b]>>
    BY <1>2, <1>3
  <1>5. k + 0 = k /\ \A b \in 1..d : 0 * d + b = b
    BY <1>1
  <1> QED
    BY <1>3, <1>4, <1>5 DEF own, d, slots

\* Where an element begins and ends, by the places of its list.
LEMMA Placed ==
    ASSUME NEW a \in Nat, NEW z \in Nat, NEW last \in Nat, NEW d \in Nat, NEW m \in Nat,
           NEW k \in Nat, k < m, z = a + m * d, z <= last,
           NEW x \in Nat, x <= a + k * d
    PROVE  /\ \A b \in 1..d : x + b \in 1..last
           /\ k * d \in Nat /\ a + k * d \in Nat
           /\ a + (k + 1) * d = (a + k * d) + d
           /\ a + (k + 1) * d <= z
  <1> DEFINE y == k * d
             v == (k + 1) * d
             u == m * d
  <1>1. y \in Nat /\ v = y + d /\ u \in Nat
    OBVIOUS
  <1>2. v <= u
    <2>1. k + 1 <= m /\ k + 1 \in Nat
      OBVIOUS
    <2> QED
      BY <2>1
  <1>3. z = a + u /\ x <= a + y
    OBVIOUS
  <1> HIDE DEF y, v, u
  <1> QED
    BY <1>1, <1>2, <1>3 DEF y, v

\* An element that is read from its place lies in the message, all of it.
LEMMA BytesThere ==
    ASSUME NEW s, Struct(s), NEW counts, Counted(s, counts), NEW i \in Nat,
           NEW k \in Nat, NEW x \in Nat, Ahead(s, counts, i, k, x)
    PROVE  /\ DOMAIN ElementBytes(s[i].widths, i, k, 1) = 1..Width(s, i)
           /\ \A b \in 1..Width(s, i) : x + b \in 1..Places(s, counts)[Len(s)]
           /\ x = Offset(s, counts, i, k) =>
                  \A b \in 1..Width(s, i) :
                      Payload(s, counts)[x + b] = ElementBytes(s[i].widths, i, k, 1)[b]
           /\ Offset(s, counts, i, k) \in Nat
           /\ Offset(s, counts, i, k + 1) = Offset(s, counts, i, k) + Width(s, i)
           /\ Offset(s, counts, i, k + 1) <= Places(s, counts)[i]
           /\ Places(s, counts)[i] <= Places(s, counts)[Len(s)]
  <1> DEFINE n == Len(s)
             e == Places(s, counts)
             d == Width(s, i)
             m == Elements(s, counts, i)
             w == s[i].widths
             p == Payload(s, counts)
             own == ElementBytes(w, i, k, 1)
             slots == Slots(w)
             o == Offset(s, counts, i, k)
             next == Offset(s, counts, i, k + 1)
  <1>0. i \in 1..n /\ k < m /\ x <= o
    BY DEF Ahead
  <1>1. n \in Nat /\ i - 1 \in 0..n /\ i \in 0..n /\ n \in 0..n
    <2>1. n \in Nat
      BY DEF Struct
    <2> HIDE DEF n
    <2> QED
      BY <1>0, <2>1
  <1>2. w \in Seq(Nat) /\ d = SumOf(w) /\ d \in Nat /\ d > 0
    BY <1>0, MemberIs DEF Width
  <1>3. m \in Nat
    BY <1>0, MembersLaid
  <1>4. e \in [0..n -> Nat]
    BY PayloadLaid
  <1>5. e[i] = e[i - 1] + m * d /\ e[i] <= e[n]
    BY <1>0, <1>1, PayloadLaid
  <1>6. \A j \in 0..(m - 1) : \A b \in 1..d : p[e[i - 1] + (j * d + b)] = <<i, j, slots[b]>>
    <2>1. \A h \in 1..n : MemberLaid(s, counts, h)
      BY PayloadLaid
    <2>2. MemberLaid(s, counts, i)
      BY <1>0, <2>1
    <2> QED
      BY <2>2 DEF MemberLaid
  <1> HIDE DEF n, e, d, m, w, p, slots, o, next, own
  <1>7. DOMAIN own = 1..d /\ \A b \in 1..d : own[b] = <<i, k, slots[b]>>
    BY <1>2, OneLaid DEF own, slots
  <1>8. o = e[i - 1] + k * d
    <2>1. k = 0 => o = e[i - 1]
      BY DEF Offset, e, o
    <2>2. k # 0 => o = e[i - 1] + k * d
      BY DEF Offset, e, d, o
    <2>3. e[i - 1] \in Nat
      BY <1>1, <1>4
    <2>4. k = 0 => k * d = 0
      BY <1>2
    <2> QED
      BY <2>1, <2>2, <2>3, <2>4
  <1>9. next = e[i - 1] + (k + 1) * d
    <2>1. k + 1 # 0
      OBVIOUS
    <2> QED
      BY <2>1 DEF Offset, e, d, next
  <1> DEFINE a == e[i - 1]
             z == e[i]
             last == e[n]
  <1>10. a \in Nat /\ z \in Nat /\ last \in Nat
    BY <1>1, <1>4
  <1>11. z = a + m * d /\ z <= last /\ x <= a + k * d /\ k < m /\ d \in Nat /\ m \in Nat
    BY <1>0, <1>2, <1>3, <1>5, <1>8
  <1> HIDE DEF a, z, last
  <1>12. /\ \A b \in 1..d : x + b \in 1..last
         /\ k * d \in Nat /\ a + k * d \in Nat
         /\ a + (k + 1) * d = (a + k * d) + d
         /\ a + (k + 1) * d <= z
    BY <1>10, <1>11, Placed
  <1>13. ASSUME x = o, NEW b \in 1..d PROVE p[x + b] = own[b]
    <2>1. k \in 0..(m - 1)
      BY <1>11
    <2>2. p[a + (k * d + b)] = <<i, k, slots[b]>>
      BY <1>6, <2>1 DEF a
    <2> DEFINE y == k * d
    <2>3. x = a + y /\ y \in Nat
      BY <1>8, <1>12, <1>13 DEF a
    <2>4. a + (y + b) = (a + y) + b
      <3>1. b \in Nat
        BY <1>11
      <3> HIDE DEF y
      <3> QED
        BY <1>10, <2>3, <3>1
    <2> HIDE DEF y
    <2> QED
      BY <1>7, <2>2, <2>3, <2>4 DEF y
  <1>14. o \in Nat /\ next = o + d /\ next <= z /\ z <= last
    BY <1>8, <1>9, <1>11, <1>12 DEF a
  <1> QED
    BY <1>7, <1>12, <1>13, <1>14 DEF n, e, d, w, p, own, o, next, z, last

\* The statement after a member's is the next member's, or the test before it.
Turns(p, g, j) ==
    /\ Len(p.struct) \in Nat /\ Len(p.reads) \in Nat /\ g \in 0..Len(p.reads)
    /\ MemberAt(g, j) \in 1..(Len(p.struct) + 1)
    /\ j = g => MemberAt(g, j + 1) = MemberAt(g, j)
    /\ j # g => MemberAt(g, j + 1) = MemberAt(g, j) + 1
    /\ j <= Len(p.reads) /\ j # g =>
           /\ MemberAt(g, j) \in 1..Len(p.struct)
           /\ Fills(p.reads[j], p.struct[MemberAt(g, j)])
    /\ j = Len(p.reads) + 1 => MemberAt(g, j) = Len(p.struct) + 1
    /\ g # 0 => p.reads[g].kind = "if longer"

\* The statements of every parser of the tables go like that.
LEMMA Turn ==
    ASSUME NEW p, NEW g, Parses(p, g), NEW j \in 1..(Len(p.reads) + 1)
    PROVE  Turns(p, g, j)
  <1> DEFINE n == Len(p.struct)
             m == Len(p.reads)
             i == MemberAt(g, j)
  <1>1. n \in Nat
    <2>1. p.struct \in Seq(Member)
      BY DEF Parses, Struct
    <2> QED
      BY <2>1
  <1>2. g \in 0..n /\ m = n + (IF g = 0 THEN 0 ELSE 1)
    BY DEF Parses
  <1>3. /\ j <= m /\ j # g => Fills(p.reads[j], p.struct[i])
        /\ g # 0 => p.reads[g].kind = "if longer"
    <2>1. /\ \A h \in 1..m : h # g => Fills(p.reads[h], p.struct[MemberAt(g, h)])
          /\ g > 0 => p.reads[g].kind = "if longer"
      BY DEF Parses
    <2>2. m \in Nat /\ (g # 0 => g > 0)
      <3> HIDE DEF n, m
      <3> QED
        BY <1>1, <1>2
    <2>3. j <= m => j \in 1..m
      BY <2>2
    <2> QED
      BY <2>1, <2>2, <2>3
  <1> HIDE DEF n
  <1>4. m \in Nat /\ g \in 0..m
    BY <1>1, <1>2
  <1> HIDE DEF m
  <1>5. j \in 1..(m + 1)
    BY DEF m
  <1>6. /\ i \in 1..(n + 1)
        /\ j = g => MemberAt(g, j + 1) = i
        /\ j # g => MemberAt(g, j + 1) = i + 1
        /\ j <= m /\ j # g => i \in 1..n
        /\ j = m + 1 => i = n + 1
    <2>1. CASE g = 0
      BY <1>1, <1>2, <1>5, <2>1 DEF MemberAt
    <2>2. CASE g # 0
      BY <1>1, <1>2, <1>5, <2>2 DEF MemberAt
    <2> QED
      BY <2>1, <2>2
  <1> HIDE DEF i
  <1> QED
    BY <1>1, <1>3, <1>4, <1>6 DEF Turns, n, m, i

\* A value that is read from its place, or before it, is read inside the payload, and
\* from its place it is the value.
Readable(f, p, i, k, x) ==
    /\ \A b \in DOMAIN ElementBytes(p.struct[i].widths, i, k, 1) : x + b \in 1..f.size
    /\ x = Offset(p.struct, f.counts, i, k) =>
           \A b \in DOMAIN ElementBytes(p.struct[i].widths, i, k, 1) :
               Payload(p.struct, f.counts)[x + b] = ElementBytes(p.struct[i].widths, i, k, 1)[b]
    /\ Width(p.struct, i) \in Nat /\ x + Width(p.struct, i) <= 250
    /\ Offset(p.struct, f.counts, i, k) \in Nat
    /\ Offset(p.struct, f.counts, i, k + 1)
           = Offset(p.struct, f.counts, i, k) + Width(p.struct, i)

\* So is every value whose element is there.
LEMMA ReadThere ==
    ASSUME NEW f, NEW p, NEW g, Sound(f, p, g), ~Short(f),
           NEW i \in Nat, NEW k \in Nat, NEW x \in Nat, Ahead(p.struct, f.counts, i, k, x)
    PROVE  Readable(f, p, i, k, x)
  <1> DEFINE s == p.struct
             c == f.counts
             d == Width(s, i)
             own == ElementBytes(s[i].widths, i, k, 1)
             o == Offset(s, c, i, k)
             next == Offset(s, c, i, k + 1)
             last == Places(s, c)[Len(s)]
             here == Places(s, c)[i]
  <1>1. Struct(s) /\ Counted(s, c) /\ f.size = last /\ f.size \in 0..250
    BY DEF Sound, Usual, Parses
  <1>2. i \in 1..Len(s) /\ x <= o
    BY DEF Ahead
  <1>3. d \in Nat
    BY <1>1, <1>2, MemberIs
  <1>4. here \in Nat
    <2>1. Places(s, c) \in [0..Len(s) -> Nat] /\ Len(s) \in Nat
      BY <1>1, PayloadLaid
    <2>2. i \in 0..Len(s)
      BY <1>2, <2>1
    <2> QED
      BY <2>1, <2>2
  <1>5. /\ DOMAIN own = 1..d
        /\ \A b \in 1..d : x + b \in 1..last
        /\ x = o => \A b \in 1..d : Payload(s, c)[x + b] = own[b]
        /\ o \in Nat /\ next = o + d /\ next <= here /\ here <= last
    BY <1>1, BytesThere, SMTT(60)
  <1> HIDE DEF s, c, d, own, o, next, last, here
  <1>6. x + d <= 250
    <2>1. x <= o /\ o \in Nat /\ d \in Nat /\ next = o + d
      BY <1>2, <1>3, <1>5
    <2>2. next <= here /\ here <= last /\ here \in Nat
      BY <1>4, <1>5
    <2>3. last \in Nat /\ last <= 250
      <3>1. last \in 0..250
        BY <1>1
      <3> QED
        BY <3>1
    <2> QED
      BY <2>1, <2>2, <2>3
  <1> QED
    BY <1>1, <1>3, <1>5, <1>6 DEF Readable, s, c, d, own, o, next, last, here

\* Behind the last element of a member is the next one.
LEMMA OffsetNext ==
    ASSUME NEW s, Struct(s), NEW counts, Counted(s, counts), NEW i \in 1..Len(s)
    PROVE  /\ Offset(s, counts, i, Elements(s, counts, i)) = Places(s, counts)[i]
           /\ Offset(s, counts, i + 1, 0) = Places(s, counts)[i]
           /\ s[i].kind # "list" => Elements(s, counts, i) = 1
           /\ s[i].kind = "list" => Elements(s, counts, i) = counts[i - 1]
           /\ Elements(s, counts, i) \in Nat
           /\ Places(s, counts)[i] \in Nat
  <1> DEFINE e == Places(s, counts)
             n == Len(s)
             m == Elements(s, counts, i)
             d == Width(s, i)
             o == Offset(s, counts, i, m)
  <1>1. n \in Nat /\ e \in [0..n -> Nat] /\ e[i] = e[i - 1] + m * d
    BY PayloadLaid
  <1>2. m \in Nat /\ d \in Nat
    BY MembersLaid, MemberIs
  <1>3. /\ s[i].kind # "list" => m = 1
        /\ s[i].kind = "list" => m = counts[i - 1]
    BY DEF Elements
  <1>4. /\ m = 0 => o = e[i - 1]
        /\ m # 0 => o = e[i - 1] + m * d
    BY DEF Offset
  <1> HIDE DEF n
  <1>5. i - 1 \in 0..n /\ i \in 0..n /\ (i + 1) - 1 = i
    BY <1>1 DEF n
  <1>6. Offset(s, counts, i + 1, 0) = e[i]
    BY <1>5 DEF Offset
  <1> HIDE DEF e, m, d, o
  <1>7. e[i - 1] \in Nat /\ e[i] \in Nat /\ (m = 0 => m * d = 0)
    BY <1>1, <1>2, <1>5
  <1>8. o = e[i]
    BY <1>1, <1>4, <1>7
  <1> QED
    BY <1>2, <1>3, <1>6, <1>7, <1>8 DEF e, m, o

-----------------------------------------------------------------------------
(* The invariant.                                                          *)

Filled == ParserOf(frame).struct
Tested == GuardAt(Reads)
Here == Offset(Filled, frame.counts, member, element)

Typed ==
    /\ pc \in {"idle", "check", "read", "callback"}
    /\ registered \subseteq UNION {Callbacks(sub) : sub \in Subsystems}
    /\ pc = "idle" => frame = NoFrame
    /\ pc # "idle" => frame \in Frames
    /\ msgIdx \in 0..255 /\ count \in Nat /\ element \in 0..count
    /\ beyond \in BOOLEAN /\ strayed \in BOOLEAN

\* The statement and the member go together.
InTurn ==
    /\ step \in 1..(Len(Reads) + 1)
    /\ member = MemberAt(Tested, step)
    /\ pc = "callback" => step = Len(Reads) + 1
    /\ element # 0 => step <= Len(Reads) /\ step # Tested /\ Filled[member].kind = "list"

\* The index is where the next element begins, or before it where values are read
\* without moving it.
IndexInPlace ==
    /\ beyond = FALSE
    /\ msgIdx >= 2 /\ msgIdx - 2 <= Here
    /\ OneByOne(ParserOf(frame)) => msgIdx - 2 = Here /\ strayed = FALSE

CountInPlace ==
    member <= Len(Filled) /\ Filled[member].kind = "list" => count = frame.counts[member - 1]

StoredInPlace ==
    OneIndexEach(ParserOf(frame)) =>
        \A t \in stored : t[3] = t[2] /\ t[3] < Filled[t[1]].cap

Along == InTurn /\ (~Short(frame) => IndexInPlace /\ CountInPlace /\ StoredInPlace)

IInv ==
    /\ Typed
    /\ warned = FALSE
    /\ pc \in {"read", "callback"} => Along
    /\ pc \in {"idle", "check"} => Fresh

\* What holds of a frame that is being parsed.
LEMMA InFrame ==
    ASSUME IInv, pc # "idle"
    PROVE  /\ Sound(frame, ParserOf(frame), Tested) /\ Parses(ParserOf(frame), Tested)
           /\ Struct(Filled) /\ Counted(Filled, frame.counts)
  <1>1. frame \in Frames
    BY DEF IInv, Typed
  <1>2. PICK g : Sound(frame, ParserOf(frame), g)
    BY <1>1, FramesSound
  <1>3. Parses(ParserOf(frame), g) /\ Counted(Filled, frame.counts)
    BY <1>2 DEF Sound, Usual, Filled
  <1>4. Tested = g
    BY <1>3, GuardFound DEF Tested, Reads
  <1>5. Struct(Filled)
    BY <1>3 DEF Parses, Filled
  <1> QED
    BY <1>2, <1>3, <1>4, <1>5

\* A statement that fills a member.
Filling(kind) == Reading(kind) /\ kind # "if longer"

\* What holds where a member is read.
LEMMA Reached ==
    ASSUME IInv, NEW kind, Filling(kind)
    PROVE  /\ Sound(frame, ParserOf(frame), Tested)
           /\ Struct(Filled) /\ Counted(Filled, frame.counts)
           /\ step \in 1..Len(Reads) /\ step # Tested /\ Len(Reads) \in Nat
           /\ member \in 1..Len(Filled) /\ Len(Filled) \in Nat
           /\ MemberAt(Tested, step + 1) = member + 1
           /\ Fills(Reads[step], Filled[member]) /\ Reads[step].kind = kind
           /\ Along
  <1>1. pc = "read" /\ step <= Len(Reads) /\ Reads[step].kind = kind
    BY DEF Filling, Reading
  <1>2. Along
    BY <1>1 DEF IInv
  <1>3. /\ Sound(frame, ParserOf(frame), Tested) /\ Parses(ParserOf(frame), Tested)
        /\ Struct(Filled) /\ Counted(Filled, frame.counts)
    BY <1>1, InFrame
  <1>4. step \in 1..(Len(Reads) + 1) /\ member = MemberAt(Tested, step)
    BY <1>2 DEF Along, InTurn
  <1>5. /\ Len(Filled) \in Nat /\ Len(Reads) \in Nat /\ Tested \in 0..Len(Reads)
        /\ step # Tested => MemberAt(Tested, step + 1) = MemberAt(Tested, step) + 1
        /\ step <= Len(Reads) /\ step # Tested =>
               /\ MemberAt(Tested, step) \in 1..Len(Filled)
               /\ Fills(Reads[step], Filled[MemberAt(Tested, step)])
        /\ Tested # 0 => Reads[Tested].kind = "if longer"
    <2> DEFINE p == ParserOf(frame)
               g == Tested
               j == step
    <2>1. Filled = p.struct /\ Reads = p.reads
      BY DEF Filled, Reads
    <2>2. Parses(p, g) /\ j \in 1..(Len(p.reads) + 1)
      BY <1>3, <1>4, <2>1
    <2> HIDE DEF p, g, j
    <2>3. Turns(p, g, j)
      BY <2>2, Turn
    <2> QED
      BY <2>1, <2>3 DEF Turns, g, j
  <1>6. step # Tested /\ step \in 1..Len(Reads)
    <2>1. step # Tested
      <3>1. step # 0
        BY <1>4
      <3>2. kind # "if longer"
        BY DEF Filling
      <3> QED
        BY <1>1, <1>5, <3>1, <3>2
    <2> DEFINE m == Len(Reads)
    <2>2. m \in Nat /\ step \in 1..(m + 1) /\ step <= m
      BY <1>1, <1>4, <1>5
    <2> HIDE DEF m
    <2>3. step \in 1..m
      BY <2>2
    <2> QED
      BY <2>1, <2>3 DEF m
  <1> QED
    BY <1>1, <1>2, <1>3, <1>4, <1>5, <1>6

\* The step of a statement keeps the invariant if it keeps these parts.
LEMMA ReadingKeeps ==
    ASSUME IInv, NEW kind, Reading(kind), InTurn',
           msgIdx' \in 0..255, count' \in Nat, element' \in 0..count',
           beyond' \in BOOLEAN, strayed' \in BOOLEAN,
           ~Short(frame) => IndexInPlace' /\ CountInPlace' /\ StoredInPlace'
    PROVE  IInv'
  <1>1. pc = "read" /\ UNCHANGED <<pc, registered, frame, warned>>
    BY DEF Reading
  <1>2. Typed'
    BY <1>1 DEF IInv, Typed
  <1>3. Along'
    BY <1>1 DEF Along, Short
  <1> QED
    BY <1>1, <1>2, <1>3 DEF IInv

\* A parser that is done with a member is at the next one's first element.
LEMMA Advance ==
    ASSUME IInv, NEW kind, Filling(kind), NextStep
    PROVE  /\ InTurn' /\ element' = 0
           /\ Here' = Places(Filled, frame.counts)[member]
  <1>1. pc = "read" /\ pc' = pc /\ frame' = frame
    BY DEF Filling, Reading
  <1>2. step' = step + 1 /\ member' = member + 1 /\ element' = 0
    BY DEF NextStep
  <1>3. /\ Struct(Filled) /\ Counted(Filled, frame.counts)
        /\ step \in 1..Len(Reads) /\ Len(Reads) \in Nat
        /\ member \in 1..Len(Filled)
        /\ MemberAt(Tested, step + 1) = member + 1
    BY Reached
  <1>4. Reads' = Reads /\ Filled' = Filled /\ Tested' = Tested
    BY <1>1 DEF Reads, Filled, Tested
  <1>5. InTurn'
    <2>1. step' \in 1..(Len(Reads') + 1)
      <3> DEFINE m == Len(Reads)
      <3>1. m \in Nat /\ step \in 1..m
        BY <1>3
      <3> HIDE DEF m
      <3>2. step + 1 \in 1..(m + 1)
        BY <3>1
      <3> QED
        BY <1>2, <1>4, <3>2 DEF m
    <2>2. member' = MemberAt(Tested', step')
      BY <1>2, <1>3, <1>4
    <2> QED
      BY <1>1, <1>2, <2>1, <2>2 DEF InTurn
  <1>6. Here' = Offset(Filled, frame.counts, member + 1, 0)
    BY <1>1, <1>2, <1>4 DEF Here
  <1>7. Offset(Filled, frame.counts, member + 1, 0) = Places(Filled, frame.counts)[member]
    BY <1>3, OffsetNext
  <1> QED
    BY <1>2, <1>5, <1>6, <1>7

\* A value that is read from its place, or before it, is read inside the payload and,
\* if nothing is only looked at, from its own bytes.
LEMMA ReadFound ==
    ASSUME IInv, NEW kind, Filling(kind), ~Short(frame), Read(Reads[step].widths, element),
           Ahead(Filled, frame.counts, member, element, msgIdx - 2)
    PROVE  /\ beyond' = FALSE
           /\ OneByOne(ParserOf(frame)) => strayed' = FALSE
           /\ Width(Filled, member) \in Nat /\ (msgIdx - 2) + Width(Filled, member) <= 250
           /\ Here \in Nat /\ msgIdx - 2 \in Nat
           /\ Offset(Filled, frame.counts, member, element + 1)
                  = Here + Width(Filled, member)
  <1> DEFINE p == ParserOf(frame)
             payload == Payload(Filled, frame.counts)
             w == Filled[member].widths
             own == ElementBytes(w, member, element, 1)
             x == msgIdx - 2
             d == Width(Filled, member)
  <1>1. /\ Sound(frame, p, Tested) /\ p.struct = Filled
        /\ member \in 1..Len(Filled) /\ Len(Filled) \in Nat
        /\ Fills(Reads[step], Filled[member])
        /\ Along
    BY Reached DEF Filled
  <1>2. Reads[step].widths = w
    BY <1>1 DEF Fills
  <1>3. IndexInPlace
    BY <1>1 DEF Along
  <1>4. x \in Nat /\ element \in Nat /\ member \in Nat
    <2>1. msgIdx \in 0..255 /\ count \in Nat /\ element \in 0..count
      BY DEF IInv, Typed
    <2>2. msgIdx >= 2
      BY <1>3 DEF IndexInPlace
    <2> DEFINE last == Len(Filled)
    <2>3. last \in Nat /\ member \in 1..last
      BY <1>1
    <2> HIDE DEF last
    <2> QED
      BY <2>1, <2>2, <2>3
  <1>5. Ahead(p.struct, frame.counts, member, element, x)
    BY <1>1
  <1>6. /\ \A b \in DOMAIN own : x + b \in 1..frame.size
        /\ x = Here => \A b \in DOMAIN own : payload[x + b] = own[b]
        /\ d \in Nat /\ x + d <= 250
        /\ Here \in Nat
        /\ Offset(Filled, frame.counts, member, element + 1) = Here + d
    <2> HIDE DEF p, x
    <2>0. /\ Sound(frame, p, Tested) /\ ~Short(frame) /\ x \in Nat /\ element \in Nat
          /\ member \in Nat /\ Ahead(p.struct, frame.counts, member, element, x)
      BY <1>1, <1>4, <1>5
    <2>1. Readable(frame, p, member, element, x)
      BY <2>0, ReadThere
    <2> QED
      BY <1>1, <2>1 DEF Readable, Here
  <1> DEFINE at(b) == msgIdx - 2 + b
             inside == {b \in DOMAIN own : at(b) \in 1..frame.size}
  <1>7. /\ beyond' = (beyond \/ inside # DOMAIN own)
        /\ strayed' = (strayed \/ \E b \in inside : payload[at(b)] # own[b])
    BY <1>2 DEF Read, Filled
  <1>8. \A b \in DOMAIN own : at(b) = x + b
    OBVIOUS
  <1>9. beyond = FALSE /\ (OneByOne(p) => x = Here /\ strayed = FALSE)
    BY <1>3 DEF IndexInPlace
  <1> HIDE DEF own, at, payload, x
  <1>10. inside = DOMAIN own
    BY <1>6, <1>8
  <1>11. beyond' = FALSE
    BY <1>7, <1>9, <1>10
  <1>12. OneByOne(p) => strayed' = FALSE
    <2> SUFFICES ASSUME OneByOne(p)
                 PROVE  strayed' = FALSE
      OBVIOUS
    <2>1. \A b \in DOMAIN own : payload[x + b] = own[b]
      BY <1>6, <1>9
    <2>2. ~\E b \in inside : payload[at(b)] # own[b]
      BY <1>8, <1>10, <2>1
    <2> HIDE DEF inside
    <2> QED
      BY <1>7, <1>9, <2>2
  <1> QED
    BY <1>4, <1>6, <1>11, <1>12 DEF x, d, p

\* A member that is no list.
Alone(kind) == Filling(kind) /\ kind \in {"field", "count", "peek"}

\* It is filled with a single value.
LEMMA AloneIs ==
    ASSUME IInv, NEW kind, Alone(kind)
    PROVE  /\ element = 0 /\ Filled[member].kind # "list"
           /\ Filled[member].kind = "count" <=> kind = "count"
           /\ Reads[step].widths[1] = Width(Filled, member) /\ Width(Filled, member) \in Nat
  <1>1. /\ Struct(Filled) /\ member \in 1..Len(Filled)
        /\ Fills(Reads[step], Filled[member]) /\ Reads[step].kind = kind
        /\ Along
    BY Reached DEF Alone
  <1>2. kind \in {"field", "count", "peek"}
    BY DEF Alone
  <1>3. Filled[member].kind # "list" /\ (Filled[member].kind = "count" <=> kind = "count")
    BY <1>1, <1>2 DEF Fills
  <1>4. Reads[step].widths = Filled[member].widths
    BY <1>1 DEF Fills
  <1>5. Filled[member].widths[1] = Width(Filled, member) /\ Width(Filled, member) \in Nat
    BY <1>1, <1>3, MemberIs
  <1>6. element = 0
    BY <1>1, <1>3 DEF Along, InTurn
  <1> QED
    BY <1>3, <1>4, <1>5, <1>6

\* Reading it, the index gets no further than behind it.
LEMMA AloneFound ==
    ASSUME IInv, NEW kind, Alone(kind), ~Short(frame), Read(Reads[step].widths, 0)
    PROVE  /\ beyond' = FALSE
           /\ OneByOne(ParserOf(frame)) => strayed' = FALSE
           /\ msgIdx \in Nat /\ msgIdx >= 2
           /\ msgIdx + Width(Filled, member) <= 252
           /\ (msgIdx - 2) + Width(Filled, member) <= Places(Filled, frame.counts)[member]
           /\ OneByOne(ParserOf(frame)) =>
                  (msgIdx - 2) + Width(Filled, member) = Places(Filled, frame.counts)[member]
  <1> DEFINE d == Width(Filled, member)
             next == Places(Filled, frame.counts)[member]
  <1>1. /\ Struct(Filled) /\ Counted(Filled, frame.counts)
        /\ member \in 1..Len(Filled) /\ Along /\ Filling(kind)
    BY Reached DEF Alone
  <1>2. element = 0 /\ Filled[member].kind # "list" /\ d \in Nat
    BY AloneIs
  <1>3. Elements(Filled, frame.counts, member) = 1
    BY <1>1, <1>2, OffsetNext
  <1>4. /\ Offset(Filled, frame.counts, member, 1) = next
        /\ next \in Nat
    BY <1>1, <1>3, OffsetNext
  <1>5. IndexInPlace
    BY <1>1 DEF Along
  <1>6. msgIdx \in Nat /\ msgIdx >= 2 /\ msgIdx - 2 <= Here
    BY <1>5 DEF IndexInPlace, IInv, Typed
  <1>7. OneByOne(ParserOf(frame)) => msgIdx - 2 = Here
    BY <1>5 DEF IndexInPlace
  <1>8. Ahead(Filled, frame.counts, member, element, msgIdx - 2)
    <2>1. 0 < 1
      OBVIOUS
    <2> QED
      BY <1>1, <1>2, <1>3, <1>6, <2>1 DEF Ahead, Here
  <1>9. /\ beyond' = FALSE /\ (OneByOne(ParserOf(frame)) => strayed' = FALSE)
        /\ (msgIdx - 2) + d <= 250 /\ Here \in Nat
        /\ Offset(Filled, frame.counts, member, element + 1) = Here + d
    BY <1>1, <1>2, <1>8, ReadFound
  <1>10. next = Here + d
    <2>1. element + 1 = 1
      BY <1>2
    <2> QED
      BY <1>4, <1>9, <2>1
  <1> HIDE DEF d, next
  <1>11. /\ msgIdx + d <= 252 /\ (msgIdx - 2) + d <= next
         /\ msgIdx - 2 = Here => (msgIdx - 2) + d = next
    BY <1>2, <1>4, <1>6, <1>9, <1>10
  <1> QED
    BY <1>6, <1>7, <1>9, <1>11 DEF d, next

\* Only a count has a list behind it.
LEMMA ListAfter ==
    ASSUME NEW s, Struct(s), NEW i \in 1..Len(s), i + 1 <= Len(s), s[i + 1].kind = "list"
    PROVE  s[i].kind = "count"
  <1> DEFINE n == Len(s)
  <1>1. n \in Nat
    BY DEF Struct
  <1>2. \A j \in 1..n : s[j].kind = "list" => s[j - 1].kind = "count"
    BY DEF Struct
  <1>3. i + 1 \in 1..n /\ (i + 1) - 1 = i
    <2>1. i \in 1..n /\ i + 1 <= n
      OBVIOUS
    <2> HIDE DEF n
    <2> QED
      BY <1>1, <2>1
  <1> QED
    BY <1>2, <1>3

\* A value read, or only looked at: the index is where the next member begins.
LEMMA IndexAfter ==
    ASSUME IInv, NEW kind, Alone(kind), ~Short(frame), Read(Reads[step].widths, 0), NextStep,
           \/ msgIdx' = (msgIdx + Reads[step].widths[1]) % 256
           \/ msgIdx' = msgIdx /\ ~OneByOne(ParserOf(frame))
    PROVE  IndexInPlace' /\ beyond' = FALSE
  <1> DEFINE d == Width(Filled, member)
             next == Places(Filled, frame.counts)[member]
             one == OneByOne(ParserOf(frame))
  <1>1. /\ beyond' = FALSE /\ (one => strayed' = FALSE)
        /\ msgIdx \in Nat /\ msgIdx >= 2 /\ msgIdx + d <= 252 /\ (msgIdx - 2) + d <= next
        /\ one => (msgIdx - 2) + d = next
    BY AloneFound
  <1>2. Here' = next
    BY Advance DEF Alone
  <1>3. Reads[step].widths[1] = d /\ d \in Nat
    BY AloneIs
  <1>4. next \in Nat
    <2>1. Struct(Filled) /\ Counted(Filled, frame.counts) /\ member \in 1..Len(Filled)
      BY Reached DEF Alone
    <2> QED
      BY <2>1, OffsetNext
  <1>5. frame' = frame
    BY DEF Alone, Filling, Reading
  <1>6. msgIdx' = (msgIdx + d) % 256 \/ (msgIdx' = msgIdx /\ ~one)
    BY <1>3
  <1>7. OneByOne(ParserOf(frame)') = one
    BY <1>5
  <1> HIDE DEF d, next, one
  <1>8. (msgIdx + d) % 256 = msgIdx + d
    BY <1>1, <1>3
  <1>9. msgIdx' >= 2 /\ msgIdx' - 2 <= next /\ (one => msgIdx' - 2 = next)
    <2>1. CASE msgIdx' = (msgIdx + d) % 256
      BY <1>1, <1>3, <1>4, <1>8, <2>1
    <2>2. CASE msgIdx' = msgIdx /\ ~one
      BY <1>1, <1>3, <1>4, <2>2
    <2> QED
      BY <1>6, <2>1, <2>2
  <1> QED
    BY <1>1, <1>2, <1>7, <1>9 DEF IndexInPlace

\* The step of a statement that is done with its member.
MemberStep(kind) ==
    /\ Filling(kind) /\ NextStep /\ msgIdx' \in 0..255 /\ count' \in Nat
    /\ beyond' \in BOOLEAN /\ strayed' \in BOOLEAN /\ stored' = stored
    /\ ~Short(frame) => IndexInPlace' /\ CountInPlace'

\* Such a step keeps the invariant.
LEMMA MemberDone ==
    ASSUME IInv, NEW kind, MemberStep(kind)
    PROVE  IInv'
  <1>0. /\ Filling(kind) /\ NextStep /\ msgIdx' \in 0..255 /\ count' \in Nat
        /\ beyond' \in BOOLEAN /\ strayed' \in BOOLEAN /\ stored' = stored
        /\ ~Short(frame) => IndexInPlace' /\ CountInPlace'
    BY DEF MemberStep
  <1>1. InTurn' /\ element' = 0
    BY <1>0, Advance
  <1>2. Along /\ frame' = frame /\ Reading(kind)
    BY <1>0, Reached DEF Filling, Reading
  <1>3. ~Short(frame) => StoredInPlace'
    <2>1. StoredInPlace => StoredInPlace'
      BY <1>0, <1>2 DEF StoredInPlace, Filled
    <2> QED
      BY <1>2, <2>1 DEF Along
  <1>4. element' \in 0..count'
    BY <1>0, <1>1
  <1> QED
    BY <1>0, <1>1, <1>2, <1>3, <1>4, ReadingKeeps

\* Behind a member that is no count there is no list.
LEMMA NoListNext ==
    ASSUME IInv, NEW kind, Filling(kind), NextStep, Filled[member].kind # "count"
    PROVE  CountInPlace'
  <1>1. Struct(Filled) /\ member \in 1..Len(Filled) /\ frame' = frame
    BY Reached DEF Filling, Reading
  <1>2. member' = member + 1
    BY DEF NextStep
  <1>3. ~(member + 1 <= Len(Filled) /\ Filled[member + 1].kind = "list")
    BY <1>1, ListAfter
  <1>4. Filled' = Filled
    BY <1>1 DEF Filled
  <1> QED
    BY <1>2, <1>3, <1>4 DEF CountInPlace

\* What a Read does is said of it, yes or no.
LEMMA ReadTyped ==
    ASSUME NEW widths, NEW e, Read(widths, e)
    PROVE  beyond' \in BOOLEAN /\ strayed' \in BOOLEAN
  <1> DEFINE payload == Payload(ParserOf(frame).struct, frame.counts)
             own == ElementBytes(widths, member, e, 1)
             at(b) == msgIdx - 2 + b
             inside == {b \in DOMAIN own : at(b) \in 1..frame.size}
             far == inside # DOMAIN own
             astray == \E b \in inside : payload[at(b)] # own[b]
  <1>1. beyond' = (beyond \/ far) /\ strayed' = (strayed \/ astray)
    BY DEF Read
  <1> HIDE DEF far, astray
  <1> QED
    BY <1>1

\* A field is read and the index moves behind it.
LEMMA ReadFieldKeeps ==
    ASSUME IInv, ReadField
    PROVE  IInv'
  <1>1. /\ Reading("field") /\ Read(Reads[step].widths, 0) /\ NextStep
        /\ msgIdx' = (msgIdx + Reads[step].widths[1]) % 256
        /\ count' = count /\ stored' = stored
    BY DEF ReadField
  <1>2. Alone("field") /\ Filling("field")
    BY <1>1 DEF Alone, Filling
  <1>3. msgIdx \in 0..255 /\ count \in Nat
    BY DEF IInv, Typed
  <1>4. /\ Reads[step].widths[1] = Width(Filled, member) /\ Width(Filled, member) \in Nat
        /\ Filled[member].kind # "count"
    BY <1>2, AloneIs
  <1>5. beyond' \in BOOLEAN /\ strayed' \in BOOLEAN
    BY <1>1, ReadTyped
  <1>6. msgIdx' \in 0..255
    <2> DEFINE d == Width(Filled, member)
    <2>1. msgIdx' = (msgIdx + d) % 256 /\ d \in Nat
      BY <1>1, <1>4
    <2> HIDE DEF d
    <2> QED
      BY <1>3, <2>1
  <1>7. CountInPlace'
    BY <1>1, <1>2, <1>4, NoListNext
  <1>8. ~Short(frame) => IndexInPlace'
    BY <1>1, <1>2, IndexAfter
  <1>9. MemberStep("field")
    BY <1>1, <1>2, <1>3, <1>5, <1>6, <1>7, <1>8, ZenonT(30) DEF MemberStep
  <1> QED
    BY <1>9, MemberDone

\* A field is read where the next one is, and the index stays.
LEMMA ReadOnlyKeeps ==
    ASSUME IInv, ReadOnly
    PROVE  IInv'
  <1>1. /\ Reading("peek") /\ Read(Reads[step].widths, 0) /\ NextStep
        /\ msgIdx' = msgIdx /\ count' = count /\ stored' = stored
    BY DEF ReadOnly
  <1>2. Alone("peek") /\ Filling("peek")
    BY <1>1 DEF Alone, Filling
  <1>3. msgIdx \in 0..255 /\ count \in Nat
    BY DEF IInv, Typed
  <1>4. Filled[member].kind # "count"
    BY <1>2, AloneIs
  <1>5. beyond' \in BOOLEAN /\ strayed' \in BOOLEAN
    BY <1>1, ReadTyped
  <1>6. CountInPlace'
    BY <1>1, <1>2, <1>4, NoListNext
  <1>7. ~OneByOne(ParserOf(frame))
    BY <1>2, Reached DEF OneByOne, Reads
  <1>8. ~Short(frame) => IndexInPlace'
    BY <1>1, <1>2, <1>7, IndexAfter
  <1>9. MemberStep("peek")
    BY <1>1, <1>2, <1>3, <1>5, <1>6, <1>8 DEF MemberStep
  <1> QED
    BY <1>9, MemberDone

\* A count is read, and it is that of the list behind it.
LEMMA ReadCountKeeps ==
    ASSUME IInv, ReadCount
    PROVE  IInv'
  <1>1. /\ Reading("count") /\ Read(Reads[step].widths, 0) /\ NextStep
        /\ msgIdx' = (msgIdx + Reads[step].widths[1]) % 256
        /\ stored' = stored
        /\ IF beyond' \/ strayed' THEN count' \in StaleValues ELSE count' = frame.counts[member]
    BY DEF ReadCount
  <1>2. Alone("count") /\ Filling("count")
    BY <1>1 DEF Alone, Filling
  <1>3. /\ Reads[step].widths[1] = Width(Filled, member) /\ Width(Filled, member) \in Nat
        /\ Filled[member].kind = "count"
    BY <1>2, AloneIs
  <1>4. /\ Sound(frame, ParserOf(frame), Tested) /\ Struct(Filled)
        /\ Counted(Filled, frame.counts) /\ member \in 1..Len(Filled)
    BY <1>2, Reached
  <1>5. beyond' \in BOOLEAN /\ strayed' \in BOOLEAN
    BY <1>1, ReadTyped
  <1>6. msgIdx' \in 0..255
    <2> DEFINE d == Width(Filled, member)
    <2>1. msgIdx' = (msgIdx + d) % 256 /\ d \in Nat
      BY <1>1, <1>3
    <2>2. msgIdx \in 0..255
      BY DEF IInv, Typed
    <2> HIDE DEF d
    <2> QED
      BY <2>1, <2>2
  <1>7. count' \in Nat
    <2>1. StaleValues \subseteq Nat
      BY ParseBounds
    <2>2. frame.counts[member] \in Nat
      BY <1>3, <1>4, MemberIs DEF Counted
    <2> QED
      BY <1>1, <2>1, <2>2
  <1>8. ~Short(frame) => IndexInPlace' /\ beyond' = FALSE
    BY <1>1, <1>2, IndexAfter
  <1>9. ASSUME ~Short(frame) PROVE CountInPlace'
    <2>1. OneByOne(ParserOf(frame))
      <3>1. OneByOne(ParserOf(frame)) \/ OnlyFields(ParserOf(frame))
        BY <1>4 DEF Sound, Usual
      <3>2. ~OnlyFields(ParserOf(frame))
        BY <1>3, <1>4 DEF OnlyFields, Filled
      <3> QED
        BY <3>1, <3>2
    <2>2. beyond' = FALSE /\ strayed' = FALSE
      BY <1>1, <1>2, <1>9, <2>1, AloneFound
    <2>3. count' = frame.counts[member]
      BY <1>1, <2>2
    <2>4. frame' = frame /\ member' = member + 1
      BY <1>1 DEF Reading, NextStep
    <2>5. (member + 1) - 1 = member
      <3> DEFINE n == Len(Filled)
      <3>1. member \in 1..n
        BY <1>4
      <3> HIDE DEF n
      <3> QED
        BY <3>1
    <2> QED
      BY <2>3, <2>4, <2>5 DEF CountInPlace
  <1>10. MemberStep("count")
    BY <1>1, <1>2, <1>5, <1>6, <1>7, <1>8, <1>9, ZenonT(30) DEF MemberStep
  <1> QED
    BY <1>10, MemberDone

\* A list.
ListKind(kind) == kind \in {"list", "one index list"}
Listing(kind) == Filling(kind) /\ ListKind(kind)

\* Its count is the one the message has, and its array has room for it.
LEMMA ListIs ==
    ASSUME IInv, NEW kind, Listing(kind)
    PROVE  /\ Filled[member].kind = "list" /\ member \in 1..Len(Filled)
           /\ Reads[step].widths = Filled[member].widths
           /\ Width(Filled, member) \in Nat
           /\ element \in Nat /\ count \in Nat /\ element <= count
           /\ ~Short(frame) =>
                  /\ count = Elements(Filled, frame.counts, member)
                  /\ count <= Filled[member].cap /\ Filled[member].cap \in Nat
                  /\ IndexInPlace /\ CountInPlace /\ StoredInPlace
  <1>1. /\ Sound(frame, ParserOf(frame), Tested)
        /\ Struct(Filled) /\ Counted(Filled, frame.counts) /\ member \in 1..Len(Filled)
        /\ Len(Filled) \in Nat
        /\ Fills(Reads[step], Filled[member]) /\ Reads[step].kind = kind /\ Along
    BY Reached DEF Listing
  <1>2. Filled[member].kind = "list" /\ Reads[step].widths = Filled[member].widths
    BY <1>1 DEF Listing, ListKind, Fills
  <1>3. /\ member - 1 \in CountPositions(Filled) /\ Width(Filled, member) \in Nat
        /\ Filled[member].cap \in Nat
    BY <1>1, <1>2, MemberIs
  <1>4. element \in Nat /\ count \in Nat /\ element <= count
    <2>1. count \in Nat /\ element \in 0..count
      BY DEF IInv, Typed
    <2> QED
      BY <2>1
  <1>5. ASSUME ~Short(frame)
        PROVE  /\ count = Elements(Filled, frame.counts, member)
               /\ count <= Filled[member].cap
               /\ IndexInPlace /\ CountInPlace /\ StoredInPlace
    <2>1. IndexInPlace /\ CountInPlace /\ StoredInPlace
      BY <1>1, <1>5 DEF Along
    <2>2. member <= Len(Filled) /\ (member - 1) + 1 = member
      <3> DEFINE n == Len(Filled)
      <3>1. n \in Nat /\ member \in 1..n
        BY <1>1
      <3> HIDE DEF n
      <3>2. member <= n /\ (member - 1) + 1 = member
        BY <3>1
      <3> QED
        BY <3>2 DEF n
    <2>3. count = frame.counts[member - 1]
      BY <1>2, <2>1, <2>2 DEF CountInPlace
    <2>4. \A i \in CountPositions(Filled) : frame.counts[i] <= Filled[i + 1].cap
      BY <1>1 DEF Sound, Filled
    <2>5. frame.counts[member - 1] <= Filled[member].cap
      BY <1>3, <2>2, <2>4
    <2>6. Elements(Filled, frame.counts, member) = frame.counts[member - 1]
      BY <1>2 DEF Elements
    <2> QED
      BY <2>1, <2>3, <2>5, <2>6
  <1> QED
    BY <1>1, <1>2, <1>3, <1>4, <1>5

\* All elements are there: the index is where the next member begins.
LEMMA EndOfListKeeps ==
    ASSUME IInv, NEW kind, ListKind(kind), EndOfList(kind)
    PROVE  IInv'
  <1>1. /\ Reading(kind) /\ NextStep /\ element >= count
        /\ UNCHANGED <<msgIdx, count, beyond, strayed, stored>>
    BY DEF EndOfList
  <1>2. Listing(kind) /\ Filling(kind)
    BY <1>1 DEF Listing, ListKind, Filling
  <1>3. /\ Filled[member].kind = "list" /\ member \in 1..Len(Filled)
        /\ element \in Nat /\ count \in Nat /\ element <= count
        /\ ~Short(frame) =>
               /\ count = Elements(Filled, frame.counts, member)
               /\ IndexInPlace /\ CountInPlace /\ StoredInPlace
    BY <1>2, ListIs
  <1>4. element = count
    BY <1>1, <1>3
  <1>5. /\ Struct(Filled) /\ Counted(Filled, frame.counts)
    BY <1>2, Reached
  <1>6. Here' = Places(Filled, frame.counts)[member]
    BY <1>1, <1>2, Advance
  <1>7. ASSUME ~Short(frame) PROVE IndexInPlace'
    <2>1. Here = Places(Filled, frame.counts)[member]
      BY <1>3, <1>4, <1>5, <1>7, OffsetNext DEF Here
    <2>2. frame' = frame
      BY <1>1 DEF Reading
    <2>3. IndexInPlace /\ Here' = Here
      BY <1>3, <1>6, <1>7, <2>1
    <2> QED
      BY <1>1, <2>2, <2>3 DEF IndexInPlace
  <1>8. CountInPlace'
    BY <1>1, <1>2, <1>3, NoListNext
  <1>9. msgIdx \in 0..255 /\ count \in Nat /\ beyond \in BOOLEAN /\ strayed \in BOOLEAN
    BY DEF IInv, Typed
  <1>10. MemberStep(kind)
    BY <1>1, <1>2, <1>7, <1>8, <1>9 DEF MemberStep
  <1> QED
    BY <1>10, MemberDone

\* The element after the one read is where the index is, and its values went to its place.
LEMMA ReadElementKeeps ==
    ASSUME IInv, NEW kind, ListKind(kind), ReadElement(kind)
    PROVE  IInv'
  <1> DEFINE d == Width(Filled, member)
             w == Filled[member].widths
  <1>1. /\ Reading(kind) /\ element < count /\ Read(Reads[step].widths, element)
        /\ msgIdx' = (msgIdx + SumOf(Reads[step].widths)) % 256
        /\ stored' = stored \union {<<member, element, x>> : x \in Indices(Reads[step])}
        /\ element' = element + 1
        /\ UNCHANGED <<step, member, count>>
    BY DEF ReadElement
  <1>2. Listing(kind) /\ Filling(kind)
    BY <1>1 DEF Listing, ListKind, Filling
  <1>3. /\ pc = "read" /\ UNCHANGED <<pc, registered, frame, warned>>
        /\ Reads[step].kind = kind
    BY <1>1 DEF Reading
  <1>4. /\ Filled[member].kind = "list" /\ member \in 1..Len(Filled)
        /\ Reads[step].widths = w
        /\ d \in Nat
        /\ element \in Nat /\ count \in Nat
        /\ ~Short(frame) =>
               /\ count = Elements(Filled, frame.counts, member)
               /\ count <= Filled[member].cap /\ Filled[member].cap \in Nat
               /\ IndexInPlace /\ CountInPlace /\ StoredInPlace
    BY <1>2, ListIs
  <1>5. msgIdx' = (msgIdx + d) % 256
    BY <1>1, <1>4 DEF Width
  <1>6. /\ step \in 1..Len(Reads) /\ step # Tested /\ Along
    BY <1>2, Reached
  <1>7. Reads' = Reads /\ Filled' = Filled /\ Tested' = Tested
    BY <1>3 DEF Reads, Filled, Tested
  <1>8. InTurn'
    <2>1. /\ step \in 1..(Len(Reads) + 1) /\ member = MemberAt(Tested, step)
          /\ step <= Len(Reads)
      BY <1>1, <1>3, <1>6 DEF Along, InTurn, Reading
    <2> QED
      BY <1>1, <1>3, <1>4, <1>6, <1>7, <2>1 DEF InTurn
  <1>9. beyond' \in BOOLEAN /\ strayed' \in BOOLEAN
    BY <1>1, ReadTyped
  <1>10. msgIdx \in 0..255
    BY DEF IInv, Typed
  <1> HIDE DEF d
  <1>11. msgIdx' \in 0..255 /\ count' \in Nat /\ element' \in 0..count'
    <2>1. msgIdx' \in 0..255
      BY <1>4, <1>5, <1>10
    <2>2. element + 1 \in 0..count
      BY <1>1, <1>4
    <2> QED
      BY <1>1, <1>4, <2>1, <2>2
  <1>12. ASSUME ~Short(frame) PROVE IndexInPlace'
    <2>1. msgIdx >= 2 /\ msgIdx - 2 <= Here
      BY <1>4, <1>12 DEF IndexInPlace
    <2>2. Ahead(Filled, frame.counts, member, element, msgIdx - 2)
      BY <1>1, <1>4, <1>12, <2>1 DEF Ahead, Here
    <2>3. /\ beyond' = FALSE /\ (OneByOne(ParserOf(frame)) => strayed' = FALSE)
          /\ (msgIdx - 2) + d <= 250 /\ Here \in Nat
          /\ Offset(Filled, frame.counts, member, element + 1) = Here + d
      BY <1>1, <1>2, <1>12, <2>2, ReadFound DEF d
    <2>4. Here' = Here + d
      BY <1>1, <1>3, <1>7, <2>3 DEF Here
    <2>5. msgIdx' = msgIdx + d
      <3>1. (msgIdx - 2) + d <= 250 /\ d \in Nat
        BY <1>4, <2>3
      <3>2. (msgIdx + d) % 256 = msgIdx + d
        BY <1>10, <3>1
      <3> QED
        BY <1>5, <3>2
    <2>6. OneByOne(ParserOf(frame)) => msgIdx - 2 = Here
      BY <1>4, <1>12 DEF IndexInPlace
    <2> DEFINE h == Here
               next == Here'
    <2>7. next = h + d /\ h \in Nat /\ msgIdx - 2 <= h /\ d \in Nat /\ msgIdx >= 2
      BY <1>4, <2>1, <2>3, <2>4
    <2> HIDE DEF h, next
    <2>8. /\ msgIdx' >= 2 /\ msgIdx' - 2 <= next
          /\ msgIdx - 2 = h => msgIdx' - 2 = next
      BY <1>10, <2>5, <2>7
    <2> QED
      BY <1>3, <2>3, <2>6, <2>8 DEF IndexInPlace, h, next
  <1>13. ASSUME ~Short(frame) PROVE CountInPlace'
    <2>1. CountInPlace
      BY <1>4, <1>13
    <2> QED
      BY <1>1, <1>3, <1>7, <2>1 DEF CountInPlace
  <1>14. ASSUME ~Short(frame) PROVE StoredInPlace'
    <2>1. SUFFICES ASSUME OneIndexEach(ParserOf(frame)), NEW t \in stored'
                   PROVE  t[3] = t[2] /\ t[3] < Filled[t[1]].cap
      BY <1>3, <1>7 DEF StoredInPlace
    <2>2. CASE t \in stored
      BY <1>4, <1>14, <2>1, <2>2 DEF StoredInPlace
    <2>3. CASE t \notin stored
      <3>1. Reads[step].kind # "one index list"
        BY <1>6, <2>1 DEF OneIndexEach, Reads
      <3>2. Reads[step].kind = "list"
        BY <1>2, <1>3, <3>1 DEF Listing, ListKind
      <3>3. Indices(Reads[step]) = {element}
        BY <3>2 DEF Indices
      <3>4. t = <<member, element, element>>
        BY <1>1, <2>3, <3>3
      <3>5. element < Filled[member].cap
        BY <1>1, <1>4, <1>14
      <3> QED
        BY <3>4, <3>5
    <2> QED
      BY <2>2, <2>3
  <1> QED
    BY <1>1, <1>8, <1>9, <1>11, <1>12, <1>13, <1>14, ReadingKeeps, SMTT(60)

\* The test of rpcLen lets every frame pass that the ZNP sends.
LEMMA TestLengthKeeps ==
    ASSUME IInv, TestLength
    PROVE  IInv'
  <1>1. /\ Reading("if longer")
        /\ step' = IF RpcLen(frame) > Reads[step].cap THEN step + 1 ELSE Len(Reads) + 1
        /\ UNCHANGED <<member, msgIdx, count, element, beyond, strayed, stored>>
    BY DEF TestLength
  <1>2. /\ pc = "read" /\ step <= Len(Reads) /\ Reads[step].kind = "if longer"
        /\ UNCHANGED <<pc, registered, frame, warned>>
    BY <1>1 DEF Reading
  <1>3. Along
    BY <1>2 DEF IInv
  <1>4. Sound(frame, ParserOf(frame), Tested) /\ Parses(ParserOf(frame), Tested)
    BY <1>2, InFrame
  <1>5. step \in 1..(Len(Reads) + 1) /\ member = MemberAt(Tested, step)
    BY <1>3 DEF Along, InTurn
  <1> DEFINE p == ParserOf(frame)
             g == Tested
             m == Len(p.reads)
  <1>6. /\ m \in Nat /\ g \in 0..m
        /\ step = g => MemberAt(g, step + 1) = MemberAt(g, step)
        /\ step <= m /\ step # g => Fills(p.reads[step], p.struct[MemberAt(g, step)])
    <2>1. Parses(p, g) /\ step \in 1..(Len(p.reads) + 1)
      BY <1>4, <1>5 DEF Reads
    <2> HIDE DEF p, g
    <2>2. Turns(p, g, step)
      BY <2>1, Turn
    <2> QED
      BY <2>2 DEF Turns
  <1>7. step = g
    <2>1. ~Fills(p.reads[step], p.struct[MemberAt(g, step)])
      BY <1>2 DEF Fills, Reads
    <2> QED
      BY <1>2, <1>6, <2>1 DEF Reads
  <1>8. g # 0
    <2>1. m \in Nat /\ step \in 1..(m + 1)
      BY <1>5, <1>6 DEF Reads
    <2> HIDE DEF m
    <2>2. step # 0
      BY <2>1
    <2> QED
      BY <1>7, <2>2
  <1>9. step' = step + 1
    <2>1. g > 0 => frame.size + 3 > p.reads[g].cap
      BY <1>4 DEF Sound
    <2>2. g > 0
      <3> HIDE DEF m, g
      <3> QED
        BY <1>6, <1>8
    <2> QED
      BY <1>1, <1>7, <2>1, <2>2 DEF RpcLen, Reads
  <1>10. Reads' = Reads /\ Filled' = Filled /\ Tested' = Tested
    BY <1>2 DEF Reads, Filled, Tested
  <1>11. element = 0
    BY <1>3, <1>7 DEF Along, InTurn
  <1>12. InTurn'
    <2>1. step' \in 1..(Len(Reads') + 1)
      <3>1. step \in 1..(m + 1) /\ step <= m /\ m \in Nat
        BY <1>2, <1>5, <1>6 DEF Reads
      <3> HIDE DEF m, g
      <3>2. step + 1 \in 1..(m + 1)
        BY <3>1
      <3> QED
        BY <1>9, <1>10, <3>2 DEF m, Reads
    <2>2. member' = MemberAt(Tested', step')
      BY <1>1, <1>5, <1>6, <1>7, <1>9, <1>10
    <2> QED
      BY <1>1, <1>2, <1>11, <2>1, <2>2 DEF InTurn
  <1>13. /\ msgIdx' \in 0..255 /\ count' \in Nat /\ element' \in 0..count'
         /\ beyond' \in BOOLEAN /\ strayed' \in BOOLEAN
    BY <1>1 DEF IInv, Typed
  <1>14. ~Short(frame) => IndexInPlace /\ CountInPlace /\ StoredInPlace
    BY <1>3 DEF Along
  <1>15. Here' = Here
    BY <1>1, <1>2, <1>10 DEF Here
  <1>16. ~Short(frame) => IndexInPlace' /\ CountInPlace' /\ StoredInPlace'
    <2>1. IndexInPlace => IndexInPlace'
      BY <1>1, <1>2, <1>15 DEF IndexInPlace
    <2>2. CountInPlace => CountInPlace'
      BY <1>1, <1>2, <1>10 DEF CountInPlace
    <2>3. StoredInPlace => StoredInPlace'
      BY <1>1, <1>2, <1>10 DEF StoredInPlace
    <2> QED
      BY <1>14, <2>1, <2>2, <2>3
  <1> QED
    BY <1>1, <1>12, <1>13, <1>16, ReadingKeeps

\* The length a parser wants is there, and its first member is where the frame begins.
LEMMA CheckKeeps ==
    ASSUME IInv, Check
    PROVE  IInv'
  <1>1. /\ pc = "check" /\ pc' = "read"
        /\ warned' = (RpcLen(frame) < ParserOf(frame).need)
        /\ UNCHANGED <<registered, frame, step, member, msgIdx, count, element,
                       beyond, strayed, stored>>
    BY DEF Check
  <1>2. Typed /\ Fresh
    BY <1>1 DEF IInv
  <1>3. /\ Sound(frame, ParserOf(frame), Tested) /\ Parses(ParserOf(frame), Tested)
        /\ Struct(Filled) /\ Counted(Filled, frame.counts)
    BY <1>1, InFrame
  <1>4. warned' = FALSE
    <2> DEFINE long == RpcLen(frame)
               need == ParserOf(frame).need
    <2>1. frame.size \in 0..250 /\ frame.size + 3 >= need /\ need \in Nat
      BY <1>3 DEF Sound, Parses
    <2>2. long = frame.size + 3
      BY DEF RpcLen
    <2>3. warned' = (long < need)
      BY <1>1
    <2> DEFINE size == frame.size
    <2>4. size \in 0..250 /\ size + 3 >= need /\ need \in Nat /\ long = size + 3
      BY <2>1, <2>2
    <2> HIDE DEF long, need, size
    <2>5. ~(long < need)
      BY <2>4
    <2> DEFINE tooShort == long < need
    <2>6. warned' = tooShort /\ ~tooShort
      BY <2>3, <2>5
    <2> HIDE DEF tooShort
    <2> QED
      BY <2>6
  <1>5. Typed'
    BY <1>1, <1>2 DEF Typed
  <1>6. Reads' = Reads /\ Filled' = Filled /\ Tested' = Tested
    BY <1>1 DEF Reads, Filled, Tested
  <1>7. /\ step' = 1 /\ member' = 1 /\ msgIdx' = 2 /\ element' = 0
        /\ beyond' = FALSE /\ strayed' = FALSE /\ stored' = {}
    BY <1>1, <1>2 DEF Fresh
  <1>8. Len(Reads) \in Nat /\ Tested \in 0..Len(Reads)
    <2> DEFINE p == ParserOf(frame)
               g == Tested
    <2>1. g \in 0..Len(p.struct) /\ p.struct \in Seq(Member)
          /\ Len(p.reads) = Len(p.struct) + (IF g = 0 THEN 0 ELSE 1)
      BY <1>3 DEF Parses, Struct
    <2>2. Len(p.struct) \in Nat
      BY <2>1
    <2> DEFINE n == Len(p.struct)
               m == Len(p.reads)
    <2>3. n \in Nat /\ g \in 0..n /\ m = n + (IF g = 0 THEN 0 ELSE 1)
      BY <2>1, <2>2
    <2> HIDE DEF n, m, g
    <2>4. m \in Nat /\ g \in 0..m
      BY <2>3
    <2> QED
      BY <2>4 DEF m, g, Reads
  <1>9. InTurn'
    <2> DEFINE m == Len(Reads)
               g == Tested
    <2>1. m \in Nat /\ g \in 0..m
      BY <1>8
    <2> HIDE DEF m, g
    <2>2. 1 \in 1..(m + 1) /\ 1 = MemberAt(g, 1)
      BY <2>1 DEF MemberAt
    <2>3. step' \in 1..(Len(Reads') + 1) /\ member' = MemberAt(Tested', step')
      BY <1>6, <1>7, <2>2 DEF m, g
    <2> QED
      BY <1>1, <1>7, <2>3 DEF InTurn
  <1>10. Here' = 0
    <2>1. Places(Filled, frame.counts)[0] = 0
      BY <1>3, PayloadLaid
    <2>2. Here' = Offset(Filled, frame.counts, 1, 0)
      BY <1>1, <1>6, <1>7 DEF Here
    <2>3. 1 - 1 = 0
      OBVIOUS
    <2> QED
      BY <2>1, <2>2, <2>3 DEF Offset
  <1>11. IndexInPlace'
    <2>1. msgIdx' - 2 = 0 /\ msgIdx' >= 2
      BY <1>7
    <2> QED
      BY <1>7, <1>10, <2>1 DEF IndexInPlace
  <1>12. CountInPlace'
    <2>1. 1 <= Len(Filled) => Filled[1].kind # "list"
      <3>1. 1 <= Len(Filled) => 1 \in 1..Len(Filled)
        BY <1>3 DEF Struct
      <3>2. \A i \in 1..Len(Filled) : Filled[i].kind = "list" => i > 1
        BY <1>3 DEF Struct
      <3> QED
        BY <3>1, <3>2
    <2> QED
      BY <1>6, <1>7, <2>1 DEF CountInPlace
  <1>13. StoredInPlace'
    BY <1>7 DEF StoredInPlace
  <1>14. Along'
    BY <1>9, <1>11, <1>12, <1>13 DEF Along
  <1> QED
    BY <1>1, <1>4, <1>5, <1>14 DEF IInv

\* Between two parsers everything is as in the beginning.
LEMMA OtherStepsKeep ==
    ASSUME IInv,
           \/ \E sub \in Subsystems : \E cmds \in {{}, Callbacks(sub)} : RegisterCallbacks(sub, cmds)
           \/ \E f \in Frames : Process(f)
           \/ CallBack
           \/ Return
    PROVE  IInv'
  <1>1. Typed /\ warned = FALSE
    BY DEF IInv
  <1>2. ASSUME NEW sub \in Subsystems, NEW cmds \in {{}, Callbacks(sub)},
               RegisterCallbacks(sub, cmds)
        PROVE  IInv'
    <2>1. /\ pc = "idle" /\ pc' = pc /\ frame' = frame /\ parsing' = parsing
          /\ registered' = (registered \ Callbacks(sub)) \union cmds
      BY <1>2 DEF RegisterCallbacks
    <2>2. registered' \subseteq UNION {Callbacks(s) : s \in Subsystems}
      <3>1. registered \subseteq UNION {Callbacks(s) : s \in Subsystems}
        BY <1>1 DEF Typed
      <3>2. cmds \subseteq UNION {Callbacks(s) : s \in Subsystems}
        BY <1>2
      <3> QED
        BY <2>1, <3>1, <3>2
    <2>3. Typed'
      BY <1>1, <2>1, <2>2 DEF Typed, parsing
    <2>4. Fresh'
      BY <2>1 DEF IInv, Fresh, parsing
    <2> QED
      BY <1>1, <2>1, <2>3, <2>4 DEF IInv, parsing
  <1>3. ASSUME NEW f \in Frames, Process(f)
        PROVE  IInv'
    <2>1. /\ pc = "idle" /\ pc' = "check" /\ frame' = f /\ registered' = registered
          /\ parsing' = parsing
      BY <1>3 DEF Process
    <2>2. Typed'
      BY <1>1, <1>3, <2>1 DEF Typed, parsing
    <2>3. Fresh'
      BY <2>1 DEF IInv, Fresh, parsing
    <2> QED
      BY <1>1, <2>1, <2>2, <2>3 DEF IInv, parsing
  <1>4. ASSUME CallBack PROVE IInv'
    <2>1. /\ pc = "read" /\ step > Len(Reads) /\ pc' = "callback"
          /\ registered' = registered /\ frame' = frame /\ parsing' = parsing
      BY <1>4 DEF CallBack
    <2>2. Typed'
      BY <1>1, <2>1 DEF Typed, parsing
    <2>3. Along
      BY <2>1 DEF IInv
    <2>4. Reads' = Reads /\ Filled' = Filled /\ Tested' = Tested
      BY <2>1 DEF Reads, Filled, Tested
    <2>5. step = Len(Reads) + 1
      <3>1. Parses(ParserOf(frame), Tested)
        BY <2>1, InFrame
      <3>2. step \in 1..(Len(ParserOf(frame).reads) + 1)
        BY <2>3 DEF Along, InTurn, Reads
      <3>3. Len(ParserOf(frame).reads) \in Nat
        BY <3>1, <3>2, Turn DEF Turns
      <3> DEFINE m == Len(Reads)
      <3>4. m \in Nat /\ step \in 1..(m + 1) /\ step > m
        BY <2>1, <3>2, <3>3 DEF Reads
      <3> HIDE DEF m
      <3>5. step = m + 1
        BY <3>4
      <3> QED
        BY <3>5 DEF m
    <2>6. InTurn'
      BY <2>1, <2>3, <2>4, <2>5 DEF Along, InTurn, parsing
    <2>7. IndexInPlace' <=> IndexInPlace
      BY <2>1, <2>4 DEF IndexInPlace, Here, parsing
    <2>8. (CountInPlace' <=> CountInPlace) /\ (StoredInPlace' <=> StoredInPlace)
      BY <2>1, <2>4 DEF CountInPlace, StoredInPlace, parsing
    <2>9. Along'
      BY <2>1, <2>3, <2>6, <2>7, <2>8 DEF Along
    <2> QED
      BY <1>1, <2>1, <2>2, <2>9 DEF IInv, parsing
  <1>5. ASSUME Return PROVE IInv'
    <2>1. /\ pc' = "idle" /\ frame' = NoFrame /\ registered' = registered
          /\ step' = 1 /\ member' = 1 /\ msgIdx' = 2 /\ count' = 0 /\ element' = 0
          /\ warned' = FALSE /\ beyond' = FALSE /\ strayed' = FALSE /\ stored' = {}
      BY <1>5 DEF Return
    <2>2. Fresh'
      BY <2>1 DEF Fresh
    <2>3. 2 \in 0..255 /\ 0 \in Nat /\ 0 \in 0..0
      OBVIOUS
    <2>4. msgIdx' \in 0..255 /\ count' \in Nat /\ element' \in 0..count'
      BY <2>1, <2>3
    <2>5. beyond' \in BOOLEAN /\ strayed' \in BOOLEAN
      BY <2>1
    <2>6. Typed'
      BY <1>1, <2>1, <2>4, <2>5 DEF Typed
    <2> QED
      BY <2>1, <2>2, <2>6 DEF IInv
  <1> QED
    BY <1>2, <1>3, <1>4, <1>5

\* IInv is inductive.
LEMMA ParseInvariant == Spec => []IInv
  <1>1. Init => IInv
    <2> SUFFICES ASSUME Init
                 PROVE  IInv
      OBVIOUS
    <2>1. pc = "idle" /\ registered = {} /\ frame = NoFrame /\ Fresh
      BY DEF Init
    <2>2. /\ msgIdx = 2 /\ count = 0 /\ element = 0
          /\ warned = FALSE /\ beyond = FALSE /\ strayed = FALSE
      BY <2>1 DEF Fresh
    <2>3. 2 \in 0..255 /\ 0 \in Nat /\ 0 \in 0..0
      OBVIOUS
    <2>4. msgIdx \in 0..255 /\ count \in Nat /\ element \in 0..count
      BY <2>2, <2>3
    <2>5. Typed
      BY <2>1, <2>2, <2>4 DEF Typed
    <2> QED
      BY <2>1, <2>2, <2>5 DEF IInv
  <1>2. IInv /\ [Next]_vars => IInv'
    <2> SUFFICES ASSUME IInv, [Next]_vars
                 PROVE  IInv'
      OBVIOUS
    <2>1. CASE UNCHANGED vars
      <3>1. /\ pc' = pc /\ registered' = registered /\ frame' = frame /\ parsing' = parsing
        BY <2>1 DEF vars
      <3>2. Reads' = Reads /\ Filled' = Filled /\ Tested' = Tested
        BY <3>1 DEF Reads, Filled, Tested
      <3>3. Typed' <=> Typed
        BY <3>1 DEF Typed, parsing
      <3>4. Fresh' <=> Fresh
        BY <3>1 DEF Fresh, parsing
      <3>5. InTurn' <=> InTurn
        BY <3>1, <3>2 DEF InTurn, parsing
      <3>6. IndexInPlace' <=> IndexInPlace
        BY <3>1, <3>2 DEF IndexInPlace, Here, parsing
      <3>7. (CountInPlace' <=> CountInPlace) /\ (StoredInPlace' <=> StoredInPlace)
        BY <3>1, <3>2 DEF CountInPlace, StoredInPlace, parsing
      <3>8. Along' <=> Along
        BY <3>1, <3>5, <3>6, <3>7 DEF Along
      <3> QED
        BY <3>1, <3>3, <3>4, <3>8 DEF IInv, parsing
    <2>2. CASE Check
      BY <2>2, CheckKeeps
    <2>3. CASE ReadField
      BY <2>3, ReadFieldKeeps
    <2>4. CASE ReadCount
      BY <2>4, ReadCountKeeps
    <2>5. CASE ReadOnly
      BY <2>5, ReadOnlyKeeps
    <2>6. ASSUME NEW kind \in {"list", "one index list"}, ReadElement(kind) \/ EndOfList(kind)
          PROVE  IInv'
      <3>1. ListKind(kind)
        BY DEF ListKind
      <3> QED
        BY <2>6, <3>1, ReadElementKeeps, EndOfListKeeps
    <2>7. CASE TestLength
      BY <2>7, TestLengthKeeps
    <2> QED
      BY <2>1, <2>2, <2>3, <2>4, <2>5, <2>6, <2>7, OtherStepsKeep DEF Next
  <1> QED
    BY <1>1, <1>2, PTL DEF Spec

-----------------------------------------------------------------------------
(* What the parsers promise.                                               *)

\* TypeOK has the statement and the member in their ranges.
LEMMA InvariantTyped ==
    ASSUME IInv
    PROVE  TypeOK
  <1>1. Typed /\ warned = FALSE
    BY DEF IInv
  <1>2. ASSUME pc = "read"
        PROVE  step \in 1..(Len(Reads) + 1) /\ member \in 1..(Len(Filled) + 1)
    <2>1. step \in 1..(Len(Reads) + 1) /\ member = MemberAt(Tested, step)
      BY <1>2 DEF IInv, Along, InTurn
    <2>2. Parses(ParserOf(frame), Tested)
      BY <1>2, InFrame
    <2>3. step \in 1..(Len(ParserOf(frame).reads) + 1)
      BY <2>1 DEF Reads
    <2>4. MemberAt(Tested, step) \in 1..(Len(ParserOf(frame).struct) + 1)
      BY <2>2, <2>3, Turn DEF Turns
    <2> QED
      BY <2>1, <2>4 DEF Filled
  <1>3. frame \in Frames \union {NoFrame}
    BY <1>1 DEF Typed
  <1>4. {warned, beyond, strayed} \subseteq BOOLEAN
    BY <1>1 DEF Typed
  <1> QED
    BY <1>1, <1>2, <1>3, <1>4 DEF TypeOK, Typed, Filled

\* A parser that calls back has read nothing outside its payload; its index is a byte and
\* that of a member inside its struct.
THEOREM ParseReadsInside == Spec => []ReadsInside
  <1>1. IInv => ReadsInside
    <2> SUFFICES ASSUME IInv
                 PROVE  ReadsInside
      OBVIOUS
    <2>1. TypeOK
      BY InvariantTyped
    <2>2. pc = "callback" /\ ~ShortDescriptor => beyond = FALSE
      BY DEF IInv, Along, IndexInPlace, Short, ShortDescriptor
    <2> QED
      BY <2>1, <2>2 DEF ReadsInside
  <1> QED
    BY <1>1, ParseInvariant, PTL

\* Every value handed to a callback was read from its own bytes of the message.
THEOREM ParseReadsOwn == Spec => []ReadsOwn
  <1>1. IInv => ReadsOwn
    <2> SUFFICES ASSUME IInv, pc = "callback", ~ShortDescriptor,
                        frame.cmd # "MT_ZDO_MSG_CB_INCOMING"
                 PROVE  strayed = FALSE
      BY DEF ReadsOwn
    <2>1. IndexInPlace
      BY DEF IInv, Along, Short, ShortDescriptor
    <2>2. Sound(frame, ParserOf(frame), Tested)
      BY InFrame
    <2>3. OneByOne(ParserOf(frame))
      BY <2>2 DEF Sound, Usual
    <2> QED
      BY <2>1, <2>3 DEF IndexInPlace
  <1> QED
    BY <1>1, ParseInvariant, PTL

\* The i-th element of a list is stored as the i-th and inside the array.
THEOREM ParseElementsInPlace == Spec => []ElementsInPlace
  <1>1. IInv => ElementsInPlace
    <2> SUFFICES ASSUME IInv, pc = "callback", ~ShortDescriptor,
                        frame.cmd # "MT_ZDO_MGMT_BIND_RSP"
                 PROVE  \A s \in stored :
                            s[3] = s[2] /\ s[3] < ParserOf(frame).struct[s[1]].cap
      BY DEF ElementsInPlace
    <2>1. StoredInPlace
      BY DEF IInv, Along, Short, ShortDescriptor
    <2>2. Sound(frame, ParserOf(frame), Tested)
      BY InFrame
    <2>3. OneIndexEach(ParserOf(frame))
      BY <2>2 DEF Sound, Usual
    <2> QED
      BY <2>1, <2>3 DEF StoredInPlace, Filled
  <1> QED
    BY <1>1, ParseInvariant, PTL

\* All elements that the message counts are stored, and the parser ends at the FCS.
THEOREM ParseWholeMessage == Spec => []WholeMessage
  <1>1. IInv => WholeMessage
    <2> SUFFICES ASSUME IInv, pc = "callback", ~ShortDescriptor,
                        frame.cmd # "MT_ZDO_MSG_CB_INCOMING"
                 PROVE  msgIdx = RpcLen(frame) - 1
      BY DEF WholeMessage
    <2>1. IndexInPlace /\ InTurn
      BY DEF IInv, Along, Short, ShortDescriptor
    <2>2. /\ Sound(frame, ParserOf(frame), Tested) /\ Parses(ParserOf(frame), Tested)
          /\ Struct(Filled) /\ Counted(Filled, frame.counts)
      BY InFrame
    <2>3. OneByOne(ParserOf(frame))
      BY <2>2 DEF Sound, Usual
    <2>4. step = Len(Reads) + 1 /\ member = MemberAt(Tested, step) /\ step \in 1..(Len(Reads) + 1)
      BY <2>1 DEF InTurn
    <2>5. member = Len(Filled) + 1 /\ Len(Filled) \in Nat
      <3>1. step \in 1..(Len(ParserOf(frame).reads) + 1) /\ step = Len(ParserOf(frame).reads) + 1
        BY <2>4 DEF Reads
      <3>2. /\ MemberAt(Tested, step) = Len(ParserOf(frame).struct) + 1
            /\ Len(ParserOf(frame).struct) \in Nat
        BY <2>2, <3>1, Turn DEF Turns
      <3> QED
        BY <2>4, <3>2 DEF Filled
    <2>6. element = 0
      <3>1. Len(Reads) \in Nat
        <4>1. step \in 1..(Len(ParserOf(frame).reads) + 1)
          BY <2>4 DEF Reads
        <4>2. Len(ParserOf(frame).reads) \in Nat
          BY <2>2, <4>1, Turn DEF Turns
        <4> QED
          BY <4>2 DEF Reads
      <3> DEFINE m == Len(Reads)
      <3>2. m \in Nat /\ step = m + 1
        BY <2>4, <3>1
      <3> HIDE DEF m
      <3>3. ~(step <= m)
        BY <3>2
      <3> QED
        BY <2>1, <3>3 DEF InTurn, m
    <2>7. Here = Places(Filled, frame.counts)[Len(Filled)]
      <3> DEFINE n == Len(Filled)
      <3>1. n \in Nat /\ member = n + 1
        BY <2>5
      <3>2. Here = Places(Filled, frame.counts)[member - 1]
        BY <2>6 DEF Here, Offset
      <3> HIDE DEF n
      <3>3. member - 1 = n
        BY <3>1
      <3> QED
        BY <3>2, <3>3 DEF n
    <2>8. frame.size = Here /\ frame.size \in 0..250
      BY <2>2, <2>7 DEF Sound, Short, ShortDescriptor, Filled
    <2>9. msgIdx - 2 = Here /\ msgIdx \in 0..255
      BY <2>1, <2>3 DEF IndexInPlace, IInv, Typed
    <2> DEFINE size == frame.size
               long == RpcLen(frame)
    <2>10. long = size + 3 /\ size \in 0..250 /\ msgIdx - 2 = size /\ msgIdx \in 0..255
      BY <2>8, <2>9 DEF RpcLen
    <2> HIDE DEF size, long
    <2>11. msgIdx = long - 1
      BY <2>10
    <2> QED
      BY <2>11 DEF long
  <1> QED
    BY <1>1, ParseInvariant, PTL

\* No frame that the ZNP sends is reported as of invalid length.
THEOREM ParseNoFalseAlarm == Spec => []NoFalseAlarm
  <1>1. IInv => NoFalseAlarm
    BY DEF IInv, NoFalseAlarm
  <1> QED
    BY <1>1, ParseInvariant, PTL
=============================================================================
