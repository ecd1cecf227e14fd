--------------------------- MODULE SequenceLemmas ---------------------------
(***************************************************************************)
(* What several of the proofs rest on: induction, and how often an element *)
(* occurs in a sequence to which one is added or from which one is taken.  *)
(***************************************************************************)
EXTENDS Naturals, Sequences, FiniteSets, FiniteSetTheorems, FunctionTheorems,
        WellFoundedInduction, TLAPS

-----------------------------------------------------------------------------
(* Induction.                                                              *)

\* A set of numbers that is not empty has a least element.
LEMMA Least ==
    ASSUME NEW T \in SUBSET Nat, T # {}
    PROVE  \E x \in T : \A y \in T : x <= y
  <1> DEFINE R == OpToRel(<, Nat)
  <1>1. IsWellFoundedOn(R, Nat)
    BY NatLessThanWellFounded
  <1>2. \A x, y \in Nat : y < x => <<y, x>> \in R
    BY DEF OpToRel
  <1> HIDE DEF R
  <1>3. PICK x \in T : \A y \in T : ~(<<y, x>> \in R)
    BY <1>1, WFMin
  <1>4. \A y \in T : ~(y < x)
    BY <1>2, <1>3, Zenon
  <1> QED
    BY <1>4

\* A set of numbers that has 0 and the successor of each of its members has all.
LEMMA SetInduction ==
    ASSUME NEW T, 0 \in T, \A n \in Nat : n \in T => n + 1 \in T
    PROVE  Nat \subseteq T
  <1> SUFFICES ASSUME Nat \ T # {} PROVE FALSE
    OBVIOUS
  <1>1. PICK x \in Nat \ T : \A y \in Nat \ T : x <= y
    BY Least
  <1>2. x - 1 \in Nat /\ x - 1 \in T /\ (x - 1) + 1 = x
    BY <1>1
  <1> QED
    BY <1>1, <1>2

\* What is true of 0 and handed on from each number to the next is true up to n.
LEMMA CountingUp ==
    ASSUME NEW n \in Nat, NEW S, 0 \in S, \A i \in 1..n : i - 1 \in S => i \in S
    PROVE  \A i \in 0..n : i \in S
  <1> DEFINE T == {h \in Nat : h <= n => h \in S}
  <1>1. 0 \in T
    OBVIOUS
  <1>2. ASSUME NEW h \in Nat, h \in T PROVE h + 1 \in T
    <2>1. h + 1 \in Nat /\ (h + 1 <= n => h + 1 \in 1..n /\ (h + 1) - 1 = h /\ h <= n)
      OBVIOUS
    <2>2. h <= n => h \in S
      BY <1>2
    <2>3. h + 1 <= n => h + 1 \in S
      BY <2>1, <2>2
    <2> QED
      BY <2>1, <2>3
  <1> HIDE DEF T
  <1>3. Nat \subseteq T
    BY <1>1, <1>2, SetInduction
  <1> QED
    BY <1>3 DEF T

\* A function can be computed from each of its values for the next.
StepsIn(G, n, V) == \A v \in V : \A i \in 1..n : G[v][i] \in V
Computable(b, G, n, V) ==
    \E f \in [0..n -> V] : f[0] = b /\ \A i \in 1..n : f[i] = G[f[i - 1]][i]

\* Such a function exists, by a count of the values computed so far.
LEMMA RecursionExists ==
    ASSUME NEW V, NEW n \in Nat, NEW b \in V, NEW G, StepsIn(G, n, V)
    PROVE  Computable(b, G, n, V)
  <1>0. \A v \in V : \A i \in 1..n : G[v][i] \in V
    BY DEF StepsIn
  <1> DEFINE Upto(h, f) == f[0] = b /\ \A i \in 1..h : f[i] = G[f[i - 1]][i]
             T == {h \in Nat : h <= n => \E f \in [0..h -> V] : Upto(h, f)}
  <1>1. 0 \in T
    <2>1. [i \in 0..0 |-> b] \in [0..0 -> V] /\ Upto(0, [i \in 0..0 |-> b])
      OBVIOUS
    <2> QED
      BY <2>1
  <1>2. ASSUME NEW h \in Nat, h \in T PROVE h + 1 \in T
    <2>0. h + 1 \in Nat
      OBVIOUS
    <2> SUFFICES ASSUME h + 1 <= n PROVE \E f \in [0..(h + 1) -> V] : Upto(h + 1, f)
      BY <2>0
    <2>1. PICK f \in [0..h -> V] : Upto(h, f)
      BY <1>2
    <2> DEFINE g == [i \in 0..(h + 1) |-> IF i <= h THEN f[i] ELSE G[f[h]][h + 1]]
    <2>2. g \in [0..(h + 1) -> V]
      <3>1. f[h] \in V /\ h + 1 \in 1..n
        OBVIOUS
      <3>2. \A i \in 0..(h + 1) : g[i] \in V
        BY <1>0, <3>1
      <3> QED
        BY <3>2
    <2>3. g[0] = b
      BY <2>1
    <2>4. ASSUME NEW i \in 1..(h + 1) PROVE g[i] = G[g[i - 1]][i]
      <3>1. i - 1 \in 0..h /\ i \in 0..(h + 1) /\ i - 1 \in 0..(h + 1)
        OBVIOUS
      <3>2. g[i - 1] = f[i - 1]
        BY <3>1
      <3>3. CASE i <= h
        <4>1. i \in 1..h /\ g[i] = f[i]
          BY <3>3
        <4> HIDE DEF g
        <4> QED
          BY <2>1, <3>2, <4>1
      <3>4. CASE i = h + 1
        <4>1. i - 1 = h /\ ~(i <= h)
          BY <3>4
        <4> QED
          BY <3>1, <3>4, <4>1
      <3> QED
        BY <3>3, <3>4
    <2> HIDE DEF g
    <2> QED
      BY <2>2, <2>3, <2>4
  <1> HIDE DEF T
  <1>3. n \in T
    BY <1>1, <1>2, SetInduction
  <1>4. \E f \in [0..n -> V] : Upto(n, f)
    BY <1>3 DEF T
  <1> QED
    BY <1>4 DEF Computable

\* Two functions that are computed in the same way are the same.
Lockstep(f, g, n) == f[0] = g[0] /\ \A i \in 1..n : f[i - 1] = g[i - 1] => f[i] = g[i]

\* Then they are the same.
LEMMA SameComputed ==
    ASSUME NEW n \in Nat, NEW f, NEW g, Lockstep(f, g, n)
    PROVE  \A i \in 0..n : f[i] = g[i]
  <1>0. f[0] = g[0] /\ \A i \in 1..n : f[i - 1] = g[i - 1] => f[i] = g[i]
    BY DEF Lockstep
  <1> DEFINE S == {i \in 0..n : f[i] = g[i]}
  <1>1. 0 \in S
    BY <1>0
  <1>2. ASSUME NEW i \in 1..n, i - 1 \in S PROVE i \in S
    <2>1. f[i - 1] = g[i - 1] /\ i \in 0..n
      BY <1>2
    <2> QED
      BY <1>0, <2>1
  <1>3. \A i \in 0..n : i \in S
    <2> HIDE DEF S
    <2> QED
      BY <1>1, <1>2, CountingUp
  <1> QED
    BY <1>3

-----------------------------------------------------------------------------
(* Sequences whose first element comes, goes or changes.                   *)

\* An element in front.
LEMMA Pushed ==
    ASSUME NEW S, NEW s \in Seq(S), NEW x \in S
    PROVE  /\ <<x>> \o s \in Seq(S) /\ Len(<<x>> \o s) = Len(s) + 1
           /\ <<x>> \o s # <<>> /\ (<<x>> \o s)[1] = x
           /\ \A j \in DOMAIN s : (<<x>> \o s)[j + 1] = s[j]
           /\ \A j \in DOMAIN (<<x>> \o s) : j = 1 \/ j - 1 \in DOMAIN s
  OBVIOUS

\* The elements behind the first.
LEMMA Popped ==
    ASSUME NEW S, NEW s \in Seq(S), s # <<>>
    PROVE  /\ Tail(s) \in Seq(S) /\ Len(Tail(s)) = Len(s) - 1 /\ Len(s) \in Nat \ {0}
           /\ s[1] \in S /\ DOMAIN s = 1..Len(s) /\ 1 \in DOMAIN s
           /\ DOMAIN Tail(s) = 1..(Len(s) - 1)
           /\ \A j \in DOMAIN Tail(s) : Tail(s)[j] = s[j + 1] /\ j + 1 \in DOMAIN s
  OBVIOUS

\* Another first element.
LEMMA Replaced ==
    ASSUME NEW S, NEW s \in Seq(S), s # <<>>, NEW x \in S
    PROVE  /\ [s EXCEPT ![1] = x] \in Seq(S) /\ Len([s EXCEPT ![1] = x]) = Len(s)
           /\ [s EXCEPT ![1] = x] # <<>> /\ [s EXCEPT ![1] = x][1] = x
           /\ DOMAIN [s EXCEPT ![1] = x] = DOMAIN s
           /\ \A j \in DOMAIN s : j # 1 => [s EXCEPT ![1] = x][j] = s[j]
  OBVIOUS

\* Only the empty sequence has no elements.
LEMMA EmptyLength == ASSUME NEW S, NEW s \in Seq(S) PROVE s = <<>> <=> Len(s) = 0
  OBVIOUS

-----------------------------------------------------------------------------
(* Occurrences.                                                            *)

\* How many places of a sequence hold an element of a set, and hold one element.
Members(q, E) == Cardinality({i \in DOMAIN q : q[i] \in E})
Occurrences(q, f) == Cardinality({i \in DOMAIN q : q[i] = f})

\* To occur is to be a member of a set of one.
LEMMA OccurrencesMembers == \A q, f : Occurrences(q, f) = Members(q, {f})
  <1> SUFFICES ASSUME NEW q, NEW f PROVE Occurrences(q, f) = Members(q, {f})
    OBVIOUS
  <1>1. {i \in DOMAIN q : q[i] = f} = {i \in DOMAIN q : q[i] \in {f}}
    OBVIOUS
  <1> QED
    BY <1>1 DEF Occurrences, Members

\* An empty sequence has no members.
LEMMA NoMembers ==
    /\ \A E : Members(<<>>, E) = 0
    /\ \A f : Occurrences(<<>>, f) = 0
  <1>1. ASSUME NEW E PROVE Members(<<>>, E) = 0
    <2>1. {i \in DOMAIN <<>> : <<>>[i] \in E} = {}
      OBVIOUS
    <2> QED
      BY <2>1, FS_EmptySet DEF Members
  <1> QED
    BY <1>1, OccurrencesMembers

\* The number of members is natural.
LEMMA MembersNat ==
    ASSUME NEW S, NEW q \in Seq(S), NEW E
    PROVE  /\ Members(q, E) \in Nat /\ IsFiniteSet({i \in DOMAIN q : q[i] \in E})
           /\ \A i \in DOMAIN q : q[i] \in E => Members(q, E) > 0
  <1> DEFINE P == {i \in DOMAIN q : q[i] \in E}
  <1>1. DOMAIN q = 1..Len(q) /\ Len(q) \in Nat
    OBVIOUS
  <1>2. IsFiniteSet(1..Len(q)) /\ P \in SUBSET (1..Len(q))
    BY <1>1, FS_Interval
  <1>3. IsFiniteSet(P)
    BY <1>2, FS_Subset
  <1>4. Members(q, E) = Cardinality(P) /\ \A i \in DOMAIN q : q[i] \in E => P # {}
    BY DEF Members
  <1>5. Cardinality(P) \in Nat /\ (P # {} => Cardinality(P) > 0)
    <2> HIDE DEF P
    <2> QED
      BY <1>3, FS_CardinalityType, FS_EmptySet
  <1>6. Members(q, E) \in Nat /\ \A i \in DOMAIN q : q[i] \in E => Members(q, E) > 0
    <2> HIDE DEF P
    <2> QED
      BY <1>4, <1>5
  <1> QED
    BY <1>3, <1>6

\* Appending an element of the set adds a member.
LEMMA MembersAppend ==
    ASSUME NEW S, NEW q \in Seq(S), NEW m \in S, NEW E
    PROVE  Members(Append(q, m), E) = Members(q, E) + (IF m \in E THEN 1 ELSE 0)
  <1> DEFINE P == {i \in DOMAIN q : q[i] \in E}
             N == {i \in DOMAIN Append(q, m) : Append(q, m)[i] \in E}
  <1>1. /\ DOMAIN q = 1..Len(q) /\ Len(q) \in Nat /\ DOMAIN Append(q, m) = 1..(Len(q) + 1)
        /\ \A i \in DOMAIN q : Append(q, m)[i] = q[i]
        /\ Append(q, m)[Len(q) + 1] = m
    OBVIOUS
  <1>2. N = IF m \in E THEN P \cup {Len(q) + 1} ELSE P
    BY <1>1
  <1>3. IsFiniteSet(P) /\ Members(q, E) \in Nat
    BY MembersNat
  <1>4. Len(q) + 1 \notin P
    BY <1>1
  <1>5. Members(q, E) = Cardinality(P) /\ Members(Append(q, m), E) = Cardinality(N)
    BY DEF Members
  <1> HIDE DEF P, N
  <1>6. Cardinality(P \cup {Len(q) + 1}) = Cardinality(P) + 1
    BY <1>3, <1>4, FS_AddElement
  <1> QED
    BY <1>2, <1>3, <1>5, <1>6

\* Taking the first element takes one member if it is in the set.
LEMMA MembersTail ==
    ASSUME NEW S, NEW q \in Seq(S), q # <<>>, NEW E
    PROVE  Members(q, E) = Members(Tail(q), E) + (IF Head(q) \in E THEN 1 ELSE 0)
  <1> DEFINE P == {i \in DOMAIN q : q[i] \in E}
             T == {i \in DOMAIN Tail(q) : Tail(q)[i] \in E}
             next == [i \in T |-> i + 1]
  <1>1. /\ DOMAIN q = 1..Len(q) /\ Len(q) \in Nat \ {0} /\ Head(q) = q[1] /\ Tail(q) \in Seq(S)
        /\ DOMAIN Tail(q) = 1..(Len(q) - 1) /\ \A i \in DOMAIN Tail(q) : Tail(q)[i] = q[i + 1]
    OBVIOUS
  <1>2. next \in Bijection(T, P \ {1})
    <2>1. next \in [T -> P \ {1}]
      BY <1>1
    <2>2. \A i, j \in T : next[i] = next[j] => i = j
      BY <1>1
    <2>3. \A k \in P \ {1} : k - 1 \in T /\ next[k - 1] = k
      BY <1>1
    <2> HIDE DEF P, T, next
    <2> QED
      BY <2>1, <2>2, <2>3, Fun_IsBij
  <1>3. IsFiniteSet(P) /\ IsFiniteSet(T) /\ Cardinality(P) \in Nat /\ Cardinality(T) \in Nat
    BY <1>1, MembersNat DEF Members
  <1>4. Cardinality(T) = Cardinality(P \ {1})
    BY <1>2, <1>3, FS_Bijection, ZenonT(60) DEF ExistsBijection
  <1>5. Cardinality(P \ {1}) = IF 1 \in P THEN Cardinality(P) - 1 ELSE Cardinality(P)
    BY <1>3, FS_RemoveElement
  <1>6. 1 \in P <=> Head(q) \in E
    BY <1>1
  <1>7. Cardinality(P) = Cardinality(T) + (IF Head(q) \in E THEN 1 ELSE 0)
    <2> HIDE DEF P, T, next
    <2> QED
      BY <1>3, <1>4, <1>5, <1>6
  <1> QED
    BY <1>7 DEF Members

\* Putting an element of the set in front adds a member.
LEMMA MembersCons ==
    ASSUME NEW S, NEW q \in Seq(S), NEW m \in S, NEW E
    PROVE  Members(<<m>> \o q, E) = Members(q, E) + (IF m \in E THEN 1 ELSE 0)
  <1>1. <<m>> \o q \in Seq(S) /\ <<m>> \o q # <<>>
        /\ Head(<<m>> \o q) = m /\ Tail(<<m>> \o q) = q
    OBVIOUS
  <1> DEFINE new == <<m>> \o q
  <1> HIDE DEF new
  <1>2. Members(new, E) = Members(Tail(new), E) + (IF Head(new) \in E THEN 1 ELSE 0)
    BY <1>1, MembersTail DEF new
  <1> QED
    BY <1>1, <1>2 DEF new

\* Replacing the first element replaces one member.
LEMMA MembersReplaced ==
    ASSUME NEW S, NEW q \in Seq(S), q # <<>>, NEW m \in S, NEW E
    PROVE  Members([q EXCEPT ![1] = m], E) + (IF q[1] \in E THEN 1 ELSE 0)
               = Members(q, E) + (IF m \in E THEN 1 ELSE 0)
  <1> DEFINE new == [q EXCEPT ![1] = m]
  <1>1. /\ new \in Seq(S) /\ new # <<>> /\ Head(new) = m /\ Head(q) = q[1]
        /\ Tail(q) \in Seq(S)
    OBVIOUS
  <1>2. Tail(new) = Tail(q)
    <2>1. Len(new) = Len(q) /\ \A i \in 2..Len(q) : new[i] = q[i]
      OBVIOUS
    <2> QED
      BY <1>1, <2>1
  <1> HIDE DEF new
  <1>3. Members(Tail(q), E) \in Nat
    BY <1>1, MembersNat
  <1>4. /\ Members(q, E) = Members(Tail(q), E) + (IF q[1] \in E THEN 1 ELSE 0)
        /\ Members(new, E) = Members(Tail(q), E) + (IF m \in E THEN 1 ELSE 0)
    BY <1>1, <1>2, MembersTail, ZenonT(60)
  <1>5. Members(new, E) + (IF q[1] \in E THEN 1 ELSE 0)
            = Members(q, E) + (IF m \in E THEN 1 ELSE 0)
    BY <1>3, <1>4
  <1> QED
    BY <1>5 DEF new

\* How often an element occurs in a sequence is a natural number.
LEMMA OccurrencesNat ==
    ASSUME NEW S, NEW q \in Seq(S), NEW f
    PROVE  /\ Occurrences(q, f) \in Nat /\ IsFiniteSet({i \in DOMAIN q : q[i] = f})
           /\ \A i \in DOMAIN q : q[i] = f => Occurrences(q, f) > 0
  <1>1. {i \in DOMAIN q : q[i] = f} = {i \in DOMAIN q : q[i] \in {f}}
    OBVIOUS
  <1> QED
    BY <1>1, MembersNat, OccurrencesMembers

\* Appending an element adds an occurrence of it and of no other.
LEMMA OccurrencesAppend ==
    ASSUME NEW S, NEW q \in Seq(S), NEW m \in S, NEW f
    PROVE  Occurrences(Append(q, m), f) = Occurrences(q, f) + (IF m = f THEN 1 ELSE 0)
  <1>1. Members(Append(q, m), {f}) = Members(q, {f}) + (IF m \in {f} THEN 1 ELSE 0)
    BY MembersAppend
  <1> QED
    BY <1>1, OccurrencesMembers, Zenon

\* Taking the first element takes one occurrence of that element and of no other.
LEMMA OccurrencesTail ==
    ASSUME NEW S, NEW q \in Seq(S), q # <<>>, NEW f
    PROVE  Occurrences(q, f) = Occurrences(Tail(q), f) + (IF Head(q) = f THEN 1 ELSE 0)
  <1>1. Members(q, {f}) = Members(Tail(q), {f}) + (IF Head(q) \in {f} THEN 1 ELSE 0)
    BY MembersTail
  <1> QED
    BY <1>1, OccurrencesMembers, Zenon

\* Putting an element in front adds an occurrence of it and of no other.
LEMMA OccurrencesCons ==
    ASSUME NEW S, NEW q \in Seq(S), NEW m \in S, NEW f
    PROVE  Occurrences(<<m>> \o q, f) = Occurrences(q, f) + (IF m = f THEN 1 ELSE 0)
  <1>1. Members(<<m>> \o q, {f}) = Members(q, {f}) + (IF m \in {f} THEN 1 ELSE 0)
    BY MembersCons
  <1> QED
    BY <1>1, OccurrencesMembers, Zenon

\* An element that occurs is somewhere, and one that occurs once is in one place.
LEMMA OccurrencesPlaces ==
    ASSUME NEW S, NEW q \in Seq(S), NEW f
    PROVE  /\ Occurrences(q, f) > 0 => \E i \in DOMAIN q : q[i] = f
           /\ Occurrences(q, f) <= 1 => \A i, j \in DOMAIN q : q[i] = f /\ q[j] = f => i = j
           /\ (\A i \in DOMAIN q : q[i] # f) => Occurrences(q, f) = 0
  <1> DEFINE P == {i \in DOMAIN q : q[i] = f}
  <1>1. IsFiniteSet(P) /\ Cardinality(P) = Occurrences(q, f) /\ Occurrences(q, f) \in Nat
    BY OccurrencesNat DEF Occurrences
  <1>2. Occurrences(q, f) = 0 <=> P = {}
    BY <1>1, FS_EmptySet
  <1>3. Occurrences(q, f) = 1 => \E x : P = {x}
    BY <1>1, FS_Singleton
  <1>4. P = {} => \A i \in DOMAIN q : q[i] # f
    OBVIOUS
  <1>5. (\A i \in DOMAIN q : q[i] # f) => P = {}
    OBVIOUS
  <1>6. P # {} => \E i \in DOMAIN q : q[i] = f
    OBVIOUS
  <1>7. (\E x : P = {x}) => \A i, j \in DOMAIN q : q[i] = f /\ q[j] = f => i = j
    OBVIOUS
  <1> HIDE DEF P
  <1>8. Occurrences(q, f) > 0 => P # {}
    BY <1>1, <1>2
  <1>9. Occurrences(q, f) <= 1 => P = {} \/ \E x : P = {x}
    <2>1. Occurrences(q, f) <= 1 => Occurrences(q, f) = 0 \/ Occurrences(q, f) = 1
      BY <1>1
    <2> QED
      BY <1>2, <1>3, <2>1, Zenon
  <1> QED
    BY <1>2, <1>4, <1>5, <1>6, <1>7, <1>8, <1>9, Zenon

\* A sequence of which no element occurs more than b times is no longer than b times the
\* number of its elements: each place has an element and a rank among those that hold it.
LEMMA LengthBound ==
    ASSUME NEW R, IsFiniteSet(R), NEW q \in Seq(R), NEW b \in Nat,
           \A r \in R : Occurrences(q, r) <= b
    PROVE  Len(q) <= Cardinality(R) * b
  <1> DEFINE Upto(i) == {j \in 1..i : q[j] = q[i]}
             rank == [i \in 1..Len(q) |-> <<q[i], Cardinality(Upto(i))>>]
  <1>1. Len(q) \in Nat /\ DOMAIN q = 1..Len(q) /\ \A i \in 1..Len(q) : q[i] \in R
    OBVIOUS
  <1>2. ASSUME NEW i \in 1..Len(q)
        PROVE  IsFiniteSet(Upto(i)) /\ Cardinality(Upto(i)) \in 1..b
    <2> DEFINE All == {j \in DOMAIN q : q[j] = q[i]}
    <2>1. IsFiniteSet(All) /\ Cardinality(All) <= b
      BY <1>1, <1>2, OccurrencesNat DEF Occurrences
    <2>2. Upto(i) \subseteq All /\ i \in Upto(i)
      BY <1>1, <1>2
    <2> HIDE DEF All, Upto
    <2>3. IsFiniteSet(Upto(i)) /\ Cardinality(Upto(i)) <= Cardinality(All)
      BY <2>1, <2>2, FS_Subset
    <2>4. Cardinality(Upto(i)) \in Nat /\ Cardinality(All) \in Nat /\ Cardinality(Upto(i)) # 0
      BY <2>1, <2>2, <2>3, FS_CardinalityType, FS_EmptySet
    <2> QED
      BY <2>1, <2>3, <2>4
  <1>3. ASSUME NEW i \in 1..Len(q), NEW j \in 1..Len(q), i < j, q[i] = q[j]
        PROVE  Cardinality(Upto(i)) # Cardinality(Upto(j))
    <2>1. Upto(i) \subseteq Upto(j) /\ Upto(i) # Upto(j)
      BY <1>3
    <2> HIDE DEF Upto
    <2>2. Cardinality(Upto(i)) < Cardinality(Upto(j))
      BY <1>2, <2>1, FS_Subset
    <2>3. Cardinality(Upto(i)) \in Nat /\ Cardinality(Upto(j)) \in Nat
      BY <1>2
    <2> QED
      BY <2>2, <2>3
  <1>4. rank \in [1..Len(q) -> R \X (1..b)]
    BY <1>1, <1>2
  <1>5. \A i, j \in 1..Len(q) : rank[i] = rank[j] => i = j
    <2> SUFFICES ASSUME NEW i \in 1..Len(q), NEW j \in 1..Len(q), rank[i] = rank[j], i # j
                 PROVE  FALSE
      OBVIOUS
    <2>1. q[i] = q[j] /\ Cardinality(Upto(i)) = Cardinality(Upto(j))
      OBVIOUS
    <2>2. i < j \/ j < i
      BY <1>1
    <2> HIDE DEF Upto
    <2> QED
      BY <1>3, <2>1, <2>2
  <1> HIDE DEF rank
  <1>6. rank \in Injection(1..Len(q), R \X (1..b))
    BY <1>4, <1>5 DEF Injection, IsInjective
  <1>a. ASSUME NEW n \in Nat PROVE IsFiniteSet(1..n) /\ Cardinality(1..n) = n
    <2>1. /\ 1 \in Int /\ n \in Int /\ IsFiniteSet(1..n)
          /\ Cardinality(1..n) = IF 1 > n THEN 0 ELSE n - 1 + 1
      BY FS_Interval
    <2> QED
      BY <2>1
  <1>7. IsFiniteSet(1..b) /\ Cardinality(1..b) = b
    BY <1>a
  <1>8. IsFiniteSet(1..Len(q)) /\ Cardinality(1..Len(q)) = Len(q)
    BY <1>1, <1>a
  <1>9. IsFiniteSet(R \X (1..b)) /\ Cardinality(R \X (1..b)) = Cardinality(R) * b
    BY <1>7, FS_Product
  <1>10. Cardinality(1..Len(q)) <= Cardinality(R \X (1..b))
    BY <1>6, <1>9, FS_Injection
  <1> QED
    BY <1>8, <1>9, <1>10

\* A sequence without repetitions is as long as it has elements.
Once(s) == \A i, j \in DOMAIN s : s[i] = s[j] => i = j

\* The positions and the elements of such a sequence correspond one to one.
LEMMA OnceLength ==
    ASSUME NEW S, NEW s \in Seq(S), Once(s)
    PROVE  Len(s) = Cardinality({s[i] : i \in DOMAIN s})
  <1> DEFINE T == {s[i] : i \in DOMAIN s}
  <1>1. Len(s) \in Nat /\ DOMAIN s = 1..Len(s) /\ s \in [1..Len(s) -> T]
    OBVIOUS
  <1>2. \A x \in T : \E i \in 1..Len(s) : s[i] = x
    BY <1>1
  <1> HIDE DEF T
  <1>3. s \in Bijection(1..Len(s), T)
    BY <1>1, <1>2, Fun_IsBij DEF Once
  <1>4. IsFiniteSet(1..Len(s)) /\ Cardinality(1..Len(s)) = Len(s)
    <2>1. 1 \in Int /\ Len(s) \in Int
      BY <1>1
    <2>2. /\ IsFiniteSet(1..Len(s))
          /\ Cardinality(1..Len(s)) = IF 1 > Len(s) THEN 0 ELSE Len(s) - 1 + 1
      BY <2>1, FS_Interval
    <2> QED
      BY <1>1, <2>2
  <1>5. Len(s) = Cardinality(T)
    BY <1>3, <1>4, FS_Bijection DEF ExistsBijection
  <1> QED
    BY <1>5 DEF T
=============================================================================
