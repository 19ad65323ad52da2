------------------------- MODULE MeteringBufferProofs -------------------------
(***************************************************************************)
(* What MeteringBuffer checks on three runs, for every set of records,       *)
(* flushers and builds, every size and every batch width: each record is in  *)
(* one place, the deques are bounded, the counters are exact, the order of   *)
(* replay is kept, and the buffer implements DeliveryContract.               *)
(*                                                                          *)
(* The argument.  Only the holder of the flush lock has a batch, only a      *)
(* flusher at "return" has tasks to hand back, and a build belongs to one    *)
(* flusher until it is handed over (Control).  So a step touches the line    *)
(* batch \o parked \o events, at most one build or those of a takeover, and  *)
(* its own hand-back; what leaves one of these joins another, or leaves for  *)
(* good (EachRecordInOnePlace).  The line loses elements, keeps the order of *)
(* the rest, and gains events at its end; tasks handed back join it in front,*)
(* where no order is due to them before they are built (OrderKept).  Each    *)
(* step takes in new records and lets others go with an outcome each         *)
(* (Exchanges): the counters count that exchange (TotalsExact), and the      *)
(* contract allows it (KeepsContract).                                       *)
(*                                                                          *)
(* Last, the answer of the exit drain (QuietExitHolds), where threads can be *)
(* started and nothing is being handed back as it begins: until its deadline *)
(* each overflowed record it found is in its own build, or is the task of a  *)
(* build it waits for (ChaseFits).                                           *)
(***************************************************************************)
EXTENDS MeteringBuffer, SequenceTheorems, FiniteSetTheorems, WellFoundedInduction, TLAPS

-----------------------------------------------------------------------------
(* Induction over the numbers in a set, for sets rather than for operators.  *)

LEMMA NatSetInduction ==
    ASSUME NEW S \in SUBSET Nat, 0 \in S, \A n \in S : n + 1 \in S
    PROVE  S = Nat
<1>1. SUFFICES ASSUME Nat \ S # {} PROVE FALSE
  OBVIOUS
<1> DEFINE R == OpToRel(<, Nat)
<1>2. IsWellFoundedOn(R, Nat)
  BY NatLessThanWellFounded
<1>3. \A n \in Nat : n # 0 => n - 1 \in Nat /\ <<n - 1, n>> \in R
  BY DEF OpToRel
<1> HIDE DEF R
<1>4. PICK x \in Nat \ S : \A y \in Nat \ S : ~(<<y, x>> \in R)
  BY <1>1, <1>2, WFMin
<1>5. x # 0
  BY <1>4
<1>6. x - 1 \in S
  BY <1>3, <1>4, <1>5
<1>7. (x - 1) + 1 \in S
  BY <1>6
<1> QED  BY <1>4, <1>7

LEMMA UpToInduction ==
    ASSUME NEW N \in Nat, NEW S, 0 \in S, \A n \in 0 .. N : n < N /\ n \in S => n + 1 \in S
    PROVE  0 .. N \subseteq S
<1> DEFINE A == {n \in Nat : n <= N => n \in S}
<1>1. 0 \in A
  OBVIOUS
<1>2. \A n \in A : n + 1 \in A
  OBVIOUS
<1>3. A = Nat
  BY <1>1, <1>2, NatSetInduction
<1> QED  BY <1>3

\* f starts at v and goes on by G.
Follows(f, n, v, G) == f[0] = v /\ \A i \in 1 .. n : f[i] = G[<<i, f[i - 1]>>]

\* A function defined from its value at the number before exists.
LEMMA RecursionExists ==
    ASSUME NEW N \in Nat, NEW V, NEW v \in V, NEW G \in [(1 .. N) \X V -> V]
    PROVE  \E f \in [0 .. N -> V] : Follows(f, N, v, G)
<1> DEFINE D == {n \in 0 .. N : \E f \in [0 .. n -> V] : Follows(f, n, v, G)}
<1>1. 0 \in D
  <2>1. [i \in 0 .. 0 |-> v] \in [0 .. 0 -> V] /\ Follows([i \in 0 .. 0 |-> v], 0, v, G)
    BY DEF Follows
  <2> QED  BY <2>1
<1>2. ASSUME NEW n \in 0 .. N, n < N, n \in D
      PROVE  n + 1 \in D
  <2>1. PICK f \in [0 .. n -> V] : Follows(f, n, v, G)
    BY <1>2
  <2> DEFINE g == [i \in 0 .. n + 1 |-> IF i <= n THEN f[i] ELSE G[<<n + 1, f[n]>>]]
  <2>2. n \in Nat /\ n + 1 \in 0 .. N /\ n + 1 \in 1 .. N /\ f[n] \in V
    BY <1>2
  <2>3. G[<<n + 1, f[n]>>] \in V
    BY <2>2
  <2>4. g \in [0 .. n + 1 -> V]
    BY <2>2, <2>3
  <2>5. g[0] = v
    BY <2>1, <2>2 DEF Follows
  <2>6. ASSUME NEW i \in 1 .. n + 1 PROVE g[i] = G[<<i, g[i - 1]>>]
    <3>1. i - 1 \in 0 .. n /\ g[i - 1] = f[i - 1]
      BY <2>2
    <3>2. CASE i <= n
      <4>1. i \in 1 .. n /\ g[i] = f[i]
        BY <2>2, <3>2
      <4> QED  BY <2>1, <3>1, <4>1 DEF Follows
    <3>3. CASE i = n + 1
      <4>1. g[i] = G[<<n + 1, f[n]>>] /\ i - 1 = n
        BY <2>2, <3>3
      <4> QED  BY <3>1, <3>3, <4>1
    <3> QED  BY <2>2, <3>2, <3>3
  <2>7. Follows(g, n + 1, v, G)
    <3> HIDE DEF g
    <3> QED  BY <2>5, <2>6 DEF Follows
  <2> HIDE DEF g
  <2>8. \E h \in [0 .. n + 1 -> V] : Follows(h, n + 1, v, G)
    BY <2>4, <2>7
  <2> QED  BY <2>2, <2>8
<1>3. N \in D
  <2>1. 0 .. N \subseteq D
    <3> HIDE DEF D
    <3> QED  BY <1>1, <1>2, UpToInduction
  <2> QED  BY <2>1
<1> QED  BY <1>3

-----------------------------------------------------------------------------
(* Only.                                                                     *)

\* f gathers the elements of s in S.
Gathers(f, s, S) ==
    /\ f[0] = <<>>
    /\ \A i \in 1 .. Len(s) : f[i] = IF s[i] \in S THEN Append(f[i - 1], s[i]) ELSE f[i - 1]

LEMMA OnlyUpTo ==
    ASSUME NEW T, NEW s \in Seq(T), NEW S
    PROVE  \E f \in [0 .. Len(s) -> Seq(T)] : Gathers(f, s, S) /\ Only(s, S) = f[Len(s)]
<1> DEFINE N == Len(s)
           G == [x \in (1 .. N) \X Seq(T) |-> IF s[x[1]] \in S THEN Append(x[2], s[x[1]]) ELSE x[2]]
<1>0. N \in Nat /\ <<>> \in Seq(T) /\ \A i \in 1 .. N : s[i] \in T
  OBVIOUS
<1>1. G \in [(1 .. N) \X Seq(T) -> Seq(T)]
  BY <1>0
<1>2. \E f \in [0 .. N -> Seq(T)] : Follows(f, N, <<>>, G)
  <2> HIDE DEF G, N
  <2> QED  BY <1>0, <1>1, RecursionExists
<1>3. PICK f \in [0 .. N -> Seq(T)] : Follows(f, N, <<>>, G)
  BY <1>2
<1>4. ASSUME NEW i \in 1 .. N
      PROVE  f[i] = IF s[i] \in S THEN Append(f[i - 1], s[i]) ELSE f[i - 1]
  <2>1. f[i] = G[<<i, f[i - 1]>>]
    BY <1>3 DEF Follows
  <2>2. i - 1 \in 0 .. N /\ <<i, f[i - 1]>> \in (1 .. N) \X Seq(T)
    <3>1. i - 1 \in 0 .. N
      BY <1>0
    <3>2. f[i - 1] \in Seq(T)
      BY <3>1
    <3> QED  BY <3>1, <3>2
  <2>3. G[<<i, f[i - 1]>>] = IF s[i] \in S THEN Append(f[i - 1], s[i]) ELSE f[i - 1]
    BY <2>2
  <2> QED  BY <2>1, <2>3
<1>5. Gathers(f, s, S)
  BY <1>3, <1>4 DEF Gathers, Follows
<1> DEFINE Value(h, i) == IF i = 0 THEN <<>> ELSE IF s[i] \in S THEN Append(h[i - 1], s[i]) ELSE h[i - 1]
<1>6. f = [i \in 0 .. N |-> Value(f, i)]
  <2>1. ASSUME NEW i \in 0 .. N PROVE f[i] = Value(f, i)
    <3>1. CASE i = 0
      BY <1>5, <3>1 DEF Gathers
    <3>2. CASE i # 0
      <4>1. i \in 1 .. N
        BY <1>0, <3>2
      <4> QED  BY <1>5, <3>2, <4>1 DEF Gathers
    <3> QED  BY <3>1, <3>2
  <2> HIDE DEF Value
  <2> QED  BY <2>1
<1>7. ASSUME NEW g, g = [i \in 0 .. N |-> Value(g, i)]
      PROVE  g[N] = f[N]
  <2> DEFINE D == {n \in 0 .. N : g[n] = f[n]}
  <2>1. 0 \in D
    <3>1. 0 \in 0 .. N /\ Value(g, 0) = Value(f, 0)
      BY <1>0
    <3> HIDE DEF Value
    <3> QED  BY <1>6, <1>7, <3>1
  <2>2. ASSUME NEW n \in 0 .. N, n < N, n \in D PROVE n + 1 \in D
    <3>1. n + 1 \in 0 .. N /\ n + 1 # 0 /\ (n + 1) - 1 = n
      BY <1>0, <2>2
    <3>2. Value(g, n + 1) = Value(f, n + 1)
      BY <2>2, <3>1
    <3> HIDE DEF Value
    <3>3. g[n + 1] = Value(g, n + 1) /\ f[n + 1] = Value(f, n + 1)
      BY <1>6, <1>7, <3>1
    <3> QED  BY <3>1, <3>2, <3>3
  <2>3. 0 .. N \subseteq D
    <3> HIDE DEF D, N
    <3> QED  BY <1>0, <2>1, <2>2, UpToInduction
  <2> QED  BY <1>0, <2>3
<1>8. Only(s, S) = (CHOOSE g : g = [i \in 0 .. N |-> Value(g, i)])[N]
  BY DEF Only
<1>9. Only(s, S) = f[N]
  <2> HIDE DEF Value, N
  <2> QED  BY <1>6, <1>7, <1>8
<1> QED  BY <1>5, <1>9

-----------------------------------------------------------------------------
(* Sequences: their elements, the order of their elements, their parts.      *)

LEMMA RangeFacts ==
    ASSUME NEW T, NEW s \in Seq(T), NEW x
    PROVE  /\ x \in Range(s) <=> \E i \in 1 .. Len(s) : s[i] = x
           /\ Range(s) \subseteq T
BY RangeEquality, RangeOfSeq

LEMMA BeforeFacts ==
    ASSUME NEW T, NEW s \in Seq(T), NEW x, NEW y, Before(s, x, y)
    PROVE  x \in Range(s) /\ y \in Range(s)
BY DEF Before, Range

\* A sequence has an element once when the element does not come before itself.
LEMMA InjectiveIsBefore ==
    ASSUME NEW T, NEW s \in Seq(T)
    PROVE  IsInjective(s) <=> \A x : ~Before(s, x, x)
<1>1. DOMAIN s = 1 .. Len(s) /\ Len(s) \in Nat
  OBVIOUS
<1>2. ASSUME IsInjective(s), NEW x, Before(s, x, x) PROVE FALSE
  BY <1>1, <1>2 DEF IsInjective, Before
<1>3. ASSUME \A x : ~Before(s, x, x), NEW i \in DOMAIN s, NEW j \in DOMAIN s, s[i] = s[j], i # j
      PROVE  FALSE
  <2>1. CASE i < j
    BY <1>3, <2>1 DEF Before
  <2>2. CASE j < i
    BY <1>3, <2>2 DEF Before
  <2> QED  BY <1>1, <1>3, <2>1, <2>2
<1> QED  BY <1>2, <1>3 DEF IsInjective

LEMMA BeforeConcat ==
    ASSUME NEW T, NEW s \in Seq(T), NEW t \in Seq(T), NEW x, NEW y
    PROVE  Before(s \o t, x, y) <=>
               Before(s, x, y) \/ Before(t, x, y) \/ (x \in Range(s) /\ y \in Range(t))
<1> DEFINE u == s \o t
<1>1. /\ Len(s) \in Nat /\ Len(t) \in Nat /\ Len(u) = Len(s) + Len(t) /\ u \in Seq(T)
      /\ DOMAIN s = 1 .. Len(s) /\ DOMAIN t = 1 .. Len(t) /\ DOMAIN u = 1 .. Len(s) + Len(t)
  OBVIOUS
<1>2. \A i \in 1 .. Len(s) : u[i] = s[i] /\ i \in DOMAIN u
  OBVIOUS
<1>3. \A i \in 1 .. Len(t) : u[Len(s) + i] = t[i] /\ Len(s) + i \in DOMAIN u
  OBVIOUS
<1> HIDE DEF u
<1>4. ASSUME Before(s, x, y) PROVE Before(u, x, y)
  BY <1>1, <1>2, <1>4 DEF Before
<1>5. ASSUME Before(t, x, y) PROVE Before(u, x, y)
  <2>1. PICK i \in 1 .. Len(t), j \in 1 .. Len(t) : i < j /\ t[i] = x /\ t[j] = y
    BY <1>1, <1>5 DEF Before
  <2>2. Len(s) + i < Len(s) + j
    BY <1>1, <2>1
  <2> QED  BY <1>3, <2>1, <2>2 DEF Before
<1>6. ASSUME x \in Range(s), y \in Range(t) PROVE Before(u, x, y)
  <2>1. PICK i \in 1 .. Len(s) : s[i] = x
    BY <1>6, RangeFacts
  <2>2. PICK j \in 1 .. Len(t) : t[j] = y
    BY <1>6, RangeFacts
  <2>3. i < Len(s) + j
    BY <1>1
  <2> QED  BY <1>2, <1>3, <2>1, <2>2, <2>3 DEF Before
<1>7. ASSUME Before(u, x, y)
      PROVE  Before(s, x, y) \/ Before(t, x, y) \/ (x \in Range(s) /\ y \in Range(t))
  <2>1. PICK i \in DOMAIN u, j \in DOMAIN u : i < j /\ u[i] = x /\ u[j] = y
    BY <1>7 DEF Before
  <2>2. CASE j <= Len(s)
    <3>1. i \in 1 .. Len(s) /\ j \in 1 .. Len(s) /\ s[i] = x /\ s[j] = y
      BY <1>1, <1>2, <2>1, <2>2
    <3> QED  BY <1>1, <2>1, <3>1 DEF Before
  <2>3. CASE i <= Len(s) /\ j > Len(s)
    <3>1. i \in 1 .. Len(s) /\ s[i] = x
      BY <1>1, <1>2, <2>1, <2>3
    <3>2. j - Len(s) \in 1 .. Len(t) /\ Len(s) + (j - Len(s)) = j
      BY <1>1, <2>1, <2>3
    <3>3. t[j - Len(s)] = y
      BY <1>3, <2>1, <3>2
    <3> QED  BY <3>1, <3>2, <3>3, RangeFacts
  <2>4. CASE i > Len(s) /\ j > Len(s)
    <3>1. /\ i - Len(s) \in 1 .. Len(t) /\ Len(s) + (i - Len(s)) = i
          /\ j - Len(s) \in 1 .. Len(t) /\ Len(s) + (j - Len(s)) = j
          /\ i - Len(s) < j - Len(s)
      BY <1>1, <2>1, <2>4
    <3>2. t[i - Len(s)] = x /\ t[j - Len(s)] = y
      BY <1>3, <2>1, <3>1
    <3> QED  BY <1>1, <3>1, <3>2 DEF Before
  <2> QED  BY <1>1, <2>1, <2>2, <2>3, <2>4
<1> QED  BY <1>4, <1>5, <1>6, <1>7 DEF u

LEMMA InjectiveConcat ==
    ASSUME NEW T, NEW s \in Seq(T), NEW t \in Seq(T)
    PROVE  IsInjective(s \o t) <=>
               IsInjective(s) /\ IsInjective(t) /\ \A x : ~(x \in Range(s) /\ x \in Range(t))
<1>1. IsInjective(s \o t) <=> \A x : ~Before(s \o t, x, x)
  <2>1. s \o t \in Seq(T)
    OBVIOUS
  <2> QED  BY <2>1, InjectiveIsBefore
<1>2. /\ IsInjective(s) <=> \A x : ~Before(s, x, x)
      /\ IsInjective(t) <=> \A x : ~Before(t, x, x)
  BY InjectiveIsBefore
<1>3. \A x : Before(s \o t, x, x) <=>
                 Before(s, x, x) \/ Before(t, x, x) \/ (x \in Range(s) /\ x \in Range(t))
  BY BeforeConcat
<1> QED  BY <1>1, <1>2, <1>3

LEMMA OneElement ==
    ASSUME NEW T, NEW e \in T, NEW x, NEW y
    PROVE  /\ <<e>> \in Seq(T) /\ (x \in Range(<<e>>) <=> x = e) /\ ~Before(<<e>>, x, y)
           /\ IsInjective(<<e>>) /\ Len(<<e>>) = 1
BY DEF Range, Before, IsInjective

LEMMA NoElement ==
    ASSUME NEW x, NEW y
    PROVE  /\ x \notin Range(<<>>) /\ ~Before(<<>>, x, y) /\ IsInjective(<<>>)
BY DEF Range, Before, IsInjective

LEMMA BeforeAppend ==
    ASSUME NEW T, NEW s \in Seq(T), NEW e \in T, NEW x, NEW y
    PROVE  /\ Append(s, e) \in Seq(T) /\ Len(Append(s, e)) = Len(s) + 1
           /\ x \in Range(Append(s, e)) <=> x \in Range(s) \/ x = e
           /\ Before(Append(s, e), x, y) <=> Before(s, x, y) \/ (x \in Range(s) /\ y = e)
<1> DEFINE t == <<e>>
<1>1. Append(s, e) = s \o t
  BY AppendIsConcat
<1>2. /\ t \in Seq(T) /\ ~Before(t, x, y)
      /\ x \in Range(t) <=> x = e
      /\ y \in Range(t) <=> y = e
  BY OneElement
<1> HIDE DEF t
<1>3. Range(s \o t) = Range(s) \cup Range(t)
  BY <1>2, RangeConcatenation
<1>4. Before(s \o t, x, y) <=>
          Before(s, x, y) \/ Before(t, x, y) \/ (x \in Range(s) /\ y \in Range(t))
  BY <1>2, BeforeConcat
<1>5. Append(s, e) \in Seq(T) /\ Len(Append(s, e)) = Len(s) + 1
  OBVIOUS
<1> QED  BY <1>1, <1>2, <1>3, <1>4, <1>5

LEMMA InjectiveAppend ==
    ASSUME NEW T, NEW s \in Seq(T), NEW e \in T
    PROVE  IsInjective(Append(s, e)) <=> IsInjective(s) /\ e \notin Range(s)
<1>1. IsInjective(Append(s, e)) <=> \A x : ~Before(Append(s, e), x, x)
  <2>1. Append(s, e) \in Seq(T)
    OBVIOUS
  <2> QED  BY <2>1, InjectiveIsBefore
<1>2. IsInjective(s) <=> \A x : ~Before(s, x, x)
  BY InjectiveIsBefore
<1>3. \A x : Before(Append(s, e), x, x) <=> Before(s, x, x) \/ (x \in Range(s) /\ x = e)
  BY BeforeAppend
<1> QED  BY <1>1, <1>2, <1>3

\* The first n elements and the rest.
LEMMA DropFacts ==
    ASSUME NEW T, NEW s \in Seq(T), NEW n \in 0 .. Len(s)
    PROVE  /\ SubSeq(s, 1, n) \in Seq(T) /\ Len(SubSeq(s, 1, n)) = n
           /\ Drop(s, n) \in Seq(T) /\ Len(Drop(s, n)) = Len(s) - n
           /\ SubSeq(s, 1, n) \o Drop(s, n) = s
<1>1. Len(s) \in Nat /\ n \in Int /\ Len(s) \in Int /\ n + 1 \in Int /\ \A i \in 1 .. Len(s) : s[i] \in T
  OBVIOUS
<1>2. SubSeq(s, 1, n) \in Seq(T) /\ Len(SubSeq(s, 1, n)) = n
  <2>1. \A i \in 1 .. n : s[i] \in T
    BY <1>1
  <2> QED  BY <1>1, <2>1, SubSeqProperties
<1>3. Drop(s, n) \in Seq(T) /\ Len(Drop(s, n)) = Len(s) - n
  <2>1. \A i \in n + 1 .. Len(s) : s[i] \in T
    BY <1>1
  <2>2. /\ SubSeq(s, n + 1, Len(s)) \in Seq(T)
        /\ Len(SubSeq(s, n + 1, Len(s))) = IF n + 1 <= Len(s) THEN Len(s) - (n + 1) + 1 ELSE 0
    BY <1>1, <2>1, SubSeqProperties
  <2> QED  BY <1>1, <2>2 DEF Drop
<1>4. SubSeq(s, 1, n) \o Drop(s, n) = s
  <2>1. 1 \in 1 .. Len(s) + 1 /\ n \in 1 - 1 .. Len(s) /\ Len(s) \in n .. Len(s)
    BY <1>1
  <2>2. SubSeq(s, 1, n) \o SubSeq(s, n + 1, Len(s)) = SubSeq(s, 1, Len(s))
    BY <2>1, ConcatAdjacentSubSeq
  <2> QED  BY <2>2, SubSeqFull DEF Drop
<1> QED  BY <1>2, <1>3, <1>4

\* What SubSeq and Drop keep of the elements and of their order.
LEMMA PartsFacts ==
    ASSUME NEW T, NEW s \in Seq(T), NEW n \in 0 .. Len(s), NEW x, NEW y
    PROVE  /\ x \in Range(s) <=> x \in Range(SubSeq(s, 1, n)) \/ x \in Range(Drop(s, n))
           /\ Before(s, x, y) <=> \/ Before(SubSeq(s, 1, n), x, y) \/ Before(Drop(s, n), x, y)
                                  \/ x \in Range(SubSeq(s, 1, n)) /\ y \in Range(Drop(s, n))
<1> DEFINE first == SubSeq(s, 1, n)
           rest == Drop(s, n)
<1>1. first \in Seq(T) /\ rest \in Seq(T) /\ s = first \o rest
  BY DropFacts
<1> HIDE DEF first, rest
<1>2. Range(s) = Range(first) \cup Range(rest)
  BY <1>1, RangeConcatenation
<1>3. Before(s, x, y) <=>
          Before(first, x, y) \/ Before(rest, x, y) \/ (x \in Range(first) /\ y \in Range(rest))
  BY <1>1, BeforeConcat
<1> QED  BY <1>2, <1>3 DEF first, rest

LEMMA InjectiveParts ==
    ASSUME NEW T, NEW s \in Seq(T), NEW n \in 0 .. Len(s), IsInjective(s)
    PROVE  /\ IsInjective(SubSeq(s, 1, n)) /\ IsInjective(Drop(s, n))
           /\ \A x : ~(x \in Range(SubSeq(s, 1, n)) /\ x \in Range(Drop(s, n)))
<1> DEFINE first == SubSeq(s, 1, n)
           rest == Drop(s, n)
<1>1. first \in Seq(T) /\ rest \in Seq(T) /\ s = first \o rest
  BY DropFacts
<1> HIDE DEF first, rest
<1>2. IsInjective(first) /\ IsInjective(rest) /\ \A x : ~(x \in Range(first) /\ x \in Range(rest))
  BY <1>1, InjectiveConcat
<1> QED  BY <1>2 DEF first, rest

\* Dropping from two sequences in turn is dropping from their concatenation.
LEMMA DropConcat ==
    ASSUME NEW T, NEW p \in Seq(T), NEW e \in Seq(T), NEW n \in 0 .. Len(p) + Len(e)
    PROVE  /\ Drop(p \o e, n) = Drop(p, n) \o Drop(e, Minus(n, Len(p)))
           /\ Drop(p, n) \in Seq(T) /\ Drop(e, Minus(n, Len(p))) \in Seq(T)
<1>1. /\ Len(p) \in Nat /\ Len(e) \in Nat /\ n \in Nat
      /\ p \o e \in Seq(T) /\ Len(p \o e) = Len(p) + Len(e)
  OBVIOUS
<1>2. Drop(p \o e, n) \in Seq(T)
  <2>1. n \in 0 .. Len(p \o e)
    BY <1>1
  <2> QED  BY <1>1, <2>1, DropFacts
<1>3. CASE n <= Len(p)
  <2>1. n \in 0 .. Len(p) /\ 0 \in 0 .. Len(e) /\ Minus(n, Len(p)) = 0
    BY <1>1, <1>3 DEF Minus
  <2>2. /\ Drop(p, n) \in Seq(T) /\ SubSeq(p, 1, n) \in Seq(T) /\ SubSeq(p, 1, n) \o Drop(p, n) = p
    BY <1>1, <2>1, DropFacts
  <2>2b. SubSeq(p \o e, 1, n) \o Drop(p \o e, n) = p \o e
    <3>1. n \in 0 .. Len(p \o e)
      BY <1>1
    <3> QED  BY <1>1, <3>1, DropFacts
  <2>3. Drop(e, 0) = e
    BY SubSeqFull DEF Drop
  <2>4. SubSeq(p \o e, 1, n) = SubSeq(p, 1, n)
    <3>1. CASE n = 0
      BY <3>1, SubSeqEmpty
    <3>2. CASE n # 0
      <4>1. n \in 1 .. Len(p) /\ 1 \in 1 .. Len(p)
        BY <1>1, <2>1, <3>2
      <4> QED  BY <4>1, SubSeqOfConcat1
    <3> QED  BY <3>1, <3>2
  <2>5. SubSeq(p, 1, n) \o Drop(p \o e, n) = SubSeq(p, 1, n) \o (Drop(p, n) \o e)
    <3>1. (SubSeq(p, 1, n) \o Drop(p, n)) \o e = SubSeq(p, 1, n) \o (Drop(p, n) \o e)
      <4> DEFINE a == SubSeq(p, 1, n)
                 b == Drop(p, n)
      <4>1. a \in Seq(T) /\ b \in Seq(T)
        BY <2>2
      <4> HIDE DEF a, b
      <4>2. (a \o b) \o e = a \o (b \o e)
        BY <4>1, ConcatAssociative, SMTT(30)
      <4> QED  BY <4>2 DEF a, b
    <3> QED  BY <2>2, <2>2b, <2>4, <3>1
  <2>6. Drop(p, n) \o e \in Seq(T)
    BY <2>2
  <2>7. Drop(p \o e, n) = Drop(p, n) \o e
    BY <1>2, <2>2, <2>5, <2>6, ConcatSimplifications
  <2> QED  BY <2>1, <2>2, <2>3, <2>7
<1>4. CASE n > Len(p)
  <2> DEFINE m == n - Len(p)
  <2>1. m \in 1 .. Len(e) /\ m \in 0 .. Len(e) /\ Minus(n, Len(p)) = m
    BY <1>1, <1>4 DEF Minus
  <2>2. Drop(p, n) = <<>>
    <3>1. Len(p) < n + 1 /\ n + 1 \in Int /\ Len(p) \in Int
      BY <1>1, <1>4
    <3> QED  BY <3>1, SubSeqEmpty DEF Drop
  <2>3. Drop(e, m) \in Seq(T)
    BY <2>1, DropFacts
  <2>4. Drop(p \o e, n) = Drop(e, m)
    <3>1. CASE m = Len(e)
      <4>1. n + 1 > Len(p) + Len(e) /\ m + 1 > Len(e) /\ n + 1 \in Int /\ m + 1 \in Int
            /\ Len(p) + Len(e) \in Int /\ Len(e) \in Int
        BY <1>1, <3>1
      <4>2. SubSeq(p \o e, n + 1, Len(p) + Len(e)) = <<>> /\ SubSeq(e, m + 1, Len(e)) = <<>>
        BY <4>1, SubSeqEmpty
      <4> QED  BY <1>1, <4>2 DEF Drop
    <3>2. CASE m # Len(e)
      <4>1. /\ n + 1 \in Len(p) + 1 .. Len(p) + Len(e)
            /\ Len(p) + Len(e) \in Len(p) + 1 .. Len(p) + Len(e)
            /\ (n + 1) - Len(p) = m + 1 /\ (Len(p) + Len(e)) - Len(p) = Len(e)
        BY <1>1, <2>1, <3>2, <1>4
      <4>2. SubSeq(p \o e, n + 1, Len(p) + Len(e)) =
                SubSeq(e, (n + 1) - Len(p), (Len(p) + Len(e)) - Len(p))
        BY <4>1, SubSeqOfConcat2
      <4> QED  BY <1>1, <4>1, <4>2 DEF Drop
    <3> QED  BY <3>1, <3>2
  <2>5. <<>> \o Drop(e, m) = Drop(e, m) /\ <<>> \in Seq(T)
    BY <2>3, ConcatEmptySeq
  <2> QED  BY <2>1, <2>2, <2>3, <2>4, <2>5
<1> QED  BY <1>1, <1>3, <1>4

\* A sequence without repetition is as long as its elements are many.
LEMMA CardinalityOfRange ==
    ASSUME NEW T, NEW s \in Seq(T)
    PROVE  /\ IsFiniteSet(Range(s)) /\ Cardinality(Range(s)) \in Nat
           /\ Cardinality(Range(s)) <= Len(s)
           /\ IsInjective(s) => Cardinality(Range(s)) = Len(s)
<1>1. Len(s) \in Nat /\ DOMAIN s = 1 .. Len(s) /\ s \in [1 .. Len(s) -> Range(s)]
  BY DEF Range
<1>2. s \in Surjection(1 .. Len(s), Range(s))
  BY <1>1, RangeFacts DEF Surjection
<1>3. IsFiniteSet(1 .. Len(s)) /\ Cardinality(1 .. Len(s)) = Len(s)
  BY <1>1, FS_Interval, SMTT(30)
<1>4. /\ IsFiniteSet(Range(s)) /\ Cardinality(Range(s)) <= Cardinality(1 .. Len(s))
      /\ Cardinality(Range(s)) = Cardinality(1 .. Len(s)) <=> s \in Injection(1 .. Len(s), Range(s))
  BY <1>2, <1>3, FS_Surjection
<1>5. IsInjective(s) => s \in Injection(1 .. Len(s), Range(s))
  BY <1>1 DEF Injection
<1>6. Cardinality(Range(s)) \in Nat
  BY <1>4, FS_CardinalityType
<1> QED  BY <1>3, <1>4, <1>5, <1>6

-----------------------------------------------------------------------------
(* Only keeps the elements of a set, in their order.                         *)

\* x, and x before y, among the first n elements of s.
Among(s, n, x) == \E i \in 1 .. n : s[i] = x
AmongBefore(s, n, x, y) == \E i, j \in 1 .. n : i < j /\ s[i] = x /\ s[j] = y

\* u is what Only keeps of the first n elements of s.
KeptOf(u, s, S, n) ==
    /\ Len(u) <= n
    /\ \A x : x \in Range(u) <=> x \in S /\ Among(s, n, x)
    /\ \A x, y : Before(u, x, y) <=> x \in S /\ y \in S /\ AmongBefore(s, n, x, y)

LEMMA KeptNext ==
    ASSUME NEW T, NEW s \in Seq(T), NEW S, NEW n \in 0 .. Len(s), n < Len(s),
           NEW u \in Seq(T), KeptOf(u, s, S, n)
    PROVE  KeptOf(IF s[n + 1] \in S THEN Append(u, s[n + 1]) ELSE u, s, S, n + 1)
<1> DEFINE e == s[n + 1]
<1>1. n \in Nat /\ Len(s) \in Nat /\ Len(u) \in Nat /\ n + 1 \in 1 .. Len(s) /\ e \in T
  OBVIOUS
<1>2. ASSUME NEW x PROVE Among(s, n + 1, x) <=> Among(s, n, x) \/ x = e
  <2>1. \A i : i \in 1 .. n + 1 <=> i \in 1 .. n \/ i = n + 1
    BY <1>1
  <2> QED  BY <2>1 DEF Among
<1>3. ASSUME NEW x, NEW y
      PROVE  AmongBefore(s, n + 1, x, y) <=> AmongBefore(s, n, x, y) \/ (Among(s, n, x) /\ y = e)
  <2>1. \A i : i \in 1 .. n + 1 <=> i \in 1 .. n \/ i = n + 1
    BY <1>1
  <2>2. \A i \in 1 .. n : i < n + 1 /\ ~(n + 1 < i)
    BY <1>1
  <2> QED  BY <2>1, <2>2 DEF Among, AmongBefore
<1> HIDE DEF e
<1>4. CASE e \in S
  <2>1. Len(Append(u, e)) = Len(u) + 1
    BY <1>1, BeforeAppend
  <2>2. \A x : x \in Range(Append(u, e)) <=> x \in Range(u) \/ x = e
    BY <1>1, BeforeAppend
  <2>3. \A x, y : Before(Append(u, e), x, y) <=> Before(u, x, y) \/ (x \in Range(u) /\ y = e)
    BY <1>1, BeforeAppend
  <2>4. Len(Append(u, e)) <= n + 1
    BY <1>1, <2>1 DEF KeptOf
  <2>5. KeptOf(Append(u, e), s, S, n + 1)
    BY <1>2, <1>3, <1>4, <2>2, <2>3, <2>4 DEF KeptOf
  <2> QED  BY <1>4, <2>5 DEF e
<1>5. CASE e \notin S
  <2>1. Len(u) <= n + 1
    BY <1>1 DEF KeptOf
  <2>2. KeptOf(u, s, S, n + 1)
    BY <1>2, <1>3, <1>5, <2>1 DEF KeptOf
  <2> QED  BY <1>5, <2>2 DEF e
<1> QED  BY <1>4, <1>5

LEMMA OnlyIsKept ==
    ASSUME NEW T, NEW s \in Seq(T), NEW S
    PROVE  Only(s, S) \in Seq(T) /\ KeptOf(Only(s, S), s, S, Len(s))
<1> DEFINE N == Len(s)
<1>1. PICK f \in [0 .. N -> Seq(T)] : Gathers(f, s, S) /\ Only(s, S) = f[N]
  BY OnlyUpTo
<1> DEFINE D == {n \in 0 .. N : KeptOf(f[n], s, S, n)}
<1>2. N \in Nat
  OBVIOUS
<1>3. 0 \in D
  <2>1. f[0] = <<>> /\ 0 \in 0 .. N /\ Len(<<>>) <= 0
    BY <1>1, <1>2 DEF Gathers
  <2>2. \A x, y : ~Among(s, 0, x) /\ ~AmongBefore(s, 0, x, y)
    BY DEF Among, AmongBefore
  <2>3. KeptOf(<<>>, s, S, 0)
    BY <2>1, <2>2, NoElement DEF KeptOf
  <2> QED  BY <2>1, <2>3
<1>4. ASSUME NEW n \in 0 .. N, n < N, n \in D PROVE n + 1 \in D
  <2>1. n + 1 \in 0 .. N /\ n + 1 \in 1 .. N /\ (n + 1) - 1 = n
    BY <1>2, <1>4
  <2>2. f[n + 1] = IF s[n + 1] \in S THEN Append(f[n], s[n + 1]) ELSE f[n]
    BY <1>1, <2>1 DEF Gathers
  <2>3. f[n] \in Seq(T) /\ KeptOf(f[n], s, S, n)
    BY <1>4
  <2> HIDE DEF D
  <2>4. KeptOf(f[n + 1], s, S, n + 1)
    BY <1>4, <2>2, <2>3, KeptNext
  <2> QED  BY <2>1, <2>4 DEF D
<1>5. 0 .. N \subseteq D
  <2> HIDE DEF D, N
  <2> QED  BY <1>2, <1>3, <1>4, UpToInduction
<1>6. N \in 0 .. N
  BY <1>2
<1> QED  BY <1>1, <1>5, <1>6

LEMMA OnlyFacts ==
    ASSUME NEW T, NEW s \in Seq(T), NEW S
    PROVE  /\ Only(s, S) \in Seq(T) /\ Len(Only(s, S)) \in Nat /\ Len(Only(s, S)) <= Len(s)
           /\ \A x : x \in Range(Only(s, S)) <=> x \in Range(s) /\ x \in S
           /\ \A x, y : Before(Only(s, S), x, y) <=> Before(s, x, y) /\ x \in S /\ y \in S
<1>1. Only(s, S) \in Seq(T) /\ KeptOf(Only(s, S), s, S, Len(s))
  BY OnlyIsKept
<1>2. \A x : x \in Range(s) <=> Among(s, Len(s), x)
  BY RangeFacts DEF Among
<1>3. DOMAIN s = 1 .. Len(s)
  OBVIOUS
<1>4. \A x, y : Before(s, x, y) <=> AmongBefore(s, Len(s), x, y)
  BY <1>3 DEF Before, AmongBefore
<1>5. Len(Only(s, S)) \in Nat
  BY <1>1
<1> QED  BY <1>1, <1>2, <1>4, <1>5 DEF KeptOf

LEMMA OnlyInjective ==
    ASSUME NEW T, NEW s \in Seq(T), NEW S, IsInjective(s)
    PROVE  IsInjective(Only(s, S))
<1>1. Only(s, S) \in Seq(T) /\ \A x : Before(Only(s, S), x, x) => Before(s, x, x)
  BY OnlyFacts
<1>2. \A x : ~Before(s, x, x)
  BY InjectiveIsBefore
<1>3. \A x : ~Before(Only(s, S), x, x)
  BY <1>1, <1>2
<1> QED  BY <1>1, <1>3, InjectiveIsBefore

-----------------------------------------------------------------------------
(* Making room: what is left of the parked and of the rest, and what goes.   *)

ParkedLeft(p, e, size) == Drop(p, Excess(p, e, size))
EventsLeft(p, e, size) == Drop(e, Minus(Excess(p, e, size), Len(p)))

LEMMA RoomIsMade ==
    ASSUME NEW T, NEW p \in Seq(T), NEW e \in Seq(T), NEW size \in Nat
    PROVE  /\ ParkedLeft(p, e, size) \in Seq(T) /\ EventsLeft(p, e, size) \in Seq(T)
           /\ Len(ParkedLeft(p, e, size)) + Len(EventsLeft(p, e, size)) <= size
           /\ Evicted(p, e, size) \subseteq T /\ IsFiniteSet(Evicted(p, e, size))
           /\ Evicted(p, e, size) # {} => Len(p) + Len(e) > size
           /\ \A x : x \in Range(p) \/ x \in Range(e) <=>
                         \/ x \in Evicted(p, e, size)
                         \/ x \in Range(ParkedLeft(p, e, size) \o EventsLeft(p, e, size))
           /\ \A x, y : Before(ParkedLeft(p, e, size) \o EventsLeft(p, e, size), x, y) => Before(p \o e, x, y)
<1> DEFINE n == Excess(p, e, size)
           q == p \o e
           left == ParkedLeft(p, e, size) \o EventsLeft(p, e, size)
<1>1. /\ Len(p) \in Nat /\ Len(e) \in Nat /\ q \in Seq(T) /\ Len(q) = Len(p) + Len(e)
      /\ n \in 0 .. Len(p) + Len(e) /\ n \in 0 .. Len(q)
      /\ Len(q) - n <= size /\ (n > 0 => Len(p) + Len(e) > size)
  BY DEF Excess, Minus
<1> HIDE DEF n
<1>2. /\ left = Drop(q, n) /\ ParkedLeft(p, e, size) \in Seq(T) /\ EventsLeft(p, e, size) \in Seq(T)
  BY <1>1, DropConcat DEF ParkedLeft, EventsLeft, n
<1>3. Range(q) = Range(p) \cup Range(e)
  BY RangeConcatenation
<1> HIDE DEF q
<1>4. /\ SubSeq(q, 1, n) \in Seq(T) /\ Len(SubSeq(q, 1, n)) = n
      /\ Drop(q, n) \in Seq(T) /\ Len(Drop(q, n)) = Len(q) - n
  BY <1>1, DropFacts
<1>5. Len(left) = Len(ParkedLeft(p, e, size)) + Len(EventsLeft(p, e, size))
  BY <1>2
<1> HIDE DEF left
<1>6. Len(ParkedLeft(p, e, size)) + Len(EventsLeft(p, e, size)) <= size
  BY <1>1, <1>2, <1>4, <1>5
<1>7. Evicted(p, e, size) = Range(SubSeq(q, 1, n))
  BY DEF Evicted, q, n
<1>8. Evicted(p, e, size) \subseteq T /\ IsFiniteSet(Evicted(p, e, size))
  BY <1>4, <1>7, RangeOfSeq, CardinalityOfRange
<1>9. Evicted(p, e, size) # {} => Len(p) + Len(e) > size
  <2>1. n = 0 => SubSeq(q, 1, n) = <<>>
    BY SubSeqEmpty
  <2>2. n = 0 => Evicted(p, e, size) = {}
    BY <1>7, <2>1, NoElement
  <2> QED  BY <1>1, <2>2
<1>10. \A x : x \in Range(p) \/ x \in Range(e) <=> x \in Evicted(p, e, size) \/ x \in Range(left)
  <2>1. \A x : x \in Range(q) <=> x \in Range(SubSeq(q, 1, n)) \/ x \in Range(Drop(q, n))
    BY <1>1, PartsFacts
  <2> QED  BY <1>2, <1>3, <1>7, <2>1
<1>11. \A x, y : Before(left, x, y) => Before(q, x, y)
  BY <1>1, <1>2, PartsFacts
<1> QED  BY <1>2, <1>6, <1>8, <1>9, <1>10, <1>11 DEF left, q

LEMMA RoomKeepsOnce ==
    ASSUME NEW T, NEW p \in Seq(T), NEW e \in Seq(T), NEW size \in Nat, IsInjective(p \o e)
    PROVE  /\ IsInjective(ParkedLeft(p, e, size) \o EventsLeft(p, e, size))
           /\ \A x : ~(/\ x \in Evicted(p, e, size)
                       /\ x \in Range(ParkedLeft(p, e, size) \o EventsLeft(p, e, size)))
<1> DEFINE n == Excess(p, e, size)
           q == p \o e
<1>1. q \in Seq(T) /\ n \in 0 .. Len(p) + Len(e) /\ n \in 0 .. Len(q)
  BY DEF Excess, Minus
<1>2. ParkedLeft(p, e, size) \o EventsLeft(p, e, size) = Drop(q, n)
  <2> HIDE DEF n
  <2> QED  BY <1>1, DropConcat DEF ParkedLeft, EventsLeft, n
<1>3. Evicted(p, e, size) = Range(SubSeq(q, 1, n))
  BY DEF Evicted
<1>4. IsInjective(q)
  OBVIOUS
<1> HIDE DEF q, n
<1> QED  BY <1>1, <1>2, <1>3, <1>4, InjectiveParts

\* Making room takes from the parked and from the rest, and adds nothing.
LEMMA RoomAddsNothing ==
    ASSUME NEW T, NEW p \in Seq(T), NEW e \in Seq(T), NEW size \in Nat, NEW x
    PROVE  /\ x \in Range(ParkedLeft(p, e, size)) => x \in Range(p)
           /\ x \in Range(EventsLeft(p, e, size)) => x \in Range(e)
<1>1. Len(p) \in Nat /\ Len(e) \in Nat
  OBVIOUS
<1>2. Excess(p, e, size) \in Nat
  BY <1>1 DEF Excess, Minus
<1>3. ASSUME NEW s \in Seq(T), NEW n \in Nat, x \in Range(Drop(s, n)) PROVE x \in Range(s)
  <2>1. CASE n <= Len(s)
    BY <1>3, <2>1, PartsFacts
  <2>2. CASE n > Len(s)
    <3>1. Drop(s, n) = <<>>
      BY <2>2, SubSeqEmpty DEF Drop
    <3> QED  BY <1>3, <3>1, NoElement
  <2> QED  BY <2>1, <2>2
<1>4. Minus(Excess(p, e, size), Len(p)) \in Nat
  BY <1>1, <1>2 DEF Minus
<1> QED  BY <1>2, <1>3, <1>4 DEF ParkedLeft, EventsLeft

-----------------------------------------------------------------------------
(* The tasks of several builds, one after the other, and how many they are.  *)

\* u is the tasks of the first n builds in this order.
Joins(u, order, n) ==
    /\ \A x : x \in Range(u) <=> \E i \in 1 .. n : x \in Range(builds[order[i]].tasks)
    /\ \A x : Before(u, x, x) =>
           \/ \E i \in 1 .. n : Before(builds[order[i]].tasks, x, x)
           \/ \E i, j \in 1 .. n : i < j /\ x \in Range(builds[order[i]].tasks) /\ x \in Range(builds[order[j]].tasks)

LEMMA TasksOfUpTo ==
    ASSUME NEW order, \A i \in 1 .. Cardinality(Active) : builds[order[i]].tasks \in Seq(Records),
           Cardinality(Active) \in Nat
    PROVE  \E f \in [0 .. Cardinality(Active) -> Seq(Records)] :
               /\ f[0] = <<>>
               /\ \A i \in 1 .. Cardinality(Active) : f[i] = f[i - 1] \o builds[order[i]].tasks
               /\ TasksOf(order) = f[Cardinality(Active)]
<1> DEFINE N == Cardinality(Active)
           G == [x \in (1 .. N) \X Seq(Records) |-> x[2] \o builds[order[x[1]]].tasks]
<1>0. N \in Nat /\ <<>> \in Seq(Records) /\ \A i \in 1 .. N : builds[order[i]].tasks \in Seq(Records)
  OBVIOUS
<1>1. G \in [(1 .. N) \X Seq(Records) -> Seq(Records)]
  <2> HIDE DEF N
  <2> QED  BY <1>0
<1>2. PICK f \in [0 .. N -> Seq(Records)] : Follows(f, N, <<>>, G)
  <2>1. \E f \in [0 .. N -> Seq(Records)] : Follows(f, N, <<>>, G)
    <3> HIDE DEF G, N
    <3> QED  BY <1>0, <1>1, RecursionExists
  <2> QED  BY <2>1
<1>3. f[0] = <<>>
  BY <1>2 DEF Follows
<1>4. ASSUME NEW i \in 1 .. N PROVE f[i] = f[i - 1] \o builds[order[i]].tasks
  <2> HIDE DEF N
  <2>1. f[i] = G[<<i, f[i - 1]>>]
    BY <1>2 DEF Follows
  <2>2. i - 1 \in 0 .. N
    BY <1>0
  <2>3. f[i - 1] \in Seq(Records)
    BY <2>2
  <2>4. <<i, f[i - 1]>> \in (1 .. N) \X Seq(Records)
    BY <2>3
  <2>5. G[<<i, f[i - 1]>>] = f[i - 1] \o builds[order[i]].tasks
    BY <2>4
  <2> QED  BY <2>1, <2>5
<1> DEFINE Value(h, i) == IF i = 0 THEN <<>> ELSE h[i - 1] \o builds[order[i]].tasks
<1>5. f = [i \in 0 .. N |-> Value(f, i)]
  <2>1. ASSUME NEW i \in 0 .. N PROVE f[i] = Value(f, i)
    <3>1. CASE i = 0
      BY <1>3, <3>1
    <3>2. CASE i # 0
      <4> HIDE DEF N
      <4>1. i \in 1 .. N
        BY <1>0, <3>2
      <4> QED  BY <1>4, <3>2, <4>1
    <3> QED  BY <3>1, <3>2
  <2> HIDE DEF Value, N
  <2> QED  BY <2>1
<1>6. ASSUME NEW g, g = [i \in 0 .. N |-> Value(g, i)]
      PROVE  g[N] = f[N]
  <2> DEFINE D == {n \in 0 .. N : g[n] = f[n]}
  <2> HIDE DEF N
  <2>1. 0 \in D
    <3>1. 0 \in 0 .. N /\ Value(g, 0) = Value(f, 0)
      BY <1>0
    <3> HIDE DEF Value
    <3> QED  BY <1>5, <1>6, <3>1
  <2>2. ASSUME NEW n \in 0 .. N, n < N, n \in D PROVE n + 1 \in D
    <3>1. n + 1 \in 0 .. N /\ n + 1 # 0 /\ (n + 1) - 1 = n
      BY <1>0, <2>2
    <3>2. Value(g, n + 1) = Value(f, n + 1)
      BY <2>2, <3>1
    <3> HIDE DEF Value
    <3>3. g[n + 1] = Value(g, n + 1) /\ f[n + 1] = Value(f, n + 1)
      BY <1>5, <1>6, <3>1
    <3> QED  BY <3>1, <3>2, <3>3
  <2>3. 0 .. N \subseteq D
    <3> HIDE DEF D
    <3> QED  BY <1>0, <2>1, <2>2, UpToInduction
  <2> QED  BY <1>0, <2>3
<1>7. TasksOf(order) = (CHOOSE g : g = [i \in 0 .. N |-> Value(g, i)])[N]
  BY DEF TasksOf
<1>8. TasksOf(order) = f[N]
  <2> HIDE DEF Value, N
  <2> QED  BY <1>5, <1>6, <1>7
<1> QED  BY <1>3, <1>4, <1>8

LEMMA JoinNext ==
    ASSUME NEW order, NEW n \in Nat, NEW u \in Seq(Records), Joins(u, order, n),
           builds[order[n + 1]].tasks \in Seq(Records)
    PROVE  Joins(u \o builds[order[n + 1]].tasks, order, n + 1)
<1> DEFINE t == builds[order[n + 1]].tasks
           w == u \o t
           TasksAt(i) == builds[order[i]].tasks
<1>1. \A x : x \in Range(u) <=> \E i \in 1 .. n : x \in Range(TasksAt(i))
  BY DEF Joins
<1>2. \A x : Before(u, x, x) =>
          \/ \E i \in 1 .. n : Before(TasksAt(i), x, x)
          \/ \E i, j \in 1 .. n : i < j /\ x \in Range(TasksAt(i)) /\ x \in Range(TasksAt(j))
  BY DEF Joins
<1>3. t = TasksAt(n + 1) /\ t \in Seq(Records)
  OBVIOUS
<1>4. \A i : i \in 1 .. n + 1 <=> i \in 1 .. n \/ i = n + 1
  OBVIOUS
<1>5. \A i \in 1 .. n : i < n + 1
  OBVIOUS
<1> HIDE DEF t, TasksAt
<1>6. Range(w) = Range(u) \cup Range(t)
  BY <1>3, RangeConcatenation
<1>7. \A x : Before(w, x, x) <=> Before(u, x, x) \/ Before(t, x, x) \/ (x \in Range(u) /\ x \in Range(t))
  BY <1>3, BeforeConcat
<1> HIDE DEF w
<1>8. \A x : x \in Range(w) <=> \E i \in 1 .. n + 1 : x \in Range(TasksAt(i))
  BY <1>1, <1>3, <1>4, <1>6
<1>9. ASSUME NEW x, Before(w, x, x)
      PROVE  \/ \E i \in 1 .. n + 1 : Before(TasksAt(i), x, x)
             \/ \E i, j \in 1 .. n + 1 : i < j /\ x \in Range(TasksAt(i)) /\ x \in Range(TasksAt(j))
  <2>1. CASE Before(u, x, x)
    BY <1>2, <1>4, <2>1
  <2>2. CASE Before(t, x, x)
    BY <1>3, <1>4, <2>2
  <2>3. CASE x \in Range(u) /\ x \in Range(t)
    BY <1>1, <1>3, <1>4, <1>5, <2>3
  <2> QED  BY <1>7, <1>9, <2>1, <2>2, <2>3
<1> QED  BY <1>8, <1>9 DEF Joins, w, t, TasksAt

LEMMA TasksOfFacts ==
    ASSUME NEW order \in Bijection(1 .. Cardinality(Active), Active), IsFiniteSet(Active),
           \A b \in Active : builds[b].tasks \in Seq(Records)
    PROVE  /\ TasksOf(order) \in Seq(Records)
           /\ \A x : x \in Range(TasksOf(order)) <=> \E b \in Active : x \in Range(builds[b].tasks)
           /\ \A x : Before(TasksOf(order), x, x) =>
                  \/ \E b \in Active : Before(builds[b].tasks, x, x)
                  \/ \E b, c \in Active :
                         b # c /\ x \in Range(builds[b].tasks) /\ x \in Range(builds[c].tasks)
<1> DEFINE N == Cardinality(Active)
<1>0. N \in Nat
  BY FS_CardinalityType
<1>1. /\ \A i \in 1 .. N : order[i] \in Active
      /\ \A b \in Active : \E i \in 1 .. N : order[i] = b
      /\ \A i, j \in 1 .. N : order[i] = order[j] => i = j
  <2>1. order \in [1 .. N -> Active] /\ IsInjective(order) /\ \A b \in Active : \E i \in 1 .. N : order[i] = b
    BY DEF Bijection, Injection, Surjection
  <2> QED  BY <2>1 DEF IsInjective
<1>2. \A i \in 1 .. N : builds[order[i]].tasks \in Seq(Records)
  BY <1>1
<1>3. PICK f \in [0 .. N -> Seq(Records)] :
          /\ f[0] = <<>>
          /\ \A i \in 1 .. N : f[i] = f[i - 1] \o builds[order[i]].tasks
          /\ TasksOf(order) = f[N]
  BY <1>0, <1>2, TasksOfUpTo
<1> HIDE DEF N
<1> DEFINE D == {n \in 0 .. N : Joins(f[n], order, n)}
<1>4. 0 \in D
  <2>1. Joins(<<>>, order, 0)
    BY NoElement DEF Joins
  <2> QED  BY <1>0, <1>3, <2>1
<1>5. ASSUME NEW n \in 0 .. N, n < N, n \in D PROVE n + 1 \in D
  <2>1. n \in Nat /\ n + 1 \in 0 .. N /\ n + 1 \in 1 .. N /\ (n + 1) - 1 = n
    BY <1>0, <1>5
  <2>2. f[n + 1] = f[n] \o builds[order[n + 1]].tasks
    BY <1>3, <2>1
  <2>3. f[n] \in Seq(Records) /\ Joins(f[n], order, n) /\ builds[order[n + 1]].tasks \in Seq(Records)
    BY <1>2, <1>5, <2>1
  <2>4. Joins(f[n + 1], order, n + 1)
    BY <2>1, <2>2, <2>3, JoinNext
  <2> QED  BY <2>1, <2>4
<1>6. 0 .. N \subseteq D
  <2> HIDE DEF D
  <2> QED  BY <1>0, <1>4, <1>5, UpToInduction
<1>7. N \in 0 .. N
  BY <1>0
<1>8. TasksOf(order) \in Seq(Records) /\ Joins(TasksOf(order), order, N)
  BY <1>3, <1>6, <1>7
<1>9. \A x : x \in Range(TasksOf(order)) <=> \E b \in Active : x \in Range(builds[b].tasks)
  BY <1>1, <1>8 DEF Joins
<1>10. ASSUME NEW x, Before(TasksOf(order), x, x)
       PROVE  \/ \E b \in Active : Before(builds[b].tasks, x, x)
              \/ \E b, c \in Active : b # c /\ x \in Range(builds[b].tasks) /\ x \in Range(builds[c].tasks)
  <2>1. CASE \E i \in 1 .. N : Before(builds[order[i]].tasks, x, x)
    BY <1>1, <2>1
  <2>2. CASE \E i, j \in 1 .. N :
                 i < j /\ x \in Range(builds[order[i]].tasks) /\ x \in Range(builds[order[j]].tasks)
    <3>1. PICK i \in 1 .. N, j \in 1 .. N :
              i < j /\ x \in Range(builds[order[i]].tasks) /\ x \in Range(builds[order[j]].tasks)
      BY <2>2
    <3>2. i # j
      BY <1>0, <3>1
    <3>3. order[i] # order[j]
      BY <1>1, <3>2
    <3> QED  BY <1>1, <3>1, <3>3
  <2> QED  BY <1>8, <1>10, <2>1, <2>2 DEF Joins
<1> QED  BY <1>8, <1>9, <1>10

LEMMA SumToIsNat ==
    ASSUME NEW n \in Nat, NEW g \in [1 .. n -> Nat]
    PROVE  SumTo(g, n) \in Nat
<1> DEFINE G == [x \in (1 .. n) \X Nat |-> x[2] + g[x[1]]]
           Value(h, i) == IF i = 0 THEN 0 ELSE h[i - 1] + g[i]
<1>1. G \in [(1 .. n) \X Nat -> Nat]
  OBVIOUS
<1>2. PICK f \in [0 .. n -> Nat] : Follows(f, n, 0, G)
  <2> HIDE DEF G
  <2> QED  BY <1>1, RecursionExists
<1>3. f = [i \in 0 .. n |-> Value(f, i)]
  <2>1. ASSUME NEW i \in 0 .. n PROVE f[i] = Value(f, i)
    <3>1. CASE i = 0
      BY <1>2, <3>1 DEF Follows
    <3>2. CASE i # 0
      <4>1. i \in 1 .. n /\ i - 1 \in 0 .. n
        BY <3>2
      <4>2. f[i - 1] \in Nat /\ f[i] = G[<<i, f[i - 1]>>]
        BY <1>2, <4>1 DEF Follows
      <4>3. <<i, f[i - 1]>> \in (1 .. n) \X Nat
        BY <4>1, <4>2
      <4>4. G[<<i, f[i - 1]>>] = f[i - 1] + g[i]
        BY <4>3
      <4> QED  BY <3>2, <4>2, <4>4
    <3> QED  BY <3>1, <3>2
  <2> HIDE DEF Value
  <2> QED  BY <2>1
<1>4. ASSUME NEW h, h = [i \in 0 .. n |-> Value(h, i)] PROVE h[n] = f[n]
  <2> DEFINE D == {m \in 0 .. n : h[m] = f[m]}
  <2>1. 0 \in D
    <3>1. 0 \in 0 .. n /\ Value(h, 0) = Value(f, 0)
      OBVIOUS
    <3> HIDE DEF Value
    <3> QED  BY <1>3, <1>4, <3>1
  <2>2. ASSUME NEW m \in 0 .. n, m < n, m \in D PROVE m + 1 \in D
    <3>1. m + 1 \in 0 .. n /\ m + 1 # 0 /\ (m + 1) - 1 = m
      BY <2>2
    <3>2. Value(h, m + 1) = Value(f, m + 1)
      BY <2>2, <3>1
    <3> HIDE DEF Value
    <3>3. h[m + 1] = Value(h, m + 1) /\ f[m + 1] = Value(f, m + 1)
      BY <1>3, <1>4, <3>1
    <3> QED  BY <3>1, <3>2, <3>3
  <2>3. 0 .. n \subseteq D
    <3> HIDE DEF D
    <3> QED  BY <2>1, <2>2, UpToInduction
  <2> QED  BY <2>3
<1>5. SumTo(g, n) = (CHOOSE h : h = [i \in 0 .. n |-> Value(h, i)])[n]
  BY DEF SumTo
<1>6. SumTo(g, n) = f[n]
  <2> HIDE DEF Value
  <2> QED  BY <1>3, <1>4, <1>5
<1> QED  BY <1>6

-----------------------------------------------------------------------------
(* The inductive invariant.  Who holds the flush lock, and what only its     *)
(* holder has.                                                               *)

LockFits == \A f \in Flushers : lock = f <=> pc[f] \in {"take", "send", "unpark"}

BatchFits ==
    /\ inFlight = Len(batch)
    /\ batch # <<>> => lock \in Flushers /\ pc[lock] = "send"
    /\ lock = Nobody => parked = <<>>

BackFits == \A f \in Flushers : back[f] # <<>> => pc[f] = "return"

\* Where a flusher has a build that runs nowhere.
Owning == {"check", "hand", "take", "send", "unpark"}

\* A build is of one flusher, and it runs only once that flusher handed it over.
MineFits ==
    /\ \A f \in Flushers :
        /\ pc[f] \in Owning => mine[f] # 0 /\ builds[mine[f]].mode = "held"
        /\ pc[f] \notin Owning /\ mine[f] # 0 =>
               pc[f] \in {"wait", "return"} /\ builds[mine[f]].mode \in {"queued", "own", "inline", "over"}
    /\ \A f, g \in Flushers : mine[f] = mine[g] /\ mine[f] # 0 => f = g

BuildsFit ==
    \A b \in BuildIds :
        /\ builds[b].mode = "free" => builds[b] = NoBuild
        /\ builds[b].mode \in {"held", "over"} => builds[b].current = <<>>
        /\ builds[b].built => builds[b].current # <<>>
        /\ Len(builds[b].current) <= 1
        /\ builds[b].mode = "queued" => b \in Range(jobs)

CountsFit ==
    /\ \A f \in late : HasDeadline(f)
    /\ \A f \in Flushers : base[f] <= total.cutShort

Control == LockFits /\ BatchFits /\ BackFits /\ MineFits /\ BuildsFit /\ CountsFit

\* What is still to be built is an overflowed task, only built events are replayed, and only
\* what entered leaves.
KindsFit ==
    \A r \in Records :
        /\ \A b \in BuildIds : InBuildOf(r, b) => kind[r] = "overflow"
        /\ \A f \in Flushers : HandedBack(r, f) => kind[r] = "overflow"
        /\ r \in Range(batch) \cup Range(parked) => kind[r] \in {"ai", "tool"}
        /\ kind[r] = "none" => fate[r] = "none"

\* A flush parks what it found unreachable, and replays none of it.
ParkedFits ==
    \A f \in Flushers :
        /\ pc[f] = "send" =>
               /\ \A r \in Range(batch) : kind[r] \notin unreachable
               /\ \A r \in Range(parked) : kind[r] \in unreachable
        /\ pc[f] = "take" /\ f \notin late => \A r \in Range(parked) : kind[r] \in unreachable

IInv ==
    /\ TypeOK /\ Control
    /\ KindsFit /\ ParkedFits
    /\ EachRecordInOnePlace /\ HeldIsBounded /\ TotalsExact

-----------------------------------------------------------------------------
(* The types, a part at a time.                                              *)

RecordTypes ==
    /\ kind \in [Records -> {"none", "ai", "tool", "overflow"}]
    /\ fate \in [Records -> Fates \cup {"none"}]
    /\ old \subseteq Records /\ settled \subseteq Records

QueueTypes ==
    events \in Seq(Records) /\ parked \in Seq(Records) /\ batch \in Seq(Records) /\ inFlight \in Nat

FlagTypes ==
    /\ lock \in Flushers \cup {Nobody} /\ unreachable \subseteq {"ai", "tool"}
    /\ workerUp \in BOOLEAN /\ exitBuild \in BOOLEAN /\ shutdown \in BOOLEAN /\ circuitOpen \in BOOLEAN

Modes == {"free", "held", "queued", "own", "inline", "over"}
BuildType == [tasks : Seq(Records), current : Seq(Records), built : BOOLEAN, stopped : BOOLEAN, mode : Modes]

BuildTypes == builds \in [BuildIds -> BuildType] /\ jobs \in Seq(BuildIds)

FlushTypes ==
    /\ pc \in [Flushers -> {"idle", "hand", "await", "flush", "check", "wait", "return", "lock", "take",
                            "send", "unpark", "count", "tally", "done"}]
    /\ stage \in [Flushers -> {"takeover", "first", "late"}]
    /\ mine \in [Flushers -> BuildIds \cup {0}]
    /\ back \in [Flushers -> Seq(Records)]
    /\ late \subseteq Flushers /\ awaits \subseteq BuildIds

CountTypes ==
    /\ total \in [{"buffered", "overflowed", "replayed", "discarded", "evicted", "expired", "cutShort"} -> Nat]
    /\ report \in [Flushers -> Nat] /\ base \in [Flushers -> Nat]
    /\ owed \in [Flushers -> SUBSET Records]

LEMMA TypeParts ==
    TypeOK <=> RecordTypes /\ QueueTypes /\ FlagTypes /\ BuildTypes /\ FlushTypes /\ CountTypes
BY DEF TypeOK, RecordTypes, QueueTypes, FlagTypes, BuildTypes, BuildType, Modes, FlushTypes, CountTypes

LEMMA TypePartsNext ==
    TypeOK' <=> RecordTypes' /\ QueueTypes' /\ FlagTypes' /\ BuildTypes' /\ FlushTypes' /\ CountTypes'
BY DEF TypeOK, RecordTypes, QueueTypes, FlagTypes, BuildTypes, BuildType, Modes, FlushTypes, CountTypes

\* Facts about builds that most steps need.
LEMMA BuildFacts ==
    ASSUME TypeOK, Control
    PROVE  /\ 0 \notin BuildIds /\ BuildIds \subseteq Nat /\ IsFiniteSet(BuildIds)
           /\ NoBuild \in BuildType
           /\ \A b \in BuildIds : /\ builds[b] \in BuildType
                                  /\ builds[b].tasks \in Seq(Records) /\ builds[b].current \in Seq(Records)
                                  /\ Unfinished(builds[b]) \in Seq(Records)
           /\ Free # {} => NewBuild \in BuildIds /\ builds[NewBuild] = NoBuild
           /\ Free # {} => \A f \in Flushers : mine[f] # NewBuild
<1>1. 0 \notin BuildIds /\ BuildIds \subseteq Nat /\ IsFiniteSet(BuildIds)
  <2>1. MaxBuilds \in Nat
    BY BufferAssumption
  <2> QED  BY <2>1, FS_Interval DEF BuildIds
<1>2. NoBuild \in BuildType
  BY DEF NoBuild, BuildType, Modes
<1>3. builds \in [BuildIds -> BuildType]
  BY TypeParts DEF BuildTypes
<1>4. ASSUME NEW b \in BuildIds
      PROVE  /\ builds[b] \in BuildType
             /\ builds[b].tasks \in Seq(Records) /\ builds[b].current \in Seq(Records)
             /\ Unfinished(builds[b]) \in Seq(Records)
  BY <1>3 DEF BuildType, Unfinished
<1>5. Free # {} => NewBuild \in BuildIds /\ builds[NewBuild].mode = "free"
  BY DEF Free, NewBuild
<1>6. Free # {} => builds[NewBuild] = NoBuild
  BY <1>5 DEF Control, BuildsFit
<1>7. ASSUME Free # {}, NEW f \in Flushers, mine[f] = NewBuild PROVE FALSE
  BY <1>1, <1>5, <1>7 DEF Control, MineFits
<1> QED  BY <1>1, <1>2, <1>4, <1>5, <1>6, <1>7

-----------------------------------------------------------------------------
(* What each step does to its flusher and to a build, value by value.        *)

\* f goes to this place, with this build and these tasks to return; no other flusher moves.
Moved(f, to, build, tasks) ==
    /\ pc' = [g \in Flushers |-> IF g = f THEN to ELSE pc[g]]
    /\ mine' = [g \in Flushers |-> IF g = f THEN build ELSE mine[g]]
    /\ back' = [g \in Flushers |-> IF g = f THEN tasks ELSE back[g]]

\* Build b becomes this one; no other build changes.
Became(b, build) == builds' = [c \in BuildIds |-> IF c = b THEN build ELSE builds[c]]

LEMMA OwnBuild ==
    ASSUME TypeOK, Control, NEW f \in Flushers
    PROVE  /\ pc[f] \in Owning => mine[f] \in BuildIds /\ builds[mine[f]].mode = "held"
           /\ pc[f] \in Owning => builds[mine[f]].current = <<>> /\ ~builds[mine[f]].built
           /\ pc[f] \notin {"return"} => back[f] = <<>>
           /\ pc[f] \notin Owning \cup {"wait", "return"} => mine[f] = 0
           /\ mine[f] \in BuildIds \cup {0}
<1>1. mine[f] \in BuildIds \cup {0}
  BY TypeParts DEF FlushTypes
<1>2. pc[f] \in Owning => mine[f] \in BuildIds /\ builds[mine[f]].mode = "held"
  BY <1>1 DEF Control, MineFits
<1>3. pc[f] \in Owning => builds[mine[f]].current = <<>> /\ ~builds[mine[f]].built
  <2>1. \A b \in BuildIds : builds[b].mode = "held" => builds[b].current = <<>> /\ ~builds[b].built
    BY BuildFacts DEF Control, BuildsFit, BuildType
  <2> QED  BY <1>2, <2>1
<1>4. pc[f] \notin {"return"} => back[f] = <<>>
  BY DEF Control, BackFits
<1>5. pc[f] \notin Owning \cup {"wait", "return"} => mine[f] = 0
  BY DEF Control, MineFits
<1> QED  BY <1>1, <1>2, <1>3, <1>4, <1>5

LEMMA StartFlushEffect ==
    ASSUME TypeOK, Control, NEW f \in Flushers, StartFlush(f)
    PROVE  /\ pc[f] \in {"idle", "flush"} /\ Free # {}
           /\ Moved(f, "check", NewBuild, back[f])
           /\ Became(NewBuild, [NoBuild EXCEPT !.tasks = Only(events, Overflow), !.mode = "held"])
<1> USE TypeParts, BuildFacts DEF FlushTypes, BuildTypes
<1>1. pc[f] \in {"idle", "flush"} /\ Free # {}
  BY DEF StartFlush, RegisterBuild
<1>2. Moved(f, "check", NewBuild, back[f])
  BY DEF StartFlush, RegisterBuild, Moved, Go, Put
<1>3. Became(NewBuild, [NoBuild EXCEPT !.tasks = Only(events, Overflow), !.mode = "held"])
  BY <1>1 DEF StartFlush, RegisterBuild, Became
<1> QED  BY <1>1, <1>2, <1>3

LEMMA TakeLockEffect ==
    ASSUME TypeOK, Control, NEW f \in Flushers, TakeLock(f)
    PROVE  /\ pc[f] = "lock" /\ Free # {}
           /\ Moved(f, "take", NewBuild, back[f])
           /\ Became(NewBuild, [NoBuild EXCEPT !.tasks = <<>>, !.mode = "held"])
<1> USE TypeParts, BuildFacts DEF FlushTypes, BuildTypes
<1>1. pc[f] = "lock" /\ Free # {}
  BY DEF TakeLock, RegisterBuild
<1>2. Moved(f, "take", NewBuild, back[f])
  BY DEF TakeLock, RegisterBuild, Moved, Go, Put, flushVars, askVars
<1>3. Became(NewBuild, [NoBuild EXCEPT !.tasks = <<>>, !.mode = "held"])
  BY <1>1 DEF TakeLock, RegisterBuild, Became
<1> QED  BY <1>1, <1>2, <1>3

LEMMA CheckExitingEffect ==
    ASSUME TypeOK, Control, NEW f \in Flushers, CheckExiting(f)
    PROVE  /\ pc[f] = "check"
           /\ Moved(f, "return", 0, builds[mine[f]].tasks)
           /\ Became(mine[f], NoBuild)
<1> USE TypeParts, BuildFacts, OwnBuild DEF FlushTypes, BuildTypes, Owning
<1>1. pc[f] = "check"
  BY DEF CheckExiting
<1>2. Moved(f, "return", 0, builds[mine[f]].tasks)
  BY DEF CheckExiting, Moved, Go, Put
<1>3. Became(mine[f], NoBuild)
  BY <1>1 DEF CheckExiting, Became
<1> QED  BY <1>1, <1>2, <1>3

LEMMA HandOnEventLoopEffect ==
    ASSUME TypeOK, Control, NEW f \in Flushers, HandOnEventLoop(f)
    PROVE  /\ pc[f] = "hand"
           /\ Moved(f, "return", 0, builds[mine[f]].tasks)
           /\ Became(mine[f], NoBuild)
<1> USE TypeParts, BuildFacts, OwnBuild DEF FlushTypes, BuildTypes, Owning
<1>1. pc[f] = "hand"
  BY DEF HandOnEventLoop
<1>2. Moved(f, "return", 0, builds[mine[f]].tasks)
  BY DEF HandOnEventLoop, Moved, Go, Put
<1>3. Became(mine[f], NoBuild)
  BY <1>1 DEF HandOnEventLoop, Became
<1> QED  BY <1>1, <1>2, <1>3

LEMMA ForgetEmptyEffect ==
    ASSUME TypeOK, Control, NEW f \in Flushers, ForgetEmpty(f)
    PROVE  /\ pc[f] \in {"check", "hand"}
           /\ Moved(f, After(stage[f]), 0, back[f])
           /\ Became(mine[f], NoBuild) /\ builds[mine[f]].tasks = <<>>
<1> USE TypeParts, BuildFacts, OwnBuild DEF FlushTypes, BuildTypes, Owning
<1>1. pc[f] \in {"check", "hand"}
  BY DEF ForgetEmpty
<1>2. Moved(f, After(stage[f]), 0, back[f])
  BY DEF ForgetEmpty, Moved, Go, Put
<1>3. Became(mine[f], NoBuild)
  BY <1>1 DEF ForgetEmpty, Became
<1>4. builds[mine[f]].tasks = <<>>
  <2>1. /\ builds[mine[f]].tasks \in Seq(Records) /\ builds[mine[f]].current \in Seq(Records)
        /\ Len(builds[mine[f]].tasks) + Len(builds[mine[f]].current) = 0
    BY <1>1 DEF ForgetEmpty, Unbuilt
  <2> DEFINE t == builds[mine[f]].tasks
             c == builds[mine[f]].current
  <2> HIDE DEF t, c
  <2>2. t \in Seq(Records) /\ Len(t) \in Nat /\ Len(c) \in Nat /\ Len(t) + Len(c) = 0
    BY <2>1, LenProperties DEF t, c
  <2>3. Len(t) = 0
    BY <2>2
  <2> QED  BY <2>2, <2>3, EmptySeq DEF t
<1> QED  BY <1>1, <1>2, <1>3, <1>4

LEMMA HandToThreadEffect ==
    ASSUME TypeOK, Control, NEW f \in Flushers, HandToThread(f)
    PROVE  /\ pc[f] = "hand"
           /\ Moved(f, "wait", mine[f], back[f])
           /\ \/ Became(mine[f], [builds[mine[f]] EXCEPT !.mode = "own"]) /\ UNCHANGED jobs
              \/ Became(mine[f], [builds[mine[f]] EXCEPT !.mode = "queued"]) /\ jobs' = Append(jobs, mine[f])
<1> USE TypeParts, BuildFacts, OwnBuild DEF FlushTypes, BuildTypes, Owning
<1>1. pc[f] = "hand"
  BY DEF HandToThread
<1>2. Moved(f, "wait", mine[f], back[f])
  BY DEF HandToThread, Moved, Go
<1>3. builds[mine[f]] \in BuildType
  BY <1>1
<1>4. CASE WantsOwnThread(f)
  <2>1. builds' = [builds EXCEPT ![mine[f]].mode = "own"] /\ UNCHANGED jobs
    BY <1>4 DEF HandToThread
  <2>2. Became(mine[f], [builds[mine[f]] EXCEPT !.mode = "own"])
    BY <1>1, <1>3, <2>1 DEF Became, BuildType
  <2> QED  BY <1>1, <1>2, <2>1, <2>2
<1>5. CASE ~WantsOwnThread(f)
  <2>1. builds' = [builds EXCEPT ![mine[f]].mode = "queued"] /\ jobs' = Append(jobs, mine[f])
    BY <1>5 DEF HandToThread
  <2>2. Became(mine[f], [builds[mine[f]] EXCEPT !.mode = "queued"])
    BY <1>1, <1>3, <2>1 DEF Became, BuildType
  <2> QED  BY <1>1, <1>2, <2>1, <2>2
<1> QED  BY <1>4, <1>5

\* The records whose tasks f sets aside.
Aside(f) == {r \in Records : SetsAside(f, r)}

LEMMA HandToSelfEffect ==
    ASSUME TypeOK, Control, NEW f \in Flushers, HandToSelf(f)
    PROVE  /\ pc[f] = "hand"
           /\ LET aside == Only(builds[mine[f]].tasks, Aside(f))
              IN  Moved(f, IF aside = <<>> THEN "wait" ELSE "return", mine[f], aside)
           /\ Became(mine[f], [builds[mine[f]] EXCEPT !.mode = "inline",
                                   !.tasks = Only(builds[mine[f]].tasks, Records \ Aside(f))])
<1> USE TypeParts, BuildFacts, OwnBuild DEF FlushTypes, BuildTypes, Owning
<1>1. pc[f] = "hand"
  BY DEF HandToSelf
<1>2. LET aside == Only(builds[mine[f]].tasks, Aside(f))
      IN  Moved(f, IF aside = <<>> THEN "wait" ELSE "return", mine[f], aside)
  BY DEF HandToSelf, Moved, Go, Put, Aside
<1>3. Became(mine[f], [builds[mine[f]] EXCEPT !.mode = "inline",
                                   !.tasks = Only(builds[mine[f]].tasks, Records \ Aside(f))])
  <2>1. builds' = [builds EXCEPT ![mine[f]].mode = "inline",
                                 ![mine[f]].tasks = Only(builds[mine[f]].tasks, Records \ Aside(f))]
    BY DEF HandToSelf, Aside
  <2>2. builds[mine[f]] \in BuildType
    BY <1>1
  <2> QED  BY <1>1, <2>1, <2>2 DEF Became, BuildType
<1> QED  BY <1>1, <1>2, <1>3

LEMMA EndWaitEffect ==
    ASSUME TypeOK, Control, NEW f \in Flushers, EndWait(f)
    PROVE  LET rest == IF mine[f] = 0 THEN <<>> ELSE builds[mine[f]].tasks
           IN  /\ pc[f] = "wait"
               /\ Moved(f, IF rest = <<>> THEN After(stage[f]) ELSE "return", 0, rest)
               /\ \/ mine[f] = 0 /\ UNCHANGED builds
                  \/ /\ mine[f] \in BuildIds /\ builds[mine[f]].mode = "over"
                     /\ Became(mine[f], NoBuild)
                  \/ /\ mine[f] \in BuildIds /\ builds[mine[f]].mode \in {"queued", "own"}
                     /\ Became(mine[f], Reclaimed(builds[mine[f]]))
<1> USE TypeParts, BuildFacts, OwnBuild DEF FlushTypes, BuildTypes
<1> DEFINE rest == IF mine[f] = 0 THEN <<>> ELSE builds[mine[f]].tasks
<1>1. pc[f] = "wait"
  BY DEF EndWait
<1>2. Moved(f, IF rest = <<>> THEN After(stage[f]) ELSE "return", 0, rest)
  BY DEF EndWait, Moved, Go, Put
<1>3. CASE mine[f] = 0
  BY <1>1, <1>2, <1>3 DEF EndWait
<1>4. CASE mine[f] # 0 /\ builds[mine[f]].mode = "over"
  <2>1. Became(mine[f], NoBuild)
    BY <1>4 DEF EndWait, Became
  <2> QED  BY <1>1, <1>2, <1>4, <2>1
<1>5. CASE mine[f] # 0 /\ builds[mine[f]].mode # "over"
  <2>1. builds[mine[f]].mode \in {"queued", "own"}
    BY <1>5 DEF EndWait
  <2>2. Became(mine[f], Reclaimed(builds[mine[f]]))
    BY <1>5 DEF EndWait, Became
  <2> QED  BY <1>1, <1>2, <1>5, <2>1, <2>2
<1> QED  BY <1>3, <1>4, <1>5

\* The steps that leave the builds alone.
LEMMA QuietEffects ==
    ASSUME TypeOK, NEW f \in Flushers
    PROVE  /\ CheckGoesOn(f) => Moved(f, "hand", mine[f], back[f])
           /\ ReturnToFront(f) =>
                  Moved(f, IF mine[f] # 0 THEN "wait" ELSE After(stage[f]), mine[f], <<>>)
           /\ SkipLock(f) => Moved(f, "count", mine[f], back[f])
           /\ SettleReplays(f) => Moved(f, "take", mine[f], back[f])
           /\ Unpark(f) => Moved(f, "check", mine[f], back[f])
           /\ CountUndelivered(f) =>
                  Moved(f, IF HasDeadline(f) THEN "tally" ELSE "idle", mine[f], back[f])
           /\ CountInBuild(f) => Moved(f, "done", mine[f], back[f])
           /\ SetShutdown(f) => Moved(f, "flush", mine[f], back[f])
<1> USE TypeParts DEF FlushTypes, Moved, Go, Put
<1>1. CheckGoesOn(f) => Moved(f, "hand", mine[f], back[f])
  BY DEF CheckGoesOn
<1>2. ReturnToFront(f) => Moved(f, IF mine[f] # 0 THEN "wait" ELSE After(stage[f]), mine[f], <<>>)
  BY DEF ReturnToFront
<1>3. SkipLock(f) => Moved(f, "count", mine[f], back[f])
  BY DEF SkipLock
<1>4. SettleReplays(f) => Moved(f, "take", mine[f], back[f])
  BY DEF SettleReplays
<1>5. Unpark(f) => Moved(f, "check", mine[f], back[f])
  BY DEF Unpark
<1>6. CountUndelivered(f) => Moved(f, IF HasDeadline(f) THEN "tally" ELSE "idle", mine[f], back[f])
  BY DEF CountUndelivered
<1>7. CountInBuild(f) => Moved(f, "done", mine[f], back[f])
  BY DEF CountInBuild
<1>8. SetShutdown(f) => Moved(f, "flush", mine[f], back[f])
  BY DEF SetShutdown
<1> QED  BY <1>1, <1>2, <1>3, <1>4, <1>5, <1>6, <1>7, <1>8

\* A batch that the first n events made.
TakesUpTo(f, n) ==
    /\ batch' = Visited(n, "replay") /\ inFlight' = inFlight + Len(Visited(n, "replay"))
    /\ parked' = parked \o Visited(n, "park") /\ events' = Drop(events, n)
    /\ Moved(f, IF Visited(n, "replay") = <<>> THEN "unpark" ELSE "send", mine[f], back[f])
    /\ Became(mine[f], [builds[mine[f]] EXCEPT !.tasks = @ \o Visited(n, "build")])
    /\ Leave(All(Range(Visited(n, "expire")), "expired"))
    /\ total' = [total EXCEPT !.expired = @ + Cardinality(Range(Visited(n, "expire")))]

LEMMA TakeBatchEffect ==
    ASSUME TypeOK, Control, NEW f \in Flushers, TakeBatch(f)
    PROVE  /\ pc[f] = "take" /\ MayReplayMore(f)
           /\ \E n \in 0 .. Len(events) : TakesUpTo(f, n)
<1> USE TypeParts, BuildFacts, OwnBuild DEF FlushTypes, BuildTypes, Owning
<1>1. pc[f] = "take" /\ MayReplayMore(f) /\ mine' = mine /\ back' = back
  BY DEF TakeBatch
<1>2. PICK size \in Sizes(f), n \in 0 .. Len(events) :
          LET gone == Range(Visited(n, "expire"))
          IN  /\ batch' = Visited(n, "replay")
              /\ inFlight' = inFlight + Len(batch')
              /\ parked' = parked \o Visited(n, "park")
              /\ events' = Drop(events, n)
              /\ builds' = [builds EXCEPT ![mine[f]].tasks = @ \o Visited(n, "build")]
              /\ Leave(All(gone, "expired"))
              /\ total' = [total EXCEPT !.expired = @ + Cardinality(gone)]
              /\ Go(f, IF batch' = <<>> THEN "unpark" ELSE "send")
  BY DEF TakeBatch
<1>3. Moved(f, IF Visited(n, "replay") = <<>> THEN "unpark" ELSE "send", mine[f], back[f])
  <2>1. pc' = [pc EXCEPT ![f] = IF Visited(n, "replay") = <<>> THEN "unpark" ELSE "send"]
    BY <1>2 DEF Go
  <2> QED  BY <1>1, <2>1 DEF Moved
<1>4. Became(mine[f], [builds[mine[f]] EXCEPT !.tasks = @ \o Visited(n, "build")])
  <2>1. builds[mine[f]] \in BuildType
    BY <1>1
  <2>2. builds' = [builds EXCEPT ![mine[f]].tasks = @ \o Visited(n, "build")]
    BY <1>2
  <2> QED  BY <1>1, <2>1, <2>2 DEF Became, BuildType
<1>5. TakesUpTo(f, n)
  <2>1. Leave(All(Range(Visited(n, "expire")), "expired"))
    BY <1>2
  <2> QED  BY <1>2, <1>3, <1>4, <2>1 DEF TakesUpTo
<1> QED  BY <1>1, <1>5

LEMMA BuildAllOverflowEffect ==
    ASSUME TypeOK, Control, NEW f \in Flushers, BuildAllOverflow(f)
    PROVE  /\ pc[f] = "idle" /\ Free # {}
           /\ Moved(f, "hand", NewBuild, back[f])
           /\ NewBuild \notin Active
           /\ \A b \in Active : builds'[b] = Reclaimed(builds[b])
           /\ \A b \in BuildIds \ Active : b # NewBuild => builds'[b] = builds[b]
           /\ \E order \in Bijection(1 .. Cardinality(Active), Active) :
                  builds'[NewBuild] = [NoBuild EXCEPT !.tasks = TasksOf(order) \o Only(events, Overflow), !.mode = "held"]
<1> USE TypeParts, BuildFacts DEF FlushTypes, BuildTypes
<1>1. pc[f] = "idle" /\ Free # {}
  BY DEF BuildAllOverflow
<1>2. Moved(f, "hand", NewBuild, back[f])
  BY DEF BuildAllOverflow, Moved, Go, Put
<1>3. NewBuild \notin Active
  BY <1>1 DEF Active, NoBuild
<1>4. PICK order \in Bijection(1 .. Cardinality(Active), Active) :
          builds' = [b \in BuildIds |->
              IF b \in Active THEN Reclaimed(builds[b])
              ELSE IF b = NewBuild
              THEN [NoBuild EXCEPT !.tasks = TasksOf(order) \o Only(events, Overflow), !.mode = "held"]
              ELSE builds[b]]
  BY DEF BuildAllOverflow
<1>5. Active \subseteq BuildIds
  BY DEF Active
<1>6. \A b \in Active : builds'[b] = Reclaimed(builds[b])
  BY <1>4, <1>5
<1>7. \A b \in BuildIds \ Active : b # NewBuild => builds'[b] = builds[b]
  BY <1>4
<1>8. builds'[NewBuild] = [NoBuild EXCEPT !.tasks = TasksOf(order) \o Only(events, Overflow), !.mode = "held"]
  BY <1>1, <1>3, <1>4
<1> QED  BY <1>1, <1>2, <1>3, <1>6, <1>7, <1>8

\* The steps of a running build.
LEMMA RunEffects ==
    ASSUME TypeOK, Control, NEW b \in BuildIds
    PROVE  /\ StartTask(b) =>
                  /\ builds[b].mode \in {"own", "queued", "inline"} /\ builds[b].current = <<>>
                  /\ builds[b].tasks # <<>>
                  /\ Became(b, [builds[b] EXCEPT !.current = <<Head(builds[b].tasks)>>, !.tasks = Tail(builds[b].tasks)])
           /\ BuildEvent(b) => Became(b, [builds[b] EXCEPT !.built = TRUE])
           /\ EndTask(b) => Became(b, [builds[b] EXCEPT !.built = FALSE, !.current = <<>>])
           /\ SkipTask(b) => Became(b, [builds[b] EXCEPT !.current = <<>>])
           /\ CutTaskShort(b) => Became(b, [builds[b] EXCEPT !.current = <<>>])
<1> USE TypeParts, BuildFacts DEF BuildTypes
<1>0. builds[b] \in BuildType
  OBVIOUS
<1>1. ASSUME StartTask(b)
      PROVE  /\ builds[b].mode \in {"own", "queued", "inline"} /\ builds[b].current = <<>>
             /\ builds[b].tasks # <<>>
             /\ Became(b, [builds[b] EXCEPT !.current = <<Head(builds[b].tasks)>>, !.tasks = Tail(builds[b].tasks)])
  <2>1. /\ builds[b].mode \in {"own", "queued", "inline"} /\ builds[b].current = <<>>
        /\ builds[b].tasks # <<>>
    BY <1>1 DEF StartTask, IsRun
  <2>2. builds' = [builds EXCEPT ![b].current = <<Head(builds[b].tasks)>>, ![b].tasks = Tail(@)]
    BY <1>1 DEF StartTask
  <2>3. Became(b, [builds[b] EXCEPT !.current = <<Head(builds[b].tasks)>>, !.tasks = Tail(builds[b].tasks)])
    BY <1>0, <2>2 DEF Became, BuildType
  <2> QED  BY <2>1, <2>3
<1>2. BuildEvent(b) => Became(b, [builds[b] EXCEPT !.built = TRUE])
  BY <1>0 DEF BuildEvent, Became, BuildType
<1>3. ASSUME EndTask(b) PROVE Became(b, [builds[b] EXCEPT !.built = FALSE, !.current = <<>>])
  <2>1. builds' = [builds EXCEPT ![b].built = FALSE, ![b].current = <<>>]
    BY <1>3 DEF EndTask
  <2> QED  BY <1>0, <2>1 DEF Became, BuildType
<1>4. SkipTask(b) => Became(b, [builds[b] EXCEPT !.current = <<>>])
  BY <1>0 DEF SkipTask, Became, BuildType
<1>5. CutTaskShort(b) => Became(b, [builds[b] EXCEPT !.current = <<>>])
  BY <1>0 DEF CutTaskShort, Became, BuildType
<1> QED  BY <1>1, <1>2, <1>3, <1>4, <1>5

LEMMA EndRunEffect ==
    ASSUME TypeOK, Control, NEW b \in BuildIds, EndRun(b)
    PROVE  /\ builds[b].mode \in {"own", "queued", "inline"} /\ builds[b].current = <<>>
           /\ builds[b].mode = "queued" => b = Head(jobs)
           /\ jobs' = IF builds[b].mode = "queued" THEN Tail(jobs) ELSE jobs
           /\ \/ /\ builds[b].tasks = <<>> /\ Became(b, NoBuild)
                 /\ \A f \in Flushers : mine'[f] = IF mine[f] = b THEN 0 ELSE mine[f]
              \/ Became(b, [builds[b] EXCEPT !.mode = "over"]) /\ UNCHANGED mine
<1> USE TypeParts, BuildFacts DEF BuildTypes
<1>0. builds[b] \in BuildType
  OBVIOUS
<1>1. /\ builds[b].mode \in {"own", "queued", "inline"} /\ builds[b].current = <<>>
      /\ builds[b].mode = "queued" => b = Head(jobs)
  BY DEF EndRun, IsRun
<1>2. jobs' = IF builds[b].mode = "queued" THEN Tail(jobs) ELSE jobs
  BY DEF EndRun
<1>3. CASE builds[b].tasks = <<>>
  <2>1. builds' = [builds EXCEPT ![b] = NoBuild] /\ mine' = [f \in Flushers |-> IF mine[f] = b THEN 0 ELSE mine[f]]
    BY <1>3 DEF EndRun
  <2> QED  BY <1>1, <1>2, <1>3, <2>1 DEF Became
<1>4. CASE builds[b].tasks # <<>>
  <2>1. builds' = [builds EXCEPT ![b].mode = "over"] /\ UNCHANGED mine
    BY <1>4 DEF EndRun
  <2>2. Became(b, [builds[b] EXCEPT !.mode = "over"])
    BY <1>0, <2>1 DEF Became, BuildType
  <2> QED  BY <1>1, <1>2, <2>1, <2>2
<1> QED  BY <1>3, <1>4

-----------------------------------------------------------------------------
(* Types and control: what a move of one flusher, and the change of one      *)
(* build, keep.                                                              *)

LEMMA MineMoved ==
    ASSUME TypeOK, Control, NEW f \in Flushers, NEW to, NEW m, NEW tasks, Moved(f, to, m, tasks),
           m # 0 => m = mine[f] \/ (m \in BuildIds /\ builds[m].mode = "free"),
           \A b \in BuildIds : b # mine[f] /\ b # m => builds'[b].mode = builds[b].mode,
           to \in Owning => m # 0 /\ builds'[m].mode = "held",
           to \notin Owning /\ m # 0 =>
               to \in {"wait", "return"} /\ builds'[m].mode \in {"queued", "own", "inline", "over"}
    PROVE  MineFits'
<1>1. MineFits /\ \A g \in Flushers : mine[g] \in BuildIds \cup {0}
  BY TypeParts DEF Control, FlushTypes
<1>2. \A g \in Flushers : mine[g] # 0 => builds[mine[g]].mode # "free"
  BY <1>1 DEF MineFits
<1>3. /\ pc'[f] = to /\ mine'[f] = m
      /\ \A g \in Flushers : g # f => pc'[g] = pc[g] /\ mine'[g] = mine[g]
  BY DEF Moved
<1>4. \A g \in Flushers : g # f /\ mine[g] # 0 => mine[g] # m /\ mine[g] # mine[f]
  BY <1>1, <1>2 DEF MineFits
<1>5. \A g \in Flushers : g # f /\ mine[g] # 0 => builds'[mine[g]].mode = builds[mine[g]].mode
  BY <1>1, <1>4
<1>6. ASSUME NEW g \in Flushers
      PROVE  /\ pc'[g] \in Owning => mine'[g] # 0 /\ builds'[mine'[g]].mode = "held"
             /\ pc'[g] \notin Owning /\ mine'[g] # 0 =>
                    pc'[g] \in {"wait", "return"} /\ builds'[mine'[g]].mode \in {"queued", "own", "inline", "over"}
  <2>1. CASE g = f
    BY <1>3, <2>1
  <2>2. CASE g # f
    <3>1. pc'[g] = pc[g] /\ mine'[g] = mine[g]
      BY <1>3, <2>2
    <3>2. /\ pc[g] \in Owning => mine[g] # 0 /\ builds[mine[g]].mode = "held"
          /\ pc[g] \notin Owning /\ mine[g] # 0 =>
                 pc[g] \in {"wait", "return"} /\ builds[mine[g]].mode \in {"queued", "own", "inline", "over"}
      BY <1>1 DEF MineFits
    <3> QED  BY <1>5, <2>2, <3>1, <3>2
  <2> QED  BY <2>1, <2>2
<1>7. ASSUME NEW g \in Flushers, NEW h \in Flushers, mine'[g] = mine'[h], mine'[g] # 0 PROVE g = h
  <2>1. mine[g] = mine[h] /\ mine[g] # 0 => g = h
    BY <1>1 DEF MineFits
  <2> QED  BY <1>3, <1>4, <1>7, <2>1
<1> QED  BY <1>6, <1>7 DEF MineFits

LEMMA BuildsBecame ==
    ASSUME TypeOK, Control, NEW b \in BuildIds, NEW build \in BuildType, Became(b, build),
           build.mode = "free" => build = NoBuild,
           build.mode \in {"held", "over"} => build.current = <<>>,
           build.built => build.current # <<>>,
           Len(build.current) <= 1,
           build.mode = "queued" => b \in Range(jobs'),
           \A c \in BuildIds : c # b /\ c \in Range(jobs) => c \in Range(jobs')
    PROVE  BuildsFit' /\ builds' \in [BuildIds -> BuildType]
<1>1. BuildsFit /\ \A c \in BuildIds : builds[c] \in BuildType
  BY BuildFacts DEF Control
<1>2. builds' \in [BuildIds -> BuildType]
  BY <1>1 DEF Became
<1>3. builds'[b] = build /\ \A c \in BuildIds : c # b => builds'[c] = builds[c]
  BY DEF Became
<1>4. ASSUME NEW c \in BuildIds
      PROVE  /\ builds'[c].mode = "free" => builds'[c] = NoBuild
             /\ builds'[c].mode \in {"held", "over"} => builds'[c].current = <<>>
             /\ builds'[c].built => builds'[c].current # <<>>
             /\ Len(builds'[c].current) <= 1
             /\ builds'[c].mode = "queued" => c \in Range(jobs')
  <2>1. CASE c = b
    BY <1>3, <2>1
  <2>2. CASE c # b
    BY <1>1, <1>3, <2>2 DEF BuildsFit
  <2> QED  BY <2>1, <2>2
<1> QED  BY <1>2, <1>4 DEF BuildsFit, NoBuild

LEMMA InBuildIsNat ==
    ASSUME TypeOK, Control
    PROVE  InBuild \in Nat
<1>1. MaxBuilds \in Nat /\ BuildIds = 1 .. MaxBuilds
  BY BufferAssumption DEF BuildIds
<1>2. \A b \in BuildIds : Unbuilt(b) \in Nat
  <2>1. ASSUME NEW b \in BuildIds PROVE Unbuilt(b) \in Nat
    <3>1. builds[b].tasks \in Seq(Records) /\ builds[b].current \in Seq(Records)
      BY BuildFacts
    <3> DEFINE t == builds[b].tasks
               c == builds[b].current
    <3> HIDE DEF t, c
    <3>2. Len(t) \in Nat /\ Len(c) \in Nat
      BY <3>1, LenProperties DEF t, c
    <3>3. Len(t) + Len(c) \in Nat
      BY <3>2
    <3> QED  BY <3>3 DEF Unbuilt, t, c
  <2> QED  BY <2>1
<1>3. [b \in BuildIds |-> IF b \in Active THEN Unbuilt(b) ELSE 0] \in [1 .. MaxBuilds -> Nat]
  BY <1>1, <1>2
<1> QED  BY <1>1, <1>3, SumToIsNat DEF InBuild

LEMMA CheckGoesOnControl ==
    ASSUME TypeOK, Control, NEW f \in Flushers, CheckGoesOn(f)
    PROVE  TypeOK' /\ Control'
<1>0. /\ RecordTypes /\ QueueTypes /\ FlagTypes /\ BuildTypes /\ FlushTypes /\ CountTypes
      /\ LockFits /\ BatchFits /\ BackFits /\ MineFits /\ BuildsFit /\ CountsFit
  BY TypeParts DEF Control
<1> USE <1>0 DEF recordVars, queueVars, replayVars, buildVars, envVars, askVars, flushVars, Go
<1>a. pc[f] = "check" /\ UNCHANGED <<builds, jobs, lock, batch, inFlight, parked>>
  BY DEF CheckGoesOn
<1>b. Moved(f, "hand", mine[f], back[f])
  BY QuietEffects
<1>1. RecordTypes'
  BY DEF RecordTypes, CheckGoesOn, Leave, All, Fates
<1>2. QueueTypes'
  BY DEF QueueTypes, CheckGoesOn
<1>3. FlagTypes'
  BY DEF FlagTypes, CheckGoesOn
<1>4. BuildTypes'
  BY DEF BuildTypes, CheckGoesOn
<1>5. FlushTypes'
  BY <1>b DEF FlushTypes, CheckGoesOn, Moved
<1>6. CountTypes'
  BY DEF CountTypes, CheckGoesOn
<1>7. LockFits'
  BY <1>a, <1>b DEF LockFits, Moved
<1>8. BatchFits'
  BY <1>a, <1>b DEF BatchFits, Moved, FlagTypes
<1>9. BackFits'
  BY <1>a, <1>b DEF BackFits, Moved
<1>10. MineFits'
  <2>1. mine[f] \in BuildIds /\ builds[mine[f]].mode = "held" /\ builds' = builds
    BY <1>a, OwnBuild DEF Owning
  <2>2. mine[f] # 0 /\ builds'[mine[f]].mode = "held" /\ "hand" \in Owning
    BY <2>1, BuildFacts DEF Owning
  <2> QED  BY <1>a, <1>b, <2>1, <2>2, MineMoved
<1>11. BuildsFit'
  BY <1>a DEF BuildsFit
<1>12. CountsFit'
  BY DEF CountsFit, CheckGoesOn
<1> QED  BY <1>1, <1>2, <1>3, <1>4, <1>5, <1>6, <1>7, <1>8, <1>9, <1>10, <1>11, <1>12, TypePartsNext DEF Control

LEMMA SkipLockControl ==
    ASSUME TypeOK, Control, NEW f \in Flushers, SkipLock(f)
    PROVE  TypeOK' /\ Control'
<1>0. /\ RecordTypes /\ QueueTypes /\ FlagTypes /\ BuildTypes /\ FlushTypes /\ CountTypes
      /\ LockFits /\ BatchFits /\ BackFits /\ MineFits /\ BuildsFit /\ CountsFit
  BY TypeParts DEF Control
<1> USE <1>0 DEF recordVars, queueVars, replayVars, buildVars, envVars, askVars, flushVars, Go
<1>a. pc[f] = "lock" /\ UNCHANGED <<builds, jobs, lock, batch, inFlight, parked>>
  BY DEF SkipLock
<1>b. Moved(f, "count", mine[f], back[f])
  BY QuietEffects
<1>1. RecordTypes'
  BY DEF RecordTypes, SkipLock, Leave, All, Fates
<1>2. QueueTypes'
  BY DEF QueueTypes, SkipLock
<1>3. FlagTypes'
  BY DEF FlagTypes, SkipLock
<1>4. BuildTypes'
  BY DEF BuildTypes, SkipLock
<1>5. FlushTypes'
  BY <1>b DEF FlushTypes, SkipLock, Moved
<1>6. CountTypes'
  BY DEF CountTypes, SkipLock
<1>7. LockFits'
  BY <1>a, <1>b DEF LockFits, Moved
<1>8. BatchFits'
  BY <1>a, <1>b DEF BatchFits, Moved, FlagTypes
<1>9. BackFits'
  BY <1>a, <1>b DEF BackFits, Moved
<1>10. MineFits'
  BY <1>a, <1>b, OwnBuild, MineMoved DEF Owning
<1>11. BuildsFit'
  BY <1>a DEF BuildsFit
<1>12. CountsFit'
  BY DEF CountsFit, SkipLock
<1> QED  BY <1>1, <1>2, <1>3, <1>4, <1>5, <1>6, <1>7, <1>8, <1>9, <1>10, <1>11, <1>12, TypePartsNext DEF Control

LEMMA CountUndeliveredControl ==
    ASSUME TypeOK, Control, NEW f \in Flushers, CountUndelivered(f)
    PROVE  TypeOK' /\ Control'
<1>0. /\ RecordTypes /\ QueueTypes /\ FlagTypes /\ BuildTypes /\ FlushTypes /\ CountTypes
      /\ LockFits /\ BatchFits /\ BackFits /\ MineFits /\ BuildsFit /\ CountsFit
  BY TypeParts DEF Control
<1> USE <1>0 DEF recordVars, queueVars, replayVars, buildVars, envVars, askVars, flushVars, Go
<1>a. pc[f] = "count" /\ UNCHANGED <<builds, jobs, lock, batch, inFlight, parked>>
  BY DEF CountUndelivered
<1>b. Moved(f, IF HasDeadline(f) THEN "tally" ELSE "idle", mine[f], back[f])
  BY QuietEffects
<1>1. RecordTypes'
  BY DEF RecordTypes, CountUndelivered, Leave, All, Fates
<1>2. QueueTypes'
  BY DEF QueueTypes, CountUndelivered
<1>3. FlagTypes'
  BY DEF FlagTypes, CountUndelivered
<1>4. BuildTypes'
  BY DEF BuildTypes, CountUndelivered
<1>5. FlushTypes'
  BY <1>b DEF FlushTypes, CountUndelivered, Moved, Put
<1>6. CountTypes'
  <2>1. Undelivered \in Nat
    BY DEF Undelivered, Held, QueueTypes
  <2> QED  BY <2>1 DEF CountTypes, CountUndelivered, Put
<1>7. LockFits'
  BY <1>a, <1>b DEF LockFits, Moved
<1>8. BatchFits'
  BY <1>a, <1>b DEF BatchFits, Moved, FlagTypes
<1>9. BackFits'
  BY <1>a, <1>b DEF BackFits, Moved
<1>10. MineFits'
  BY <1>a, <1>b, OwnBuild, MineMoved DEF Owning
<1>11. BuildsFit'
  BY <1>a DEF BuildsFit
<1>12. CountsFit'
  BY DEF CountsFit, CountUndelivered
<1> QED  BY <1>1, <1>2, <1>3, <1>4, <1>5, <1>6, <1>7, <1>8, <1>9, <1>10, <1>11, <1>12, TypePartsNext DEF Control

LEMMA CountInBuildControl ==
    ASSUME TypeOK, Control, NEW f \in Flushers, CountInBuild(f)
    PROVE  TypeOK' /\ Control'
<1>0. /\ RecordTypes /\ QueueTypes /\ FlagTypes /\ BuildTypes /\ FlushTypes /\ CountTypes
      /\ LockFits /\ BatchFits /\ BackFits /\ MineFits /\ BuildsFit /\ CountsFit
  BY TypeParts DEF Control
<1> USE <1>0 DEF recordVars, queueVars, replayVars, buildVars, envVars, askVars, flushVars, Go
<1>a. pc[f] = "tally" /\ UNCHANGED <<builds, jobs, lock, batch, inFlight, parked>>
  BY DEF CountInBuild
<1>b. Moved(f, "done", mine[f], back[f])
  BY QuietEffects
<1>1. RecordTypes'
  BY DEF RecordTypes, CountInBuild, Leave, All, Fates
<1>2. QueueTypes'
  BY DEF QueueTypes, CountInBuild
<1>3. FlagTypes'
  BY DEF FlagTypes, CountInBuild
<1>4. BuildTypes'
  BY DEF BuildTypes, CountInBuild
<1>5. FlushTypes'
  BY <1>b DEF FlushTypes, CountInBuild, Moved
<1>6. CountTypes'
  <2>1. InBuild \in Nat
    BY InBuildIsNat
  <2>2. total.cutShort \in Nat /\ base[f] \in Nat /\ base[f] <= total.cutShort /\ report[f] \in Nat
    BY DEF CountTypes, CountsFit
  <2>3. report[f] + InBuild + (total.cutShort - base[f]) \in Nat
    BY <2>1, <2>2
  <2> QED  BY <2>3 DEF CountTypes, CountInBuild, Put
<1>7. LockFits'
  BY <1>a, <1>b DEF LockFits, Moved
<1>8. BatchFits'
  BY <1>a, <1>b DEF BatchFits, Moved, FlagTypes
<1>9. BackFits'
  BY <1>a, <1>b DEF BackFits, Moved
<1>10. MineFits'
  BY <1>a, <1>b, OwnBuild, MineMoved DEF Owning
<1>11. BuildsFit'
  BY <1>a DEF BuildsFit
<1>12. CountsFit'
  BY DEF CountsFit, CountInBuild
<1> QED  BY <1>1, <1>2, <1>3, <1>4, <1>5, <1>6, <1>7, <1>8, <1>9, <1>10, <1>11, <1>12, TypePartsNext DEF Control

LEMMA SetShutdownControl ==
    ASSUME TypeOK, Control, NEW f \in Flushers, SetShutdown(f)
    PROVE  TypeOK' /\ Control'
<1>0. /\ RecordTypes /\ QueueTypes /\ FlagTypes /\ BuildTypes /\ FlushTypes /\ CountTypes
      /\ LockFits /\ BatchFits /\ BackFits /\ MineFits /\ BuildsFit /\ CountsFit
  BY TypeParts DEF Control
<1> USE <1>0 DEF recordVars, queueVars, replayVars, buildVars, envVars, askVars, flushVars, Go
<1>a. pc[f] = "await" /\ UNCHANGED <<builds, jobs, lock, batch, inFlight, parked>>
  BY DEF SetShutdown
<1>b. Moved(f, "flush", mine[f], back[f])
  BY QuietEffects
<1>1. RecordTypes'
  BY DEF RecordTypes, SetShutdown, Leave, All, Fates
<1>2. QueueTypes'
  BY DEF QueueTypes, SetShutdown
<1>3. FlagTypes'
  BY DEF FlagTypes, SetShutdown
<1>4. BuildTypes'
  BY DEF BuildTypes, SetShutdown
<1>5. FlushTypes'
  BY <1>b DEF FlushTypes, SetShutdown, Moved
<1>6. CountTypes'
  BY DEF CountTypes, SetShutdown
<1>7. LockFits'
  BY <1>a, <1>b DEF LockFits, Moved
<1>8. BatchFits'
  BY <1>a, <1>b DEF BatchFits, Moved, FlagTypes
<1>9. BackFits'
  BY <1>a, <1>b DEF BackFits, Moved
<1>10. MineFits'
  BY <1>a, <1>b, OwnBuild, MineMoved DEF Owning
<1>11. BuildsFit'
  BY <1>a DEF BuildsFit
<1>12. CountsFit'
  BY DEF CountsFit, SetShutdown
<1> QED  BY <1>1, <1>2, <1>3, <1>4, <1>5, <1>6, <1>7, <1>8, <1>9, <1>10, <1>11, <1>12, TypePartsNext DEF Control

\* A build is registered for f.
LEMMA Registered ==
    ASSUME TypeOK, Control, NEW f \in Flushers, NEW to \in Owning, NEW tasks, NEW ts \in Seq(Records), Free # {},
           Moved(f, to, NewBuild, tasks), Became(NewBuild, [NoBuild EXCEPT !.tasks = ts, !.mode = "held"]),
           UNCHANGED jobs
    PROVE  BuildTypes' /\ BuildsFit' /\ MineFits'
<1> DEFINE new == [NoBuild EXCEPT !.tasks = ts, !.mode = "held"]
<1>1. NewBuild \in BuildIds /\ NewBuild # 0 /\ builds[NewBuild] = NoBuild /\ builds[NewBuild].mode = "free"
  BY BuildFacts DEF NoBuild
<1>2. /\ new \in BuildType /\ new.mode = "held" /\ new.current = <<>> /\ new.built = FALSE
      /\ Len(new.current) <= 1
  <2>1. NoBuild \in BuildType
    BY BuildFacts
  <2>2. new \in BuildType
    BY <2>1 DEF BuildType, Modes
  <2>3. new.mode = "held"
    BY DEF NoBuild
  <2>4. new.current = <<>>
    BY DEF NoBuild
  <2>5. new.built = FALSE
    BY DEF NoBuild
  <2>6. Len(<<>>) <= 1
    OBVIOUS
  <2> QED  BY <2>2, <2>3, <2>4, <2>5, <2>6
<1>3. Became(NewBuild, new)
  OBVIOUS
<1>4. \A c \in BuildIds : c \in Range(jobs) => c \in Range(jobs')
  OBVIOUS
<1> HIDE DEF new
<1>5. BuildsFit' /\ builds' \in [BuildIds -> BuildType]
  BY <1>1, <1>2, <1>3, <1>4, BuildsBecame
<1>6. builds'[NewBuild] = new /\ \A b \in BuildIds : b # NewBuild => builds'[b] = builds[b]
  BY <1>1, <1>3 DEF Became
<1>7. MineFits'
  BY <1>1, <1>2, <1>6, MineMoved
<1>8. jobs \in Seq(BuildIds)
  BY TypeParts DEF BuildTypes
<1> QED  BY <1>5, <1>7, <1>8 DEF BuildTypes

\* The build of f is forgotten.
LEMMA Forgotten ==
    ASSUME TypeOK, Control, NEW f \in Flushers, NEW to, NEW tasks, to \notin Owning, mine[f] \in BuildIds,
           Moved(f, to, 0, tasks), Became(mine[f], NoBuild), UNCHANGED jobs
    PROVE  BuildTypes' /\ BuildsFit' /\ MineFits'
<1>1. /\ NoBuild \in BuildType /\ NoBuild.mode = "free" /\ NoBuild.current = <<>> /\ NoBuild.built = FALSE
      /\ Len(NoBuild.current) <= 1
  BY DEF NoBuild, BuildType, Modes
<1>2. \A c \in BuildIds : c \in Range(jobs) => c \in Range(jobs')
  OBVIOUS
<1>3. BuildsFit' /\ builds' \in [BuildIds -> BuildType]
  BY <1>1, <1>2, BuildsBecame
<1>4. \A b \in BuildIds : b # mine[f] => builds'[b] = builds[b]
  BY DEF Became
<1>5. MineFits'
  BY <1>4, MineMoved
<1>6. jobs \in Seq(BuildIds)
  BY TypeParts DEF BuildTypes
<1> QED  BY <1>3, <1>5, <1>6 DEF BuildTypes

\* The build of f changes, and f keeps it or leaves it to itself.
LEMMA Changed ==
    ASSUME TypeOK, Control, NEW f \in Flushers, NEW to, NEW m, NEW tasks, NEW build \in BuildType,
           mine[f] \in BuildIds, Moved(f, to, m, tasks), Became(mine[f], build), jobs' \in Seq(BuildIds),
           \A c \in BuildIds : c \in Range(jobs) => c \in Range(jobs'),
           m \in {0, mine[f]},
           build.mode # "free",
           build.mode \in {"held", "over"} => build.current = <<>>,
           build.built => build.current # <<>>,
           Len(build.current) <= 1,
           build.mode = "queued" => mine[f] \in Range(jobs'),
           to \in Owning => m = mine[f] /\ build.mode = "held",
           to \notin Owning /\ m # 0 =>
               to \in {"wait", "return"} /\ build.mode \in {"queued", "own", "inline", "over"}
    PROVE  BuildTypes' /\ BuildsFit' /\ MineFits'
<1>1. BuildsFit' /\ builds' \in [BuildIds -> BuildType]
  BY BuildsBecame
<1>2. builds'[mine[f]] = build /\ \A b \in BuildIds : b # mine[f] => builds'[b] = builds[b]
  BY DEF Became
<1>3. mine[f] # 0
  BY BuildFacts
<1>4. MineFits'
  BY <1>2, <1>3, MineMoved
<1> QED  BY <1>1, <1>4 DEF BuildTypes

LEMMA StartFlushControl ==
    ASSUME TypeOK, Control, NEW f \in Flushers, StartFlush(f)
    PROVE  TypeOK' /\ Control'
<1>0. /\ RecordTypes /\ QueueTypes /\ FlagTypes /\ BuildTypes /\ FlushTypes /\ CountTypes
      /\ LockFits /\ BatchFits /\ BackFits /\ MineFits /\ BuildsFit /\ CountsFit
  BY TypeParts DEF Control
<1> USE <1>0 DEF recordVars, queueVars, replayVars, buildVars, envVars, askVars, flushVars, Go
<1>a. pc[f] \in {"idle", "flush"} /\ Free # {} /\ UNCHANGED <<jobs, lock, batch, inFlight, parked>>
  BY StartFlushEffect DEF StartFlush
<1>b. Moved(f, "check", NewBuild, back[f])
  BY StartFlushEffect
<1>c. NewBuild \in BuildIds /\ Only(events, Overflow) \in Seq(Records)
  BY <1>a, BuildFacts, OnlyFacts DEF QueueTypes
<1>d. BuildTypes' /\ BuildsFit' /\ MineFits'
  <2>1. "check" \in Owning
    BY DEF Owning
  <2>2. Became(NewBuild, [NoBuild EXCEPT !.tasks = Only(events, Overflow), !.mode = "held"])
    BY StartFlushEffect
  <2> QED  BY <1>a, <1>b, <1>c, <2>1, <2>2, Registered
<1>1. RecordTypes'
  BY DEF RecordTypes, StartFlush, Leave, All, Fates
<1>2. QueueTypes'
  <2>1. Only(events, Records \ Overflow) \in Seq(Records)
    BY OnlyFacts DEF QueueTypes
  <2> QED  BY <2>1 DEF QueueTypes, StartFlush
<1>3. FlagTypes'
  BY DEF FlagTypes, StartFlush
<1>4. BuildTypes'
  BY <1>d
<1>5. FlushTypes'
  BY <1>b, <1>c, BuildFacts DEF FlushTypes, StartFlush, Moved, Put
<1>6. CountTypes'
  <2>1. total.cutShort \in Nat /\ HeldRecords \subseteq Records
    BY DEF CountTypes, HeldRecords
  <2> QED  BY <2>1 DEF CountTypes, StartFlush, Put
<1>7. LockFits'
  BY <1>a, <1>b DEF LockFits, Moved
<1>8. BatchFits'
  BY <1>a, <1>b DEF BatchFits, Moved, FlagTypes
<1>9. BackFits'
  BY <1>a, <1>b DEF BackFits, Moved
<1>10. MineFits'
  BY <1>d
<1>11. BuildsFit'
  BY <1>d
<1>12. CountsFit'
  <2>1. UNCHANGED <<late, total>> /\ total.cutShort \in Nat
    BY DEF StartFlush, CountTypes
  <2>2. \A g \in Flushers : base'[g] = base[g] \/ base'[g] = total.cutShort
    BY DEF StartFlush, CountTypes, Put
  <2> QED  BY <2>1, <2>2 DEF CountsFit
<1> QED  BY <1>1, <1>2, <1>3, <1>4, <1>5, <1>6, <1>7, <1>8, <1>9, <1>10, <1>11, <1>12, TypePartsNext DEF Control

LEMMA TakeLockControl ==
    ASSUME TypeOK, Control, NEW f \in Flushers, TakeLock(f)
    PROVE  TypeOK' /\ Control'
<1>0. /\ RecordTypes /\ QueueTypes /\ FlagTypes /\ BuildTypes /\ FlushTypes /\ CountTypes
      /\ LockFits /\ BatchFits /\ BackFits /\ MineFits /\ BuildsFit /\ CountsFit
  BY TypeParts DEF Control
<1> USE <1>0 DEF recordVars, queueVars, replayVars, buildVars, envVars, askVars, flushVars, Go
<1>a. pc[f] = "lock" /\ lock = Nobody /\ Free # {} /\ UNCHANGED <<jobs, batch, inFlight, parked>>
  BY TakeLockEffect DEF TakeLock
<1>b. Moved(f, "take", NewBuild, back[f])
  BY TakeLockEffect
<1>c. NewBuild \in BuildIds /\ <<>> \in Seq(Records)
  BY <1>a, BuildFacts
<1>d. BuildTypes' /\ BuildsFit' /\ MineFits'
  <2>1. "take" \in Owning
    BY DEF Owning
  <2>2. Became(NewBuild, [NoBuild EXCEPT !.tasks = <<>>, !.mode = "held"])
    BY TakeLockEffect
  <2> QED  BY <1>a, <1>b, <1>c, <2>1, <2>2, Registered
<1>1. RecordTypes'
  BY DEF RecordTypes, TakeLock, Leave, All, Fates
<1>2. QueueTypes'
  BY DEF QueueTypes, TakeLock
<1>3. FlagTypes'
  BY DEF FlagTypes, TakeLock
<1>4. BuildTypes'
  BY <1>d
<1>5. FlushTypes'
  BY <1>b, <1>c DEF FlushTypes, TakeLock, Moved, Put
<1>6. CountTypes'
  BY DEF CountTypes, TakeLock
<1>7. LockFits'
  <2>1. lock' = f /\ Nobody \notin Flushers
    BY BufferAssumption DEF TakeLock
  <2> QED  BY <1>a, <1>b, <2>1 DEF LockFits, Moved
<1>8. BatchFits'
  <2>1. lock' = f /\ Nobody \notin Flushers /\ batch = <<>>
    BY <1>a, BufferAssumption DEF TakeLock, BatchFits
  <2> QED  BY <1>a, <2>1 DEF BatchFits
<1>9. BackFits'
  BY <1>a, <1>b DEF BackFits, Moved
<1>10. MineFits'
  BY <1>d
<1>11. BuildsFit'
  BY <1>d
<1>12. CountsFit'
  BY DEF CountsFit, TakeLock
<1> QED  BY <1>1, <1>2, <1>3, <1>4, <1>5, <1>6, <1>7, <1>8, <1>9, <1>10, <1>11, <1>12, TypePartsNext DEF Control

LEMMA CheckExitingControl ==
    ASSUME TypeOK, Control, NEW f \in Flushers, CheckExiting(f)
    PROVE  TypeOK' /\ Control'
<1>0. /\ RecordTypes /\ QueueTypes /\ FlagTypes /\ BuildTypes /\ FlushTypes /\ CountTypes
      /\ LockFits /\ BatchFits /\ BackFits /\ MineFits /\ BuildsFit /\ CountsFit
  BY TypeParts DEF Control
<1> USE <1>0 DEF recordVars, queueVars, replayVars, buildVars, envVars, askVars, flushVars, Go
<1>a. pc[f] = "check" /\ UNCHANGED <<jobs, lock, batch, inFlight, parked>>
  BY DEF CheckExiting
<1>b. Moved(f, "return", 0, builds[mine[f]].tasks) /\ Became(mine[f], NoBuild)
  BY CheckExitingEffect
<1>c. mine[f] \in BuildIds /\ builds[mine[f]].tasks \in Seq(Records)
  BY <1>a, BuildFacts, OwnBuild DEF Owning
<1>d. BuildTypes' /\ BuildsFit' /\ MineFits'
  <2>1. "return" \notin Owning
    BY DEF Owning
  <2> QED  BY <1>a, <1>b, <1>c, <2>1, Forgotten
<1>1. RecordTypes'
  BY DEF RecordTypes, CheckExiting, Leave, All, Fates
<1>2. QueueTypes'
  BY DEF QueueTypes, CheckExiting
<1>3. FlagTypes'
  BY DEF FlagTypes, CheckExiting
<1>4. BuildTypes'
  BY <1>d
<1>5. FlushTypes'
  BY <1>b, <1>c DEF FlushTypes, CheckExiting, Moved
<1>6. CountTypes'
  BY DEF CountTypes, CheckExiting
<1>7. LockFits'
  BY <1>a, <1>b DEF LockFits, Moved
<1>8. BatchFits'
  BY <1>a, <1>b DEF BatchFits, Moved, FlagTypes
<1>9. BackFits'
  BY <1>a, <1>b DEF BackFits, Moved
<1>10. MineFits'
  BY <1>d
<1>11. BuildsFit'
  BY <1>d
<1>12. CountsFit'
  BY DEF CountsFit, CheckExiting
<1> QED  BY <1>1, <1>2, <1>3, <1>4, <1>5, <1>6, <1>7, <1>8, <1>9, <1>10, <1>11, <1>12, TypePartsNext DEF Control

LEMMA HandOnEventLoopControl ==
    ASSUME TypeOK, Control, NEW f \in Flushers, HandOnEventLoop(f)
    PROVE  TypeOK' /\ Control'
<1>0. /\ RecordTypes /\ QueueTypes /\ FlagTypes /\ BuildTypes /\ FlushTypes /\ CountTypes
      /\ LockFits /\ BatchFits /\ BackFits /\ MineFits /\ BuildsFit /\ CountsFit
  BY TypeParts DEF Control
<1> USE <1>0 DEF recordVars, queueVars, replayVars, buildVars, envVars, askVars, flushVars, Go
<1>a. pc[f] = "hand" /\ UNCHANGED <<jobs, lock, batch, inFlight, parked>>
  BY DEF HandOnEventLoop
<1>b. Moved(f, "return", 0, builds[mine[f]].tasks) /\ Became(mine[f], NoBuild)
  BY HandOnEventLoopEffect
<1>c. mine[f] \in BuildIds /\ builds[mine[f]].tasks \in Seq(Records)
  BY <1>a, BuildFacts, OwnBuild DEF Owning
<1>d. BuildTypes' /\ BuildsFit' /\ MineFits'
  <2>1. "return" \notin Owning
    BY DEF Owning
  <2> QED  BY <1>a, <1>b, <1>c, <2>1, Forgotten
<1>1. RecordTypes'
  BY DEF RecordTypes, HandOnEventLoop, Leave, All, Fates
<1>2. QueueTypes'
  BY DEF QueueTypes, HandOnEventLoop
<1>3. FlagTypes'
  BY DEF FlagTypes, HandOnEventLoop
<1>4. BuildTypes'
  BY <1>d
<1>5. FlushTypes'
  BY <1>b, <1>c DEF FlushTypes, HandOnEventLoop, Moved
<1>6. CountTypes'
  BY DEF CountTypes, HandOnEventLoop
<1>7. LockFits'
  BY <1>a, <1>b DEF LockFits, Moved
<1>8. BatchFits'
  BY <1>a, <1>b DEF BatchFits, Moved, FlagTypes
<1>9. BackFits'
  BY <1>a, <1>b DEF BackFits, Moved
<1>10. MineFits'
  BY <1>d
<1>11. BuildsFit'
  BY <1>d
<1>12. CountsFit'
  BY DEF CountsFit, HandOnEventLoop
<1> QED  BY <1>1, <1>2, <1>3, <1>4, <1>5, <1>6, <1>7, <1>8, <1>9, <1>10, <1>11, <1>12, TypePartsNext DEF Control

LEMMA ForgetEmptyControl ==
    ASSUME TypeOK, Control, NEW f \in Flushers, ForgetEmpty(f)
    PROVE  TypeOK' /\ Control'
<1>0. /\ RecordTypes /\ QueueTypes /\ FlagTypes /\ BuildTypes /\ FlushTypes /\ CountTypes
      /\ LockFits /\ BatchFits /\ BackFits /\ MineFits /\ BuildsFit /\ CountsFit
  BY TypeParts DEF Control
<1> USE <1>0 DEF recordVars, queueVars, replayVars, buildVars, envVars, askVars, flushVars, Go
<1>a. pc[f] \in {"check", "hand"} /\ UNCHANGED <<jobs, lock, batch, inFlight, parked>>
  BY DEF ForgetEmpty
<1>b. Moved(f, After(stage[f]), 0, back[f]) /\ Became(mine[f], NoBuild)
  BY ForgetEmptyEffect
<1>c. mine[f] \in BuildIds /\ After(stage[f]) \in {"await", "lock", "count"}
  BY <1>a, BuildFacts, OwnBuild DEF Owning, After
<1>d. BuildTypes' /\ BuildsFit' /\ MineFits'
  <2>1. After(stage[f]) \notin Owning
    BY <1>c DEF Owning
  <2> QED  BY <1>a, <1>b, <1>c, <2>1, Forgotten
<1>1. RecordTypes'
  BY DEF RecordTypes, ForgetEmpty, Leave, All, Fates
<1>2. QueueTypes'
  BY DEF QueueTypes, ForgetEmpty
<1>3. FlagTypes'
  BY DEF FlagTypes, ForgetEmpty
<1>4. BuildTypes'
  BY <1>d
<1>5. FlushTypes'
  BY <1>b, <1>c DEF FlushTypes, ForgetEmpty, Moved
<1>6. CountTypes'
  BY DEF CountTypes, ForgetEmpty
<1>7. LockFits'
  BY <1>a, <1>b, <1>c DEF LockFits, Moved
<1>8. BatchFits'
  BY <1>a, <1>b, <1>c DEF BatchFits, Moved, FlagTypes
<1>9. BackFits'
  BY <1>a, <1>b DEF BackFits, Moved
<1>10. MineFits'
  BY <1>d
<1>11. BuildsFit'
  BY <1>d
<1>12. CountsFit'
  BY DEF CountsFit, ForgetEmpty
<1> QED  BY <1>1, <1>2, <1>3, <1>4, <1>5, <1>6, <1>7, <1>8, <1>9, <1>10, <1>11, <1>12, TypePartsNext DEF Control

LEMMA HandToThreadControl ==
    ASSUME TypeOK, Control, NEW f \in Flushers, HandToThread(f)
    PROVE  TypeOK' /\ Control'
<1>0. /\ RecordTypes /\ QueueTypes /\ FlagTypes /\ BuildTypes /\ FlushTypes /\ CountTypes
      /\ LockFits /\ BatchFits /\ BackFits /\ MineFits /\ BuildsFit /\ CountsFit
  BY TypeParts DEF Control
<1> USE <1>0 DEF recordVars, queueVars, replayVars, buildVars, envVars, askVars, flushVars, Go
<1>a. pc[f] = "hand" /\ UNCHANGED <<lock, batch, inFlight, parked>>
  BY DEF HandToThread
<1>b. Moved(f, "wait", mine[f], back[f])
  BY HandToThreadEffect
<1>c. /\ mine[f] \in BuildIds /\ builds[mine[f]] \in BuildType /\ jobs \in Seq(BuildIds)
      /\ builds[mine[f]].current = <<>> /\ ~builds[mine[f]].built
  BY <1>a, BuildFacts, OwnBuild DEF Owning, BuildTypes
<1>d. BuildTypes' /\ BuildsFit' /\ MineFits'
  <2> DEFINE as(mode) == [builds[mine[f]] EXCEPT !.mode = mode]
  <2>1. ASSUME NEW mode \in {"own", "queued"}
        PROVE  /\ as(mode) \in BuildType /\ as(mode).mode = mode
               /\ as(mode).current = <<>> /\ ~as(mode).built /\ Len(as(mode).current) <= 1
    <3>1. Len(<<>>) <= 1
      OBVIOUS
    <3>2. as(mode).current = <<>> /\ ~as(mode).built /\ as(mode).mode = mode
      BY <1>c DEF BuildType
    <3>3. as(mode) \in BuildType
      BY <1>c DEF BuildType, Modes
    <3> QED  BY <3>1, <3>2, <3>3
  <2>2. "wait" \notin Owning
    BY DEF Owning
  <2>3. CASE Became(mine[f], as("own")) /\ UNCHANGED jobs
    <3>1. as("own") \in BuildType /\ as("own").mode = "own" /\ ~as("own").built /\ Len(as("own").current) <= 1
      BY <2>1
    <3> HIDE DEF as
    <3> QED  BY <1>b, <1>c, <2>2, <2>3, <3>1, Changed
  <2>4. CASE Became(mine[f], as("queued")) /\ jobs' = Append(jobs, mine[f])
    <3>1. /\ as("queued") \in BuildType /\ as("queued").mode = "queued" /\ ~as("queued").built
          /\ Len(as("queued").current) <= 1
      BY <2>1
    <3>2. /\ jobs' \in Seq(BuildIds) /\ mine[f] \in Range(jobs')
          /\ \A c \in BuildIds : c \in Range(jobs) => c \in Range(jobs')
      BY <1>c, <2>4, BeforeAppend
    <3> HIDE DEF as
    <3> QED  BY <1>b, <1>c, <2>2, <2>4, <3>1, <3>2, Changed
  <2> QED  BY <2>3, <2>4, HandToThreadEffect
<1>1. RecordTypes'
  BY DEF RecordTypes, HandToThread, Leave, All, Fates
<1>2. QueueTypes'
  BY DEF QueueTypes, HandToThread
<1>3. FlagTypes'
  BY DEF FlagTypes, HandToThread
<1>4. BuildTypes'
  BY <1>d
<1>5. FlushTypes'
  BY <1>b, <1>c DEF FlushTypes, HandToThread, Moved
<1>6. CountTypes'
  BY DEF CountTypes, HandToThread
<1>7. LockFits'
  BY <1>a, <1>b DEF LockFits, Moved
<1>8. BatchFits'
  BY <1>a, <1>b DEF BatchFits, Moved, FlagTypes
<1>9. BackFits'
  BY <1>a, <1>b DEF BackFits, Moved
<1>10. MineFits'
  BY <1>d
<1>11. BuildsFit'
  BY <1>d
<1>12. CountsFit'
  BY DEF CountsFit, HandToThread
<1> QED  BY <1>1, <1>2, <1>3, <1>4, <1>5, <1>6, <1>7, <1>8, <1>9, <1>10, <1>11, <1>12, TypePartsNext DEF Control

LEMMA VisitedFacts ==
    ASSUME TypeOK, NEW n \in 0 .. Len(events), NEW what
    PROVE  /\ Visited(n, what) \in Seq(Records) /\ Len(Visited(n, what)) <= n
           /\ \A x : x \in Range(Visited(n, what)) <=>
                         x \in Range(SubSeq(events, 1, n)) /\ x \in Records /\ Visit(x) = what
           /\ \A x, y : Before(Visited(n, what), x, y) <=>
                  Before(SubSeq(events, 1, n), x, y) /\ x \in Records /\ Visit(x) = what /\ y \in Records /\ Visit(y) = what
<1> DEFINE first == SubSeq(events, 1, n)
           S == {r \in Records : Visit(r) = what}
<1>1. first \in Seq(Records) /\ Len(first) = n
  BY TypeParts, DropFacts DEF QueueTypes
<1>2. Visited(n, what) = Only(first, S)
  BY DEF Visited
<1>3. \A x : x \in S <=> x \in Records /\ Visit(x) = what
  OBVIOUS
<1> HIDE DEF first, S
<1>4. /\ Only(first, S) \in Seq(Records) /\ Len(Only(first, S)) <= Len(first)
      /\ \A x : x \in Range(Only(first, S)) <=> x \in Range(first) /\ x \in S
      /\ \A x, y : Before(Only(first, S), x, y) <=> Before(first, x, y) /\ x \in S /\ y \in S
  BY <1>1, OnlyFacts
<1> QED  BY <1>1, <1>2, <1>3, <1>4 DEF first

\* The records of the batch that ended in this way.
EndedAs(outcome, what) == {r \in Range(batch) : outcome[r] = what}
LineAfter(outcome) == parked \o Only(batch, EndedAs(outcome, "retry") \cup EndedAs(outcome, "untried"))
GoneAfter(outcome) == Evicted(LineAfter(outcome), events, MaxSize)

\* The replays of f ended in this way.
Settles(f, outcome) ==
    /\ HoldAtMost(LineAfter(outcome), events, MaxSize)
    /\ Leave([r \in EndedAs(outcome, "sent") \cup EndedAs(outcome, "discarded") \cup GoneAfter(outcome) |->
                 IF r \in GoneAfter(outcome) THEN "evicted" ELSE outcome[r]])
    /\ total' = [total EXCEPT !.replayed = @ + Cardinality(EndedAs(outcome, "sent")),
                              !.discarded = @ + Cardinality(EndedAs(outcome, "discarded")),
                              !.evicted = @ + Cardinality(GoneAfter(outcome))]
    /\ inFlight' = inFlight - Cardinality(Range(batch))
    /\ unreachable' = unreachable \cup {kind[r] : r \in EndedAs(outcome, "retry")}
    /\ circuitOpen' \in {circuitOpen, TRUE, FALSE}

LEMMA SettleReplaysEffect ==
    ASSUME NEW f \in Flushers, SettleReplays(f)
    PROVE  \E outcome \in [Range(batch) -> ReplayOutcomes(f)] : Settles(f, outcome)
<1>1. PICK outcome \in [Range(batch) -> ReplayOutcomes(f)] :
        LET Ended(what) == {r \in Range(batch) : outcome[r] = what}
            line == parked \o Only(batch, Ended("retry") \cup Ended("untried"))
            gone == Evicted(line, events, MaxSize)
            failed == {kind[r] : r \in Ended("retry")}
        IN  /\ HoldAtMost(line, events, MaxSize)
            /\ Leave([r \in Ended("sent") \cup Ended("discarded") \cup gone |->
                         IF r \in gone THEN "evicted" ELSE outcome[r]])
            /\ total' = [total EXCEPT !.replayed = @ + Cardinality(Ended("sent")),
                                      !.discarded = @ + Cardinality(Ended("discarded")),
                                      !.evicted = @ + Cardinality(gone)]
            /\ inFlight' = inFlight - Answered(outcome)
            /\ unreachable' = unreachable \cup failed
            /\ IF Ended("sent") \cap Ai # {} THEN circuitOpen' = FALSE
               ELSE circuitOpen' \in IF "ai" \in failed THEN {circuitOpen, TRUE} ELSE {circuitOpen}
  BY DEF SettleReplays
<1>2. /\ HoldAtMost(LineAfter(outcome), events, MaxSize)
      /\ Leave([r \in EndedAs(outcome, "sent") \cup EndedAs(outcome, "discarded") \cup GoneAfter(outcome) |->
                   IF r \in GoneAfter(outcome) THEN "evicted" ELSE outcome[r]])
      /\ total' = [total EXCEPT !.replayed = @ + Cardinality(EndedAs(outcome, "sent")),
                                !.discarded = @ + Cardinality(EndedAs(outcome, "discarded")),
                                !.evicted = @ + Cardinality(GoneAfter(outcome))]
      /\ inFlight' = inFlight - Answered(outcome)
      /\ unreachable' = unreachable \cup {kind[r] : r \in EndedAs(outcome, "retry")}
  BY <1>1 DEF EndedAs, LineAfter, GoneAfter
<1>3. circuitOpen' \in {circuitOpen, TRUE, FALSE}
  BY <1>1
<1>4. Answered(outcome) = Cardinality(Range(batch))
  BY DEF Answered
<1> QED  BY <1>2, <1>3, <1>4 DEF Settles

LEMMA HandToSelfControl ==
    ASSUME TypeOK, Control, NEW f \in Flushers, HandToSelf(f)
    PROVE  TypeOK' /\ Control'
<1>0. /\ RecordTypes /\ QueueTypes /\ FlagTypes /\ BuildTypes /\ FlushTypes /\ CountTypes
      /\ LockFits /\ BatchFits /\ BackFits /\ MineFits /\ BuildsFit /\ CountsFit
  BY TypeParts DEF Control
<1> USE <1>0 DEF recordVars, queueVars, replayVars, buildVars, envVars, askVars, flushVars, Go
<1> DEFINE aside == Only(builds[mine[f]].tasks, Aside(f))
           kept == Only(builds[mine[f]].tasks, Records \ Aside(f))
           build == [builds[mine[f]] EXCEPT !.mode = "inline", !.tasks = kept]
<1>a. pc[f] = "hand" /\ UNCHANGED <<jobs, lock, batch, inFlight, parked>>
  BY DEF HandToSelf
<1>b. /\ Moved(f, IF aside = <<>> THEN "wait" ELSE "return", mine[f], aside)
      /\ Became(mine[f], build)
  BY HandToSelfEffect
<1>c. /\ mine[f] \in BuildIds /\ builds[mine[f]] \in BuildType
      /\ aside \in Seq(Records) /\ kept \in Seq(Records)
      /\ builds[mine[f]].current = <<>> /\ ~builds[mine[f]].built
  BY <1>a, BuildFacts, OwnBuild, OnlyFacts DEF Owning
<1> HIDE DEF aside, kept
<1>d. BuildTypes' /\ BuildsFit' /\ MineFits'
  <2>1. build \in BuildType
    BY <1>c DEF BuildType, Modes
  <2>2. build.mode = "inline" /\ build.current = <<>> /\ ~build.built
    BY <1>c DEF BuildType
  <2>3. Len(<<>>) <= 1
    OBVIOUS
  <2>4. (IF aside = <<>> THEN "wait" ELSE "return") \in {"wait", "return"}
    OBVIOUS
  <2>5. "wait" \notin Owning /\ "return" \notin Owning
    BY DEF Owning
  <2>6. jobs' \in Seq(BuildIds) /\ \A c \in BuildIds : c \in Range(jobs) => c \in Range(jobs')
    BY <1>a DEF BuildTypes
  <2> HIDE DEF build
  <2> QED  BY <1>b, <1>c, <2>1, <2>2, <2>3, <2>4, <2>5, <2>6, Changed
<1>1. RecordTypes'
  BY DEF RecordTypes, HandToSelf, Leave, All, Fates
<1>2. QueueTypes'
  BY DEF QueueTypes, HandToSelf
<1>3. FlagTypes'
  BY DEF FlagTypes, HandToSelf
<1>4. BuildTypes'
  BY <1>d
<1>5. FlushTypes'
  BY <1>b, <1>c, ZenonT(60) DEF FlushTypes, HandToSelf, Moved
<1>6. CountTypes'
  BY DEF CountTypes, HandToSelf
<1>7. LockFits'
  BY <1>a, <1>b DEF LockFits, Moved
<1>8. BatchFits'
  BY <1>a, <1>b DEF BatchFits, Moved, FlagTypes
<1>9. BackFits'
  BY <1>a, <1>b DEF BackFits, Moved
<1>10. MineFits'
  BY <1>d
<1>11. BuildsFit'
  BY <1>d
<1>12. CountsFit'
  BY DEF CountsFit, HandToSelf
<1> QED  BY <1>1, <1>2, <1>3, <1>4, <1>5, <1>6, <1>7, <1>8, <1>9, <1>10, <1>11, <1>12, TypePartsNext DEF Control

LEMMA EndWaitControl ==
    ASSUME TypeOK, Control, NEW f \in Flushers, EndWait(f)
    PROVE  TypeOK' /\ Control'
<1>0. /\ RecordTypes /\ QueueTypes /\ FlagTypes /\ BuildTypes /\ FlushTypes /\ CountTypes
      /\ LockFits /\ BatchFits /\ BackFits /\ MineFits /\ BuildsFit /\ CountsFit
  BY TypeParts DEF Control
<1> USE <1>0 DEF recordVars, queueVars, replayVars, buildVars, envVars, askVars, flushVars, Go
<1> DEFINE rest == IF mine[f] = 0 THEN <<>> ELSE builds[mine[f]].tasks
           to == IF rest = <<>> THEN After(stage[f]) ELSE "return"
<1>a. pc[f] = "wait" /\ UNCHANGED <<jobs, lock, batch, inFlight, parked>>
  BY DEF EndWait
<1>b. Moved(f, to, 0, rest)
  BY EndWaitEffect
<1>c. /\ rest \in Seq(Records) /\ mine[f] \in BuildIds \cup {0}
      /\ to \in {"await", "lock", "count", "return"} /\ (rest # <<>> => to = "return")
  BY BuildFacts, OwnBuild DEF After
<1> HIDE DEF rest, to
<1>d. BuildTypes' /\ BuildsFit' /\ MineFits'
  <2>1. to \notin Owning
    BY <1>c DEF Owning
  <2>2. CASE mine[f] = 0 /\ UNCHANGED builds
    <3>1. BuildTypes' /\ BuildsFit'
      BY <1>a, <2>2 DEF BuildTypes, BuildsFit
    <3>2. MineFits'
      BY <1>b, <2>1, <2>2, MineMoved
    <3> QED  BY <3>1, <3>2
  <2>3. CASE mine[f] \in BuildIds /\ builds[mine[f]].mode = "over" /\ Became(mine[f], NoBuild)
    BY <1>a, <1>b, <2>1, <2>3, Forgotten
  <2>4. CASE /\ mine[f] \in BuildIds /\ builds[mine[f]].mode \in {"queued", "own"}
             /\ Became(mine[f], Reclaimed(builds[mine[f]]))
    <3> DEFINE build == Reclaimed(builds[mine[f]])
    <3>1. builds[mine[f]] \in BuildType
      BY <2>4, BuildFacts
    <3>2. build \in BuildType
      <4>1. <<>> \in Seq(Records)
        OBVIOUS
      <4> QED  BY <3>1, <4>1 DEF BuildType, Modes, Reclaimed
    <3>3. /\ build.mode = builds[mine[f]].mode /\ build.current = builds[mine[f]].current
          /\ build.built = builds[mine[f]].built
      BY <3>1 DEF BuildType, Reclaimed
    <3>4. /\ builds[mine[f]].built => builds[mine[f]].current # <<>>
          /\ Len(builds[mine[f]].current) <= 1
          /\ builds[mine[f]].mode = "queued" => mine[f] \in Range(jobs)
      BY <2>4 DEF BuildsFit
    <3>5. jobs' = jobs /\ jobs' \in Seq(BuildIds)
      BY <1>a DEF BuildTypes
    <3> HIDE DEF build
    <3> QED  BY <1>b, <2>1, <2>4, <3>2, <3>3, <3>4, <3>5, Changed DEF build
  <2> QED  BY <2>2, <2>3, <2>4, EndWaitEffect DEF rest, to
<1>1. RecordTypes'
  BY DEF RecordTypes, EndWait, Leave, All, Fates
<1>2. QueueTypes'
  BY DEF QueueTypes, EndWait
<1>3. FlagTypes'
  BY DEF FlagTypes, EndWait
<1>4. BuildTypes'
  BY <1>d
<1>5. FlushTypes'
  <2>1. UNCHANGED <<stage, late, awaits>>
    BY DEF EndWait
  <2> QED  BY <1>b, <1>c, <2>1 DEF FlushTypes, Moved
<1>6. CountTypes'
  BY DEF CountTypes, EndWait
<1>7. LockFits'
  BY <1>a, <1>b, <1>c DEF LockFits, Moved
<1>8. BatchFits'
  BY <1>a, <1>b, <1>c DEF BatchFits, Moved, FlagTypes
<1>9. BackFits'
  BY <1>a, <1>b, <1>c DEF BackFits, Moved
<1>10. MineFits'
  BY <1>d
<1>11. BuildsFit'
  BY <1>d
<1>12. CountsFit'
  BY DEF CountsFit, EndWait
<1> QED  BY <1>1, <1>2, <1>3, <1>4, <1>5, <1>6, <1>7, <1>8, <1>9, <1>10, <1>11, <1>12, TypePartsNext DEF Control

LEMMA UnparkControl ==
    ASSUME TypeOK, Control, NEW f \in Flushers, Unpark(f)
    PROVE  TypeOK' /\ Control'
<1>0. /\ RecordTypes /\ QueueTypes /\ FlagTypes /\ BuildTypes /\ FlushTypes /\ CountTypes
      /\ LockFits /\ BatchFits /\ BackFits /\ MineFits /\ BuildsFit /\ CountsFit
  BY TypeParts DEF Control
<1> USE <1>0 DEF recordVars, queueVars, replayVars, buildVars, envVars, askVars, flushVars, Go
<1>a. pc[f] \in {"take", "unpark"} /\ UNCHANGED <<builds, jobs, batch, inFlight>>
  BY DEF Unpark
<1>b. Moved(f, "check", mine[f], back[f])
  BY QuietEffects
<1>1. RecordTypes'
  BY DEF RecordTypes, Unpark, Leave, All, Fates
<1>2. QueueTypes'
  <2>1. Unparked \in Seq(Records) /\ <<>> \in Seq(Records)
    BY DEF Unparked, QueueTypes
  <2> QED  BY <2>1 DEF QueueTypes, Unpark
<1>3. FlagTypes'
  BY DEF FlagTypes, Unpark
<1>4. BuildTypes'
  BY DEF BuildTypes, Unpark
<1>5. FlushTypes'
  BY <1>b DEF FlushTypes, Unpark, Moved
<1>6. CountTypes'
  BY DEF CountTypes, Unpark
<1>7. LockFits'
  <2>1. lock' = Nobody /\ Nobody \notin Flushers /\ lock = f
    BY <1>a, BufferAssumption DEF Unpark, LockFits
  <2>2. \A g \in Flushers : g # f => pc[g] \notin {"take", "send", "unpark"}
    BY <2>1 DEF LockFits
  <2> QED  BY <1>b, <2>1, <2>2 DEF LockFits, Moved
<1>8. BatchFits'
  <2>1. batch = <<>> /\ parked' = <<>>
    BY <1>a DEF BatchFits, LockFits, Unpark
  <2> QED  BY <1>a, <2>1 DEF BatchFits
<1>9. BackFits'
  BY <1>a, <1>b DEF BackFits, Moved
<1>10. MineFits'
  <2>1. mine[f] # 0 /\ mine[f] \in BuildIds /\ builds'[mine[f]].mode = "held" /\ "check" \in Owning
    BY <1>a, OwnBuild, BuildFacts DEF Owning
  <2> QED  BY <1>a, <1>b, <2>1, MineMoved
<1>11. BuildsFit'
  BY <1>a DEF BuildsFit
<1>12. CountsFit'
  BY DEF CountsFit, Unpark
<1> QED  BY <1>1, <1>2, <1>3, <1>4, <1>5, <1>6, <1>7, <1>8, <1>9, <1>10, <1>11, <1>12, TypePartsNext DEF Control

LEMMA DeadlineControl ==
    ASSUME TypeOK, Control, NEW f \in Flushers, Deadline(f)
    PROVE  TypeOK' /\ Control'
<1>0. /\ RecordTypes /\ QueueTypes /\ FlagTypes /\ BuildTypes /\ FlushTypes /\ CountTypes
      /\ LockFits /\ BatchFits /\ BackFits /\ MineFits /\ BuildsFit /\ CountsFit
  BY TypeParts DEF Control
<1> USE <1>0 DEF recordVars, queueVars, replayVars, buildVars, envVars, askVars, flushVars, Go
<1>a. UNCHANGED <<pc, mine, back, builds, jobs, lock, batch, inFlight, parked>>
  BY DEF Deadline
<1>1. RecordTypes'
  BY DEF RecordTypes, Deadline, Leave, All, Fates
<1>2. QueueTypes'
  BY DEF QueueTypes, Deadline
<1>3. FlagTypes'
  BY DEF FlagTypes, Deadline
<1>4. BuildTypes'
  BY DEF BuildTypes, Deadline
<1>5. FlushTypes'
  BY DEF FlushTypes, Deadline
<1>6. CountTypes'
  BY DEF CountTypes, Deadline
<1>7. LockFits'
  BY <1>a DEF LockFits
<1>8. BatchFits'
  BY <1>a DEF BatchFits
<1>9. BackFits'
  BY <1>a DEF BackFits
<1>10. MineFits'
  BY <1>a DEF MineFits
<1>11. BuildsFit'
  BY <1>a DEF BuildsFit
<1>12. CountsFit'
  BY DEF CountsFit, Deadline
<1> QED  BY <1>1, <1>2, <1>3, <1>4, <1>5, <1>6, <1>7, <1>8, <1>9, <1>10, <1>11, <1>12, TypePartsNext DEF Control

LEMMA MaxSizeIsNat == MaxSize \in Nat /\ MaxSize >= 1
BY BufferAssumption

\* What HoldAtMost leaves in the two deques.
LEMMA Hold ==
    ASSUME NEW p \in Seq(Records), NEW e \in Seq(Records), HoldAtMost(p, e, MaxSize)
    PROVE  /\ parked' = ParkedLeft(p, e, MaxSize) /\ events' = EventsLeft(p, e, MaxSize)
           /\ parked' \in Seq(Records) /\ events' \in Seq(Records)
           /\ Len(parked') + Len(events') <= MaxSize
           /\ p = <<>> => parked' = <<>>
           /\ Evicted(p, e, MaxSize) \subseteq Records /\ Cardinality(Evicted(p, e, MaxSize)) \in Nat
<1>1. parked' = ParkedLeft(p, e, MaxSize) /\ events' = EventsLeft(p, e, MaxSize)
  BY DEF HoldAtMost, ParkedLeft, EventsLeft
<1>2. /\ ParkedLeft(p, e, MaxSize) \in Seq(Records) /\ EventsLeft(p, e, MaxSize) \in Seq(Records)
      /\ Len(ParkedLeft(p, e, MaxSize)) + Len(EventsLeft(p, e, MaxSize)) <= MaxSize
      /\ Evicted(p, e, MaxSize) \subseteq Records /\ IsFiniteSet(Evicted(p, e, MaxSize))
  BY MaxSizeIsNat, RoomIsMade
<1>3. Cardinality(Evicted(p, e, MaxSize)) \in Nat
  BY <1>2, FS_CardinalityType
<1>4. p = <<>> => ParkedLeft(p, e, MaxSize) = <<>>
  <2>1. Excess(p, e, MaxSize) \in Nat
    BY MaxSizeIsNat DEF Excess, Minus
  <2>2. p = <<>> => Len(p) = 0
    OBVIOUS
  <2>3. p = <<>> => SubSeq(p, Excess(p, e, MaxSize) + 1, Len(p)) = <<>>
    BY <2>1, <2>2, SubSeqEmpty
  <2> QED  BY <2>3 DEF ParkedLeft, Drop
<1> QED  BY <1>1, <1>2, <1>3, <1>4

LEMMA AppendTypes ==
    ASSUME TypeOK, NEW r \in Records, NEW k \in {"ai", "tool", "overflow"}, NEW counted, AppendEvent(r, k, counted)
    PROVE  /\ RecordTypes' /\ events' \in Seq(Records) /\ parked' \in Seq(Records)
           /\ parked = <<>> => parked' = <<>>
           /\ total' \in [{"buffered", "overflowed", "replayed", "discarded", "evicted", "expired", "cutShort"} -> Nat]
           /\ total'.cutShort = total.cutShort
<1>0. RecordTypes /\ QueueTypes /\ CountTypes
  BY TypeParts
<1> DEFINE gone == Evicted(parked, Append(events, r), MaxSize)
<1>1. parked \in Seq(Records) /\ Append(events, r) \in Seq(Records)
  BY <1>0 DEF QueueTypes
<1>2. HoldAtMost(parked, Append(events, r), MaxSize) /\ Leave(All(gone, "evicted"))
  BY DEF AppendEvent
<1>3. /\ events' \in Seq(Records) /\ parked' \in Seq(Records) /\ (parked = <<>> => parked' = <<>>)
      /\ gone \subseteq Records /\ Cardinality(gone) \in Nat
  BY <1>1, <1>2, Hold
<1>4. /\ kind' = [kind EXCEPT ![r] = k]
      /\ total' = [total EXCEPT !.evicted = @ + Cardinality(gone),
                                !.buffered = IF counted THEN @ ELSE @ + 1,
                                !.overflowed = IF k = "overflow" THEN @ + 1 ELSE @]
  BY DEF AppendEvent
<1> HIDE DEF gone
<1>5. RecordTypes'
  BY <1>0, <1>2, <1>3, <1>4 DEF RecordTypes, Leave, All, Fates
<1>6. /\ total' \in [{"buffered", "overflowed", "replayed", "discarded", "evicted", "expired", "cutShort"} -> Nat]
      /\ total'.cutShort = total.cutShort
  <2>1. /\ total.evicted + Cardinality(gone) \in Nat
        /\ (IF counted THEN total.buffered ELSE total.buffered + 1) \in Nat
        /\ (IF k = "overflow" THEN total.overflowed + 1 ELSE total.overflowed) \in Nat
    BY <1>0, <1>3 DEF CountTypes
  <2>2. total' = [total EXCEPT !.evicted = total.evicted + Cardinality(gone),
                               !.buffered = IF counted THEN total.buffered ELSE total.buffered + 1,
                               !.overflowed = IF k = "overflow" THEN total.overflowed + 1 ELSE total.overflowed]
    BY <1>0, <1>4 DEF CountTypes
  <2>3. total'.cutShort = total.cutShort
    BY <1>0, <2>2 DEF CountTypes
  <2> QED  BY <1>0, <2>1, <2>2, <2>3 DEF CountTypes
<1> QED  BY <1>3, <1>5, <1>6

LEMMA PushControl ==
    ASSUME TypeOK, Control, NEW r \in Records, Push(r)
    PROVE  TypeOK' /\ Control'
<1>0. /\ RecordTypes /\ QueueTypes /\ FlagTypes /\ BuildTypes /\ FlushTypes /\ CountTypes
      /\ LockFits /\ BatchFits /\ BackFits /\ MineFits /\ BuildsFit /\ CountsFit
  BY TypeParts DEF Control
<1> USE <1>0 DEF recordVars, queueVars, replayVars, buildVars, envVars, askVars, flushVars
<1>a. /\ UNCHANGED <<pc, mine, back, builds, jobs, lock, batch, inFlight, stage, late, awaits>>
      /\ UNCHANGED <<report, base, owed>>
  BY DEF Push
<1>b. /\ RecordTypes' /\ events' \in Seq(Records) /\ parked' \in Seq(Records)
      /\ parked = <<>> => parked' = <<>>
      /\ total' \in [{"buffered", "overflowed", "replayed", "discarded", "evicted", "expired", "cutShort"} -> Nat]
      /\ total'.cutShort = total.cutShort
  <2>1. AppendEvent(r, Endpoint[r], FALSE) /\ Endpoint[r] \in {"ai", "tool", "overflow"}
    BY BufferAssumption DEF Push
  <2> QED  BY <2>1, AppendTypes
<1>1. RecordTypes'
  BY <1>b
<1>2. QueueTypes'
  BY <1>a, <1>b DEF QueueTypes
<1>3. FlagTypes'
  BY DEF FlagTypes, Push
<1>4. BuildTypes'
  BY <1>a DEF BuildTypes
<1>5. FlushTypes'
  BY <1>a DEF FlushTypes
<1>6. CountTypes'
  BY <1>a, <1>b DEF CountTypes
<1>7. LockFits'
  BY <1>a DEF LockFits
<1>8. BatchFits'
  BY <1>a, <1>b DEF BatchFits
<1>9. BackFits'
  BY <1>a DEF BackFits
<1>10. MineFits'
  BY <1>a DEF MineFits
<1>11. BuildsFit'
  BY <1>a DEF BuildsFit
<1>12. CountsFit'
  BY <1>a, <1>b DEF CountsFit
<1> QED  BY <1>1, <1>2, <1>3, <1>4, <1>5, <1>6, <1>7, <1>8, <1>9, <1>10, <1>11, <1>12, TypePartsNext DEF Control

LEMMA PushOverflowControl ==
    ASSUME TypeOK, Control, NEW r \in Records, PushOverflow(r)
    PROVE  TypeOK' /\ Control'
<1>0. /\ RecordTypes /\ QueueTypes /\ FlagTypes /\ BuildTypes /\ FlushTypes /\ CountTypes
      /\ LockFits /\ BatchFits /\ BackFits /\ MineFits /\ BuildsFit /\ CountsFit
  BY TypeParts DEF Control
<1> USE <1>0 DEF recordVars, queueVars, replayVars, buildVars, envVars, askVars, flushVars
<1>a. /\ UNCHANGED <<pc, mine, back, builds, jobs, lock, batch, inFlight, stage, late, awaits>>
      /\ UNCHANGED <<report, base, owed>>
  BY DEF PushOverflow
<1>b. /\ RecordTypes' /\ events' \in Seq(Records) /\ parked' \in Seq(Records)
      /\ parked = <<>> => parked' = <<>>
      /\ total' \in [{"buffered", "overflowed", "replayed", "discarded", "evicted", "expired", "cutShort"} -> Nat]
      /\ total'.cutShort = total.cutShort
  <2>1. AppendEvent(r, "overflow", FALSE) /\ "overflow" \in {"ai", "tool", "overflow"}
    BY BufferAssumption DEF PushOverflow
  <2> QED  BY <2>1, AppendTypes
<1>1. RecordTypes'
  BY <1>b
<1>2. QueueTypes'
  BY <1>a, <1>b DEF QueueTypes
<1>3. FlagTypes'
  BY DEF FlagTypes, PushOverflow, EnsureStarted
<1>4. BuildTypes'
  BY <1>a DEF BuildTypes
<1>5. FlushTypes'
  BY <1>a DEF FlushTypes
<1>6. CountTypes'
  BY <1>a, <1>b DEF CountTypes
<1>7. LockFits'
  BY <1>a DEF LockFits
<1>8. BatchFits'
  BY <1>a, <1>b DEF BatchFits
<1>9. BackFits'
  BY <1>a DEF BackFits
<1>10. MineFits'
  BY <1>a DEF MineFits
<1>11. BuildsFit'
  BY <1>a DEF BuildsFit
<1>12. CountsFit'
  BY <1>a, <1>b DEF CountsFit
<1> QED  BY <1>1, <1>2, <1>3, <1>4, <1>5, <1>6, <1>7, <1>8, <1>9, <1>10, <1>11, <1>12, TypePartsNext DEF Control

LEMMA ReturnToFrontControl ==
    ASSUME TypeOK, Control, NEW f \in Flushers, ReturnToFront(f)
    PROVE  TypeOK' /\ Control'
<1>0. /\ RecordTypes /\ QueueTypes /\ FlagTypes /\ BuildTypes /\ FlushTypes /\ CountTypes
      /\ LockFits /\ BatchFits /\ BackFits /\ MineFits /\ BuildsFit /\ CountsFit
  BY TypeParts DEF Control
<1> USE <1>0 DEF recordVars, queueVars, replayVars, buildVars, envVars, askVars, flushVars, Go
<1> DEFINE front == back[f] \o events
           gone == Evicted(parked, front, MaxSize)
           to == IF mine[f] # 0 THEN "wait" ELSE After(stage[f])
<1>a. pc[f] = "return" /\ UNCHANGED <<builds, jobs, lock, batch, inFlight>>
  BY DEF ReturnToFront
<1>b. Moved(f, to, mine[f], <<>>)
  BY QuietEffects DEF ReturnToFront
<1>c. to \in {"wait", "await", "lock", "count"} /\ (mine[f] # 0 => to = "wait")
  BY DEF After
<1>d. /\ events' \in Seq(Records) /\ parked' \in Seq(Records) /\ (parked = <<>> => parked' = <<>>)
      /\ gone \subseteq Records /\ Cardinality(gone) \in Nat
  <2>1. parked \in Seq(Records) /\ front \in Seq(Records)
    BY DEF QueueTypes, FlushTypes
  <2>2. HoldAtMost(parked, front, MaxSize)
    BY DEF ReturnToFront
  <2> HIDE DEF front
  <2> QED  BY <2>1, <2>2, Hold
<1>1. RecordTypes'
  <2>1. UNCHANGED kind /\ Leave(All(gone, "evicted"))
    BY DEF ReturnToFront
  <2> HIDE DEF gone
  <2> QED  BY <1>d, <2>1 DEF RecordTypes, Leave, All, Fates
<1>2. QueueTypes'
  BY <1>a, <1>d DEF QueueTypes
<1>3. FlagTypes'
  BY DEF FlagTypes, ReturnToFront
<1>4. BuildTypes'
  BY DEF BuildTypes, ReturnToFront
<1>5. FlushTypes'
  <2>1. UNCHANGED <<stage, late, awaits>> /\ <<>> \in Seq(Records)
    BY DEF ReturnToFront
  <2> QED  BY <1>b, <1>c, <2>1, OwnBuild DEF FlushTypes, Moved
<1>6. CountTypes'
  <2>1. total' = [total EXCEPT !.evicted = @ + Cardinality(gone)] /\ UNCHANGED <<report, base, owed>>
    BY DEF ReturnToFront
  <2> HIDE DEF gone
  <2>2. total.evicted + Cardinality(gone) \in Nat
    BY <1>d DEF CountTypes
  <2> QED  BY <2>1, <2>2 DEF CountTypes
<1>7. LockFits'
  BY <1>a, <1>b, <1>c DEF LockFits, Moved
<1>8. BatchFits'
  BY <1>a, <1>b, <1>c, <1>d DEF BatchFits, Moved, FlagTypes
<1>9. BackFits'
  BY <1>a, <1>b DEF BackFits, Moved
<1>10. MineFits'
  <2>1. mine[f] # 0 => mine[f] \in BuildIds /\ builds[mine[f]].mode \in {"queued", "own", "inline", "over"}
    BY <1>a, OwnBuild DEF MineFits, Owning
  <2>2. to \notin Owning
    BY <1>c DEF Owning
  <2> HIDE DEF to
  <2> QED  BY <1>a, <1>b, <1>c, <2>1, <2>2, MineMoved
<1>11. BuildsFit'
  BY <1>a DEF BuildsFit
<1>12. CountsFit'
  <2>1. total'.cutShort = total.cutShort /\ UNCHANGED <<late, base>>
    BY DEF ReturnToFront, CountTypes
  <2> QED  BY <2>1 DEF CountsFit
<1> QED  BY <1>1, <1>2, <1>3, <1>4, <1>5, <1>6, <1>7, <1>8, <1>9, <1>10, <1>11, <1>12, TypePartsNext DEF Control

LEMMA TakeBatchControl ==
    ASSUME TypeOK, Control, NEW f \in Flushers, TakeBatch(f)
    PROVE  TypeOK' /\ Control'
<1>0. /\ RecordTypes /\ QueueTypes /\ FlagTypes /\ BuildTypes /\ FlushTypes /\ CountTypes
      /\ LockFits /\ BatchFits /\ BackFits /\ MineFits /\ BuildsFit /\ CountsFit
  BY TypeParts DEF Control
<1> USE <1>0 DEF recordVars, queueVars, replayVars, buildVars, envVars, askVars, flushVars, Go
<1>a. pc[f] = "take" /\ UNCHANGED <<jobs, lock>>
  BY DEF TakeBatch
<1>n. PICK n \in 0 .. Len(events) : TakesUpTo(f, n)
  BY TakeBatchEffect
<1> DEFINE gone == Range(Visited(n, "expire"))
           to == IF Visited(n, "replay") = <<>> THEN "unpark" ELSE "send"
           build == [builds[mine[f]] EXCEPT !.tasks = @ \o Visited(n, "build")]
<1>b. Moved(f, to, mine[f], back[f]) /\ Became(mine[f], build)
  BY <1>n DEF TakesUpTo
<1>c. /\ mine[f] \in BuildIds /\ builds[mine[f]] \in BuildType /\ builds[mine[f]].mode = "held"
      /\ builds[mine[f]].current = <<>> /\ ~builds[mine[f]].built
  BY <1>a, BuildFacts, OwnBuild DEF Owning
<1>d. /\ \A what : Visited(n, what) \in Seq(Records) /\ Len(Visited(n, what)) \in Nat
      /\ gone \subseteq Records /\ Cardinality(gone) \in Nat /\ mine[f] \in BuildIds \cup {0}
  <2>1. \A what : Visited(n, what) \in Seq(Records)
    BY VisitedFacts
  <2> QED  BY <1>c, <2>1, RangeOfSeq, CardinalityOfRange
<1>e. BuildTypes' /\ BuildsFit' /\ MineFits'
  <2>1. builds[mine[f]].tasks \o Visited(n, "build") \in Seq(Records)
    BY <1>c, <1>d, BuildFacts
  <2>2. build \in BuildType /\ build.mode = "held" /\ build.current = <<>> /\ ~build.built
    BY <1>c, <2>1 DEF BuildType
  <2>3. Len(<<>>) <= 1
    OBVIOUS
  <2>4. to \in Owning
    BY DEF Owning
  <2>5. jobs' \in Seq(BuildIds) /\ \A c \in BuildIds : c \in Range(jobs) => c \in Range(jobs')
    BY <1>a DEF BuildTypes
  <2> HIDE DEF build, to
  <2> QED  BY <1>b, <1>c, <2>2, <2>3, <2>4, <2>5, Changed
<1>1. RecordTypes'
  <2>1. UNCHANGED kind /\ Leave(All(gone, "expired"))
    BY <1>n DEF TakeBatch, TakesUpTo
  <2> HIDE DEF gone
  <2> QED  BY <1>d, <2>1 DEF RecordTypes, Leave, All, Fates
<1>2. QueueTypes'
  <2>1. parked \o Visited(n, "park") \in Seq(Records) /\ Drop(events, n) \in Seq(Records)
    BY <1>d, DropFacts DEF QueueTypes
  <2>2. inFlight + Len(Visited(n, "replay")) \in Nat
    BY <1>d DEF QueueTypes
  <2> QED  BY <1>d, <1>n, <2>1, <2>2 DEF QueueTypes, TakesUpTo
<1>3. FlagTypes'
  BY DEF FlagTypes, TakeBatch
<1>4. BuildTypes'
  BY <1>e
<1>5. FlushTypes'
  <2>1. UNCHANGED <<stage, late, awaits>>
    BY DEF TakeBatch
  <2>2. to \in {"unpark", "send"}
    OBVIOUS
  <2> QED  BY <1>b, <1>d, <2>1, <2>2 DEF FlushTypes, Moved
<1>6. CountTypes'
  <2>1. total' = [total EXCEPT !.expired = @ + Cardinality(gone)] /\ UNCHANGED <<report, base, owed>>
    BY <1>n DEF TakesUpTo, TakeBatch
  <2> HIDE DEF gone
  <2>2. total.expired + Cardinality(gone) \in Nat
    BY <1>d DEF CountTypes
  <2> QED  BY <2>1, <2>2 DEF CountTypes
<1>7. LockFits'
  <2>1. to \in {"unpark", "send"}
    OBVIOUS
  <2> QED  BY <1>a, <1>b, <2>1 DEF LockFits, Moved
<1>8. BatchFits'
  <2>1. lock = f /\ lock # Nobody
    BY <1>a, BufferAssumption DEF LockFits
  <2>2. batch = <<>> /\ inFlight = 0
    BY <1>a, <2>1 DEF BatchFits
  <2>3. inFlight' = Len(batch')
    BY <1>d, <1>n, <2>2 DEF TakesUpTo
  <2>4. batch' # <<>> => pc'[f] = "send"
    BY <1>b, <1>n DEF TakesUpTo, Moved
  <2> QED  BY <1>a, <2>1, <2>3, <2>4 DEF BatchFits
<1>9. BackFits'
  BY <1>a, <1>b DEF BackFits, Moved
<1>10. MineFits'
  BY <1>e
<1>11. BuildsFit'
  BY <1>e
<1>12. CountsFit'
  <2>1. total'.cutShort = total.cutShort /\ UNCHANGED <<late, base>>
    BY <1>n DEF TakesUpTo, TakeBatch, CountTypes
  <2> QED  BY <2>1 DEF CountsFit
<1> QED  BY <1>1, <1>2, <1>3, <1>4, <1>5, <1>6, <1>7, <1>8, <1>9, <1>10, <1>11, <1>12, TypePartsNext DEF Control

LEMMA GrowOldControl ==
    ASSUME TypeOK, Control, NEW r \in Records, GrowOld(r)
    PROVE  TypeOK' /\ Control'
<1>0. /\ RecordTypes /\ QueueTypes /\ FlagTypes /\ BuildTypes /\ FlushTypes /\ CountTypes
      /\ LockFits /\ BatchFits /\ BackFits /\ MineFits /\ BuildsFit /\ CountsFit
  BY TypeParts DEF Control
<1> USE <1>0 DEF recordVars, queueVars, replayVars, buildVars, envVars, askVars, flushVars
<1>a. UNCHANGED <<pc, mine, back, builds, jobs, lock, batch, inFlight, parked>>
  BY DEF GrowOld
<1>1. RecordTypes'
  BY DEF RecordTypes, GrowOld, Leave, All, Fates
<1>2. QueueTypes'
  BY DEF QueueTypes, GrowOld
<1>3. FlagTypes'
  BY DEF FlagTypes, GrowOld
<1>4. BuildTypes'
  BY DEF BuildTypes, GrowOld
<1>5. FlushTypes'
  BY DEF FlushTypes, GrowOld
<1>6. CountTypes'
  BY DEF CountTypes, GrowOld
<1>7. LockFits'
  BY <1>a DEF LockFits
<1>8. BatchFits'
  BY <1>a DEF BatchFits
<1>9. BackFits'
  BY <1>a DEF BackFits
<1>10. MineFits'
  BY <1>a DEF MineFits
<1>11. BuildsFit'
  BY <1>a DEF BuildsFit
<1>12. CountsFit'
  BY DEF CountsFit, GrowOld
<1> QED  BY <1>1, <1>2, <1>3, <1>4, <1>5, <1>6, <1>7, <1>8, <1>9, <1>10, <1>11, <1>12, TypePartsNext DEF Control

LEMMA TrafficControl ==
    ASSUME TypeOK, Control, Traffic
    PROVE  TypeOK' /\ Control'
<1>0. /\ RecordTypes /\ QueueTypes /\ FlagTypes /\ BuildTypes /\ FlushTypes /\ CountTypes
      /\ LockFits /\ BatchFits /\ BackFits /\ MineFits /\ BuildsFit /\ CountsFit
  BY TypeParts DEF Control
<1> USE <1>0 DEF recordVars, queueVars, replayVars, buildVars, envVars, askVars, flushVars
<1>a. UNCHANGED <<pc, mine, back, builds, jobs, lock, batch, inFlight, parked>>
  BY DEF Traffic
<1>1. RecordTypes'
  BY DEF RecordTypes, Traffic, Leave, All, Fates
<1>2. QueueTypes'
  BY DEF QueueTypes, Traffic
<1>3. FlagTypes'
  BY DEF FlagTypes, Traffic
<1>4. BuildTypes'
  BY DEF BuildTypes, Traffic
<1>5. FlushTypes'
  BY DEF FlushTypes, Traffic
<1>6. CountTypes'
  BY DEF CountTypes, Traffic
<1>7. LockFits'
  BY <1>a DEF LockFits
<1>8. BatchFits'
  BY <1>a DEF BatchFits
<1>9. BackFits'
  BY <1>a DEF BackFits
<1>10. MineFits'
  BY <1>a DEF MineFits
<1>11. BuildsFit'
  BY <1>a DEF BuildsFit
<1>12. CountsFit'
  BY DEF CountsFit, Traffic
<1> QED  BY <1>1, <1>2, <1>3, <1>4, <1>5, <1>6, <1>7, <1>8, <1>9, <1>10, <1>11, <1>12, TypePartsNext DEF Control

LEMMA SettleReplaysControl ==
    ASSUME TypeOK, Control, NEW f \in Flushers, SettleReplays(f), KindsFit, IsInjective(batch)
    PROVE  TypeOK' /\ Control'
<1>0. /\ RecordTypes /\ QueueTypes /\ FlagTypes /\ BuildTypes /\ FlushTypes /\ CountTypes
      /\ LockFits /\ BatchFits /\ BackFits /\ MineFits /\ BuildsFit /\ CountsFit
  BY TypeParts DEF Control
<1> USE <1>0 DEF recordVars, queueVars, replayVars, buildVars, envVars, askVars, flushVars, Go
<1>a. pc[f] = "send" /\ UNCHANGED <<builds, jobs, lock>>
  BY DEF SettleReplays
<1>b. Moved(f, "take", mine[f], back[f])
  BY QuietEffects
<1>o. PICK outcome \in [Range(batch) -> ReplayOutcomes(f)] : Settles(f, outcome)
  BY SettleReplaysEffect
<1> DEFINE sent == EndedAs(outcome, "sent")
           discarded == EndedAs(outcome, "discarded")
           gone == GoneAfter(outcome)
<1>c. inFlight' = 0
  <2>1. Cardinality(Range(batch)) = Len(batch) /\ Len(batch) \in Nat
    BY CardinalityOfRange DEF QueueTypes
  <2>2. inFlight' = inFlight - Cardinality(Range(batch))
    BY <1>o DEF Settles
  <2>3. inFlight = Len(batch)
    BY DEF BatchFits
  <2> QED  BY <2>1, <2>2, <2>3
<1>d. /\ parked' \in Seq(Records) /\ events' \in Seq(Records)
      /\ gone \subseteq Records /\ Cardinality(gone) \in Nat
      /\ Range(batch) \subseteq Records
      /\ sent \subseteq Records /\ Cardinality(sent) \in Nat
      /\ discarded \subseteq Records /\ Cardinality(discarded) \in Nat
  <2>1. Only(batch, EndedAs(outcome, "retry") \cup EndedAs(outcome, "untried")) \in Seq(Records)
    BY OnlyFacts DEF QueueTypes
  <2>2. LineAfter(outcome) \in Seq(Records) /\ events \in Seq(Records)
    BY <2>1 DEF LineAfter, QueueTypes
  <2>3. HoldAtMost(LineAfter(outcome), events, MaxSize)
    BY <1>o DEF Settles
  <2>4. /\ parked' \in Seq(Records) /\ events' \in Seq(Records)
        /\ gone \subseteq Records /\ Cardinality(gone) \in Nat
    BY <2>2, <2>3, Hold DEF GoneAfter
  <2>5. Range(batch) \subseteq Records /\ IsFiniteSet(Range(batch))
    BY RangeOfSeq, CardinalityOfRange DEF QueueTypes
  <2>6. \A what : EndedAs(outcome, what) \subseteq Range(batch)
    BY DEF EndedAs
  <2>7. \A what : IsFiniteSet(EndedAs(outcome, what)) /\ Cardinality(EndedAs(outcome, what)) \in Nat
    BY <2>5, <2>6, FS_Subset, FS_CardinalityType
  <2> QED  BY <2>4, <2>5, <2>6, <2>7
<1>1. RecordTypes'
  <2>1. UNCHANGED kind /\ Leave([r \in sent \cup discarded \cup gone |-> IF r \in gone THEN "evicted" ELSE outcome[r]])
    BY <1>o DEF Settles, SettleReplays
  <2>2. \A r \in sent \cup discarded : outcome[r] \in {"sent", "discarded"}
    BY DEF EndedAs
  <2> HIDE DEF sent, discarded, gone
  <2> QED  BY <1>d, <2>1, <2>2 DEF RecordTypes, Leave, Fates
<1>2. QueueTypes'
  <2>1. batch' = <<>> /\ <<>> \in Seq(Records)
    BY DEF SettleReplays
  <2> QED  BY <1>c, <1>d, <2>1 DEF QueueTypes
<1>3. FlagTypes'
  <2>1. UNCHANGED <<lock, workerUp, exitBuild, shutdown>>
    BY DEF SettleReplays
  <2>2. circuitOpen' \in {circuitOpen, TRUE, FALSE} /\ unreachable' = unreachable \cup {kind[r] : r \in EndedAs(outcome, "retry")}
    BY <1>o DEF Settles
  <2>3. {kind[r] : r \in EndedAs(outcome, "retry")} \subseteq {"ai", "tool"}
    <3>1. \A r \in Range(batch) : r \in Records /\ kind[r] \in {"ai", "tool"}
      BY <1>d DEF KindsFit
    <3> QED  BY <3>1 DEF EndedAs
  <2> QED  BY <2>1, <2>2, <2>3 DEF FlagTypes
<1>4. BuildTypes'
  BY <1>a DEF BuildTypes
<1>5. FlushTypes'
  <2>1. UNCHANGED <<stage, late, awaits>>
    BY DEF SettleReplays
  <2> QED  BY <1>b, <2>1, OwnBuild DEF FlushTypes, Moved
<1>6. CountTypes'
  <2>1. /\ total' = [total EXCEPT !.replayed = @ + Cardinality(sent), !.discarded = @ + Cardinality(discarded),
                                 !.evicted = @ + Cardinality(gone)]
        /\ UNCHANGED <<report, base, owed>>
    BY <1>o DEF Settles, SettleReplays
  <2> HIDE DEF sent, discarded, gone
  <2>2. /\ total.replayed + Cardinality(sent) \in Nat /\ total.discarded + Cardinality(discarded) \in Nat
        /\ total.evicted + Cardinality(gone) \in Nat
    <3>1. total.replayed \in Nat /\ total.discarded \in Nat /\ total.evicted \in Nat
      BY DEF CountTypes
    <3>2. Cardinality(sent) \in Nat /\ Cardinality(discarded) \in Nat /\ Cardinality(gone) \in Nat
      BY <1>d
    <3>3. \A m, n \in Nat : m + n \in Nat
      OBVIOUS
    <3> QED  BY ONLY <3>1, <3>2, <3>3
  <2>3. total' = [total EXCEPT !.replayed = total.replayed + Cardinality(sent),
                               !.discarded = total.discarded + Cardinality(discarded),
                               !.evicted = total.evicted + Cardinality(gone)]
    BY <2>1 DEF CountTypes
  <2> QED  BY <2>1, <2>2, <2>3 DEF CountTypes
<1>7. LockFits'
  BY <1>a, <1>b DEF LockFits, Moved
<1>8. BatchFits'
  <2>1. lock = f /\ lock # Nobody
    BY <1>a, BufferAssumption DEF LockFits
  <2>2. batch' = <<>>
    BY DEF SettleReplays
  <2>3. Len(<<>>) = 0
    OBVIOUS
  <2> QED  BY <1>a, <1>c, <2>1, <2>2, <2>3 DEF BatchFits
<1>9. BackFits'
  BY <1>a, <1>b DEF BackFits, Moved
<1>10. MineFits'
  <2>1. mine[f] # 0 /\ mine[f] \in BuildIds /\ builds'[mine[f]].mode = "held" /\ "take" \in Owning
    BY <1>a, OwnBuild, BuildFacts DEF Owning
  <2> QED  BY <1>a, <1>b, <2>1, MineMoved
<1>11. BuildsFit'
  BY <1>a DEF BuildsFit
<1>12. CountsFit'
  <2>1. total'.cutShort = total.cutShort
    BY <1>o DEF Settles, CountTypes
  <2>2. UNCHANGED <<late, base>>
    BY DEF SettleReplays
  <2> QED  BY <2>1, <2>2 DEF CountsFit
<1> QED  BY <1>1, <1>2, <1>3, <1>4, <1>5, <1>6, <1>7, <1>8, <1>9, <1>10, <1>11, <1>12, TypePartsNext DEF Control

LEMMA StartTaskControl ==
    ASSUME TypeOK, Control, NEW b \in BuildIds, StartTask(b)
    PROVE  TypeOK' /\ Control'
<1>0. /\ RecordTypes /\ QueueTypes /\ FlagTypes /\ BuildTypes /\ FlushTypes /\ CountTypes
      /\ LockFits /\ BatchFits /\ BackFits /\ MineFits /\ BuildsFit /\ CountsFit
  BY TypeParts DEF Control
<1> USE <1>0 DEF recordVars, queueVars, replayVars, buildVars, envVars, askVars, flushVars
<1>a. UNCHANGED <<pc, mine, back, stage, late, awaits, jobs, lock, batch, inFlight>> /\ UNCHANGED parked
  BY DEF StartTask
<1> DEFINE build == [builds[b] EXCEPT !.current = <<Head(builds[b].tasks)>>, !.tasks = Tail(builds[b].tasks)]
<1>b. Became(b, build)
  BY RunEffects
<1>c. /\ builds[b] \in BuildType /\ builds[b].tasks \in Seq(Records) /\ builds[b].current \in Seq(Records)
      /\ builds[b].mode = "free" => ~builds[b].built /\ builds[b].current = <<>>
      /\ builds[b].mode \in {"held", "over"} => ~builds[b].built /\ builds[b].current = <<>>
      /\ builds[b].built => builds[b].current # <<>>
      /\ Len(builds[b].current) <= 1 /\ (builds[b].mode = "queued" => b \in Range(jobs))
  BY BuildFacts DEF BuildsFit, NoBuild
<1>d. BuildTypes' /\ BuildsFit' /\ MineFits'
  <2>1. build \in BuildType
    <3>1. builds[b].tasks # <<>>
      BY RunEffects
    <3>2. Head(builds[b].tasks) \in Records /\ Tail(builds[b].tasks) \in Seq(Records)
      BY <1>c, <3>1, HeadTailProperties
    <3>3. <<Head(builds[b].tasks)>> \in Seq(Records)
      BY <3>2
    <3> QED  BY <1>c, <3>2, <3>3 DEF BuildType
  <2>2. /\ build.mode = builds[b].mode /\ build.mode \notin {"free", "held", "over"}
        /\ build.current # <<>> /\ Len(build.current) <= 1
    <3>1. builds[b].mode \in {"own", "queued", "inline"}
      BY RunEffects
    <3>2. build.current = <<Head(builds[b].tasks)>> /\ build.mode = builds[b].mode
      BY <1>c DEF BuildType
    <3>3. Len(<<Head(builds[b].tasks)>>) <= 1 /\ <<Head(builds[b].tasks)>> # <<>>
      OBVIOUS
    <3> QED  BY <3>1, <3>2, <3>3
  <2>4. jobs' \in Seq(BuildIds) /\ jobs' = jobs
    BY <1>a DEF BuildTypes
  <2> HIDE DEF build
  <2>5. BuildsFit' /\ builds' \in [BuildIds -> BuildType]
    BY <1>b, <1>c, <2>1, <2>2, <2>4, BuildsBecame
  <2>6. \A c \in BuildIds : builds'[c].mode = builds[c].mode
    BY <1>b, <2>2 DEF Became
  <2>7. MineFits'
    BY <1>a, <2>6 DEF MineFits, FlushTypes
  <2> QED  BY <2>4, <2>5, <2>7 DEF BuildTypes
<1>1. RecordTypes'
  BY DEF RecordTypes, StartTask, Leave, All, Fates
<1>2. QueueTypes'
  BY DEF QueueTypes, StartTask
<1>3. FlagTypes'
  BY DEF FlagTypes, StartTask
<1>4. BuildTypes'
  BY <1>d
<1>5. FlushTypes'
  BY <1>a DEF FlushTypes
<1>6. CountTypes'
  BY DEF CountTypes, StartTask
<1>7. LockFits'
  BY <1>a DEF LockFits
<1>8. BatchFits'
  BY <1>a DEF BatchFits
<1>9. BackFits'
  BY <1>a DEF BackFits
<1>10. MineFits'
  BY <1>d
<1>11. BuildsFit'
  BY <1>d
<1>12. CountsFit'
  BY DEF CountsFit, StartTask
<1> QED  BY <1>1, <1>2, <1>3, <1>4, <1>5, <1>6, <1>7, <1>8, <1>9, <1>10, <1>11, <1>12, TypePartsNext DEF Control

LEMMA BuildEventControl ==
    ASSUME TypeOK, Control, NEW b \in BuildIds, BuildEvent(b)
    PROVE  TypeOK' /\ Control'
<1>0. /\ RecordTypes /\ QueueTypes /\ FlagTypes /\ BuildTypes /\ FlushTypes /\ CountTypes
      /\ LockFits /\ BatchFits /\ BackFits /\ MineFits /\ BuildsFit /\ CountsFit
  BY TypeParts DEF Control
<1> USE <1>0 DEF recordVars, queueVars, replayVars, buildVars, envVars, askVars, flushVars
<1>a. UNCHANGED <<pc, mine, back, stage, late, awaits, jobs, lock, batch, inFlight>>
  BY DEF BuildEvent
<1> DEFINE build == [builds[b] EXCEPT !.built = TRUE]
<1>b. Became(b, build)
  BY RunEffects
<1>c. /\ builds[b] \in BuildType /\ builds[b].tasks \in Seq(Records) /\ builds[b].current \in Seq(Records)
      /\ builds[b].mode = "free" => ~builds[b].built /\ builds[b].current = <<>>
      /\ builds[b].mode \in {"held", "over"} => ~builds[b].built /\ builds[b].current = <<>>
      /\ builds[b].built => builds[b].current # <<>>
      /\ Len(builds[b].current) <= 1 /\ (builds[b].mode = "queued" => b \in Range(jobs))
  BY BuildFacts DEF BuildsFit, NoBuild
<1>d. BuildTypes' /\ BuildsFit' /\ MineFits'
  <2>1. build \in BuildType
    BY <1>c DEF BuildType
  <2>2. /\ build.mode = builds[b].mode /\ build.current = builds[b].current /\ build.current # <<>>
        /\ build.mode # "free"
    <3>1. builds[b].current # <<>>
      BY DEF BuildEvent
    <3> QED  BY <1>c, <3>1 DEF BuildType
  <2>4. jobs' \in Seq(BuildIds) /\ jobs' = jobs
    BY <1>a DEF BuildTypes
  <2> HIDE DEF build
  <2>5. BuildsFit' /\ builds' \in [BuildIds -> BuildType]
    BY <1>b, <1>c, <2>1, <2>2, <2>4, BuildsBecame
  <2>6. \A c \in BuildIds : builds'[c].mode = builds[c].mode
    BY <1>b, <2>2 DEF Became
  <2>7. MineFits'
    BY <1>a, <2>6 DEF MineFits, FlushTypes
  <2> QED  BY <2>4, <2>5, <2>7 DEF BuildTypes
<1>e. /\ RecordTypes' /\ events' \in Seq(Records) /\ parked' \in Seq(Records)
      /\ parked = <<>> => parked' = <<>>
      /\ total' \in [{"buffered", "overflowed", "replayed", "discarded", "evicted", "expired", "cutShort"} -> Nat]
      /\ total'.cutShort = total.cutShort
  <2>1. Head(builds[b].current) \in Records
    BY <1>c, HeadTailProperties DEF BuildEvent
  <2>2. AppendEvent(Head(builds[b].current), Endpoint[Head(builds[b].current)], TRUE)
    BY DEF BuildEvent
  <2>3. Endpoint[Head(builds[b].current)] \in {"ai", "tool"}
    BY <2>1, BufferAssumption
  <2> QED  BY <2>1, <2>2, <2>3, AppendTypes
<1>1. RecordTypes'
  BY <1>e
<1>2. QueueTypes'
  BY <1>a, <1>e DEF QueueTypes
<1>3. FlagTypes'
  BY DEF FlagTypes, BuildEvent
<1>4. BuildTypes'
  BY <1>d
<1>5. FlushTypes'
  BY <1>a DEF FlushTypes
<1>6. CountTypes'
  <2>1. UNCHANGED <<report, base, owed>>
    BY DEF BuildEvent
  <2> QED  BY <1>e, <2>1 DEF CountTypes
<1>7. LockFits'
  BY <1>a DEF LockFits
<1>8. BatchFits'
  BY <1>a, <1>e DEF BatchFits
<1>9. BackFits'
  BY <1>a DEF BackFits
<1>10. MineFits'
  BY <1>d
<1>11. BuildsFit'
  BY <1>d
<1>12. CountsFit'
  <2>1. UNCHANGED base
    BY DEF BuildEvent
  <2> QED  BY <1>a, <1>e, <2>1 DEF CountsFit
<1> QED  BY <1>1, <1>2, <1>3, <1>4, <1>5, <1>6, <1>7, <1>8, <1>9, <1>10, <1>11, <1>12, TypePartsNext DEF Control

LEMMA EndTaskControl ==
    ASSUME TypeOK, Control, NEW b \in BuildIds, EndTask(b)
    PROVE  TypeOK' /\ Control'
<1>0. /\ RecordTypes /\ QueueTypes /\ FlagTypes /\ BuildTypes /\ FlushTypes /\ CountTypes
      /\ LockFits /\ BatchFits /\ BackFits /\ MineFits /\ BuildsFit /\ CountsFit
  BY TypeParts DEF Control
<1> USE <1>0 DEF recordVars, queueVars, replayVars, buildVars, envVars, askVars, flushVars
<1>a. UNCHANGED <<pc, mine, back, stage, late, awaits, jobs, lock, batch, inFlight>> /\ UNCHANGED parked
  BY DEF EndTask
<1> DEFINE build == [builds[b] EXCEPT !.built = FALSE, !.current = <<>>]
<1>b. Became(b, build)
  BY RunEffects
<1>c. /\ builds[b] \in BuildType /\ builds[b].tasks \in Seq(Records) /\ builds[b].current \in Seq(Records)
      /\ builds[b].mode = "free" => ~builds[b].built /\ builds[b].current = <<>>
      /\ builds[b].mode \in {"held", "over"} => ~builds[b].built /\ builds[b].current = <<>>
      /\ builds[b].built => builds[b].current # <<>>
      /\ Len(builds[b].current) <= 1 /\ (builds[b].mode = "queued" => b \in Range(jobs))
  BY BuildFacts DEF BuildsFit, NoBuild
<1>d. BuildTypes' /\ BuildsFit' /\ MineFits'
  <2>1. <<>> \in Seq(Records) /\ Len(<<>>) <= 1
    OBVIOUS
  <2>2. /\ build.mode = builds[b].mode /\ build.current = <<>> /\ ~build.built /\ build \in BuildType
        /\ build.mode # "free"
    <3>1. builds[b].mode # "free" /\ builds[b].built = TRUE
      BY <1>c DEF EndTask, BuildType
    <3> QED  BY <1>c, <2>1, <3>1 DEF BuildType
  <2>4. jobs' \in Seq(BuildIds) /\ jobs' = jobs
    BY <1>a DEF BuildTypes
  <2> HIDE DEF build
  <2>5. BuildsFit' /\ builds' \in [BuildIds -> BuildType]
    BY <1>b, <1>c, <2>1, <2>2, <2>4, BuildsBecame
  <2>6. \A c \in BuildIds : builds'[c].mode = builds[c].mode
    BY <1>b, <2>2 DEF Became
  <2>7. MineFits'
    BY <1>a, <2>6 DEF MineFits, FlushTypes
  <2> QED  BY <2>4, <2>5, <2>7 DEF BuildTypes
<1>1. RecordTypes'
  <2>1. Head(builds[b].current) \in Records
    <3>1. builds[b].current # <<>>
      BY <1>c DEF EndTask
    <3> QED  BY <1>c, <3>1, HeadTailProperties
  <2> QED  BY <2>1 DEF RecordTypes, EndTask
<1>2. QueueTypes'
  BY DEF QueueTypes, EndTask
<1>3. FlagTypes'
  BY DEF FlagTypes, EndTask
<1>4. BuildTypes'
  BY <1>d
<1>5. FlushTypes'
  BY <1>a DEF FlushTypes
<1>6. CountTypes'
  BY DEF CountTypes, EndTask
<1>7. LockFits'
  BY <1>a DEF LockFits
<1>8. BatchFits'
  BY <1>a DEF BatchFits
<1>9. BackFits'
  BY <1>a DEF BackFits
<1>10. MineFits'
  BY <1>d
<1>11. BuildsFit'
  BY <1>d
<1>12. CountsFit'
  BY DEF CountsFit, EndTask
<1> QED  BY <1>1, <1>2, <1>3, <1>4, <1>5, <1>6, <1>7, <1>8, <1>9, <1>10, <1>11, <1>12, TypePartsNext DEF Control

LEMMA SkipTaskControl ==
    ASSUME TypeOK, Control, NEW b \in BuildIds, SkipTask(b)
    PROVE  TypeOK' /\ Control'
<1>0. /\ RecordTypes /\ QueueTypes /\ FlagTypes /\ BuildTypes /\ FlushTypes /\ CountTypes
      /\ LockFits /\ BatchFits /\ BackFits /\ MineFits /\ BuildsFit /\ CountsFit
  BY TypeParts DEF Control
<1> USE <1>0 DEF recordVars, queueVars, replayVars, buildVars, envVars, askVars, flushVars
<1>a. UNCHANGED <<pc, mine, back, stage, late, awaits, jobs, lock, batch, inFlight>> /\ UNCHANGED parked
  BY DEF SkipTask
<1> DEFINE build == [builds[b] EXCEPT !.current = <<>>]
<1>b. Became(b, build)
  BY RunEffects
<1>c. /\ builds[b] \in BuildType /\ builds[b].tasks \in Seq(Records) /\ builds[b].current \in Seq(Records)
      /\ builds[b].mode = "free" => ~builds[b].built /\ builds[b].current = <<>>
      /\ builds[b].mode \in {"held", "over"} => ~builds[b].built /\ builds[b].current = <<>>
      /\ builds[b].built => builds[b].current # <<>>
      /\ Len(builds[b].current) <= 1 /\ (builds[b].mode = "queued" => b \in Range(jobs))
  BY BuildFacts DEF BuildsFit, NoBuild
<1>d. BuildTypes' /\ BuildsFit' /\ MineFits'
  <2>1. <<>> \in Seq(Records) /\ Len(<<>>) <= 1
    OBVIOUS
  <2>2. /\ build.mode = builds[b].mode /\ build.current = <<>> /\ ~build.built /\ build \in BuildType
        /\ build.mode # "free"
    <3>1. builds[b].mode # "free" /\ builds[b].built = FALSE
      BY <1>c DEF SkipTask, BuildType
    <3> QED  BY <1>c, <2>1, <3>1 DEF BuildType
  <2>4. jobs' \in Seq(BuildIds) /\ jobs' = jobs
    BY <1>a DEF BuildTypes
  <2> HIDE DEF build
  <2>5. BuildsFit' /\ builds' \in [BuildIds -> BuildType]
    BY <1>b, <1>c, <2>1, <2>2, <2>4, BuildsBecame
  <2>6. \A c \in BuildIds : builds'[c].mode = builds[c].mode
    BY <1>b, <2>2 DEF Became
  <2>7. MineFits'
    BY <1>a, <2>6 DEF MineFits, FlushTypes
  <2> QED  BY <2>4, <2>5, <2>7 DEF BuildTypes
<1>1. RecordTypes'
  <2> DEFINE gone == {Head(builds[b].current)}
  <2>1. UNCHANGED kind /\ Leave(All(gone, "unbuilt"))
    BY DEF SkipTask
  <2>2. gone \subseteq Records
    BY <1>c, HeadTailProperties DEF SkipTask
  <2> HIDE DEF gone
  <2> QED  BY <2>1, <2>2 DEF RecordTypes, Leave, All, Fates
<1>2. QueueTypes'
  BY DEF QueueTypes, SkipTask
<1>3. FlagTypes'
  BY DEF FlagTypes, SkipTask
<1>4. BuildTypes'
  BY <1>d
<1>5. FlushTypes'
  BY <1>a DEF FlushTypes
<1>6. CountTypes'
  BY DEF CountTypes, SkipTask
<1>7. LockFits'
  BY <1>a DEF LockFits
<1>8. BatchFits'
  BY <1>a DEF BatchFits
<1>9. BackFits'
  BY <1>a DEF BackFits
<1>10. MineFits'
  BY <1>d
<1>11. BuildsFit'
  BY <1>d
<1>12. CountsFit'
  BY DEF CountsFit, SkipTask
<1> QED  BY <1>1, <1>2, <1>3, <1>4, <1>5, <1>6, <1>7, <1>8, <1>9, <1>10, <1>11, <1>12, TypePartsNext DEF Control

LEMMA CutTaskShortControl ==
    ASSUME TypeOK, Control, NEW b \in BuildIds, CutTaskShort(b)
    PROVE  TypeOK' /\ Control'
<1>0. /\ RecordTypes /\ QueueTypes /\ FlagTypes /\ BuildTypes /\ FlushTypes /\ CountTypes
      /\ LockFits /\ BatchFits /\ BackFits /\ MineFits /\ BuildsFit /\ CountsFit
  BY TypeParts DEF Control
<1> USE <1>0 DEF recordVars, queueVars, replayVars, buildVars, envVars, askVars, flushVars
<1>a. UNCHANGED <<pc, mine, back, stage, late, awaits, jobs, lock, batch, inFlight>> /\ UNCHANGED parked
  BY DEF CutTaskShort
<1> DEFINE build == [builds[b] EXCEPT !.current = <<>>]
<1>b. Became(b, build)
  BY RunEffects
<1>c. /\ builds[b] \in BuildType /\ builds[b].tasks \in Seq(Records) /\ builds[b].current \in Seq(Records)
      /\ builds[b].mode = "free" => ~builds[b].built /\ builds[b].current = <<>>
      /\ builds[b].mode \in {"held", "over"} => ~builds[b].built /\ builds[b].current = <<>>
      /\ builds[b].built => builds[b].current # <<>>
      /\ Len(builds[b].current) <= 1 /\ (builds[b].mode = "queued" => b \in Range(jobs))
  BY BuildFacts DEF BuildsFit, NoBuild
<1>d. BuildTypes' /\ BuildsFit' /\ MineFits'
  <2>1. <<>> \in Seq(Records) /\ Len(<<>>) <= 1
    OBVIOUS
  <2>2. /\ build.mode = builds[b].mode /\ build.current = <<>> /\ ~build.built /\ build \in BuildType
        /\ build.mode # "free"
    <3>1. builds[b].mode # "free" /\ builds[b].built = FALSE
      BY <1>c DEF CutTaskShort, BuildType
    <3> QED  BY <1>c, <2>1, <3>1 DEF BuildType
  <2>4. jobs' \in Seq(BuildIds) /\ jobs' = jobs
    BY <1>a DEF BuildTypes
  <2> HIDE DEF build
  <2>5. BuildsFit' /\ builds' \in [BuildIds -> BuildType]
    BY <1>b, <1>c, <2>1, <2>2, <2>4, BuildsBecame
  <2>6. \A c \in BuildIds : builds'[c].mode = builds[c].mode
    BY <1>b, <2>2 DEF Became
  <2>7. MineFits'
    BY <1>a, <2>6 DEF MineFits, FlushTypes
  <2> QED  BY <2>4, <2>5, <2>7 DEF BuildTypes
<1>1. RecordTypes'
  <2> DEFINE gone == {Head(builds[b].current)}
  <2>1. UNCHANGED kind /\ Leave(All(gone, "cutShort"))
    BY DEF CutTaskShort
  <2>2. gone \subseteq Records
    BY <1>c, HeadTailProperties DEF CutTaskShort
  <2> HIDE DEF gone
  <2> QED  BY <2>1, <2>2 DEF RecordTypes, Leave, All, Fates
<1>2. QueueTypes'
  BY DEF QueueTypes, CutTaskShort
<1>3. FlagTypes'
  BY DEF FlagTypes, CutTaskShort
<1>4. BuildTypes'
  BY <1>d
<1>5. FlushTypes'
  BY <1>a DEF FlushTypes
<1>6. CountTypes'
  <2>1. total' = [total EXCEPT !.cutShort = total.cutShort + 1] /\ total.cutShort + 1 \in Nat
    BY DEF CountTypes, CutTaskShort
  <2>2. UNCHANGED <<report, base, owed>>
    BY DEF CutTaskShort
  <2> QED  BY <2>1, <2>2 DEF CountTypes
<1>7. LockFits'
  BY <1>a DEF LockFits
<1>8. BatchFits'
  BY <1>a DEF BatchFits
<1>9. BackFits'
  BY <1>a DEF BackFits
<1>10. MineFits'
  BY <1>d
<1>11. BuildsFit'
  BY <1>d
<1>12. CountsFit'
  <2>1. total'.cutShort = total.cutShort + 1 /\ total.cutShort \in Nat /\ UNCHANGED <<late, base>>
    BY DEF CountTypes, CutTaskShort
  <2>2. \A g \in Flushers : base[g] \in Nat
    BY DEF CountTypes
  <2> QED  BY <2>1, <2>2 DEF CountsFit
<1> QED  BY <1>1, <1>2, <1>3, <1>4, <1>5, <1>6, <1>7, <1>8, <1>9, <1>10, <1>11, <1>12, TypePartsNext DEF Control

LEMMA HeadTailFacts ==
    ASSUME NEW T, NEW s \in Seq(T), s # <<>>
    PROVE  /\ Head(s) \in T /\ Tail(s) \in Seq(T) /\ <<Head(s)>> \o Tail(s) = s
           /\ \A x : x \in Range(s) <=> x = Head(s) \/ x \in Range(Tail(s))
<1>1. Head(s) \in T /\ Tail(s) \in Seq(T) /\ Tail(s) = SubSeq(s, 2, Len(s))
  BY HeadTailProperties, TailIsSubSeq
<1>2. Len(s) \in Nat \ {0} /\ 1 \in 1 .. Len(s) /\ Len(s) \in 1 .. Len(s) /\ Head(s) = s[1]
  <2>1. Len(s) \in Nat \ {0}
    BY EmptySeq
  <2> QED  BY <2>1
<1>3. SubSeq(s, 1, Len(s)) = <<s[1]>> \o SubSeq(s, 1 + 1, Len(s))
  BY <1>2, SubSeqRecursiveFirst
<1>4. <<Head(s)>> \o Tail(s) = s
  BY <1>1, <1>2, <1>3, SubSeqFull
<1> DEFINE h == <<Head(s)>>
<1>5. h \in Seq(T) /\ \A x : x \in Range(h) <=> x = Head(s)
  BY <1>1, OneElement
<1> DEFINE t == Tail(s)
<1>6. h \o t = s /\ t \in Seq(T)
  BY <1>1, <1>4
<1> HIDE DEF h, t
<1>7. Range(h \o t) = Range(h) \cup Range(t)
  BY <1>5, <1>6, RangeConcatenation, ZenonT(60)
<1> QED  BY <1>1, <1>4, <1>5, <1>6, <1>7 DEF t

LEMMA EndRunControl ==
    ASSUME TypeOK, Control, NEW b \in BuildIds, EndRun(b)
    PROVE  TypeOK' /\ Control'
<1>0. /\ RecordTypes /\ QueueTypes /\ FlagTypes /\ BuildTypes /\ FlushTypes /\ CountTypes
      /\ LockFits /\ BatchFits /\ BackFits /\ MineFits /\ BuildsFit /\ CountsFit
  BY TypeParts DEF Control
<1> USE <1>0 DEF recordVars, queueVars, replayVars, buildVars, envVars, askVars, flushVars
<1>a. UNCHANGED <<pc, back, stage, late, lock, batch, inFlight, parked, total, report, base, owed>>
  BY DEF EndRun
<1>b. /\ builds[b].mode \in {"own", "queued", "inline"} /\ builds[b].current = <<>>
      /\ builds[b].mode = "queued" => b = Head(jobs)
      /\ jobs' = IF builds[b].mode = "queued" THEN Tail(jobs) ELSE jobs
      /\ \/ /\ builds[b].tasks = <<>> /\ Became(b, NoBuild)
            /\ \A f \in Flushers : mine'[f] = IF mine[f] = b THEN 0 ELSE mine[f]
         \/ Became(b, [builds[b] EXCEPT !.mode = "over"]) /\ UNCHANGED mine
  BY EndRunEffect
<1>c. PICK build \in {NoBuild, [builds[b] EXCEPT !.mode = "over"]} : Became(b, build)
  BY <1>b
<1>d. jobs' \in Seq(BuildIds) /\ \A c \in BuildIds : c # b /\ c \in Range(jobs) => c \in Range(jobs')
  <2>1. CASE builds[b].mode = "queued"
    <3>1. b \in Range(jobs) /\ jobs # <<>>
      <4>1. b \in Range(jobs)
        BY <2>1 DEF BuildsFit
      <4> QED  BY <4>1, NoElement
    <3> QED  BY <1>b, <2>1, <3>1, HeadTailFacts DEF BuildTypes
  <2>2. CASE builds[b].mode # "queued"
    BY <1>b, <2>2 DEF BuildTypes
  <2> QED  BY <2>1, <2>2
<1>e. /\ build \in BuildType /\ build.current = <<>> /\ build.built = FALSE
      /\ build.mode \in {"free", "over"} /\ (build.mode = "free" => build = NoBuild)
  <2>1. builds[b] \in BuildType /\ builds[b].built = FALSE
    BY <1>b, BuildFacts DEF BuildsFit, BuildType
  <2>2. NoBuild \in BuildType /\ NoBuild.current = <<>> /\ NoBuild.built = FALSE /\ NoBuild.mode = "free"
    BY BuildFacts DEF NoBuild
  <2>3. CASE build = NoBuild
    BY <2>2, <2>3
  <2>4. CASE build = [builds[b] EXCEPT !.mode = "over"]
    BY <1>b, <2>1, <2>4 DEF BuildType, Modes
  <2> QED  BY <1>c, <2>3, <2>4
<1>f. BuildTypes' /\ BuildsFit'
  <2>1. Len(<<>>) <= 1
    OBVIOUS
  <2> QED  BY <1>c, <1>d, <1>e, <2>1, BuildsBecame DEF BuildTypes
<1>g. /\ \A c \in BuildIds : c # b => builds'[c] = builds[c]
      /\ \A f \in Flushers : mine'[f] = mine[f] \/ (mine[f] = b /\ mine'[f] = 0)
      /\ \A f \in Flushers : mine'[f] = b => builds'[b].mode = "over"
      /\ \A f \in Flushers : mine[f] \in BuildIds \cup {0} /\ 0 \notin BuildIds
  <2>1. \A f \in Flushers : mine[f] \in BuildIds \cup {0} /\ 0 \notin BuildIds
    BY BuildFacts DEF FlushTypes
  <2>2. CASE /\ builds[b].tasks = <<>> /\ Became(b, NoBuild)
             /\ \A f \in Flushers : mine'[f] = IF mine[f] = b THEN 0 ELSE mine[f]
    BY <2>1, <2>2 DEF Became
  <2>3. CASE Became(b, [builds[b] EXCEPT !.mode = "over"]) /\ UNCHANGED mine
    <3>1. builds[b] \in BuildType /\ builds'[b] = [builds[b] EXCEPT !.mode = "over"]
      BY <2>3, BuildFacts DEF Became
    <3>2. builds'[b].mode = "over"
      BY <3>1 DEF BuildType
    <3> QED  BY <2>1, <2>3, <3>2 DEF Became
  <2> QED  BY <1>b, <2>2, <2>3
<1>1. RecordTypes'
  BY DEF RecordTypes, EndRun
<1>2. QueueTypes'
  BY DEF QueueTypes, EndRun
<1>3. FlagTypes'
  BY DEF FlagTypes, EndRun
<1>4. BuildTypes'
  BY <1>f
<1>5. FlushTypes'
  <2>1. mine' \in [Flushers -> BuildIds \cup {0}]
    BY DEF EndRun, FlushTypes
  <2>2. awaits' = awaits \ {b}
    BY DEF EndRun
  <2> QED  BY <1>a, <2>1, <2>2 DEF FlushTypes
<1>6. CountTypes'
  BY <1>a DEF CountTypes
<1>7. LockFits'
  BY <1>a DEF LockFits
<1>8. BatchFits'
  BY <1>a DEF BatchFits
<1>9. BackFits'
  BY <1>a DEF BackFits
<1>10. MineFits'
  <2>1. ASSUME NEW f \in Flushers
        PROVE  /\ pc'[f] \in Owning => mine'[f] # 0 /\ builds'[mine'[f]].mode = "held"
               /\ pc'[f] \notin Owning /\ mine'[f] # 0 =>
                      pc'[f] \in {"wait", "return"} /\ builds'[mine'[f]].mode \in {"queued", "own", "inline", "over"}
    <3>1. /\ pc[f] \in Owning => mine[f] # 0 /\ builds[mine[f]].mode = "held"
          /\ pc[f] \notin Owning /\ mine[f] # 0 =>
                 pc[f] \in {"wait", "return"} /\ builds[mine[f]].mode \in {"queued", "own", "inline", "over"}
      BY DEF MineFits
    <3>2. pc'[f] = pc[f]
      BY <1>a
    <3>3. CASE mine[f] = b
      BY <1>b, <1>g, <3>1, <3>2, <3>3
    <3>4. CASE mine[f] # b
      BY <1>g, <3>1, <3>2, <3>4
    <3> QED  BY <3>3, <3>4
  <2>2. ASSUME NEW f \in Flushers, NEW g \in Flushers, mine'[f] = mine'[g], mine'[f] # 0 PROVE f = g
    BY <1>g, <2>2 DEF MineFits
  <2> QED  BY <2>1, <2>2 DEF MineFits
<1>11. BuildsFit'
  BY <1>f
<1>12. CountsFit'
  BY <1>a DEF CountsFit
<1> QED  BY <1>1, <1>2, <1>3, <1>4, <1>5, <1>6, <1>7, <1>8, <1>9, <1>10, <1>11, <1>12, TypePartsNext DEF Control

LEMMA BuildAllOverflowControl ==
    ASSUME TypeOK, Control, NEW f \in Flushers, BuildAllOverflow(f)
    PROVE  TypeOK' /\ Control'
<1>0. /\ RecordTypes /\ QueueTypes /\ FlagTypes /\ BuildTypes /\ FlushTypes /\ CountTypes
      /\ LockFits /\ BatchFits /\ BackFits /\ MineFits /\ BuildsFit /\ CountsFit
  BY TypeParts DEF Control
<1> USE <1>0 DEF recordVars, queueVars, replayVars, buildVars, envVars, askVars, flushVars
<1>a. pc[f] = "idle" /\ Free # {} /\ UNCHANGED <<jobs, lock, batch, inFlight, parked, kind, fate, old, settled>>
  BY BuildAllOverflowEffect DEF BuildAllOverflow
<1>b. Moved(f, "hand", NewBuild, back[f])
  BY BuildAllOverflowEffect
<1>c. /\ NewBuild \in BuildIds /\ NewBuild # 0 /\ builds[NewBuild].mode = "free" /\ NewBuild \notin Active
      /\ Active \subseteq BuildIds /\ IsFiniteSet(Active)
  <2>1. Active \subseteq BuildIds
    BY DEF Active
  <2>2. IsFiniteSet(Active) /\ NewBuild \notin Active
    BY <2>1, BuildFacts, BuildAllOverflowEffect, FS_Subset
  <2>3. NewBuild \in BuildIds /\ builds[NewBuild] = NoBuild /\ 0 \notin BuildIds
    BY <1>a, BuildFacts
  <2> QED  BY <2>1, <2>2, <2>3 DEF NoBuild
<1>d. /\ \A b \in Active : builds'[b] = Reclaimed(builds[b])
      /\ \A b \in BuildIds \ Active : b # NewBuild => builds'[b] = builds[b]
  BY BuildAllOverflowEffect
<1>e. PICK order \in Bijection(1 .. Cardinality(Active), Active) :
          builds'[NewBuild] = [NoBuild EXCEPT !.tasks = TasksOf(order) \o Only(events, Overflow), !.mode = "held"]
  BY BuildAllOverflowEffect
<1>f. TasksOf(order) \o Only(events, Overflow) \in Seq(Records)
  <2>1. TasksOf(order) \in Seq(Records)
    BY <1>c, BuildFacts, TasksOfFacts
  <2>2. Only(events, Overflow) \in Seq(Records)
    BY OnlyFacts DEF QueueTypes
  <2> QED  BY <2>1, <2>2
<1>g. /\ builds'[NewBuild] \in BuildType /\ builds'[NewBuild].mode = "held"
      /\ builds'[NewBuild].current = <<>> /\ builds'[NewBuild].built = FALSE
  <2> DEFINE ts == TasksOf(order) \o Only(events, Overflow)
  <2>1. ts \in Seq(Records) /\ builds'[NewBuild] = [NoBuild EXCEPT !.tasks = ts, !.mode = "held"]
    BY <1>e, <1>f
  <2> HIDE DEF ts
  <2>2. NoBuild \in BuildType
    BY BuildFacts
  <2>3. builds'[NewBuild] \in BuildType
    BY <2>1, <2>2 DEF BuildType, Modes
  <2>4. builds'[NewBuild].mode = "held"
    BY <2>1 DEF NoBuild
  <2>5. builds'[NewBuild].current = <<>>
    BY <2>1 DEF NoBuild
  <2>6. builds'[NewBuild].built = FALSE
    BY <2>1 DEF NoBuild
  <2> QED  BY <2>3, <2>4, <2>5, <2>6
<1>h. ASSUME NEW b \in BuildIds, b # NewBuild
      PROVE  /\ builds'[b] \in BuildType /\ builds'[b].mode = builds[b].mode
             /\ builds'[b].current = builds[b].current /\ builds'[b].built = builds[b].built
             /\ builds[b].mode = "free" => builds'[b] = builds[b]
  <2>1. builds[b] \in BuildType
    BY BuildFacts
  <2>2. CASE b \in Active
    <3>1. builds'[b] = Reclaimed(builds[b]) /\ builds[b].mode # "free" /\ <<>> \in Seq(Records)
      BY <1>d, <2>2 DEF Active
    <3> QED  BY <2>1, <3>1 DEF Reclaimed, BuildType
  <2>3. CASE b \notin Active
    BY <1>d, <1>h, <2>1, <2>3
  <2> QED  BY <2>2, <2>3
<1>i. builds' \in [BuildIds -> BuildType]
  <2>1. \E g : builds' = [b \in BuildIds |-> g[b]]
    <3>1. PICK o \in Bijection(1 .. Cardinality(Active), Active) :
        builds' = [b \in BuildIds |->
            IF b \in Active THEN Reclaimed(builds[b])
            ELSE IF b = NewBuild
            THEN [NoBuild EXCEPT !.tasks = TasksOf(o) \o Only(events, Overflow), !.mode = "held"]
            ELSE builds[b]]
      BY DEF BuildAllOverflow
    <3>2. builds' = [b \in BuildIds |-> builds'[b]]
      BY <3>1
    <3> QED  BY <3>2
  <2>2. builds' = [b \in BuildIds |-> builds'[b]]
    BY <2>1
  <2>3. \A b \in BuildIds : builds'[b] \in BuildType
    BY <1>g, <1>h
  <2> QED  BY <2>2, <2>3
<1>1. RecordTypes'
  BY <1>a DEF RecordTypes
<1>2. QueueTypes'
  <2>1. Only(events, Records \ Overflow) \in Seq(Records)
    BY OnlyFacts DEF QueueTypes
  <2>2. events' = Only(events, Records \ Overflow)
    BY DEF BuildAllOverflow
  <2> QED  BY <1>a, <2>1, <2>2 DEF QueueTypes
<1>3. FlagTypes'
  <2>1. exitBuild' = TRUE /\ UNCHANGED <<lock, unreachable, workerUp, shutdown, circuitOpen>>
    BY DEF BuildAllOverflow
  <2> QED  BY <2>1 DEF FlagTypes
<1>4. BuildTypes'
  BY <1>a, <1>i DEF BuildTypes
<1>5. FlushTypes'
  <2>1. awaits' = InProgress /\ stage' = Put(stage, f, "takeover") /\ UNCHANGED late
    BY DEF BuildAllOverflow
  <2>2. InProgress \subseteq BuildIds
    BY <1>c DEF InProgress
  <2>3. stage' \in [Flushers -> {"takeover", "first", "late"}]
    BY <2>1 DEF Put, FlushTypes
  <2> QED  BY <1>b, <1>c, <2>1, <2>2, <2>3 DEF FlushTypes, Moved
<1>6. CountTypes'
  <2>1. base' = Put(base, f, total.cutShort) /\ owed' = Put(owed, f, HeldRecords) /\ UNCHANGED <<total, report>>
    BY DEF BuildAllOverflow
  <2>2. total.cutShort \in Nat /\ HeldRecords \subseteq Records
    BY DEF CountTypes, HeldRecords
  <2> QED  BY <2>1, <2>2 DEF CountTypes, Put
<1>7. LockFits'
  BY <1>a, <1>b DEF LockFits, Moved
<1>8. BatchFits'
  BY <1>a, <1>b DEF BatchFits, Moved, FlagTypes
<1>9. BackFits'
  BY <1>a, <1>b DEF BackFits, Moved
<1>10. MineFits'
  <2>1. \A b \in BuildIds : b # NewBuild => builds'[b].mode = builds[b].mode
    BY <1>h
  <2>2. "hand" \in Owning
    BY DEF Owning
  <2>3. mine[f] = 0
    BY <1>a, OwnBuild DEF Owning
  <2>4. ASSUME NEW g \in Flushers, g # f
        PROVE  mine'[g] = mine[g] /\ pc'[g] = pc[g] /\ (mine[g] # 0 => mine[g] # NewBuild /\ builds'[mine[g]].mode = builds[mine[g]].mode)
    <3>1. mine'[g] = mine[g] /\ pc'[g] = pc[g]
      BY <1>b, <2>4 DEF Moved
    <3>2. mine[g] # NewBuild /\ mine[g] \in BuildIds \cup {0}
      BY <1>a, BuildFacts DEF FlushTypes
    <3> QED  BY <2>1, <3>1, <3>2
  <2>5. mine'[f] = NewBuild /\ pc'[f] = "hand"
    BY <1>b DEF Moved
  <2>6. ASSUME NEW g \in Flushers
        PROVE  /\ pc'[g] \in Owning => mine'[g] # 0 /\ builds'[mine'[g]].mode = "held"
               /\ pc'[g] \notin Owning /\ mine'[g] # 0 =>
                      pc'[g] \in {"wait", "return"} /\ builds'[mine'[g]].mode \in {"queued", "own", "inline", "over"}
    <3>1. CASE g = f
      BY <1>c, <1>g, <2>2, <2>5, <3>1
    <3>2. CASE g # f
      BY <2>4, <3>2 DEF MineFits
    <3> QED  BY <3>1, <3>2
  <2>7. ASSUME NEW g \in Flushers, NEW h \in Flushers, mine'[g] = mine'[h], mine'[g] # 0 PROVE g = h
    BY <2>4, <2>5, <2>7 DEF MineFits
  <2> QED  BY <2>6, <2>7 DEF MineFits
<1>11. BuildsFit'
  <2>1. ASSUME NEW c \in BuildIds
        PROVE  /\ builds'[c].mode = "free" => builds'[c] = NoBuild
               /\ builds'[c].mode \in {"held", "over"} => builds'[c].current = <<>>
               /\ builds'[c].built => builds'[c].current # <<>>
               /\ Len(builds'[c].current) <= 1
               /\ builds'[c].mode = "queued" => c \in Range(jobs')
    <3>1. CASE c = NewBuild
      <4>1. Len(<<>>) <= 1
        OBVIOUS
      <4> QED  BY <1>g, <3>1, <4>1
    <3>2. CASE c # NewBuild
      <4>1. /\ builds[c].mode = "free" => builds[c] = NoBuild
            /\ builds[c].mode \in {"held", "over"} => builds[c].current = <<>>
            /\ builds[c].built => builds[c].current # <<>>
            /\ Len(builds[c].current) <= 1
            /\ builds[c].mode = "queued" => c \in Range(jobs)
        BY DEF BuildsFit
      <4>2. jobs' = jobs
        BY <1>a
      <4> QED  BY <1>h, <3>2, <4>1, <4>2
    <3> QED  BY <3>1, <3>2
  <2> QED  BY <2>1 DEF BuildsFit, NoBuild
<1>12. CountsFit'
  <2>1. base' = Put(base, f, total.cutShort) /\ UNCHANGED <<late, total>> /\ total.cutShort \in Nat
    BY DEF BuildAllOverflow, CountTypes
  <2>2. \A g \in Flushers : base'[g] = base[g] \/ base'[g] = total.cutShort
    BY <2>1 DEF Put, CountTypes
  <2> QED  BY <2>1, <2>2 DEF CountsFit
<1> QED  BY <1>1, <1>2, <1>3, <1>4, <1>5, <1>6, <1>7, <1>8, <1>9, <1>10, <1>11, <1>12, TypePartsNext DEF Control

LEMMA InitControl ==
    Init => TypeOK /\ Control
<1> SUFFICES ASSUME Init PROVE TypeOK /\ Control
  OBVIOUS
<1> USE DEF Init
<1>0. <<>> \in Seq(Records) /\ <<>> \in Seq(BuildIds) /\ Len(<<>>) = 0
  OBVIOUS
<1>1. RecordTypes
  BY DEF RecordTypes
<1>2. QueueTypes
  BY <1>0 DEF QueueTypes
<1>3. FlagTypes
  BY DEF FlagTypes
<1>4. BuildTypes
  BY <1>0 DEF BuildTypes, BuildType, Modes, NoBuild
<1>5. FlushTypes
  BY <1>0 DEF FlushTypes
<1>6. CountTypes
  BY DEF CountTypes
<1>7. Control
  <2>1. LockFits
    BY BufferAssumption DEF LockFits
  <2>2. BatchFits /\ BackFits
    BY <1>0 DEF BatchFits, BackFits
  <2>3. MineFits
    BY DEF MineFits, Owning
  <2>4. BuildsFit
    BY <1>0 DEF BuildsFit, NoBuild
  <2>5. CountsFit
    BY DEF CountsFit
  <2> QED  BY <2>1, <2>2, <2>3, <2>4, <2>5 DEF Control
<1> QED  BY <1>1, <1>2, <1>3, <1>4, <1>5, <1>6, <1>7, TypeParts

-----------------------------------------------------------------------------
(* The line of the records that wait or are being replayed: what joins it,   *)
(* what leaves it and how it stays in order.                                 *)

LEMMA ThreeFacts ==
    ASSUME NEW T, NEW a \in Seq(T), NEW b \in Seq(T), NEW c \in Seq(T)
    PROVE  /\ a \o (b \o c) \in Seq(T)
           /\ \A x : x \in Range(a \o (b \o c)) <=> x \in Range(a) \/ x \in Range(b) \/ x \in Range(c)
           /\ \A x, y : Before(a \o (b \o c), x, y) <=>
                  \/ Before(a, x, y) \/ Before(b, x, y) \/ Before(c, x, y)
                  \/ x \in Range(a) /\ (y \in Range(b) \/ y \in Range(c))
                  \/ x \in Range(b) /\ y \in Range(c)
           /\ IsInjective(a \o (b \o c)) <=> \A x : ~Before(a \o (b \o c), x, x)
<1> DEFINE d == b \o c
<1>1. d \in Seq(T) /\ Range(d) = Range(b) \cup Range(c)
  BY RangeConcatenation
<1>2. \A x, y : Before(d, x, y) <=> Before(b, x, y) \/ Before(c, x, y) \/ (x \in Range(b) /\ y \in Range(c))
  BY BeforeConcat
<1> HIDE DEF d
<1>3. a \o d \in Seq(T) /\ Range(a \o d) = Range(a) \cup Range(d)
  BY <1>1, RangeConcatenation
<1>4. \A x, y : Before(a \o d, x, y) <=> Before(a, x, y) \/ Before(d, x, y) \/ (x \in Range(a) /\ y \in Range(d))
  BY <1>1, BeforeConcat
<1>5. IsInjective(a \o d) <=> \A x : ~Before(a \o d, x, x)
  BY <1>3, InjectiveIsBefore
<1>6. \A x : x \in Range(a \o d) <=> x \in Range(a) \/ x \in Range(b) \/ x \in Range(c)
  BY <1>1, <1>3
<1>7. \A x, y : Before(a \o d, x, y) <=>
          \/ Before(a, x, y) \/ Before(b, x, y) \/ Before(c, x, y)
          \/ x \in Range(a) /\ (y \in Range(b) \/ y \in Range(c))
          \/ x \in Range(b) /\ y \in Range(c)
  BY <1>1, <1>2, <1>4
<1> QED  BY <1>3, <1>5, <1>6, <1>7 DEF d

\* Two elements of a sequence that has each once come in one order only.
LEMMA OneOrder ==
    ASSUME NEW T, NEW s \in Seq(T), IsInjective(s), NEW x, NEW y, Before(s, x, y), Before(s, y, x)
    PROVE  FALSE
<1>1. DOMAIN s = 1 .. Len(s) /\ Len(s) \in Nat
  OBVIOUS
<1>2. PICK i \in 1 .. Len(s), j \in 1 .. Len(s) : i < j /\ s[i] = x /\ s[j] = y
  BY <1>1 DEF Before
<1>3. PICK k \in 1 .. Len(s), l \in 1 .. Len(s) : k < l /\ s[k] = y /\ s[l] = x
  BY <1>1 DEF Before
<1>4. i = l /\ j = k
  BY <1>1, <1>2, <1>3 DEF IsInjective
<1> QED  BY <1>2, <1>3, <1>4

\* Room is made behind what is being replayed.
LEMMA RoomOnLine ==
    ASSUME NEW a \in Seq(Records), NEW p \in Seq(Records), NEW e \in Seq(Records), NEW size \in Nat,
           IsInjective(a \o (p \o e))
    PROVE  LET left == a \o (ParkedLeft(p, e, size) \o EventsLeft(p, e, size)) IN
           /\ left \in Seq(Records) /\ IsInjective(left)
           /\ \A x : x \in Range(a \o (p \o e)) <=> x \in Evicted(p, e, size) \/ x \in Range(left)
           /\ \A x : ~(x \in Evicted(p, e, size) /\ x \in Range(left))
           /\ \A x, y : Before(left, x, y) => Before(a \o (p \o e), x, y)
           /\ \A x : x \in Range(a) => x \in Range(left)
<1> DEFINE q == p \o e
           l == ParkedLeft(p, e, size) \o EventsLeft(p, e, size)
           gone == Evicted(p, e, size)
           left == a \o (ParkedLeft(p, e, size) \o EventsLeft(p, e, size))
<1>1. q \in Seq(Records) /\ l \in Seq(Records)
  <2>1. ParkedLeft(p, e, size) \in Seq(Records) /\ EventsLeft(p, e, size) \in Seq(Records)
    BY RoomIsMade
  <2> QED  BY <2>1
<1>2. Range(q) = Range(p) \cup Range(e)
  BY RangeConcatenation
<1>3. \A x : x \in Range(q) <=> x \in gone \/ x \in Range(l)
  BY <1>2, RoomIsMade
<1>4. \A x, y : Before(l, x, y) => Before(q, x, y)
  BY RoomIsMade
<1>5. IsInjective(a) /\ IsInjective(q) /\ \A x : ~(x \in Range(a) /\ x \in Range(q))
  <2>1. IsInjective(a \o q)
    OBVIOUS
  <2> HIDE DEF q
  <2> QED  BY <1>1, <2>1, InjectiveConcat
<1>6. IsInjective(l) /\ \A x : ~(x \in gone /\ x \in Range(l))
  BY <1>5, RoomKeepsOnce
<1>7. left = a \o l
  BY DEF left, l
<1> HIDE DEF q, l, gone, left
<1>8. left \in Seq(Records) /\ Range(left) = Range(a) \cup Range(l) /\ Range(a \o q) = Range(a) \cup Range(q)
  BY <1>1, <1>7, RangeConcatenation
<1>9. IsInjective(left)
  BY <1>1, <1>3, <1>5, <1>6, <1>7, InjectiveConcat
<1>10. \A x, y : Before(left, x, y) => Before(a \o q, x, y)
  <2>1. \A x, y : Before(left, x, y) <=> Before(a, x, y) \/ Before(l, x, y) \/ (x \in Range(a) /\ y \in Range(l))
    BY <1>1, <1>7, BeforeConcat
  <2>2. \A x, y : Before(a \o q, x, y) <=> Before(a, x, y) \/ Before(q, x, y) \/ (x \in Range(a) /\ y \in Range(q))
    BY <1>1, BeforeConcat
  <2> QED  BY <1>3, <1>4, <2>1, <2>2
<1>11. \A x : x \in Range(a \o q) <=> x \in gone \/ x \in Range(left)
  BY <1>3, <1>8
<1>12. \A x : ~(x \in gone /\ x \in Range(left))
  BY <1>3, <1>5, <1>6, <1>8
<1>13. \A x : x \in Range(a) => x \in Range(left)
  BY <1>8
<1> QED  BY <1>8, <1>9, <1>10, <1>11, <1>12, <1>13 DEF q, gone, left

\* Where there is room for one, what comes last stays.
LEMMA LastStays ==
    ASSUME NEW T, NEW p \in Seq(T), NEW e \in Seq(T), NEW r \in T, NEW size \in Nat, size >= 1
    PROVE  r \in Range(EventsLeft(p, Append(e, r), size))
<1> DEFINE t == Append(e, r)
           m == Minus(Excess(p, t, size), Len(p))
<1>1. t \in Seq(T) /\ Len(t) = Len(e) + 1 /\ t[Len(t)] = r /\ Len(e) \in Nat /\ Len(p) \in Nat
  BY AppendProperties
<1> HIDE DEF t
<1>2. m \in 0 .. Len(e)
  BY <1>1 DEF Excess, Minus
<1> HIDE DEF m
<1>3. m \in 0 .. Len(t) /\ m + 1 <= Len(t) /\ m + 1 \in Int /\ Len(t) \in Int
  BY <1>1, <1>2
<1>4. \A i \in m + 1 .. Len(t) : t[i] \in T
  BY <1>1, <1>2
<1> DEFINE u == SubSeq(t, m + 1, Len(t))
<1>5. /\ u \in Seq(T) /\ Len(u) = Len(t) - (m + 1) + 1
      /\ \A i \in 1 .. Len(t) - (m + 1) + 1 : u[i] = t[(m + 1) + i - 1]
  BY <1>3, <1>4, SubSeqProperties
<1> HIDE DEF u
<1>6. Len(t) - m \in 1 .. Len(u) /\ Len(t) - m \in 1 .. Len(t) - (m + 1) + 1 /\ (m + 1) + (Len(t) - m) - 1 = Len(t)
  BY <1>1, <1>2, <1>5
<1>7. u[Len(t) - m] = t[Len(t)]
  BY <1>5, <1>6
<1>8. r \in Range(u)
  BY <1>1, <1>5, <1>6, <1>7, RangeFacts
<1> QED  BY <1>8 DEF EventsLeft, Drop, t, m, u

\* A record that is not on the line joins it at the end.
LEMMA JoinsTheEnd ==
    ASSUME NEW T, NEW a \in Seq(T), NEW p \in Seq(T), NEW e \in Seq(T), NEW r \in T,
           IsInjective(a \o (p \o e)), r \notin Range(a \o (p \o e))
    PROVE  /\ IsInjective(a \o (p \o Append(e, r)))
           /\ \A x : x \in Range(a \o (p \o Append(e, r))) <=> x \in Range(a \o (p \o e)) \/ x = r
           /\ \A x, y : Before(a \o (p \o Append(e, r)), x, y) =>
                  Before(a \o (p \o e), x, y) \/ (x \in Range(a \o (p \o e)) /\ y = r)
<1> DEFINE t == Append(e, r)
<1>1. t \in Seq(T)
  BY BeforeAppend
<1>2. /\ \A x : x \in Range(t) <=> x \in Range(e) \/ x = r
      /\ \A x, y : Before(t, x, y) <=> Before(e, x, y) \/ (x \in Range(e) /\ y = r)
  BY BeforeAppend
<1> HIDE DEF t
<1>3. /\ \A x : x \in Range(a \o (p \o t)) <=> x \in Range(a) \/ x \in Range(p) \/ x \in Range(t)
      /\ \A x, y : Before(a \o (p \o t), x, y) <=>
             \/ Before(a, x, y) \/ Before(p, x, y) \/ Before(t, x, y)
             \/ x \in Range(a) /\ (y \in Range(p) \/ y \in Range(t))
             \/ x \in Range(p) /\ y \in Range(t)
      /\ IsInjective(a \o (p \o t)) <=> \A x : ~Before(a \o (p \o t), x, x)
  BY <1>1, ThreeFacts
<1>4. /\ \A x : x \in Range(a \o (p \o e)) <=> x \in Range(a) \/ x \in Range(p) \/ x \in Range(e)
      /\ \A x, y : Before(a \o (p \o e), x, y) <=>
             \/ Before(a, x, y) \/ Before(p, x, y) \/ Before(e, x, y)
             \/ x \in Range(a) /\ (y \in Range(p) \/ y \in Range(e))
             \/ x \in Range(p) /\ y \in Range(e)
      /\ IsInjective(a \o (p \o e)) <=> \A x : ~Before(a \o (p \o e), x, x)
  BY ThreeFacts
<1>5. \A x : x \in Range(a \o (p \o t)) <=> x \in Range(a \o (p \o e)) \/ x = r
  BY <1>2, <1>3, <1>4
<1>6. \A x, y : Before(a \o (p \o t), x, y) => Before(a \o (p \o e), x, y) \/ (x \in Range(a \o (p \o e)) /\ y = r)
  BY <1>2, <1>3, <1>4
<1>7. IsInjective(a \o (p \o t))
  BY <1>3, <1>4, <1>6
<1> QED  BY <1>5, <1>6, <1>7 DEF t

-----------------------------------------------------------------------------
(* One place for each record: what a step has to show of the places that it  *)
(* touches, the line, one build and one hand-back.                           *)

OfBuild(b) == IF b \in BuildIds THEN Range(Unfinished(builds[b])) ELSE {}
Here(r, f, b) == OnLine(r) \/ r \in OfBuild(b) \/ HandedBack(r, f)

LEMMA PlacesMoved ==
    ASSUME EachRecordInOnePlace, NEW f \in Flushers, NEW b, NEW came, NEW gone,
           IsInjective(Line'), IsInjective(back'[f]), b \in BuildIds => IsInjective(Unfinished(builds'[b])),
           \A c \in BuildIds : c # b => Unfinished(builds'[c]) = Unfinished(builds[c]),
           \A g \in Flushers : g # f => back'[g] = back[g],
           \A r \in Records : Here(r, f, b)' <=> (Here(r, f, b) \/ r \in came) /\ r \notin gone,
           \A r \in Records : /\ ~(OnLine(r)' /\ r \in OfBuild(b)')
                              /\ ~(OnLine(r)' /\ HandedBack(r, f)')
                              /\ ~(r \in OfBuild(b)' /\ HandedBack(r, f)'),
           \A r \in came : r \in Records => kind[r] = "none" /\ fate[r] = "none",
           \A r \in gone : r \in Records => Here(r, f, b),
           \A r \in Records : kind'[r] # "none" <=> kind[r] # "none" \/ r \in came,
           \A r \in Records : r \in gone => fate'[r] # "none",
           \A r \in Records : r \notin gone => fate'[r] = fate[r],
           \A r \in Records : fate'[r] # "none" /\ kind'[r] = "overflow" => r \in settled'
    PROVE  EachRecordInOnePlace'
<1>1. \A c \in BuildIds : IsInjective(Unfinished(builds'[c]))
  BY DEF EachRecordInOnePlace
<1>2. \A g \in Flushers : IsInjective(back'[g])
  BY DEF EachRecordInOnePlace
<1>3. \A c \in BuildIds : c # b => \A r : InBuildOf(r, c)' <=> InBuildOf(r, c)
  BY DEF InBuildOf
<1>4. \A g \in Flushers : g # f => \A r : HandedBack(r, g)' <=> HandedBack(r, g)
  BY DEF HandedBack
<1>5. b \in BuildIds => \A r : /\ r \in OfBuild(b) <=> InBuildOf(r, b)
                               /\ r \in OfBuild(b)' <=> InBuildOf(r, b)'
  BY DEF OfBuild, InBuildOf
<1>5a. b \notin BuildIds => \A r : r \notin OfBuild(b) /\ ~(r \in OfBuild(b)')
  BY DEF OfBuild
<1>6. ASSUME NEW r \in Records
      PROVE  /\ r \in HeldRecords' <=> Present(r)'
             /\ \A c \in BuildIds : InBuildOf(r, c)' => ~OnLine(r)' /\ \A d \in BuildIds \ {c} : ~InBuildOf(r, d)'
             /\ \A g \in Flushers : HandedBack(r, g)' =>
                    /\ ~OnLine(r)' /\ \A c \in BuildIds : ~InBuildOf(r, c)'
                    /\ \A h \in Flushers \ {g} : ~HandedBack(r, h)'
             /\ fate'[r] # "none" /\ kind'[r] = "overflow" => r \in settled'
  <2>1. /\ r \in HeldRecords <=> Present(r)
        /\ \A c \in BuildIds : InBuildOf(r, c) => ~OnLine(r) /\ \A d \in BuildIds \ {c} : ~InBuildOf(r, d)
        /\ \A g \in Flushers : HandedBack(r, g) =>
               /\ ~OnLine(r) /\ \A c \in BuildIds : ~InBuildOf(r, c)
               /\ \A h \in Flushers \ {g} : ~HandedBack(r, h)
    BY DEF EachRecordInOnePlace
  <2>2. Present(r) <=> \/ Here(r, f, b) \/ \E c \in BuildIds \ {b} : InBuildOf(r, c)
                       \/ \E g \in Flushers \ {f} : HandedBack(r, g)
    BY <1>5, <1>5a DEF Present, Here
  <2>3. Present(r)' <=> \/ Here(r, f, b)' \/ \E c \in BuildIds \ {b} : InBuildOf(r, c)'
                        \/ \E g \in Flushers \ {f} : HandedBack(r, g)'
    BY <1>5, <1>5a DEF Present, Here
  <2>4. r \in came => ~Present(r)
    BY <2>1 DEF HeldRecords
  <2>5. r \in HeldRecords' <=> (r \in HeldRecords \/ r \in came) /\ r \notin gone
    BY DEF HeldRecords
  <2>6. r \in HeldRecords' <=> Present(r)'
    <3>1. CASE r \in gone
      <4>1. Here(r, f, b) /\ ~Here(r, f, b)' /\ r \notin HeldRecords'
        BY <2>5, <3>1
      <4>2. /\ \A c \in BuildIds \ {b} : ~InBuildOf(r, c)
            /\ \A g \in Flushers \ {f} : ~HandedBack(r, g)
        BY <1>5, <1>5a, <2>1, <4>1 DEF Here
      <4> QED  BY <1>3, <1>4, <2>3, <4>1, <4>2
    <3>2. CASE r \notin gone
      <4>1. Here(r, f, b)' <=> Here(r, f, b) \/ r \in came
        BY <3>2
      <4> QED  BY <1>3, <1>4, <2>1, <2>2, <2>3, <2>5, <3>2, <4>1
    <3> QED  BY <3>1, <3>2
  <2>7. Here(r, f, b)' => /\ \A c \in BuildIds \ {b} : ~InBuildOf(r, c)
                          /\ \A g \in Flushers \ {f} : ~HandedBack(r, g)
    <3>1. CASE Here(r, f, b)
      BY <1>5, <1>5a, <2>1, <3>1 DEF Here
    <3>2. CASE r \in came
      BY <2>2, <2>4, <3>2
    <3> QED  BY <3>1, <3>2
  <2>8. ASSUME NEW c \in BuildIds, InBuildOf(r, c)'
        PROVE  ~OnLine(r)' /\ \A d \in BuildIds \ {c} : ~InBuildOf(r, d)'
    <3>1. CASE c = b
      BY <1>3, <1>5, <2>7, <2>8, <3>1 DEF Here
    <3>2. CASE c # b
      <4>1. InBuildOf(r, c) /\ ~Here(r, f, b)'
        BY <1>3, <2>7, <2>8, <3>2
      <4> QED  BY <1>3, <1>5, <2>1, <3>2, <4>1 DEF Here
    <3> QED  BY <3>1, <3>2
  <2>9. ASSUME NEW g \in Flushers, HandedBack(r, g)'
        PROVE  /\ ~OnLine(r)' /\ \A c \in BuildIds : ~InBuildOf(r, c)'
               /\ \A h \in Flushers \ {g} : ~HandedBack(r, h)'
    <3>1. CASE g = f
      BY <1>3, <1>4, <1>5, <2>7, <2>9, <3>1 DEF Here
    <3>2. CASE g # f
      <4>1. HandedBack(r, g) /\ ~Here(r, f, b)'
        BY <1>4, <2>7, <2>9, <3>2
      <4> QED  BY <1>3, <1>4, <1>5, <2>1, <3>2, <4>1 DEF Here
    <3> QED  BY <3>1, <3>2
  <2> QED  BY <2>6, <2>8, <2>9
<1>7. IsInjective(Line')
  OBVIOUS
<1> QED  BY <1>1, <1>2, <1>6, <1>7 DEF EachRecordInOnePlace

\* The same where no record enters.
LEMMA PlacesShifted ==
    ASSUME EachRecordInOnePlace, NEW f \in Flushers, NEW b, NEW gone,
           IsInjective(Line'), IsInjective(back'[f]), b \in BuildIds => IsInjective(Unfinished(builds'[b])),
           \A c \in BuildIds : c # b => Unfinished(builds'[c]) = Unfinished(builds[c]),
           \A g \in Flushers : g # f => back'[g] = back[g],
           \A r \in Records : Here(r, f, b)' <=> Here(r, f, b) /\ r \notin gone,
           \A r \in Records : /\ ~(OnLine(r)' /\ r \in OfBuild(b)')
                              /\ ~(OnLine(r)' /\ HandedBack(r, f)')
                              /\ ~(r \in OfBuild(b)' /\ HandedBack(r, f)'),
           \A r \in gone : r \in Records => Here(r, f, b),
           \A r \in Records : kind'[r] # "none" <=> kind[r] # "none",
           \A r \in Records : r \in gone => fate'[r] # "none",
           \A r \in Records : r \notin gone => fate'[r] = fate[r],
           \A r \in Records : fate'[r] # "none" /\ kind'[r] = "overflow" => r \in settled'
    PROVE  EachRecordInOnePlace'
<1> DEFINE came == {}
<1>1. \A x : x \notin came
  OBVIOUS
<1> HIDE DEF came
<1>2. \A r \in Records : Here(r, f, b)' <=> (Here(r, f, b) \/ r \in came) /\ r \notin gone
  BY <1>1
<1>3. \A r \in came : r \in Records => kind[r] = "none" /\ fate[r] = "none"
  BY <1>1
<1>4. \A r \in Records : kind'[r] # "none" <=> kind[r] # "none" \/ r \in came
  BY <1>1
<1> QED  BY <1>2, <1>3, <1>4, PlacesMoved

\* A step that moves no record from one place to another.
LEMMA PlacesKept ==
    ASSUME EachRecordInOnePlace, UNCHANGED <<kind, fate>>, settled \subseteq settled',
           IsInjective(Line'), \A r : OnLine(r)' <=> OnLine(r),
           \A c \in BuildIds : Unfinished(builds'[c]) = Unfinished(builds[c]),
           UNCHANGED back
    PROVE  EachRecordInOnePlace'
<1>1. FlushThread \in Flushers /\ \A g \in Flushers : IsInjective(back'[g])
  BY DEF Flushers, EachRecordInOnePlace
<1>2. \A c \in BuildIds : IsInjective(Unfinished(builds'[c]))
  BY DEF EachRecordInOnePlace
<1>3. \A r : \A c \in BuildIds : InBuildOf(r, c)' <=> InBuildOf(r, c)
  BY DEF InBuildOf
<1>4. \A r : \A g \in Flushers : HandedBack(r, g)' <=> HandedBack(r, g)
  BY DEF HandedBack
<1>5. \A r : Present(r)' <=> Present(r)
  BY <1>3, <1>4 DEF Present
<1>6. HeldRecords' = HeldRecords
  BY DEF HeldRecords
<1>7. IsInjective(Line')
  OBVIOUS
<1>8. ASSUME NEW r \in Records
      PROVE  /\ r \in HeldRecords' <=> Present(r)'
             /\ \A c \in BuildIds : InBuildOf(r, c)' => ~OnLine(r)' /\ \A d \in BuildIds \ {c} : ~InBuildOf(r, d)'
             /\ \A g \in Flushers : HandedBack(r, g)' =>
                    /\ ~OnLine(r)' /\ \A c \in BuildIds : ~InBuildOf(r, c)'
                    /\ \A h \in Flushers \ {g} : ~HandedBack(r, h)'
             /\ fate'[r] # "none" /\ kind'[r] = "overflow" => r \in settled'
  <2>1. /\ r \in HeldRecords <=> Present(r)
        /\ \A c \in BuildIds : InBuildOf(r, c) => ~OnLine(r) /\ \A d \in BuildIds \ {c} : ~InBuildOf(r, d)
        /\ \A g \in Flushers : HandedBack(r, g) =>
               /\ ~OnLine(r) /\ \A c \in BuildIds : ~InBuildOf(r, c)
               /\ \A h \in Flushers \ {g} : ~HandedBack(r, h)
        /\ fate[r] # "none" /\ kind[r] = "overflow" => r \in settled
    BY DEF EachRecordInOnePlace
  <2>2. fate'[r] = fate[r] /\ kind'[r] = kind[r] /\ (r \in settled => r \in settled')
    OBVIOUS
  <2> QED  BY <1>3, <1>4, <1>5, <1>6, <2>1, <2>2
<1> QED  BY <1>1, <1>2, <1>7, <1>8 DEF EachRecordInOnePlace

\* Records leave, and the tasks among them are settled.
LEMMA LeaveFacts ==
    ASSUME TypeOK, EachRecordInOnePlace, NEW how, Leave(how),
           \A r \in Records : r \in DOMAIN how => how[r] # "none",
           \A r \in Records : kind'[r] = kind[r] \/ (fate[r] = "none" /\ r \notin DOMAIN how)
    PROVE  /\ \A r \in Records : r \in DOMAIN how => fate'[r] = how[r] /\ fate'[r] # "none"
           /\ \A r \in Records : r \notin DOMAIN how => fate'[r] = fate[r]
           /\ \A r \in Records : fate'[r] # "none" /\ kind'[r] = "overflow" => r \in settled'
<1>1. /\ fate' = [r \in Records |-> IF r \in DOMAIN how THEN how[r] ELSE fate[r]]
      /\ settled' = settled \cup {r \in DOMAIN how : kind[r] = "overflow"}
  BY DEF Leave
<1>2. \A r \in Records : fate[r] # "none" /\ kind[r] = "overflow" => r \in settled
  BY DEF EachRecordInOnePlace
<1> QED  BY <1>1, <1>2

\* Records of one endpoint keep their order in a step.
OrderKept == \A r, s \in Records : Ahead(r, s) => ~Ahead(s, r)'

LEMMA LineIsSeq ==
    ASSUME TypeOK
    PROVE  Line \in Seq(Records) /\ batch \in Seq(Records) /\ parked \in Seq(Records) /\ events \in Seq(Records)
<1>1. batch \in Seq(Records) /\ parked \in Seq(Records) /\ events \in Seq(Records)
  BY TypeParts DEF QueueTypes
<1> QED  BY <1>1, ThreeFacts DEF Line, Queue

LEMMA OrderFollows ==
    ASSUME TypeOK, IsInjective(Line),
           \A r, s \in Records : Ahead(r, s) /\ Ahead(s, r)' => Before(Line, s, r)
    PROVE  OrderKept
<1>1. \A r, s \in Records : Ahead(r, s) => Before(Line, r, s)
  BY DEF Ahead
<1> QED  BY <1>1, LineIsSeq, OneOrder DEF OrderKept

\* A step that leaves the line, the hand-backs and what the builds have to do alone.
LEMMA QuietStep ==
    ASSUME TypeOK, KindsFit, EachRecordInOnePlace,
           UNCHANGED <<kind, fate, batch, parked, events, back>>, settled \subseteq settled',
           \A c \in BuildIds : Unfinished(builds'[c]) = Unfinished(builds[c])
    PROVE  EachRecordInOnePlace' /\ KindsFit' /\ OrderKept
<1>1. Line' = Line
  BY DEF Line, Queue
<1>2. EachRecordInOnePlace'
  <2>1. IsInjective(Line') /\ \A r : OnLine(r)' <=> OnLine(r)
    BY <1>1 DEF EachRecordInOnePlace, OnLine
  <2> QED  BY <2>1, PlacesKept
<1>3. KindsFit'
  <2>1. \A r : \A c \in BuildIds : InBuildOf(r, c)' <=> InBuildOf(r, c)
    BY DEF InBuildOf
  <2>2. \A r : \A g \in Flushers : HandedBack(r, g)' <=> HandedBack(r, g)
    BY DEF HandedBack
  <2> QED  BY <2>1, <2>2 DEF KindsFit
<1>4. OrderKept
  <2>1. \A r, s \in Records : Ahead(s, r)' => Before(Line, s, r)
    BY <1>1 DEF Ahead
  <2>2. IsInjective(Line)
    BY DEF EachRecordInOnePlace
  <2> QED  BY <2>1, <2>2, OrderFollows
<1> QED  BY <1>2, <1>3, <1>4

LEMMA SameWork ==
    ASSUME NEW b \in BuildIds, NEW build, Became(b, build), Unfinished(build) = Unfinished(builds[b])
    PROVE  \A c \in BuildIds : Unfinished(builds'[c]) = Unfinished(builds[c])
BY DEF Became

LEMMA QuietSteps ==
    ASSUME TypeOK, Control, KindsFit, EachRecordInOnePlace, NEW f \in Flushers,
           \/ CheckGoesOn(f) \/ SkipLock(f) \/ CountUndelivered(f) \/ CountInBuild(f) \/ SetShutdown(f)
           \/ Deadline(f) \/ Traffic \/ \E r \in Records : GrowOld(r)
    PROVE  EachRecordInOnePlace' /\ KindsFit' /\ OrderKept
<1> USE DEF recordVars, queueVars, replayVars, buildVars, envVars, askVars, flushVars
<1>1. UNCHANGED <<kind, fate, batch, parked, events, back, builds>> /\ settled' = settled
  BY DEF CheckGoesOn, SkipLock, CountUndelivered, CountInBuild, SetShutdown, Deadline, Traffic, GrowOld
<1> QED  BY <1>1, QuietStep

LEMMA HandToThreadKeeps ==
    ASSUME TypeOK, Control, KindsFit, EachRecordInOnePlace, NEW f \in Flushers, HandToThread(f)
    PROVE  EachRecordInOnePlace' /\ KindsFit' /\ OrderKept
<1>1. UNCHANGED <<kind, fate, batch, parked, events, back>> /\ settled' = settled
  BY DEF HandToThread, recordVars, queueVars, replayVars
<1>2. mine[f] \in BuildIds /\ builds[mine[f]] \in BuildType
  BY HandToThreadEffect, OwnBuild, BuildFacts DEF Owning
<1>3. PICK how \in {"own", "queued"} : Became(mine[f], [builds[mine[f]] EXCEPT !.mode = how])
  BY HandToThreadEffect
<1>4. Unfinished([builds[mine[f]] EXCEPT !.mode = how]) = Unfinished(builds[mine[f]])
  BY <1>2 DEF Unfinished, BuildType
<1> QED  BY <1>1, <1>2, <1>3, <1>4, SameWork, QuietStep

LEMMA TakeLockKeeps ==
    ASSUME TypeOK, Control, KindsFit, EachRecordInOnePlace, NEW f \in Flushers, TakeLock(f)
    PROVE  EachRecordInOnePlace' /\ KindsFit' /\ OrderKept
<1>1. UNCHANGED <<kind, fate, batch, parked, events, back>> /\ settled' = settled
  BY DEF TakeLock, recordVars, queueVars
<1>2. NewBuild \in BuildIds /\ builds[NewBuild] = NoBuild
  BY TakeLockEffect, BuildFacts
<1>3. Became(NewBuild, [NoBuild EXCEPT !.tasks = <<>>, !.mode = "held"])
  BY TakeLockEffect
<1>4. Unfinished([NoBuild EXCEPT !.tasks = <<>>, !.mode = "held"]) = Unfinished(NoBuild)
  BY DEF Unfinished, NoBuild
<1> QED  BY <1>1, <1>2, <1>3, <1>4, SameWork, QuietStep

LEMMA ForgetEmptyKeeps ==
    ASSUME TypeOK, Control, KindsFit, EachRecordInOnePlace, NEW f \in Flushers, ForgetEmpty(f)
    PROVE  EachRecordInOnePlace' /\ KindsFit' /\ OrderKept
<1>1. UNCHANGED <<kind, fate, batch, parked, events, back>> /\ settled' = settled
  BY DEF ForgetEmpty, recordVars, queueVars, replayVars
<1>2. /\ mine[f] \in BuildIds /\ builds[mine[f]].current = <<>> /\ builds[mine[f]].tasks = <<>>
      /\ Became(mine[f], NoBuild)
  BY ForgetEmptyEffect, OwnBuild DEF Owning
<1>3. Unfinished(NoBuild) = Unfinished(builds[mine[f]])
  BY <1>2 DEF Unfinished, NoBuild
<1> QED  BY <1>1, <1>2, <1>3, SameWork, QuietStep

LEMMA EndRunKeeps ==
    ASSUME TypeOK, Control, KindsFit, EachRecordInOnePlace, NEW b \in BuildIds, EndRun(b)
    PROVE  EachRecordInOnePlace' /\ KindsFit' /\ OrderKept
<1>1. UNCHANGED <<kind, fate, batch, parked, events, back>> /\ settled' = settled
  BY DEF EndRun, recordVars, queueVars, replayVars
<1>2. builds[b] \in BuildType /\ builds[b].current = <<>>
  BY EndRunEffect, BuildFacts
<1>3. CASE builds[b].tasks = <<>> /\ Became(b, NoBuild)
  <2>1. Unfinished(NoBuild) = Unfinished(builds[b])
    BY <1>2, <1>3 DEF Unfinished, NoBuild
  <2> QED  BY <1>1, <1>3, <2>1, SameWork, QuietStep
<1>4. CASE Became(b, [builds[b] EXCEPT !.mode = "over"])
  <2>1. Unfinished([builds[b] EXCEPT !.mode = "over"]) = Unfinished(builds[b])
    BY <1>2 DEF Unfinished, BuildType
  <2> QED  BY <1>1, <1>4, <2>1, SameWork, QuietStep
<1> QED  BY <1>3, <1>4, EndRunEffect

LEMMA EndTaskKeeps ==
    ASSUME TypeOK, Control, KindsFit, EachRecordInOnePlace, NEW b \in BuildIds, EndTask(b)
    PROVE  EachRecordInOnePlace' /\ KindsFit' /\ OrderKept
<1>1. UNCHANGED <<kind, fate, batch, parked, events, back>> /\ settled \subseteq settled'
  BY DEF EndTask, queueVars, replayVars, flushVars
<1>2. builds[b] \in BuildType /\ builds[b].built
  BY BuildFacts DEF EndTask
<1>3. Became(b, [builds[b] EXCEPT !.built = FALSE, !.current = <<>>])
  BY RunEffects
<1>4. Unfinished([builds[b] EXCEPT !.built = FALSE, !.current = <<>>]) = Unfinished(builds[b])
  BY <1>2 DEF Unfinished, BuildType
<1> QED  BY <1>1, <1>3, <1>4, SameWork, QuietStep

LEMMA StartTaskKeeps ==
    ASSUME TypeOK, Control, KindsFit, EachRecordInOnePlace, NEW b \in BuildIds, StartTask(b)
    PROVE  EachRecordInOnePlace' /\ KindsFit' /\ OrderKept
<1>1. UNCHANGED <<kind, fate, batch, parked, events, back>> /\ settled' = settled
  BY DEF StartTask, recordVars, queueVars, replayVars, flushVars
<1> DEFINE build == [builds[b] EXCEPT !.current = <<Head(builds[b].tasks)>>, !.tasks = Tail(builds[b].tasks)]
<1>2. /\ builds[b] \in BuildType /\ builds[b].current = <<>> /\ builds[b].built = FALSE
      /\ builds[b].tasks \in Seq(Records) /\ builds[b].tasks # <<>>
  BY BuildFacts, RunEffects DEF Control, BuildsFit, BuildType
<1>3. Became(b, build)
  BY RunEffects
<1>4. build.current = <<Head(builds[b].tasks)>> /\ build.tasks = Tail(builds[b].tasks) /\ build.built = FALSE
  BY <1>2 DEF BuildType
<1>5. Unfinished(build) = Unfinished(builds[b])
  <2> HIDE DEF build
  <2>1. Unfinished(build) = <<Head(builds[b].tasks)>> \o Tail(builds[b].tasks)
    BY <1>4 DEF Unfinished
  <2>2. Unfinished(builds[b]) = <<>> \o builds[b].tasks
    BY <1>2 DEF Unfinished
  <2>3. <<>> \o builds[b].tasks = builds[b].tasks
    BY <1>2, ConcatEmptySeq
  <2> QED  BY <1>2, <2>1, <2>2, <2>3, HeadTailFacts
<1> HIDE DEF build
<1> QED  BY <1>1, <1>3, <1>5, SameWork, QuietStep

LEMMA UnparkKeeps ==
    ASSUME TypeOK, Control, KindsFit, EachRecordInOnePlace, NEW f \in Flushers, Unpark(f)
    PROVE  EachRecordInOnePlace' /\ KindsFit' /\ OrderKept
<1>1. /\ UNCHANGED <<kind, fate, batch, back, builds, settled>>
      /\ events' = parked \o events /\ parked' = <<>>
  BY DEF Unpark, Unparked, recordVars, buildVars
<1>2. Line' = Line
  <2>1. <<>> \o (parked \o events) = parked \o events
    <3> DEFINE q == parked \o events
    <3>1. q \in Seq(Records)
      BY LineIsSeq
    <3> HIDE DEF q
    <3>2. <<>> \o q = q
      BY <3>1, ConcatEmptySeq
    <3> QED  BY <3>2 DEF q
  <2> QED  BY <1>1, <2>1 DEF Line, Queue
<1>3. EachRecordInOnePlace'
  <2>1. IsInjective(Line') /\ \A r : OnLine(r)' <=> OnLine(r)
    BY <1>2 DEF EachRecordInOnePlace, OnLine
  <2> QED  BY <1>1, <2>1, PlacesKept
<1>4. KindsFit'
  BY <1>1, NoElement DEF KindsFit, InBuildOf, HandedBack
<1>5. OrderKept
  <2>1. \A r, s \in Records : Ahead(s, r)' => Before(Line, s, r)
    BY <1>2 DEF Ahead
  <2> QED  BY <2>1, OrderFollows DEF EachRecordInOnePlace
<1> QED  BY <1>3, <1>4, <1>5

\* Where a record of the line or of a build is not.
LEMMA ElsewhereNot ==
    ASSUME EachRecordInOnePlace, NEW r \in Records
    PROVE  /\ OnLine(r) => /\ r \in HeldRecords
                           /\ \A b \in BuildIds : ~InBuildOf(r, b)
                           /\ \A f \in Flushers : ~HandedBack(r, f)
           /\ \A b \in BuildIds : InBuildOf(r, b) => /\ r \in HeldRecords /\ ~OnLine(r)
                                                     /\ \A c \in BuildIds \ {b} : ~InBuildOf(r, c)
                                                     /\ \A f \in Flushers : ~HandedBack(r, f)
           /\ \A f \in Flushers : HandedBack(r, f) => /\ r \in HeldRecords /\ ~OnLine(r)
                                                      /\ \A b \in BuildIds : ~InBuildOf(r, b)
                                                      /\ \A g \in Flushers \ {f} : ~HandedBack(r, g)
           /\ r \notin HeldRecords => /\ ~OnLine(r)
                                      /\ \A b \in BuildIds : ~InBuildOf(r, b)
                                      /\ \A f \in Flushers : ~HandedBack(r, f)
<1>1. /\ r \in HeldRecords <=> Present(r)
      /\ \A b \in BuildIds : InBuildOf(r, b) => ~OnLine(r) /\ \A c \in BuildIds \ {b} : ~InBuildOf(r, c)
      /\ \A f \in Flushers : HandedBack(r, f) =>
             /\ ~OnLine(r) /\ \A b \in BuildIds : ~InBuildOf(r, b)
             /\ \A g \in Flushers \ {f} : ~HandedBack(r, g)
  BY DEF EachRecordInOnePlace
<1> QED  BY <1>1 DEF Present

LEMMA AppendLine ==
    ASSUME TypeOK, EachRecordInOnePlace, NEW r \in Records, NEW k, NEW counted, AppendEvent(r, k, counted),
           UNCHANGED batch, ~OnLine(r), fate[r] = "none",
           NEW gone, gone = Evicted(parked, Append(events, r), MaxSize)
    PROVE  /\ gone \subseteq Records /\ r \notin gone
           /\ IsInjective(Line') /\ \A x : OnLine(x)' <=> (OnLine(x) \/ x = r) /\ x \notin gone
           /\ \A x \in gone : OnLine(x)
           /\ \A x : x \in Range(parked') => x \in Range(parked)
           /\ \A x, y : Before(Line', x, y) => Before(Line, x, y) \/ y = r
           /\ kind' = [kind EXCEPT ![r] = k]
           /\ \A x \in Records : x \in gone => fate'[x] = "evicted"
           /\ \A x \in Records : x \notin gone => fate'[x] = fate[x]
           /\ \A x \in Records : fate'[x] # "none" /\ kind'[x] = "overflow" => x \in settled'
<1> DEFINE t == Append(events, r)
<1>1. t \in Seq(Records) /\ batch \in Seq(Records) /\ parked \in Seq(Records) /\ events \in Seq(Records)
  BY LineIsSeq, BeforeAppend
<1>2. /\ kind' = [kind EXCEPT ![r] = k] /\ HoldAtMost(parked, t, MaxSize) /\ Leave(All(gone, "evicted"))
  BY DEF AppendEvent
<1>3. r \notin Range(batch \o (parked \o events)) /\ IsInjective(batch \o (parked \o events))
  BY DEF OnLine, Line, Queue, EachRecordInOnePlace
<1>4. /\ IsInjective(batch \o (parked \o t))
      /\ \A x : x \in Range(batch \o (parked \o t)) <=> OnLine(x) \/ x = r
      /\ \A x, y : Before(batch \o (parked \o t), x, y) => Before(Line, x, y) \/ y = r
  BY <1>1, <1>3, JoinsTheEnd DEF OnLine, Line, Queue
<1>4a. r \in Range(EventsLeft(parked, t, MaxSize))
  BY <1>1, MaxSizeIsNat, LastStays
<1> HIDE DEF t
<1>5. Line' = batch \o (ParkedLeft(parked, t, MaxSize) \o EventsLeft(parked, t, MaxSize))
  BY <1>2 DEF Line, Queue, HoldAtMost, ParkedLeft, EventsLeft
<1>6. gone = Evicted(parked, t, MaxSize)
  BY DEF t
<1>7. /\ IsInjective(Line')
      /\ \A x : x \in Range(batch \o (parked \o t)) <=> x \in gone \/ x \in Range(Line')
      /\ \A x : ~(x \in gone /\ x \in Range(Line'))
      /\ \A x, y : Before(Line', x, y) => Before(batch \o (parked \o t), x, y)
  <2> DEFINE left == batch \o (ParkedLeft(parked, t, MaxSize) \o EventsLeft(parked, t, MaxSize))
             all == batch \o (parked \o t)
             out == Evicted(parked, t, MaxSize)
  <2>1. IsInjective(all) /\ MaxSize \in Nat
    BY <1>4, MaxSizeIsNat
  <2>2. /\ IsInjective(left)
        /\ \A x : x \in Range(all) <=> x \in out \/ x \in Range(left)
        /\ \A x : ~(x \in out /\ x \in Range(left))
        /\ \A x, y : Before(left, x, y) => Before(all, x, y)
    BY <1>1, <2>1, RoomOnLine
  <2>3. left = Line' /\ out = gone
    BY <1>5, <1>6
  <2> QED  BY <2>2, <2>3
<1>8. r \in Range(Line')
  <2> DEFINE p == ParkedLeft(parked, t, MaxSize)
             e == EventsLeft(parked, t, MaxSize)
  <2>1. p \in Seq(Records) /\ e \in Seq(Records) /\ r \in Range(e) /\ Line' = batch \o (p \o e)
    BY <1>1, <1>4a, <1>5, MaxSizeIsNat, RoomIsMade
  <2> HIDE DEF p, e
  <2> QED  BY <1>1, <2>1, ThreeFacts
<1>9. \A x : OnLine(x)' <=> (OnLine(x) \/ x = r) /\ x \notin gone
  BY <1>4, <1>7 DEF OnLine
<1>10. r \notin gone /\ \A x \in gone : OnLine(x)
  BY <1>4, <1>7, <1>8
<1>11. \A x : x \in Range(parked') => x \in Range(parked)
  <2>1. parked' = ParkedLeft(parked, t, MaxSize)
    BY <1>2 DEF HoldAtMost, ParkedLeft
  <2> QED  BY <1>1, <2>1, MaxSizeIsNat, RoomAddsNothing
<1>12. gone \subseteq Records
  BY <1>1, <1>6, MaxSizeIsNat, RoomIsMade
<1>13. /\ \A x \in Records : x \in gone => fate'[x] = "evicted"
       /\ \A x \in Records : x \notin gone => fate'[x] = fate[x]
       /\ \A x \in Records : fate'[x] # "none" /\ kind'[x] = "overflow" => x \in settled'
  <2> DEFINE how == All(gone, "evicted")
  <2>1. DOMAIN how = gone /\ \A x \in gone : how[x] = "evicted"
    BY DEF All
  <2>2. Leave(how)
    BY <1>2
  <2> HIDE DEF how
  <2>3. \A x \in Records : kind'[x] = kind[x] \/ (fate[x] = "none" /\ x \notin DOMAIN how)
    BY <1>2, <1>10, <2>1, TypeParts DEF RecordTypes
  <2> QED  BY <2>1, <2>2, <2>3, LeaveFacts
<1> QED  BY <1>2, <1>4, <1>7, <1>9, <1>10, <1>11, <1>12, <1>13

\* The kinds fit again where every new place of a record suits its kind.
LEMMA KindsFollow ==
    ASSUME KindsFit,
           \A r \in Records : \A b \in BuildIds : InBuildOf(r, b)' => kind'[r] = "overflow",
           \A r \in Records : \A f \in Flushers : HandedBack(r, f)' => kind'[r] = "overflow",
           \A r \in Records : r \in Range(batch') \/ r \in Range(parked') => kind'[r] \in {"ai", "tool"},
           \A r \in Records : kind'[r] = "none" => fate'[r] = "none"
    PROVE  KindsFit'
BY DEF KindsFit

LEMMA EnterKeeps ==
    ASSUME TypeOK, KindsFit, EachRecordInOnePlace, NEW r \in Records, NEW k \in {"ai", "tool", "overflow"},
           AppendEvent(r, k, FALSE), kind[r] = "none", UNCHANGED <<batch, builds, back>>
    PROVE  EachRecordInOnePlace' /\ KindsFit' /\ OrderKept
<1> DEFINE gone == Evicted(parked, Append(events, r), MaxSize)
<1>1. /\ r \notin HeldRecords /\ fate[r] = "none" /\ ~OnLine(r)
      /\ \A b \in BuildIds : ~InBuildOf(r, b)
      /\ \A f \in Flushers : ~HandedBack(r, f)
  BY ElsewhereNot DEF HeldRecords, KindsFit
<1>2. /\ gone \subseteq Records /\ r \notin gone
      /\ IsInjective(Line') /\ \A x : OnLine(x)' <=> (OnLine(x) \/ x = r) /\ x \notin gone
      /\ \A x \in gone : OnLine(x)
      /\ \A x : x \in Range(parked') => x \in Range(parked)
      /\ \A x, y : Before(Line', x, y) => Before(Line, x, y) \/ y = r
      /\ kind' = [kind EXCEPT ![r] = k]
      /\ \A x \in Records : x \in gone => fate'[x] = "evicted"
      /\ \A x \in Records : x \notin gone => fate'[x] = fate[x]
      /\ \A x \in Records : fate'[x] # "none" /\ kind'[x] = "overflow" => x \in settled'
  BY <1>1, AppendLine
<1> HIDE DEF gone
<1>3. \A x \in Records : kind'[x] = IF x = r THEN k ELSE kind[x]
  BY <1>2, TypeParts DEF RecordTypes
<1>4. /\ \A x : \A b \in BuildIds : InBuildOf(x, b)' <=> InBuildOf(x, b)
      /\ \A x : \A f \in Flushers : HandedBack(x, f)' <=> HandedBack(x, f)
  BY DEF InBuildOf, HandedBack
<1>5. EachRecordInOnePlace'
  <2> DEFINE f == FlushThread
  <2>1. f \in Flushers /\ 0 \notin BuildIds /\ \A x : x \notin OfBuild(0) /\ ~(x \in OfBuild(0)')
    <3>1. 0 \notin BuildIds
      BY BufferAssumption DEF BuildIds
    <3> QED  BY <3>1 DEF Flushers, OfBuild
  <2> HIDE DEF f
  <2>2. \A x \in Records : ~(OnLine(x) /\ HandedBack(x, f))
    BY <2>1, ElsewhereNot
  <2>3. \A x : Here(x, f, 0)' <=> OnLine(x)' \/ HandedBack(x, f)
    BY <1>4, <2>1 DEF Here
  <2>4. \A x : Here(x, f, 0) <=> OnLine(x) \/ HandedBack(x, f)
    BY <2>1 DEF Here
  <2>5. \A x \in Records : x \in gone => ~HandedBack(x, f)
    BY <1>2, <2>2
  <2>6. IsInjective(back'[f])
    BY <2>1 DEF EachRecordInOnePlace
  <2>7. \A x \in Records : Here(x, f, 0)' <=> (Here(x, f, 0) \/ x \in {r}) /\ x \notin gone
    BY <1>2, <2>3, <2>4, <2>5
  <2>8. \A x \in Records : /\ ~(OnLine(x)' /\ x \in OfBuild(0)')
                           /\ ~(OnLine(x)' /\ HandedBack(x, f)')
                           /\ ~(x \in OfBuild(0)' /\ HandedBack(x, f)')
    BY <1>1, <1>2, <1>4, <2>1, <2>2
  <2>9. \A x \in gone : x \in Records => Here(x, f, 0)
    BY <1>2, <2>4
  <2>10. \A x \in Records : kind'[x] # "none" <=> kind[x] # "none" \/ x \in {r}
    BY <1>3
  <2>11. /\ 0 \in BuildIds => IsInjective(Unfinished(builds'[0]))
         /\ \A c \in BuildIds : c # 0 => Unfinished(builds'[c]) = Unfinished(builds[c])
         /\ \A g \in Flushers : g # f => back'[g] = back[g]
    BY <2>1
  <2>12. /\ \A x \in {r} : x \in Records => kind[x] = "none" /\ fate[x] = "none"
         /\ \A x \in Records : x \in gone => fate'[x] # "none"
    BY <1>1, <1>2
  <2>13. /\ \A x \in Records : x \notin gone => fate'[x] = fate[x]
         /\ \A x \in Records : fate'[x] # "none" /\ kind'[x] = "overflow" => x \in settled'
         /\ IsInjective(Line')
    BY <1>2
  <2> DEFINE came == {r}
  <2> HIDE DEF came
  <2>14. /\ \A x \in Records : Here(x, f, 0)' <=> (Here(x, f, 0) \/ x \in came) /\ x \notin gone
         /\ \A x \in came : x \in Records => kind[x] = "none" /\ fate[x] = "none"
         /\ \A x \in Records : kind'[x] # "none" <=> kind[x] # "none" \/ x \in came
    BY <2>7, <2>10, <2>12 DEF came
  <2> QED  BY <2>1, <2>6, <2>8, <2>9, <2>11, <2>12, <2>13, <2>14, PlacesMoved
<1>6. KindsFit'
  <2>1. \A x \in Records : \A b \in BuildIds : InBuildOf(x, b)' => kind'[x] = "overflow"
    BY <1>1, <1>3, <1>4 DEF KindsFit
  <2>2. \A x \in Records : \A f \in Flushers : HandedBack(x, f)' => kind'[x] = "overflow"
    BY <1>1, <1>3, <1>4 DEF KindsFit
  <2>3. ASSUME NEW x \in Records, x \in Range(batch') \/ x \in Range(parked') PROVE kind'[x] \in {"ai", "tool"}
    <3>1. x \in Range(batch) \/ x \in Range(parked)
      BY <1>2, <2>3
    <3>2. x # r
      <4>1. \A y : y \in Range(Line) <=> y \in Range(batch) \/ y \in Range(parked) \/ y \in Range(events)
        BY LineIsSeq, ThreeFacts DEF Line, Queue
      <4> QED  BY <1>1, <3>1, <4>1 DEF OnLine
    <3> QED  BY <1>3, <3>1, <3>2 DEF KindsFit
  <2>4. ASSUME NEW x \in Records, kind'[x] = "none" PROVE fate'[x] = "none"
    <3>1. x # r /\ kind[x] = "none"
      BY <1>3, <2>4
    <3>2. x \notin gone
      BY <1>2, <3>1, ElsewhereNot DEF HeldRecords
    <3> QED  BY <1>2, <3>1, <3>2 DEF KindsFit
  <2> QED  BY <2>1, <2>2, <2>3, <2>4, KindsFollow
<1>7. OrderKept
  <2>1. ASSUME NEW x \in Records, NEW y \in Records, Ahead(x, y), Ahead(y, x)' PROVE Before(Line, y, x)
    <3>1. OnLine(x)
      BY <2>1, LineIsSeq, BeforeFacts DEF Ahead, OnLine
    <3> QED  BY <1>1, <1>2, <2>1, <3>1 DEF Ahead
  <2> QED  BY <2>1, OrderFollows DEF EachRecordInOnePlace
<1> QED  BY <1>5, <1>6, <1>7

LEMMA PushKeeps ==
    ASSUME TypeOK, KindsFit, EachRecordInOnePlace, NEW r \in Records, Push(r)
    PROVE  EachRecordInOnePlace' /\ KindsFit' /\ OrderKept
<1>1. kind[r] = "none" /\ AppendEvent(r, Endpoint[r], FALSE) /\ Endpoint[r] \in {"ai", "tool", "overflow"}
  BY BufferAssumption DEF Push
<1>2. UNCHANGED <<batch, builds, back>>
  BY DEF Push, replayVars, buildVars, flushVars
<1> QED  BY <1>1, <1>2, EnterKeeps

LEMMA PushOverflowKeeps ==
    ASSUME TypeOK, KindsFit, EachRecordInOnePlace, NEW r \in Records, PushOverflow(r)
    PROVE  EachRecordInOnePlace' /\ KindsFit' /\ OrderKept
<1>1. kind[r] = "none" /\ AppendEvent(r, "overflow", FALSE)
  BY DEF PushOverflow
<1>2. UNCHANGED <<batch, builds, back>>
  BY DEF PushOverflow, replayVars, flushVars
<1> QED  BY <1>1, <1>2, EnterKeeps

\* Where a step touches the line, one build and one hand-back, a record is in one of them at most.
LEMMA HereOnce ==
    ASSUME EachRecordInOnePlace, NEW f \in Flushers, NEW b, NEW r \in Records
    PROVE  /\ ~(OnLine(r) /\ r \in OfBuild(b)) /\ ~(OnLine(r) /\ HandedBack(r, f))
           /\ ~(r \in OfBuild(b) /\ HandedBack(r, f))
           /\ Here(r, f, b) => kind[r] # "none" /\ fate[r] = "none"
<1>1. r \in OfBuild(b) => b \in BuildIds /\ InBuildOf(r, b)
  BY DEF OfBuild, InBuildOf
<1>2. Here(r, f, b) => r \in HeldRecords
  BY <1>1, ElsewhereNot DEF Here
<1> QED  BY <1>1, <1>2, ElsewhereNot DEF HeldRecords

\* One build changes.
LEMMA OneBuild ==
    ASSUME NEW b \in BuildIds, NEW build, Became(b, build)
    PROVE  /\ \A c \in BuildIds : c # b => Unfinished(builds'[c]) = Unfinished(builds[c])
           /\ Unfinished(builds'[b]) = Unfinished(build)
           /\ \A x : x \in OfBuild(b)' <=> x \in Range(Unfinished(build))
           /\ \A x : x \in OfBuild(b) <=> x \in Range(Unfinished(builds[b]))
           /\ \A c \in BuildIds : c # b => \A x : InBuildOf(x, c)' <=> InBuildOf(x, c)
           /\ \A x : InBuildOf(x, b)' <=> x \in Range(Unfinished(build))
<1>1. builds'[b] = build /\ \A c \in BuildIds : c # b => builds'[c] = builds[c]
  BY DEF Became
<1> QED  BY <1>1 DEF OfBuild, InBuildOf

LEMMA OnLineFacts ==
    ASSUME TypeOK
    PROVE  /\ \A x : OnLine(x) <=> x \in Range(batch) \/ x \in Range(parked) \/ x \in Range(events)
           /\ \A x : OnLine(x) => x \in Records
           /\ \A x, y : Before(Line, x, y) => OnLine(x) /\ OnLine(y)
<1>1. \A y : y \in Range(Line) <=> y \in Range(batch) \/ y \in Range(parked) \/ y \in Range(events)
  BY LineIsSeq, ThreeFacts DEF Line, Queue
<1>2. \A x : OnLine(x) => x \in Records
  BY LineIsSeq, RangeFacts DEF OnLine
<1>3. \A x, y : Before(Line, x, y) => OnLine(x) /\ OnLine(y)
  BY LineIsSeq, BeforeFacts DEF OnLine
<1> QED  BY <1>1, <1>2, <1>3 DEF OnLine

\* The task that a build is at.
LEMMA CurrentFacts ==
    ASSUME TypeOK, Control, EachRecordInOnePlace, NEW b \in BuildIds, builds[b].current # <<>>, ~builds[b].built
    PROVE  LET r == Head(builds[b].current)
           IN  /\ r \in Records /\ builds[b].current = <<r>> /\ builds[b].tasks \in Seq(Records)
               /\ r \notin Range(builds[b].tasks) /\ IsInjective(builds[b].tasks)
               /\ \A x : InBuildOf(x, b) <=> x = r \/ x \in Range(builds[b].tasks)
<1> DEFINE r == Head(builds[b].current)
           one == <<r>>
           rest == builds[b].tasks
<1>1. builds[b].current \in Seq(Records) /\ rest \in Seq(Records) /\ Len(builds[b].current) <= 1
  BY BuildFacts DEF Control, BuildsFit
<1>2. r \in Records /\ builds[b].current = one
  BY <1>1
<1>3. Unfinished(builds[b]) = one \o rest
  BY <1>2 DEF Unfinished
<1>4. one \in Seq(Records) /\ \A x : x \in Range(one) <=> x = r
  BY <1>2, OneElement
<1> HIDE DEF one, rest
<1>5. IsInjective(one \o rest)
  BY <1>3 DEF EachRecordInOnePlace
<1>6. IsInjective(rest) /\ r \notin Range(rest)
  BY <1>1, <1>4, <1>5, InjectiveConcat
<1>7. Range(one \o rest) = Range(one) \cup Range(rest)
  BY <1>1, <1>4, RangeConcatenation
<1>8. \A x : InBuildOf(x, b) <=> x = r \/ x \in Range(rest)
  BY <1>3, <1>4, <1>7 DEF InBuildOf
<1> QED  BY <1>1, <1>2, <1>6, <1>8 DEF one, rest

LEMMA BuildEventKeeps ==
    ASSUME TypeOK, Control, KindsFit, EachRecordInOnePlace, NEW b \in BuildIds, BuildEvent(b)
    PROVE  EachRecordInOnePlace' /\ KindsFit' /\ OrderKept
<1> DEFINE r == Head(builds[b].current)
           gone == Evicted(parked, Append(events, r), MaxSize)
           build == [builds[b] EXCEPT !.built = TRUE]
           rest == builds[b].tasks
           f == FlushThread
<1>1. /\ builds[b].current # <<>> /\ ~builds[b].built
      /\ AppendEvent(r, Endpoint[r], TRUE) /\ UNCHANGED <<batch, back>>
  BY DEF BuildEvent, replayVars, flushVars
<1>2. /\ r \in Records /\ rest \in Seq(Records) /\ r \notin Range(rest) /\ IsInjective(rest)
      /\ \A x : InBuildOf(x, b) <=> x = r \/ x \in Range(rest)
  BY <1>1, CurrentFacts
<1>3. Became(b, build)
  BY RunEffects
<1>4. Unfinished(build) = rest
  <2>1. build.built = TRUE /\ build.tasks = rest
    BY BuildFacts DEF BuildType
  <2> HIDE DEF build
  <2>2. Unfinished(build) = <<>> \o rest
    BY <2>1 DEF Unfinished
  <2> QED  BY <1>2, <2>2, ConcatEmptySeq
<1>5. f \in Flushers
  BY DEF Flushers
<1> HIDE DEF r, rest, build, f
<1>6. /\ fate[r] = "none" /\ ~OnLine(r) /\ kind[r] = "overflow"
      /\ \A c \in BuildIds : c # b => ~InBuildOf(r, c)
      /\ \A g \in Flushers : ~HandedBack(r, g)
  BY <1>2, ElsewhereNot DEF HeldRecords, KindsFit
<1>7. /\ gone \subseteq Records /\ r \notin gone
      /\ IsInjective(Line') /\ \A x : OnLine(x)' <=> (OnLine(x) \/ x = r) /\ x \notin gone
      /\ \A x \in gone : OnLine(x)
      /\ \A x : x \in Range(parked') => x \in Range(parked)
      /\ \A x, y : Before(Line', x, y) => Before(Line, x, y) \/ y = r
      /\ kind' = [kind EXCEPT ![r] = Endpoint[r]]
      /\ \A x \in Records : x \in gone => fate'[x] = "evicted"
      /\ \A x \in Records : x \notin gone => fate'[x] = fate[x]
      /\ \A x \in Records : fate'[x] # "none" /\ kind'[x] = "overflow" => x \in settled'
  BY <1>1, <1>2, <1>6, AppendLine
<1> HIDE DEF gone
<1>8. Endpoint[r] \in {"ai", "tool"} /\ \A x \in Records : kind'[x] = IF x = r THEN Endpoint[r] ELSE kind[x]
  BY <1>2, <1>7, BufferAssumption, TypeParts DEF RecordTypes
<1>9. /\ \A c \in BuildIds : c # b => Unfinished(builds'[c]) = Unfinished(builds[c])
      /\ Unfinished(builds'[b]) = rest
      /\ \A x : x \in OfBuild(b)' <=> x \in Range(rest)
      /\ \A x : x \in OfBuild(b) <=> x = r \/ x \in Range(rest)
      /\ \A c \in BuildIds : c # b => \A x : InBuildOf(x, c)' <=> InBuildOf(x, c)
      /\ \A x : InBuildOf(x, b)' <=> x \in Range(rest)
  <2>1. \A x : x \in OfBuild(b) <=> InBuildOf(x, b)
    BY DEF OfBuild, InBuildOf
  <2> QED  BY <1>2, <1>3, <1>4, <2>1, OneBuild
<1>10. \A x : \A g \in Flushers : HandedBack(x, g)' <=> HandedBack(x, g)
  BY <1>1 DEF HandedBack
<1>11. EachRecordInOnePlace'
  <2>1. \A x \in Records : /\ ~(OnLine(x) /\ x \in OfBuild(b)) /\ ~(OnLine(x) /\ HandedBack(x, f))
                           /\ ~(x \in OfBuild(b) /\ HandedBack(x, f))
    BY <1>5, HereOnce
  <2>2. \A x \in Records : Here(x, f, b)' <=> Here(x, f, b) /\ x \notin gone
    BY <1>2, <1>5, <1>7, <1>9, <1>10, <2>1 DEF Here
  <2>3. \A x \in Records : /\ ~(OnLine(x)' /\ x \in OfBuild(b)')
                           /\ ~(OnLine(x)' /\ HandedBack(x, f)')
                           /\ ~(x \in OfBuild(b)' /\ HandedBack(x, f)')
    BY <1>2, <1>5, <1>6, <1>7, <1>9, <1>10, <2>1
  <2>4. \A x \in gone : x \in Records => Here(x, f, b)
    BY <1>7 DEF Here
  <2>5. \A x \in Records : kind'[x] # "none" <=> kind[x] # "none"
    BY <1>6, <1>8
  <2>6. IsInjective(back'[f]) /\ (b \in BuildIds => IsInjective(Unfinished(builds'[b])))
    BY <1>1, <1>2, <1>5, <1>9 DEF EachRecordInOnePlace
  <2>7. /\ \A g \in Flushers : g # f => back'[g] = back[g]
        /\ \A x \in Records : x \in gone => fate'[x] # "none"
    BY <1>1, <1>7
  <2>8. /\ \A c \in BuildIds : c # b => Unfinished(builds'[c]) = Unfinished(builds[c])
        /\ \A x \in Records : x \notin gone => fate'[x] = fate[x]
        /\ \A x \in Records : fate'[x] # "none" /\ kind'[x] = "overflow" => x \in settled'
        /\ IsInjective(Line')
    BY <1>7, <1>9
  <2> QED  BY <1>5, <2>2, <2>3, <2>4, <2>5, <2>6, <2>7, <2>8, PlacesShifted
<1>12. KindsFit'
  <2>1. \A x \in Records : \A c \in BuildIds : InBuildOf(x, c)' => kind'[x] = "overflow"
    BY <1>2, <1>6, <1>8, <1>9 DEF KindsFit
  <2>2. \A x \in Records : \A g \in Flushers : HandedBack(x, g)' => kind'[x] = "overflow"
    BY <1>6, <1>8, <1>10 DEF KindsFit
  <2>3. \A x \in Records : x \in Range(batch') \/ x \in Range(parked') => kind'[x] \in {"ai", "tool"}
    BY <1>1, <1>6, <1>7, <1>8, OnLineFacts DEF KindsFit
  <2>4. \A x \in Records : kind'[x] = "none" => fate'[x] = "none"
    BY <1>7, <1>8, ElsewhereNot DEF HeldRecords, KindsFit
  <2> QED  BY <2>1, <2>2, <2>3, <2>4, KindsFollow
<1>13. OrderKept
  <2>1. ASSUME NEW x \in Records, NEW y \in Records, Ahead(x, y), Ahead(y, x)' PROVE Before(Line, y, x)
    <3>1. OnLine(x)
      BY <2>1, OnLineFacts DEF Ahead
    <3> QED  BY <1>6, <1>7, <2>1, <3>1 DEF Ahead
  <2> QED  BY <2>1, OrderFollows DEF EachRecordInOnePlace
<1> QED  BY <1>11, <1>12, <1>13

LEMMA LineAlone ==
    ASSUME TypeOK, EachRecordInOnePlace, UNCHANGED <<kind, batch, parked, events>>
    PROVE  /\ IsInjective(Line') /\ OrderKept
           /\ \A x : OnLine(x)' <=> OnLine(x)
<1>1. Line' = Line
  BY DEF Line, Queue
<1>2. IsInjective(Line)
  BY DEF EachRecordInOnePlace
<1>3. \A r, s \in Records : Ahead(s, r)' => Before(Line, s, r)
  BY <1>1 DEF Ahead
<1>4. OrderKept
  BY <1>2, <1>3, OrderFollows
<1> QED  BY <1>1, <1>2, <1>4 DEF OnLine

\* The task that a build is at leaves, unbuilt or cut short.
LEMMA TaskLeaves ==
    ASSUME TypeOK, Control, KindsFit, EachRecordInOnePlace, NEW b \in BuildIds, NEW how, how # "none",
           builds[b].current # <<>>, ~builds[b].built, Leave(All({Head(builds[b].current)}, how)),
           Became(b, [builds[b] EXCEPT !.current = <<>>]), UNCHANGED <<kind, batch, parked, events, back>>
    PROVE  EachRecordInOnePlace' /\ KindsFit' /\ OrderKept
<1> DEFINE r == Head(builds[b].current)
           gone == {r}
           build == [builds[b] EXCEPT !.current = <<>>]
           rest == builds[b].tasks
           f == FlushThread
<1>1. /\ r \in Records /\ rest \in Seq(Records) /\ r \notin Range(rest) /\ IsInjective(rest)
      /\ \A x : InBuildOf(x, b) <=> x = r \/ x \in Range(rest)
  BY CurrentFacts
<1>2. Became(b, build)
  OBVIOUS
<1>3. Unfinished(build) = rest
  <2>1. build.built = FALSE /\ build.current = <<>> /\ build.tasks = rest
    BY BuildFacts DEF BuildType
  <2> HIDE DEF build
  <2>2. Unfinished(build) = <<>> \o rest
    BY <2>1 DEF Unfinished
  <2> QED  BY <1>1, <2>2, ConcatEmptySeq
<1>4. f \in Flushers
  BY DEF Flushers
<1>5. DOMAIN All(gone, how) = gone /\ \A x \in gone : All(gone, how)[x] = how
  BY DEF All
<1>6. Leave(All(gone, how))
  OBVIOUS
<1>7. \A x : x \in gone <=> x = r
  OBVIOUS
<1> HIDE DEF r, gone, rest, build, f
<1>8. /\ ~OnLine(r) /\ kind[r] # "none"
      /\ \A c \in BuildIds : c # b => ~InBuildOf(r, c)
      /\ \A g \in Flushers : ~HandedBack(r, g)
  BY <1>1, ElsewhereNot DEF HeldRecords
<1>9. /\ \A x \in Records : x \in gone => fate'[x] # "none"
      /\ \A x \in Records : x \notin gone => fate'[x] = fate[x]
      /\ \A x \in Records : fate'[x] # "none" /\ kind'[x] = "overflow" => x \in settled'
  <2> DEFINE left == All(gone, how)
  <2>1. Leave(left) /\ DOMAIN left = gone /\ \A x \in Records : x \in DOMAIN left => left[x] # "none"
    BY <1>5, <1>6
  <2> HIDE DEF left
  <2>2. \A x \in Records : kind'[x] = kind[x] \/ (fate[x] = "none" /\ x \notin DOMAIN left)
    OBVIOUS
  <2> QED  BY <2>1, <2>2, LeaveFacts
<1>10. /\ \A c \in BuildIds : c # b => Unfinished(builds'[c]) = Unfinished(builds[c])
       /\ Unfinished(builds'[b]) = rest
       /\ \A x : x \in OfBuild(b)' <=> x \in Range(rest)
       /\ \A x : x \in OfBuild(b) <=> x = r \/ x \in Range(rest)
       /\ \A c \in BuildIds : c # b => \A x : InBuildOf(x, c)' <=> InBuildOf(x, c)
       /\ \A x : InBuildOf(x, b)' <=> x \in Range(rest)
  <2>1. \A x : x \in OfBuild(b) <=> InBuildOf(x, b)
    BY DEF OfBuild, InBuildOf
  <2> QED  BY <1>1, <1>2, <1>3, <2>1, OneBuild
<1>11. \A x : \A g \in Flushers : HandedBack(x, g)' <=> HandedBack(x, g)
  BY DEF HandedBack
<1>12. IsInjective(Line') /\ OrderKept /\ \A x : OnLine(x)' <=> OnLine(x)
  BY LineAlone
<1>13. EachRecordInOnePlace'
  <2>1. \A x \in Records : /\ ~(OnLine(x) /\ x \in OfBuild(b)) /\ ~(OnLine(x) /\ HandedBack(x, f))
                           /\ ~(x \in OfBuild(b) /\ HandedBack(x, f))
    BY <1>4, HereOnce
  <2>2. \A x \in Records : Here(x, f, b)' <=> Here(x, f, b) /\ x \notin gone
    BY <1>1, <1>4, <1>7, <1>8, <1>10, <1>11, <1>12 DEF Here
  <2>3. \A x \in Records : /\ ~(OnLine(x)' /\ x \in OfBuild(b)')
                           /\ ~(OnLine(x)' /\ HandedBack(x, f)')
                           /\ ~(x \in OfBuild(b)' /\ HandedBack(x, f)')
    BY <1>4, <1>10, <1>11, <1>12, <2>1
  <2>4. \A x \in gone : x \in Records => Here(x, f, b)
    BY <1>7, <1>10 DEF Here
  <2>5. \A x \in Records : kind'[x] # "none" <=> kind[x] # "none"
    OBVIOUS
  <2>6. IsInjective(back'[f]) /\ (b \in BuildIds => IsInjective(Unfinished(builds'[b])))
    BY <1>1, <1>4, <1>10 DEF EachRecordInOnePlace
  <2>7. \A g \in Flushers : g # f => back'[g] = back[g]
    OBVIOUS
  <2> QED  BY <1>4, <1>9, <1>10, <1>12, <2>2, <2>3, <2>4, <2>5, <2>6, <2>7, PlacesShifted
<1>14. KindsFit'
  <2>1. \A x \in Records : \A c \in BuildIds : InBuildOf(x, c)' => kind'[x] = "overflow"
    BY <1>1, <1>10 DEF KindsFit
  <2>2. \A x \in Records : \A g \in Flushers : HandedBack(x, g)' => kind'[x] = "overflow"
    BY <1>11 DEF KindsFit
  <2>3. \A x \in Records : x \in Range(batch') \/ x \in Range(parked') => kind'[x] \in {"ai", "tool"}
    BY DEF KindsFit
  <2>4. \A x \in Records : kind'[x] = "none" => fate'[x] = "none"
    BY <1>7, <1>8, <1>9 DEF KindsFit
  <2> QED  BY <2>1, <2>2, <2>3, <2>4, KindsFollow
<1> QED  BY <1>12, <1>13, <1>14

LEMMA SkipTaskKeeps ==
    ASSUME TypeOK, Control, KindsFit, EachRecordInOnePlace, NEW b \in BuildIds, SkipTask(b)
    PROVE  EachRecordInOnePlace' /\ KindsFit' /\ OrderKept
<1>1. /\ builds[b].current # <<>> /\ ~builds[b].built /\ Leave(All({Head(builds[b].current)}, "unbuilt"))
      /\ UNCHANGED <<kind, batch, parked, events, back>>
  BY DEF SkipTask, queueVars, replayVars, flushVars
<1>2. Became(b, [builds[b] EXCEPT !.current = <<>>])
  BY RunEffects
<1> QED  BY <1>1, <1>2, TaskLeaves

LEMMA CutTaskShortKeeps ==
    ASSUME TypeOK, Control, KindsFit, EachRecordInOnePlace, NEW b \in BuildIds, CutTaskShort(b)
    PROVE  EachRecordInOnePlace' /\ KindsFit' /\ OrderKept
<1>1. /\ builds[b].current # <<>> /\ ~builds[b].built /\ Leave(All({Head(builds[b].current)}, "cutShort"))
      /\ UNCHANGED <<kind, batch, parked, events, back>>
  BY DEF CutTaskShort, queueVars, replayVars, flushVars
<1>2. Became(b, [builds[b] EXCEPT !.current = <<>>])
  BY RunEffects
<1> QED  BY <1>1, <1>2, TaskLeaves

\* The tasks of a build, or some of them, are taken back.
LEMMA BackFromBuild ==
    ASSUME TypeOK, KindsFit, EachRecordInOnePlace, NEW f \in Flushers, NEW b \in BuildIds, NEW build, NEW taken,
           UNCHANGED <<kind, fate, settled, batch, parked, events>>, back[f] = <<>>,
           back' = [g \in Flushers |-> IF g = f THEN taken ELSE back[g]], Became(b, build),
           IsInjective(taken), IsInjective(Unfinished(build)),
           \A x : x \in Range(Unfinished(builds[b])) <=> x \in Range(taken) \/ x \in Range(Unfinished(build)),
           \A x : ~(x \in Range(taken) /\ x \in Range(Unfinished(build)))
    PROVE  EachRecordInOnePlace' /\ KindsFit' /\ OrderKept
<1>1. IsInjective(Line') /\ OrderKept /\ \A x : OnLine(x)' <=> OnLine(x)
  BY LineAlone
<1>2. /\ \A c \in BuildIds : c # b => Unfinished(builds'[c]) = Unfinished(builds[c])
      /\ Unfinished(builds'[b]) = Unfinished(build)
      /\ \A x : x \in OfBuild(b)' <=> x \in Range(Unfinished(build))
      /\ \A x : x \in OfBuild(b) <=> x \in Range(taken) \/ x \in Range(Unfinished(build))
      /\ \A c \in BuildIds : c # b => \A x : InBuildOf(x, c)' <=> InBuildOf(x, c)
      /\ \A x : InBuildOf(x, b)' <=> x \in Range(Unfinished(build))
      /\ \A x : InBuildOf(x, b) <=> x \in Range(taken) \/ x \in Range(Unfinished(build))
  BY OneBuild DEF InBuildOf
<1>3. /\ \A x : HandedBack(x, f)' <=> x \in Range(taken)
      /\ \A x : ~HandedBack(x, f)
      /\ \A g \in Flushers : g # f => \A x : HandedBack(x, g)' <=> HandedBack(x, g)
  BY NoElement DEF HandedBack
<1>4. EachRecordInOnePlace'
  <2> DEFINE gone == {}
  <2>1. \A x : x \notin gone
    OBVIOUS
  <2> HIDE DEF gone
  <2>2. \A x \in Records : ~(OnLine(x) /\ x \in OfBuild(b))
    BY HereOnce
  <2>3. \A x \in Records : Here(x, f, b)' <=> Here(x, f, b) /\ x \notin gone
    BY <1>1, <1>2, <1>3, <2>1 DEF Here
  <2>4. \A x \in Records : /\ ~(OnLine(x)' /\ x \in OfBuild(b)')
                           /\ ~(OnLine(x)' /\ HandedBack(x, f)')
                           /\ ~(x \in OfBuild(b)' /\ HandedBack(x, f)')
    BY <1>1, <1>2, <1>3, <2>2
  <2>5. IsInjective(back'[f]) /\ (b \in BuildIds => IsInjective(Unfinished(builds'[b])))
    BY <1>2
  <2>6. \A g \in Flushers : g # f => back'[g] = back[g]
    OBVIOUS
  <2>7. \A x \in Records : fate'[x] # "none" /\ kind'[x] = "overflow" => x \in settled'
    BY DEF EachRecordInOnePlace
  <2>8. \A x \in gone : x \in Records => Here(x, f, b)
    BY <2>1
  <2>9. \A x \in Records : x \in gone => fate'[x] # "none"
    BY <2>1
  <2>10. /\ \A x \in Records : kind'[x] # "none" <=> kind[x] # "none"
         /\ \A x \in Records : x \notin gone => fate'[x] = fate[x]
    OBVIOUS
  <2> QED  BY <1>1, <1>2, <2>3, <2>4, <2>5, <2>6, <2>7, <2>8, <2>9, <2>10, PlacesShifted
<1>5. KindsFit'
  <2>1. \A x \in Records : \A c \in BuildIds : InBuildOf(x, c)' => kind'[x] = "overflow"
    BY <1>2 DEF KindsFit
  <2>2. \A x \in Records : \A g \in Flushers : HandedBack(x, g)' => kind'[x] = "overflow"
    BY <1>2, <1>3 DEF KindsFit
  <2>3. \A x \in Records : x \in Range(batch') \/ x \in Range(parked') => kind'[x] \in {"ai", "tool"}
    BY DEF KindsFit
  <2>4. \A x \in Records : kind'[x] = "none" => fate'[x] = "none"
    BY DEF KindsFit
  <2> QED  BY <2>1, <2>2, <2>3, <2>4, KindsFollow
<1> QED  BY <1>1, <1>4, <1>5

\* A build with nothing under way has its tasks to do.
LEMMA TasksAreLeft ==
    ASSUME TypeOK, Control, EachRecordInOnePlace, NEW b \in BuildIds, builds[b].current = <<>>
    PROVE  /\ Unfinished(builds[b]) = builds[b].tasks /\ builds[b].built = FALSE
           /\ builds[b].tasks \in Seq(Records) /\ IsInjective(builds[b].tasks)
<1>1. builds[b].tasks \in Seq(Records) /\ builds[b].built = FALSE
  BY BuildFacts DEF Control, BuildsFit, BuildType
<1>2. Unfinished(builds[b]) = <<>> \o builds[b].tasks
  BY <1>1 DEF Unfinished
<1>3. <<>> \o builds[b].tasks = builds[b].tasks
  BY <1>1, ConcatEmptySeq
<1> QED  BY <1>1, <1>2, <1>3 DEF EachRecordInOnePlace

\* All its tasks are taken back, and it is forgotten.
LEMMA BackAndForgotten ==
    ASSUME TypeOK, Control, KindsFit, EachRecordInOnePlace, NEW f \in Flushers, NEW b \in BuildIds,
           UNCHANGED <<kind, fate, settled, batch, parked, events>>, back[f] = <<>>, builds[b].current = <<>>,
           back' = [g \in Flushers |-> IF g = f THEN builds[b].tasks ELSE back[g]], Became(b, NoBuild)
    PROVE  EachRecordInOnePlace' /\ KindsFit' /\ OrderKept
<1> DEFINE taken == builds[b].tasks
           none == Unfinished(NoBuild)
<1>1. Unfinished(builds[b]) = taken /\ IsInjective(taken)
  BY TasksAreLeft
<1>2. IsInjective(none) /\ \A x : x \notin Range(none)
  <2>1. none = <<>>
    BY DEF Unfinished, NoBuild
  <2> QED  BY <2>1, NoElement
<1>3. back' = [g \in Flushers |-> IF g = f THEN taken ELSE back[g]]
  OBVIOUS
<1> HIDE DEF taken, none
<1>4. /\ \A x : x \in Range(Unfinished(builds[b])) <=> x \in Range(taken) \/ x \in Range(none)
      /\ \A x : ~(x \in Range(taken) /\ x \in Range(none))
  BY <1>1, <1>2
<1> QED  BY <1>1, <1>2, <1>3, <1>4, BackFromBuild DEF none

LEMMA CheckExitingKeeps ==
    ASSUME TypeOK, Control, KindsFit, EachRecordInOnePlace, NEW f \in Flushers, CheckExiting(f)
    PROVE  EachRecordInOnePlace' /\ KindsFit' /\ OrderKept
<1> DEFINE b == mine[f]
<1>1. UNCHANGED <<kind, fate, settled, batch, parked, events>>
  BY DEF CheckExiting, recordVars, queueVars, replayVars
<1>2. pc[f] = "check" /\ Moved(f, "return", 0, builds[b].tasks) /\ Became(b, NoBuild)
  BY CheckExitingEffect
<1>3. b \in BuildIds /\ builds[b].current = <<>> /\ back[f] = <<>>
  BY <1>2, OwnBuild DEF Owning
<1>4. back' = [g \in Flushers |-> IF g = f THEN builds[b].tasks ELSE back[g]]
  BY <1>2 DEF Moved
<1> HIDE DEF b
<1> QED  BY <1>1, <1>2, <1>3, <1>4, BackAndForgotten

LEMMA HandOnEventLoopKeeps ==
    ASSUME TypeOK, Control, KindsFit, EachRecordInOnePlace, NEW f \in Flushers, HandOnEventLoop(f)
    PROVE  EachRecordInOnePlace' /\ KindsFit' /\ OrderKept
<1> DEFINE b == mine[f]
<1>1. UNCHANGED <<kind, fate, settled, batch, parked, events>>
  BY DEF HandOnEventLoop, recordVars, queueVars, replayVars
<1>2. pc[f] = "hand" /\ Moved(f, "return", 0, builds[b].tasks) /\ Became(b, NoBuild)
  BY HandOnEventLoopEffect
<1>3. b \in BuildIds /\ builds[b].current = <<>> /\ back[f] = <<>>
  BY <1>2, OwnBuild DEF Owning
<1>4. back' = [g \in Flushers |-> IF g = f THEN builds[b].tasks ELSE back[g]]
  BY <1>2 DEF Moved
<1> HIDE DEF b
<1> QED  BY <1>1, <1>2, <1>3, <1>4, BackAndForgotten

\* What a reclaimed build gives up, and what it keeps.
LEMMA ReclaimedFacts ==
    ASSUME TypeOK, Control, EachRecordInOnePlace, NEW b \in BuildIds
    PROVE  LET build == Reclaimed(builds[b])
               taken == builds[b].tasks
           IN  /\ taken \in Seq(Records) /\ IsInjective(taken) /\ IsInjective(Unfinished(build))
               /\ \A x : x \in Range(Unfinished(builds[b])) <=> x \in Range(taken) \/ x \in Range(Unfinished(build))
               /\ \A x : ~(x \in Range(taken) /\ x \in Range(Unfinished(build)))
<1> DEFINE build == Reclaimed(builds[b])
           taken == builds[b].tasks
           doing == IF builds[b].built THEN <<>> ELSE builds[b].current
<1>1. builds[b] \in BuildType /\ taken \in Seq(Records) /\ doing \in Seq(Records)
  BY BuildFacts
<1>2. build.tasks = <<>> /\ build.current = builds[b].current /\ build.built = builds[b].built
  BY <1>1 DEF BuildType, Reclaimed
<1>3. Unfinished(builds[b]) = doing \o taken
  BY DEF Unfinished
<1> HIDE DEF build
<1>4. Unfinished(build) = doing \o <<>>
  BY <1>2 DEF Unfinished
<1> HIDE DEF taken, doing
<1>5. Unfinished(build) = doing
  BY <1>1, <1>4, ConcatEmptySeq
<1>6. IsInjective(doing \o taken)
  BY <1>3 DEF EachRecordInOnePlace
<1>7. IsInjective(taken) /\ IsInjective(doing) /\ \A x : ~(x \in Range(taken) /\ x \in Range(doing))
  BY <1>1, <1>6, InjectiveConcat
<1>8. Range(doing \o taken) = Range(doing) \cup Range(taken)
  BY <1>1, RangeConcatenation
<1> QED  BY <1>1, <1>3, <1>5, <1>7, <1>8 DEF build, taken

LEMMA EndWaitKeeps ==
    ASSUME TypeOK, Control, KindsFit, EachRecordInOnePlace, NEW f \in Flushers, EndWait(f)
    PROVE  EachRecordInOnePlace' /\ KindsFit' /\ OrderKept
<1> DEFINE b == mine[f]
           rest == IF b = 0 THEN <<>> ELSE builds[b].tasks
<1>1. UNCHANGED <<kind, fate, settled, batch, parked, events>>
  BY DEF EndWait, recordVars, queueVars, replayVars
<1>2. /\ pc[f] = "wait"
      /\ Moved(f, IF rest = <<>> THEN After(stage[f]) ELSE "return", 0, rest)
      /\ \/ b = 0 /\ UNCHANGED builds
         \/ b \in BuildIds /\ builds[b].mode = "over" /\ Became(b, NoBuild)
         \/ b \in BuildIds /\ builds[b].mode \in {"queued", "own"} /\ Became(b, Reclaimed(builds[b]))
  BY EndWaitEffect
<1>3. back[f] = <<>>
  BY <1>2, OwnBuild
<1>4. back' = [g \in Flushers |-> IF g = f THEN rest ELSE back[g]]
  BY <1>2 DEF Moved
<1>5. 0 \notin BuildIds
  BY BuildFacts
<1> HIDE DEF b
<1>6. CASE b = 0 /\ UNCHANGED builds
  <2>1. back' = back
    BY <1>3, <1>4, <1>6, TypeParts DEF FlushTypes
  <2>2. settled \subseteq settled' /\ \A c \in BuildIds : Unfinished(builds'[c]) = Unfinished(builds[c])
    BY <1>1, <1>6
  <2> QED  BY <1>1, <2>1, <2>2, QuietStep
<1>7. CASE b \in BuildIds /\ builds[b].mode = "over" /\ Became(b, NoBuild)
  <2>1. builds[b].current = <<>>
    BY <1>7 DEF Control, BuildsFit
  <2>2. back' = [g \in Flushers |-> IF g = f THEN builds[b].tasks ELSE back[g]]
    BY <1>4, <1>5, <1>7
  <2> QED  BY <1>1, <1>3, <1>7, <2>1, <2>2, BackAndForgotten
<1>8. CASE b \in BuildIds /\ builds[b].mode \in {"queued", "own"} /\ Became(b, Reclaimed(builds[b]))
  <2> DEFINE build == Reclaimed(builds[b])
             taken == builds[b].tasks
  <2>1. back' = [g \in Flushers |-> IF g = f THEN taken ELSE back[g]] /\ Became(b, build)
    BY <1>4, <1>5, <1>8
  <2>2. /\ IsInjective(taken) /\ IsInjective(Unfinished(build))
        /\ \A x : x \in Range(Unfinished(builds[b])) <=> x \in Range(taken) \/ x \in Range(Unfinished(build))
        /\ \A x : ~(x \in Range(taken) /\ x \in Range(Unfinished(build)))
    BY <1>8, ReclaimedFacts
  <2> HIDE DEF build, taken
  <2> QED  BY <1>1, <1>3, <1>8, <2>1, <2>2, BackFromBuild
<1> QED  BY <1>2, <1>6, <1>7, <1>8 DEF b

LEMMA HandToSelfKeeps ==
    ASSUME TypeOK, Control, KindsFit, EachRecordInOnePlace, NEW f \in Flushers, HandToSelf(f)
    PROVE  EachRecordInOnePlace' /\ KindsFit' /\ OrderKept
<1> DEFINE b == mine[f]
           taken == Only(builds[b].tasks, Aside(f))
           kept == Only(builds[b].tasks, Records \ Aside(f))
           build == [builds[b] EXCEPT !.mode = "inline", !.tasks = kept]
<1>1. UNCHANGED <<kind, fate, settled, batch, parked, events>>
  BY DEF HandToSelf, recordVars, queueVars, replayVars
<1>2. pc[f] = "hand" /\ Moved(f, IF taken = <<>> THEN "wait" ELSE "return", b, taken) /\ Became(b, build)
  BY HandToSelfEffect
<1>3. b \in BuildIds /\ builds[b].current = <<>> /\ back[f] = <<>>
  BY <1>2, OwnBuild DEF Owning
<1>4. back' = [g \in Flushers |-> IF g = f THEN taken ELSE back[g]]
  BY <1>2 DEF Moved
<1> HIDE DEF b
<1>5. /\ Unfinished(builds[b]) = builds[b].tasks /\ builds[b].built = FALSE
      /\ builds[b].tasks \in Seq(Records) /\ IsInjective(builds[b].tasks)
  BY <1>3, TasksAreLeft
<1>6. /\ kept \in Seq(Records) /\ IsInjective(kept) /\ IsInjective(taken)
      /\ \A x : x \in Range(kept) <=> x \in Range(builds[b].tasks) /\ x \in Records \ Aside(f)
      /\ \A x : x \in Range(taken) <=> x \in Range(builds[b].tasks) /\ x \in Aside(f)
  BY <1>5, OnlyFacts, OnlyInjective
<1>7. \A x : x \in Range(builds[b].tasks) => x \in Records
  BY <1>5, RangeFacts
<1> HIDE DEF taken, kept
<1>8. Unfinished(build) = kept
  <2>1. build.built = FALSE /\ build.current = <<>> /\ build.tasks = kept
    BY <1>3, <1>5, BuildFacts DEF BuildType
  <2> HIDE DEF build
  <2>2. Unfinished(build) = <<>> \o kept
    BY <2>1 DEF Unfinished
  <2> QED  BY <1>6, <2>2, ConcatEmptySeq
<1> HIDE DEF build
<1>9. /\ IsInjective(Unfinished(build))
      /\ \A x : x \in Range(Unfinished(builds[b])) <=> x \in Range(taken) \/ x \in Range(Unfinished(build))
      /\ \A x : ~(x \in Range(taken) /\ x \in Range(Unfinished(build)))
  BY <1>5, <1>6, <1>7, <1>8
<1> QED  BY <1>1, <1>2, <1>3, <1>4, <1>6, <1>9, BackFromBuild

\* What is returned to the front of the waiting records is on the line, behind the parked ones.
LEMMA FrontJoins ==
    ASSUME NEW a \in Seq(Records), NEW p \in Seq(Records), NEW q \in Seq(Records), NEW e \in Seq(Records),
           IsInjective(a \o (p \o e)), IsInjective(q),
           \A x : ~(x \in Range(q) /\ x \in Range(a \o (p \o e)))
    PROVE  LET front == q \o e IN
           /\ front \in Seq(Records) /\ IsInjective(a \o (p \o front))
           /\ \A x : x \in Range(a \o (p \o front)) <=> x \in Range(a \o (p \o e)) \/ x \in Range(q)
           /\ \A x, y : Before(a \o (p \o front), x, y) =>
                  Before(a \o (p \o e), x, y) \/ x \in Range(q) \/ y \in Range(q)
<1> DEFINE front == q \o e
<1>1. front \in Seq(Records) /\ Range(front) = Range(q) \cup Range(e)
  BY RangeConcatenation
<1>2. \A x, y : Before(front, x, y) <=> Before(q, x, y) \/ Before(e, x, y) \/ (x \in Range(q) /\ y \in Range(e))
  BY BeforeConcat
<1>3. \A x : ~Before(q, x, x)
  BY InjectiveIsBefore
<1> HIDE DEF front
<1>4. /\ \A x : x \in Range(a \o (p \o front)) <=> x \in Range(a) \/ x \in Range(p) \/ x \in Range(front)
      /\ \A x, y : Before(a \o (p \o front), x, y) <=>
             \/ Before(a, x, y) \/ Before(p, x, y) \/ Before(front, x, y)
             \/ x \in Range(a) /\ (y \in Range(p) \/ y \in Range(front))
             \/ x \in Range(p) /\ y \in Range(front)
      /\ IsInjective(a \o (p \o front)) <=> \A x : ~Before(a \o (p \o front), x, x)
  BY <1>1, ThreeFacts
<1>5. /\ \A x : x \in Range(a \o (p \o e)) <=> x \in Range(a) \/ x \in Range(p) \/ x \in Range(e)
      /\ \A x, y : Before(a \o (p \o e), x, y) <=>
             \/ Before(a, x, y) \/ Before(p, x, y) \/ Before(e, x, y)
             \/ x \in Range(a) /\ (y \in Range(p) \/ y \in Range(e))
             \/ x \in Range(p) /\ y \in Range(e)
      /\ IsInjective(a \o (p \o e)) <=> \A x : ~Before(a \o (p \o e), x, x)
  BY ThreeFacts
<1>6. \A x, y : Before(q, x, y) => x \in Range(q)
  BY BeforeFacts
<1>7. \A x : x \in Range(a \o (p \o front)) <=> x \in Range(a \o (p \o e)) \/ x \in Range(q)
  BY <1>1, <1>4, <1>5
<1>8. \A x, y : Before(a \o (p \o front), x, y) =>
          Before(a \o (p \o e), x, y) \/ x \in Range(q) \/ y \in Range(q)
  BY <1>1, <1>2, <1>4, <1>5, <1>6
<1>9. \A x : ~Before(a \o (p \o front), x, x)
  <2>1. \A x : ~Before(a \o (p \o e), x, x)
    BY <1>5
  <2>2. ASSUME NEW x, Before(a \o (p \o front), x, x) PROVE FALSE
    <3>1. x \in Range(q)
      BY <1>8, <2>1, <2>2
    <3>2. x \notin Range(a) /\ x \notin Range(p) /\ x \notin Range(e)
      BY <1>5, <3>1
    <3>3. ~Before(a, x, x) /\ ~Before(p, x, x) /\ ~Before(e, x, x)
      BY <1>5, <2>1
    <3>4. ~Before(front, x, x)
      BY <1>2, <1>3, <3>2, <3>3
    <3> QED  BY <1>4, <2>2, <3>2, <3>3, <3>4
  <2> QED  BY <2>2
<1>10. IsInjective(a \o (p \o front))
  BY <1>4, <1>9
<1> QED  BY <1>1, <1>7, <1>8, <1>10 DEF front

\* The line loses some of the waiting records.
LEMMA LineThinned ==
    ASSUME NEW a \in Seq(Records), NEW p \in Seq(Records), NEW e \in Seq(Records), NEW S,
           IsInjective(a \o (p \o e))
    PROVE  LET rest == Only(e, S) IN
           /\ rest \in Seq(Records) /\ IsInjective(a \o (p \o rest))
           /\ \A x : x \in Range(a \o (p \o rest)) <=>
                  x \in Range(a) \/ x \in Range(p) \/ (x \in Range(e) /\ x \in S)
           /\ \A x, y : Before(a \o (p \o rest), x, y) => Before(a \o (p \o e), x, y)
           /\ \A x : x \in Range(e) => x \notin Range(a) /\ x \notin Range(p)
           /\ IsInjective(e)
<1> DEFINE rest == Only(e, S)
<1>1. /\ rest \in Seq(Records)
      /\ \A x : x \in Range(rest) <=> x \in Range(e) /\ x \in S
      /\ \A x, y : Before(rest, x, y) <=> Before(e, x, y) /\ x \in S /\ y \in S
  BY OnlyFacts
<1> HIDE DEF rest
<1>2. /\ \A x : x \in Range(a \o (p \o rest)) <=> x \in Range(a) \/ x \in Range(p) \/ x \in Range(rest)
      /\ \A x, y : Before(a \o (p \o rest), x, y) <=>
             \/ Before(a, x, y) \/ Before(p, x, y) \/ Before(rest, x, y)
             \/ x \in Range(a) /\ (y \in Range(p) \/ y \in Range(rest))
             \/ x \in Range(p) /\ y \in Range(rest)
      /\ IsInjective(a \o (p \o rest)) <=> \A x : ~Before(a \o (p \o rest), x, x)
  BY <1>1, ThreeFacts
<1>3. /\ \A x, y : Before(a \o (p \o e), x, y) <=>
             \/ Before(a, x, y) \/ Before(p, x, y) \/ Before(e, x, y)
             \/ x \in Range(a) /\ (y \in Range(p) \/ y \in Range(e))
             \/ x \in Range(p) /\ y \in Range(e)
      /\ IsInjective(a \o (p \o e)) <=> \A x : ~Before(a \o (p \o e), x, x)
  BY ThreeFacts
<1>4. \A x, y : Before(a \o (p \o rest), x, y) => Before(a \o (p \o e), x, y)
  BY <1>1, <1>2, <1>3
<1>5. IsInjective(a \o (p \o rest))
  BY <1>2, <1>3, <1>4
<1>6. \A x : x \in Range(e) => x \notin Range(a) /\ x \notin Range(p)
  BY <1>3
<1>7. IsInjective(e)
  BY <1>3, InjectiveIsBefore
<1>8. \A x : x \in Range(a \o (p \o rest)) <=> x \in Range(a) \/ x \in Range(p) \/ (x \in Range(e) /\ x \in S)
  BY <1>1, <1>2
<1> QED  BY <1>1, <1>4, <1>5, <1>6, <1>7, <1>8 DEF rest

LEMMA StartFlushKeeps ==
    ASSUME TypeOK, Control, KindsFit, EachRecordInOnePlace, NEW f \in Flushers, StartFlush(f)
    PROVE  EachRecordInOnePlace' /\ KindsFit' /\ OrderKept
<1>0. PICK b \in BuildIds : b = NewBuild
  BY StartFlushEffect, BuildFacts
<1> DEFINE tasks == Only(events, Overflow)
           build == [NoBuild EXCEPT !.tasks = tasks, !.mode = "held"]
           rest == Only(events, Records \ Overflow)
<1>1. UNCHANGED <<kind, fate, settled, batch, parked, back>> /\ events' = rest
  BY DEF StartFlush, recordVars, replayVars
<1>2. b \in BuildIds /\ builds[b] = NoBuild /\ Became(b, build)
  BY <1>0, StartFlushEffect, BuildFacts
<1>3. batch \in Seq(Records) /\ parked \in Seq(Records) /\ events \in Seq(Records)
  BY LineIsSeq
<1>4. IsInjective(batch \o (parked \o events))
  BY DEF EachRecordInOnePlace, Line, Queue
<1>5. /\ rest \in Seq(Records) /\ IsInjective(batch \o (parked \o rest))
      /\ \A x : x \in Range(batch \o (parked \o rest)) <=>
             x \in Range(batch) \/ x \in Range(parked) \/ (x \in Range(events) /\ x \in Records \ Overflow)
      /\ \A x, y : Before(batch \o (parked \o rest), x, y) => Before(batch \o (parked \o events), x, y)
      /\ \A x : x \in Range(events) => x \notin Range(batch) /\ x \notin Range(parked)
      /\ IsInjective(events)
  BY <1>3, <1>4, LineThinned
<1>6. /\ tasks \in Seq(Records) /\ IsInjective(tasks)
      /\ \A x : x \in Range(tasks) <=> x \in Range(events) /\ x \in Overflow
  BY <1>3, <1>5, OnlyFacts, OnlyInjective
<1> HIDE DEF tasks, rest
<1>7. Line' = batch \o (parked \o rest) /\ Line = batch \o (parked \o events)
  BY <1>1 DEF Line, Queue
<1>8. Unfinished(build) = tasks
  <2>1. build.built = FALSE /\ build.current = <<>> /\ build.tasks = tasks
    BY DEF NoBuild
  <2> HIDE DEF build
  <2>2. Unfinished(build) = <<>> \o tasks
    BY <2>1 DEF Unfinished
  <2> QED  BY <1>6, <2>2, ConcatEmptySeq
<1> HIDE DEF build
<1>9. \A x : x \notin Range(Unfinished(builds[b]))
  <2>1. Unfinished(builds[b]) = <<>>
    BY <1>2 DEF Unfinished, NoBuild
  <2> QED  BY <2>1, NoElement
<1>10. /\ \A c \in BuildIds : c # b => Unfinished(builds'[c]) = Unfinished(builds[c])
       /\ Unfinished(builds'[b]) = tasks
       /\ \A x : x \in OfBuild(b)' <=> x \in Range(tasks)
       /\ \A x : x \notin OfBuild(b)
       /\ \A c \in BuildIds : c # b => \A x : InBuildOf(x, c)' <=> InBuildOf(x, c)
       /\ \A x : InBuildOf(x, b)' <=> x \in Range(tasks)
  <2>1. /\ \A c \in BuildIds : c # b => Unfinished(builds'[c]) = Unfinished(builds[c])
        /\ Unfinished(builds'[b]) = Unfinished(build)
        /\ \A x : x \in OfBuild(b)' <=> x \in Range(Unfinished(build))
        /\ \A x : x \in OfBuild(b) <=> x \in Range(Unfinished(builds[b]))
        /\ \A c \in BuildIds : c # b => \A x : InBuildOf(x, c)' <=> InBuildOf(x, c)
        /\ \A x : InBuildOf(x, b)' <=> x \in Range(Unfinished(build))
    BY <1>2, OneBuild
  <2> QED  BY <1>8, <1>9, <2>1
<1>11. \A x : \A g \in Flushers : HandedBack(x, g)' <=> HandedBack(x, g)
  BY <1>1 DEF HandedBack
<1>12. /\ \A x : OnLine(x)' <=> x \in Range(batch) \/ x \in Range(parked) \/ (x \in Range(events) /\ x \in Records \ Overflow)
       /\ \A x : OnLine(x) <=> x \in Range(batch) \/ x \in Range(parked) \/ x \in Range(events)
  BY <1>5, <1>7, OnLineFacts DEF OnLine
<1>13. EachRecordInOnePlace'
  <2> DEFINE gone == {}
  <2>0. f \in Flushers /\ \A x : x \notin gone
    OBVIOUS
  <2> HIDE DEF gone
  <2>1. \A x \in Records : /\ ~(OnLine(x) /\ x \in OfBuild(b)) /\ ~(OnLine(x) /\ HandedBack(x, f))
                           /\ ~(x \in OfBuild(b) /\ HandedBack(x, f))
    BY <2>0, HereOnce
  <2>2. \A x \in Records : Here(x, f, b)' <=> Here(x, f, b) /\ x \notin gone
    BY <1>6, <1>10, <1>11, <1>12, <2>0 DEF Here
  <2>3. \A x \in Records : /\ ~(OnLine(x)' /\ x \in OfBuild(b)')
                           /\ ~(OnLine(x)' /\ HandedBack(x, f)')
                           /\ ~(x \in OfBuild(b)' /\ HandedBack(x, f)')
    BY <1>5, <1>6, <1>10, <1>11, <1>12, <2>0, <2>1
  <2>4. IsInjective(back'[f]) /\ (b \in BuildIds => IsInjective(Unfinished(builds'[b]))) /\ IsInjective(Line')
    BY <1>1, <1>5, <1>6, <1>7, <1>10, <2>0 DEF EachRecordInOnePlace
  <2>5. /\ \A c \in BuildIds : c # b => Unfinished(builds'[c]) = Unfinished(builds[c])
        /\ \A h \in Flushers : h # f => back'[h] = back[h]
        /\ \A x \in Records : kind'[x] # "none" <=> kind[x] # "none"
        /\ \A x \in Records : x \notin gone => fate'[x] = fate[x]
    BY <1>1, <1>10
  <2>6. \A x \in Records : fate'[x] # "none" /\ kind'[x] = "overflow" => x \in settled'
    BY <1>1 DEF EachRecordInOnePlace
  <2>7. /\ \A x \in gone : x \in Records => Here(x, f, b)
        /\ \A x \in Records : x \in gone => fate'[x] # "none"
    BY <2>0
  <2> QED  BY <2>2, <2>3, <2>4, <2>5, <2>6, <2>7, PlacesShifted
<1>14. KindsFit'
  <2>1. \A x \in Records : \A c \in BuildIds : InBuildOf(x, c)' => kind'[x] = "overflow"
    <3>1. \A x \in Records : InBuildOf(x, b)' => kind'[x] = "overflow"
      BY <1>1, <1>6, <1>10 DEF Overflow
    <3>2. \A x \in Records : \A c \in BuildIds : InBuildOf(x, c) => kind[x] = "overflow"
      BY DEF KindsFit
    <3> QED  BY <1>1, <1>10, <3>1, <3>2
  <2>2. \A x \in Records : \A g \in Flushers : HandedBack(x, g)' => kind'[x] = "overflow"
    BY <1>1, <1>11 DEF KindsFit
  <2>3. \A x \in Records : x \in Range(batch') \/ x \in Range(parked') => kind'[x] \in {"ai", "tool"}
    BY <1>1 DEF KindsFit
  <2>4. \A x \in Records : kind'[x] = "none" => fate'[x] = "none"
    BY <1>1 DEF KindsFit
  <2> QED  BY <2>1, <2>2, <2>3, <2>4, KindsFollow
<1>15. OrderKept
  <2>1. \A x, y \in Records : Ahead(x, y) /\ Ahead(y, x)' => Before(Line, y, x)
    BY <1>5, <1>7 DEF Ahead
  <2> QED  BY <2>1, OrderFollows DEF EachRecordInOnePlace
<1> QED  BY <1>13, <1>14, <1>15

LEMMA ReturnToFrontKeeps ==
    ASSUME TypeOK, Control, KindsFit, EachRecordInOnePlace, NEW f \in Flushers, ReturnToFront(f)
    PROVE  EachRecordInOnePlace' /\ KindsFit' /\ OrderKept
<1> DEFINE q == back[f]
           front == q \o events
           gone == Evicted(parked, front, MaxSize)
           all == batch \o (parked \o front)
<1>1. /\ UNCHANGED <<kind, batch, builds>>
      /\ HoldAtMost(parked, front, MaxSize) /\ Leave(All(gone, "evicted"))
  BY DEF ReturnToFront, replayVars, buildVars
<1>2. back' = [g \in Flushers |-> IF g = f THEN <<>> ELSE back[g]]
  BY QuietEffects DEF Moved
<1>3. q \in Seq(Records) /\ batch \in Seq(Records) /\ parked \in Seq(Records) /\ events \in Seq(Records)
  BY LineIsSeq, TypeParts DEF FlushTypes
<1>4. /\ IsInjective(batch \o (parked \o events)) /\ IsInjective(q)
      /\ \A x : OnLine(x) <=> x \in Range(batch \o (parked \o events))
      /\ \A x : HandedBack(x, f) <=> x \in Range(q)
  BY DEF EachRecordInOnePlace, Line, Queue, OnLine, HandedBack
<1> HIDE DEF q
<1>5. \A x : ~(x \in Range(q) /\ x \in Range(batch \o (parked \o events)))
  <2>1. \A x : x \in Range(q) => x \in Records
    BY <1>3, RangeFacts
  <2> QED  BY <1>4, <2>1, HereOnce
<1>6. /\ front \in Seq(Records) /\ IsInjective(all)
      /\ \A x : x \in Range(all) <=> x \in Range(batch \o (parked \o events)) \/ x \in Range(q)
      /\ \A x, y : Before(all, x, y) =>
             Before(batch \o (parked \o events), x, y) \/ x \in Range(q) \/ y \in Range(q)
  BY <1>3, <1>4, <1>5, FrontJoins
<1> HIDE DEF front
<1>7. Line' = batch \o (ParkedLeft(parked, front, MaxSize) \o EventsLeft(parked, front, MaxSize))
  BY <1>1 DEF Line, Queue, HoldAtMost, ParkedLeft, EventsLeft
<1>8. /\ IsInjective(Line')
      /\ \A x : x \in Range(all) <=> x \in gone \/ x \in Range(Line')
      /\ \A x : ~(x \in gone /\ x \in Range(Line'))
      /\ \A x, y : Before(Line', x, y) => Before(all, x, y)
  <2> DEFINE left == batch \o (ParkedLeft(parked, front, MaxSize) \o EventsLeft(parked, front, MaxSize))
  <2>1. IsInjective(batch \o (parked \o front)) /\ MaxSize \in Nat
    BY <1>6, MaxSizeIsNat
  <2>2. /\ IsInjective(left)
        /\ \A x : x \in Range(batch \o (parked \o front)) <=> x \in Evicted(parked, front, MaxSize) \/ x \in Range(left)
        /\ \A x : ~(x \in Evicted(parked, front, MaxSize) /\ x \in Range(left))
        /\ \A x, y : Before(left, x, y) => Before(batch \o (parked \o front), x, y)
    BY <1>3, <1>6, <2>1, RoomOnLine
  <2> QED  BY <1>7, <2>2
<1>9. gone \subseteq Records
  BY <1>3, <1>6, MaxSizeIsNat, RoomIsMade
<1> HIDE DEF all
<1>10. \A x : x \in Range(parked') => x \in Range(parked)
  <2>1. parked' = ParkedLeft(parked, front, MaxSize)
    BY <1>1 DEF HoldAtMost, ParkedLeft
  <2> QED  BY <1>3, <1>6, <2>1, MaxSizeIsNat, RoomAddsNothing
<1> HIDE DEF gone
<1>11. /\ \A x \in Records : x \in gone => fate'[x] # "none"
       /\ \A x \in Records : x \notin gone => fate'[x] = fate[x]
       /\ \A x \in Records : fate'[x] # "none" /\ kind'[x] = "overflow" => x \in settled'
  <2> DEFINE how == All(gone, "evicted")
  <2>1. Leave(how) /\ DOMAIN how = gone /\ \A x \in Records : x \in DOMAIN how => how[x] # "none"
    BY <1>1 DEF All
  <2> HIDE DEF how
  <2>2. \A x \in Records : kind'[x] = kind[x] \/ (fate[x] = "none" /\ x \notin DOMAIN how)
    BY <1>1
  <2> QED  BY <2>1, <2>2, LeaveFacts
<1>12. /\ \A x : OnLine(x)' <=> (OnLine(x) \/ HandedBack(x, f)) /\ x \notin gone
       /\ \A x \in gone : OnLine(x) \/ HandedBack(x, f)
  BY <1>4, <1>6, <1>8 DEF OnLine
<1>13. /\ \A x : ~HandedBack(x, f)'
       /\ \A g \in Flushers : g # f => \A x : HandedBack(x, g)' <=> HandedBack(x, g)
  BY <1>2, NoElement DEF HandedBack
<1>14. EachRecordInOnePlace'
  <2>1. 0 \notin BuildIds /\ \A x : x \notin OfBuild(0) /\ ~(x \in OfBuild(0)')
    BY BuildFacts DEF OfBuild
  <2>2. \A x \in Records : Here(x, f, 0)' <=> Here(x, f, 0) /\ x \notin gone
    BY <1>12, <1>13, <2>1 DEF Here
  <2>3. \A x \in Records : /\ ~(OnLine(x)' /\ x \in OfBuild(0)')
                           /\ ~(OnLine(x)' /\ HandedBack(x, f)')
                           /\ ~(x \in OfBuild(0)' /\ HandedBack(x, f)')
    BY <1>13, <2>1
  <2>4. \A x \in gone : x \in Records => Here(x, f, 0)
    BY <1>12 DEF Here
  <2>5. IsInjective(back'[f]) /\ (0 \in BuildIds => IsInjective(Unfinished(builds'[0])))
    BY <1>2, <2>1, NoElement
  <2>6. /\ \A g \in Flushers : g # f => back'[g] = back[g]
        /\ \A c \in BuildIds : c # 0 => Unfinished(builds'[c]) = Unfinished(builds[c])
        /\ \A x \in Records : kind'[x] # "none" <=> kind[x] # "none"
    BY <1>1, <1>2
  <2> DEFINE b == 0
  <2> HIDE DEF b
  <2>7. /\ b \in BuildIds => IsInjective(Unfinished(builds'[b]))
        /\ \A c \in BuildIds : c # b => Unfinished(builds'[c]) = Unfinished(builds[c])
        /\ \A x \in Records : Here(x, f, b)' <=> Here(x, f, b) /\ x \notin gone
        /\ \A x \in Records : /\ ~(OnLine(x)' /\ x \in OfBuild(b)')
                              /\ ~(OnLine(x)' /\ HandedBack(x, f)')
                              /\ ~(x \in OfBuild(b)' /\ HandedBack(x, f)')
        /\ \A x \in gone : x \in Records => Here(x, f, b)
    BY <2>2, <2>3, <2>4, <2>5, <2>6 DEF b
  <2> QED  BY <1>8, <1>11, <2>5, <2>6, <2>7, PlacesShifted
<1>15. KindsFit'
  <2>1. \A x \in Records : \A c \in BuildIds : InBuildOf(x, c)' => kind'[x] = "overflow"
    BY <1>1 DEF KindsFit, InBuildOf
  <2>2. \A x \in Records : \A g \in Flushers : HandedBack(x, g)' => kind'[x] = "overflow"
    BY <1>1, <1>13 DEF KindsFit
  <2>3. \A x \in Records : x \in Range(batch') \/ x \in Range(parked') => kind'[x] \in {"ai", "tool"}
    BY <1>1, <1>10 DEF KindsFit
  <2>4. \A x \in Records : kind'[x] = "none" => fate'[x] = "none"
    <3>1. \A x \in Records : Here(x, f, 0) => kind[x] # "none"
      BY HereOnce
    <3> QED  BY <1>1, <1>11, <1>12, <3>1 DEF KindsFit, Here
  <2> QED  BY <2>1, <2>2, <2>3, <2>4, KindsFollow
<1>16. OrderKept
  <2>1. ASSUME NEW x \in Records, NEW y \in Records, Ahead(x, y), Ahead(y, x)' PROVE Before(Line, y, x)
    <3>1. OnLine(x) /\ OnLine(y)
      BY <2>1, OnLineFacts DEF Ahead
    <3>2. Before(all, y, x)
      BY <1>8, <2>1 DEF Ahead
    <3>3. Before(batch \o (parked \o events), y, x)
      BY <1>4, <1>5, <1>6, <3>1, <3>2
    <3> QED  BY <3>3 DEF Line, Queue
  <2> QED  BY <2>1, OrderFollows DEF EachRecordInOnePlace
<1> QED  BY <1>14, <1>15, <1>16

\* Every record met at the front is replayed, parked, built or expired.
LEMMA VisitFacts ==
    ASSUME TypeOK, NEW r \in Records
    PROVE  /\ Visit(r) \in {"replay", "park", "build", "expire"}
           /\ Visit(r) = "build" => kind[r] = "overflow"
           /\ Visit(r) = "park" => kind[r] # "overflow" /\ kind[r] \in unreachable
           /\ Visit(r) = "replay" => kind[r] # "overflow" /\ kind[r] \notin unreachable
BY DEF Visit

\* The line once a batch is taken.
LEMMA TakenLine ==
    ASSUME TypeOK, IsInjective(Line), batch = <<>>, NEW n \in 0 .. Len(events),
           \A r \in Range(parked) : kind[r] \in unreachable
    PROVE  LET first == SubSeq(events, 1, n)
               rest == Drop(events, n)
               replay == Visited(n, "replay")
               park == Visited(n, "park")
               line == replay \o ((parked \o park) \o rest)
           IN  /\ IsInjective(line)
               /\ \A x : x \in Range(line) <=>
                      x \in Range(replay) \/ x \in Range(parked) \/ x \in Range(park) \/ x \in Range(rest)
               /\ \A x, y : Before(line, x, y) => Before(Line, x, y) \/ kind[x] # kind[y]
               /\ \A x : OnLine(x) <=> x \in Range(parked) \/ x \in Range(first) \/ x \in Range(rest)
               /\ \A x : x \in Range(first) => x \notin Range(rest) /\ x \notin Range(parked)
               /\ IsInjective(Visited(n, "build"))
               /\ \A x : x \in Range(parked \o park) <=> x \in Range(parked) \/ x \in Range(park)
<1> DEFINE first == SubSeq(events, 1, n)
           rest == Drop(events, n)
           replay == Visited(n, "replay")
           park == Visited(n, "park")
           built == Visited(n, "build")
           aside == parked \o park
           line == replay \o (aside \o rest)
<1>1. parked \in Seq(Records) /\ events \in Seq(Records) /\ Line \in Seq(Records)
  BY LineIsSeq
<1>2. first \in Seq(Records) /\ rest \in Seq(Records)
  BY <1>1, DropFacts
<1>3. \A x, y : /\ x \in Range(events) <=> x \in Range(first) \/ x \in Range(rest)
                /\ Before(events, x, y) <=> \/ Before(first, x, y) \/ Before(rest, x, y)
                                            \/ x \in Range(first) /\ y \in Range(rest)
  BY <1>1, PartsFacts
<1>4. /\ replay \in Seq(Records)
      /\ \A x : x \in Range(replay) <=> x \in Range(first) /\ x \in Records /\ Visit(x) = "replay"
      /\ \A x, y : Before(replay, x, y) => Before(first, x, y)
  BY VisitedFacts
<1>5. /\ park \in Seq(Records)
      /\ \A x : x \in Range(park) <=> x \in Range(first) /\ x \in Records /\ Visit(x) = "park"
      /\ \A x, y : Before(park, x, y) => Before(first, x, y)
  BY VisitedFacts
<1>6. /\ built \in Seq(Records)
      /\ \A x, y : Before(built, x, y) => Before(first, x, y)
  BY VisitedFacts
<1>7. aside \in Seq(Records) /\ Range(aside) = Range(parked) \cup Range(park)
  BY <1>1, <1>5, RangeConcatenation
<1>8. \A x, y : Before(aside, x, y) <=>
          Before(parked, x, y) \/ Before(park, x, y) \/ (x \in Range(parked) /\ y \in Range(park))
  BY <1>1, <1>5, BeforeConcat
<1>9. /\ \A x : x \in Range(Line) <=> x \in Range(parked) \/ x \in Range(events)
      /\ \A x, y : Before(Line, x, y) <=>
             \/ Before(parked, x, y) \/ Before(events, x, y)
             \/ x \in Range(parked) /\ y \in Range(events)
  <2> DEFINE queue == parked \o events
  <2>1. queue \in Seq(Records) /\ Range(queue) = Range(parked) \cup Range(events)
    BY <1>1, RangeConcatenation
  <2>2. \A x, y : Before(queue, x, y) <=>
            Before(parked, x, y) \/ Before(events, x, y) \/ (x \in Range(parked) /\ y \in Range(events))
    BY <1>1, BeforeConcat
  <2>3. Line = <<>> \o queue
    BY DEF Line, Queue
  <2> HIDE DEF queue
  <2>4. Line = queue
    BY <2>1, <2>3, ConcatEmptySeq
  <2> QED  BY <2>1, <2>2, <2>4
<1> HIDE DEF first, rest, replay, park, built, aside
<1>10. /\ line \in Seq(Records)
       /\ \A x : x \in Range(line) <=> x \in Range(replay) \/ x \in Range(aside) \/ x \in Range(rest)
       /\ \A x, y : Before(line, x, y) <=>
              \/ Before(replay, x, y) \/ Before(aside, x, y) \/ Before(rest, x, y)
              \/ x \in Range(replay) /\ (y \in Range(aside) \/ y \in Range(rest))
              \/ x \in Range(aside) /\ y \in Range(rest)
       /\ IsInjective(line) <=> \A x : ~Before(line, x, x)
  BY <1>2, <1>4, <1>7, ThreeFacts
<1> HIDE DEF line
<1>11. \A x, y : Before(first, x, y) \/ Before(rest, x, y) \/ Before(parked, x, y) => Before(Line, x, y)
  BY <1>3, <1>9
<1>12. \A x, y : x \in Range(first) /\ y \in Range(rest) => Before(Line, x, y)
  BY <1>3, <1>9
<1>13. \A x, y : x \in Range(parked) /\ (y \in Range(first) \/ y \in Range(rest)) => Before(Line, x, y)
  BY <1>3, <1>9
<1>14. \A x, y : x \in Range(replay) /\ y \in Range(aside) => kind[x] # kind[y]
  <2>1. \A x : x \in Range(replay) => kind[x] \notin unreachable
    BY <1>4, VisitFacts
  <2>2. \A y : y \in Range(aside) => kind[y] \in unreachable
    BY <1>5, <1>7, VisitFacts
  <2> QED  BY <2>1, <2>2
<1>15. \A x, y : Before(aside, x, y) => Before(Line, x, y)
  BY <1>5, <1>8, <1>11, <1>13
<1>16. \A x, y : Before(line, x, y) => Before(Line, x, y) \/ kind[x] # kind[y]
  BY <1>4, <1>5, <1>7, <1>10, <1>11, <1>12, <1>13, <1>14, <1>15
<1>17. \A x : ~Before(Line, x, x)
  BY <1>1, InjectiveIsBefore
<1>18. IsInjective(line)
  BY <1>10, <1>16, <1>17
<1>19. \A x : x \in Range(first) => x \notin Range(rest) /\ x \notin Range(parked)
  BY <1>12, <1>13, <1>17
<1>20. IsInjective(built)
  BY <1>6, <1>11, <1>17, InjectiveIsBefore
<1>21. \A x : OnLine(x) <=> x \in Range(parked) \/ x \in Range(first) \/ x \in Range(rest)
  BY <1>3, <1>9 DEF OnLine
<1> QED  BY <1>7, <1>10, <1>16, <1>18, <1>19, <1>20, <1>21 DEF first, rest, replay, park, built, aside, line

LEMMA TakeBatchKeeps ==
    ASSUME TypeOK, Control, KindsFit, ParkedFits, EachRecordInOnePlace, NEW f \in Flushers, TakeBatch(f)
    PROVE  EachRecordInOnePlace' /\ KindsFit' /\ OrderKept
<1>0. PICK n \in 0 .. Len(events) : TakesUpTo(f, n)
  BY TakeBatchEffect
<1>1. pc[f] = "take" /\ MayReplayMore(f) /\ kind' = kind
  BY TakeBatchEffect DEF TakeBatch
<1>2. PICK b \in BuildIds : b = mine[f]
  BY <1>1, OwnBuild DEF Owning
<1>3. builds[b].current = <<>>
  BY <1>1, <1>2, OwnBuild DEF Owning
<1>4. batch = <<>> /\ \A r \in Range(parked) : kind[r] \in unreachable
  <2>1. batch = <<>>
    BY <1>1 DEF Control, LockFits, BatchFits
  <2>2. f \notin late
    BY <1>1 DEF MayReplayMore, Control, CountsFit
  <2>3. Range(parked) \subseteq Records
    BY LineIsSeq, RangeFacts
  <2> QED  BY <1>1, <2>1, <2>2, <2>3 DEF ParkedFits
<1> DEFINE first == SubSeq(events, 1, n)
           rest == Drop(events, n)
           replay == Visited(n, "replay")
           park == Visited(n, "park")
           built == Visited(n, "build")
           gone == Range(Visited(n, "expire"))
           tasks == builds[b].tasks
           aside == parked \o park
           build == [builds[b] EXCEPT !.tasks = tasks \o built]
<1>5. /\ batch' = replay /\ parked' = aside /\ events' = rest
      /\ back' = [g \in Flushers |-> IF g = f THEN back[f] ELSE back[g]]
      /\ Became(b, build) /\ Leave(All(gone, "expired"))
  BY <1>0, <1>2 DEF TakesUpTo, Moved
<1>6. IsInjective(Line)
  BY DEF EachRecordInOnePlace
<1>7. /\ IsInjective(Line')
      /\ \A x : OnLine(x)' <=>
             x \in Range(replay) \/ x \in Range(parked) \/ x \in Range(park) \/ x \in Range(rest)
      /\ \A x, y : Before(Line', x, y) => Before(Line, x, y) \/ kind[x] # kind[y]
      /\ \A x : OnLine(x) <=> x \in Range(parked) \/ x \in Range(first) \/ x \in Range(rest)
      /\ \A x : x \in Range(first) => x \notin Range(rest) /\ x \notin Range(parked)
      /\ IsInjective(built)
      /\ \A x : x \in Range(aside) <=> x \in Range(parked) \/ x \in Range(park)
  <2>1. Line' = replay \o ((parked \o park) \o rest)
    BY <1>5 DEF Line, Queue
  <2> DEFINE line == replay \o ((parked \o park) \o rest)
  <2>2. /\ IsInjective(line)
        /\ \A x : x \in Range(line) <=>
               x \in Range(replay) \/ x \in Range(parked) \/ x \in Range(park) \/ x \in Range(rest)
        /\ \A x, y : Before(line, x, y) => Before(Line, x, y) \/ kind[x] # kind[y]
        /\ \A x : OnLine(x) <=> x \in Range(parked) \/ x \in Range(first) \/ x \in Range(rest)
        /\ \A x : x \in Range(first) => x \notin Range(rest) /\ x \notin Range(parked)
        /\ IsInjective(built)
        /\ \A x : x \in Range(aside) <=> x \in Range(parked) \/ x \in Range(park)
    BY <1>4, <1>6, TakenLine
  <2> HIDE DEF line, first, rest, replay, park, built, aside
  <2>3. Line' = line
    BY <2>1 DEF line
  <2> QED  BY <2>2, <2>3 DEF OnLine
<1>8. /\ \A x : x \in Range(replay) <=> x \in Range(first) /\ x \in Records /\ Visit(x) = "replay"
      /\ \A x : x \in Range(park) <=> x \in Range(first) /\ x \in Records /\ Visit(x) = "park"
      /\ \A x : x \in Range(built) <=> x \in Range(first) /\ x \in Records /\ Visit(x) = "build"
      /\ \A x : x \in gone <=> x \in Range(first) /\ x \in Records /\ Visit(x) = "expire"
      /\ built \in Seq(Records)
  BY VisitedFacts
<1>9. /\ Unfinished(builds[b]) = tasks /\ builds[b].built = FALSE
      /\ tasks \in Seq(Records) /\ IsInjective(tasks)
  BY <1>3, TasksAreLeft
<1>10. /\ tasks \o built \in Seq(Records) /\ Range(tasks \o built) = Range(tasks) \cup Range(built)
  <2> HIDE DEF tasks, built
  <2> QED  BY <1>8, <1>9, RangeConcatenation
<1>11. Unfinished(build) = tasks \o built
  <2> DEFINE both == tasks \o built
             with == [builds[b] EXCEPT !.tasks = both]
  <2>1. builds[b] \in BuildType
    BY BuildFacts
  <2> HIDE DEF tasks, both
  <2>2. with.built = FALSE /\ with.current = <<>> /\ with.tasks = both
    BY <1>3, <1>9, <2>1 DEF BuildType
  <2>3. both \in Seq(Records)
    BY <1>10 DEF both
  <2> HIDE DEF with
  <2>4. Unfinished(with) = <<>> \o both
    BY <2>2 DEF Unfinished
  <2>5. Unfinished(with) = both
    BY <2>3, <2>4, ConcatEmptySeq
  <2> QED  BY <2>5 DEF with, both
<1> HIDE DEF first, rest, replay, park, built, gone, aside, tasks, build
<1>12. \A x \in Records : /\ ~(OnLine(x) /\ x \in OfBuild(b)) /\ ~(OnLine(x) /\ HandedBack(x, f))
                          /\ ~(x \in OfBuild(b) /\ HandedBack(x, f))
                          /\ OnLine(x) => kind[x] # "none"
  BY HereOnce DEF Here
<1>13. /\ \A c \in BuildIds : c # b => Unfinished(builds'[c]) = Unfinished(builds[c])
       /\ Unfinished(builds'[b]) = tasks \o built
       /\ \A x : x \in OfBuild(b)' <=> x \in Range(tasks) \/ x \in Range(built)
       /\ \A x : x \in OfBuild(b) <=> x \in Range(tasks)
       /\ \A c \in BuildIds : c # b => \A x : InBuildOf(x, c)' <=> InBuildOf(x, c)
       /\ \A x : InBuildOf(x, b)' <=> x \in Range(tasks) \/ x \in Range(built)
       /\ \A x : InBuildOf(x, b) <=> x \in Range(tasks)
  <2>1. /\ \A c \in BuildIds : c # b => Unfinished(builds'[c]) = Unfinished(builds[c])
        /\ Unfinished(builds'[b]) = Unfinished(build)
        /\ \A x : x \in OfBuild(b)' <=> x \in Range(Unfinished(build))
        /\ \A x : x \in OfBuild(b) <=> x \in Range(Unfinished(builds[b]))
        /\ \A c \in BuildIds : c # b => \A x : InBuildOf(x, c)' <=> InBuildOf(x, c)
        /\ \A x : InBuildOf(x, b)' <=> x \in Range(Unfinished(build))
    BY <1>5, OneBuild
  <2> QED  BY <1>9, <1>10, <1>11, <2>1 DEF InBuildOf
<1>14. \A x : \A g \in Flushers : HandedBack(x, g)' <=> HandedBack(x, g)
  BY <1>5 DEF HandedBack
<1>15. \A x \in Records : Visit(x) \in {"replay", "park", "build", "expire"}
  BY VisitFacts
<1>16. /\ \A x \in Records : x \in gone => fate'[x] # "none"
       /\ \A x \in Records : x \notin gone => fate'[x] = fate[x]
       /\ \A x \in Records : fate'[x] # "none" /\ kind'[x] = "overflow" => x \in settled'
  <2> DEFINE how == All(gone, "expired")
  <2>1. Leave(how) /\ DOMAIN how = gone /\ \A x \in Records : x \in DOMAIN how => how[x] # "none"
    BY <1>5 DEF All
  <2> HIDE DEF how
  <2>2. \A x \in Records : kind'[x] = kind[x] \/ (fate[x] = "none" /\ x \notin DOMAIN how)
    BY <1>1
  <2> QED  BY <2>1, <2>2, LeaveFacts
<1>17. EachRecordInOnePlace'
  <2>1. \A x \in Records : Here(x, f, b)' <=> Here(x, f, b) /\ x \notin gone
    BY <1>7, <1>8, <1>12, <1>13, <1>14, <1>15 DEF Here
  <2>2. \A x \in Records : /\ ~(OnLine(x)' /\ x \in OfBuild(b)')
                           /\ ~(OnLine(x)' /\ HandedBack(x, f)')
                           /\ ~(x \in OfBuild(b)' /\ HandedBack(x, f)')
    BY <1>7, <1>8, <1>12, <1>13, <1>14
  <2>3. \A x \in gone : x \in Records => Here(x, f, b)
    BY <1>7, <1>8 DEF Here
  <2>4. IsInjective(Unfinished(builds'[b]))
    <3>1. \A x : ~(x \in Range(tasks) /\ x \in Range(built))
      BY <1>7, <1>8, <1>12, <1>13
    <3>2. IsInjective(tasks \o built)
      BY <1>7, <1>8, <1>9, <3>1, InjectiveConcat
    <3> QED  BY <1>13, <3>2
  <2>5. IsInjective(back'[f]) /\ \A g \in Flushers : g # f => back'[g] = back[g]
    BY <1>5 DEF EachRecordInOnePlace
  <2>6. \A x \in Records : kind'[x] # "none" <=> kind[x] # "none"
    BY <1>1
  <2> QED  BY <1>7, <1>13, <1>16, <2>1, <2>2, <2>3, <2>4, <2>5, <2>6, PlacesShifted
<1>18. KindsFit'
  <2>1. \A x \in Records : \A c \in BuildIds : InBuildOf(x, c)' => kind'[x] = "overflow"
    <3>1. \A x \in Records : x \in Range(built) => kind[x] = "overflow"
      BY <1>8, VisitFacts
    <3> QED  BY <1>1, <1>13, <3>1 DEF KindsFit
  <2>2. \A x \in Records : \A g \in Flushers : HandedBack(x, g)' => kind'[x] = "overflow"
    BY <1>1, <1>14 DEF KindsFit
  <2>3. \A x \in Records : x \in Range(batch') \/ x \in Range(parked') => kind'[x] \in {"ai", "tool"}
    <3>1. \A x \in Records : x \in Range(replay) \/ x \in Range(park) => kind[x] # "overflow" /\ kind[x] # "none"
      BY <1>7, <1>8, <1>12, VisitFacts
    <3>2. \A x \in Records : kind[x] \in {"none", "ai", "tool", "overflow"}
      BY TypeParts DEF RecordTypes
    <3> QED  BY <1>1, <1>5, <1>7, <3>1, <3>2 DEF KindsFit
  <2>4. \A x \in Records : kind'[x] = "none" => fate'[x] = "none"
    BY <1>1, <1>7, <1>8, <1>12, <1>16 DEF KindsFit
  <2> QED  BY <2>1, <2>2, <2>3, <2>4, KindsFollow
<1>19. OrderKept
  <2>1. \A x, y \in Records : Ahead(x, y) /\ Ahead(y, x)' => Before(Line, y, x)
    BY <1>1, <1>7 DEF Ahead
  <2> QED  BY <1>6, <2>1, OrderFollows
<1> QED  BY <1>17, <1>18, <1>19

\* The line once the records to keep of the batch are parked, before room is made.
LEMMA SettledLine ==
    ASSUME TypeOK, IsInjective(Line), NEW S,
           \A r \in Range(batch) : kind[r] \notin unreachable,
           \A r \in Range(parked) : kind[r] \in unreachable
    PROVE  LET line == parked \o Only(batch, S)
               all == <<>> \o (line \o events)
           IN  /\ line \in Seq(Records) /\ IsInjective(all)
               /\ \A x : x \in Range(line) <=> x \in Range(parked) \/ (x \in Range(batch) /\ x \in S)
               /\ \A x : x \in Range(all) <=> x \in Range(line) \/ x \in Range(events)
               /\ \A x, y : Before(all, x, y) => Before(Line, x, y) \/ kind[x] # kind[y]
               /\ \A x : x \in Range(batch) => x \notin Range(parked) /\ x \notin Range(events)
<1> DEFINE kept == Only(batch, S)
           line == parked \o kept
           queue == line \o events
           all == <<>> \o queue
<1>1. batch \in Seq(Records) /\ parked \in Seq(Records) /\ events \in Seq(Records) /\ Line \in Seq(Records)
  BY LineIsSeq
<1>2. /\ kept \in Seq(Records)
      /\ \A x : x \in Range(kept) <=> x \in Range(batch) /\ x \in S
      /\ \A x, y : Before(kept, x, y) => Before(batch, x, y)
  BY <1>1, OnlyFacts
<1>3. line \in Seq(Records) /\ Range(line) = Range(parked) \cup Range(kept)
  BY <1>1, <1>2, RangeConcatenation
<1>4. \A x, y : Before(line, x, y) <=>
          Before(parked, x, y) \/ Before(kept, x, y) \/ (x \in Range(parked) /\ y \in Range(kept))
  BY <1>1, <1>2, BeforeConcat
<1> HIDE DEF kept, line
<1>5. queue \in Seq(Records) /\ Range(queue) = Range(line) \cup Range(events)
  BY <1>1, <1>3, RangeConcatenation
<1>6. \A x, y : Before(queue, x, y) <=>
          Before(line, x, y) \/ Before(events, x, y) \/ (x \in Range(line) /\ y \in Range(events))
  BY <1>1, <1>3, BeforeConcat
<1> HIDE DEF queue
<1>7. all = queue
  BY <1>5, ConcatEmptySeq
<1> HIDE DEF all
<1>8. \A x, y : Before(Line, x, y) <=>
          \/ Before(batch, x, y) \/ Before(parked, x, y) \/ Before(events, x, y)
          \/ x \in Range(batch) /\ (y \in Range(parked) \/ y \in Range(events))
          \/ x \in Range(parked) /\ y \in Range(events)
  BY <1>1, ThreeFacts DEF Line, Queue
<1>9. \A x : ~Before(Line, x, x)
  BY <1>1, InjectiveIsBefore
<1>10. \A x, y : x \in Range(parked) /\ y \in Range(kept) => kind[x] # kind[y]
  BY <1>2
<1>11. \A x, y : Before(all, x, y) => Before(Line, x, y) \/ kind[x] # kind[y]
  BY <1>2, <1>3, <1>4, <1>6, <1>7, <1>8, <1>10
<1>12. IsInjective(all)
  BY <1>5, <1>7, <1>9, <1>11, InjectiveIsBefore
<1>13. \A x : x \in Range(batch) => x \notin Range(parked) /\ x \notin Range(events)
  BY <1>8, <1>9
<1>14. /\ \A x : x \in Range(line) <=> x \in Range(parked) \/ (x \in Range(batch) /\ x \in S)
       /\ \A x : x \in Range(all) <=> x \in Range(line) \/ x \in Range(events)
  BY <1>2, <1>3, <1>5, <1>7
<1> QED  BY <1>3, <1>11, <1>12, <1>13, <1>14 DEF kept, line, queue, all

LEMMA SettleReplaysKeeps ==
    ASSUME TypeOK, Control, KindsFit, ParkedFits, EachRecordInOnePlace, NEW f \in Flushers, SettleReplays(f)
    PROVE  EachRecordInOnePlace' /\ KindsFit' /\ OrderKept
<1>0. PICK outcome \in [Range(batch) -> ReplayOutcomes(f)] : Settles(f, outcome)
  BY SettleReplaysEffect
<1>1. pc[f] = "send" /\ batch' = <<>> /\ UNCHANGED <<kind, builds, back>>
  BY DEF SettleReplays, buildVars
<1> DEFINE S == EndedAs(outcome, "retry") \cup EndedAs(outcome, "untried")
           line == LineAfter(outcome)
           out == GoneAfter(outcome)
           gone == EndedAs(outcome, "sent") \cup EndedAs(outcome, "discarded") \cup out
           how == [r \in gone |-> IF r \in out THEN "evicted" ELSE outcome[r]]
           all == <<>> \o (line \o events)
<1>2. HoldAtMost(line, events, MaxSize) /\ Leave(how) /\ out = Evicted(line, events, MaxSize)
  BY <1>0 DEF Settles, GoneAfter
<1>3. \A x \in Range(batch) : outcome[x] \in {"sent", "discarded", "retry", "untried"}
  BY <1>0 DEF ReplayOutcomes
<1>4. /\ \A x : x \in gone <=> \/ x \in Range(batch) /\ outcome[x] \in {"sent", "discarded"}
                               \/ x \in out
      /\ \A x : x \in S <=> x \in Range(batch) /\ outcome[x] \in {"retry", "untried"}
  BY DEF EndedAs
<1>5. DOMAIN how = gone /\ \A x \in gone : how[x] # "none"
  <2> HIDE DEF gone, out
  <2> QED  BY <1>3, <1>4
<1>6. Range(batch) \subseteq Records /\ Range(parked) \subseteq Records
  BY LineIsSeq, RangeFacts
<1>7. /\ \A r \in Range(batch) : kind[r] \notin unreachable
      /\ \A r \in Range(parked) : kind[r] \in unreachable
  BY <1>1, <1>6 DEF ParkedFits
<1>8. line = parked \o Only(batch, S)
  BY DEF LineAfter
<1>9. IsInjective(Line)
  BY DEF EachRecordInOnePlace
<1> HIDE DEF S, line, out, gone, how
<1>10. /\ line \in Seq(Records) /\ IsInjective(all)
       /\ \A x : x \in Range(line) <=> x \in Range(parked) \/ (x \in Range(batch) /\ x \in S)
       /\ \A x : x \in Range(all) <=> x \in Range(line) \/ x \in Range(events)
       /\ \A x, y : Before(all, x, y) => Before(Line, x, y) \/ kind[x] # kind[y]
       /\ \A x : x \in Range(batch) => x \notin Range(parked) /\ x \notin Range(events)
  BY <1>7, <1>8, <1>9, SettledLine
<1>11. /\ IsInjective(Line')
       /\ \A x : x \in Range(all) <=> x \in out \/ x \in Range(Line')
       /\ \A x : ~(x \in out /\ x \in Range(Line'))
       /\ \A x, y : Before(Line', x, y) => Before(all, x, y)
  <2> DEFINE left == <<>> \o (ParkedLeft(line, events, MaxSize) \o EventsLeft(line, events, MaxSize))
  <2>1. IsInjective(<<>> \o (line \o events)) /\ MaxSize \in Nat /\ <<>> \in Seq(Records) /\ events \in Seq(Records)
    BY <1>10, MaxSizeIsNat, LineIsSeq
  <2>2. /\ IsInjective(left)
        /\ \A x : x \in Range(<<>> \o (line \o events)) <=> x \in Evicted(line, events, MaxSize) \/ x \in Range(left)
        /\ \A x : ~(x \in Evicted(line, events, MaxSize) /\ x \in Range(left))
        /\ \A x, y : Before(left, x, y) => Before(<<>> \o (line \o events), x, y)
    BY <1>10, <2>1, RoomOnLine
  <2>3. Line' = left
    BY <1>1, <1>2 DEF Line, Queue, HoldAtMost, ParkedLeft, EventsLeft
  <2> QED  BY <1>2, <2>2, <2>3
<1>12. \A x : x \in Range(parked') => x \in Range(line)
  <2>1. parked' = ParkedLeft(line, events, MaxSize)
    BY <1>2 DEF HoldAtMost, ParkedLeft
  <2> QED  BY <1>10, <2>1, LineIsSeq, MaxSizeIsNat, RoomAddsNothing
<1> HIDE DEF all
<1>13. /\ \A x : OnLine(x)' <=> OnLine(x) /\ x \notin gone
       /\ \A x : x \in gone => OnLine(x)
  <2>1. \A x : OnLine(x) <=> x \in Range(batch) \/ x \in Range(parked) \/ x \in Range(events)
    BY OnLineFacts
  <2>2. \A x : OnLine(x)' <=> x \in Range(all) /\ x \notin out
    BY <1>11 DEF OnLine
  <2> QED  BY <1>3, <1>4, <1>10, <1>11, <2>1, <2>2
<1>14. /\ \A x \in Records : x \in gone => fate'[x] # "none"
       /\ \A x \in Records : x \notin gone => fate'[x] = fate[x]
       /\ \A x \in Records : fate'[x] # "none" /\ kind'[x] = "overflow" => x \in settled'
  <2>1. \A x \in Records : kind'[x] = kind[x] \/ (fate[x] = "none" /\ x \notin DOMAIN how)
    BY <1>1
  <2> QED  BY <1>2, <1>5, <2>1, LeaveFacts
<1>15. /\ \A c \in BuildIds : \A x : InBuildOf(x, c)' <=> InBuildOf(x, c)
       /\ \A g \in Flushers : \A x : HandedBack(x, g)' <=> HandedBack(x, g)
  BY <1>1 DEF InBuildOf, HandedBack
<1>16. EachRecordInOnePlace'
  <2> DEFINE b == 0
  <2>1. b \notin BuildIds
    BY BuildFacts
  <2> HIDE DEF b
  <2>2. \A x : x \notin OfBuild(b) /\ ~(x \in OfBuild(b)')
    BY <2>1 DEF OfBuild
  <2>3. \A x \in Records : ~(OnLine(x) /\ HandedBack(x, f))
    BY HereOnce
  <2>4. \A x \in Records : Here(x, f, b)' <=> Here(x, f, b) /\ x \notin gone
    BY <1>13, <1>15, <2>2, <2>3 DEF Here
  <2>5. \A x \in Records : /\ ~(OnLine(x)' /\ x \in OfBuild(b)')
                           /\ ~(OnLine(x)' /\ HandedBack(x, f)')
                           /\ ~(x \in OfBuild(b)' /\ HandedBack(x, f)')
    BY <1>13, <1>15, <2>2, <2>3
  <2>6. \A x \in gone : x \in Records => Here(x, f, b)
    BY <1>13 DEF Here
  <2>7. /\ \A c \in BuildIds : c # b => Unfinished(builds'[c]) = Unfinished(builds[c])
        /\ \A g \in Flushers : g # f => back'[g] = back[g]
        /\ \A x \in Records : kind'[x] # "none" <=> kind[x] # "none"
    BY <1>1
  <2>8. IsInjective(back'[f]) /\ (b \in BuildIds => IsInjective(Unfinished(builds'[b])))
    BY <1>1, <2>1 DEF EachRecordInOnePlace
  <2> QED  BY <1>11, <1>14, <2>4, <2>5, <2>6, <2>7, <2>8, PlacesShifted
<1>17. KindsFit'
  <2>1. \A x \in Records : \A c \in BuildIds : InBuildOf(x, c)' => kind'[x] = "overflow"
    BY <1>1, <1>15 DEF KindsFit
  <2>2. \A x \in Records : \A g \in Flushers : HandedBack(x, g)' => kind'[x] = "overflow"
    BY <1>1, <1>15 DEF KindsFit
  <2>3. \A x \in Records : x \in Range(batch') \/ x \in Range(parked') => kind'[x] \in {"ai", "tool"}
    BY <1>1, <1>10, <1>12, NoElement DEF KindsFit
  <2>4. \A x \in Records : kind'[x] = "none" => fate'[x] = "none"
    BY <1>1, <1>13, <1>14, ElsewhereNot DEF HeldRecords, KindsFit
  <2> QED  BY <2>1, <2>2, <2>3, <2>4, KindsFollow
<1>18. OrderKept
  <2>1. \A x, y \in Records : Ahead(x, y) /\ Ahead(y, x)' => Before(Line, y, x)
    BY <1>1, <1>10, <1>11 DEF Ahead
  <2> QED  BY <1>9, <2>1, OrderFollows
<1> QED  BY <1>16, <1>17, <1>18

LEMMA BuildAllOverflowKeeps ==
    ASSUME TypeOK, Control, KindsFit, EachRecordInOnePlace, NEW f \in Flushers, BuildAllOverflow(f)
    PROVE  EachRecordInOnePlace' /\ KindsFit' /\ OrderKept
<1>0. PICK b \in BuildIds : b = NewBuild
  BY BuildAllOverflowEffect, BuildFacts
<1>1. /\ b \notin Active /\ builds[b] = NoBuild
      /\ \A c \in Active : builds'[c] = Reclaimed(builds[c])
      /\ \A c \in BuildIds \ Active : c # b => builds'[c] = builds[c]
  BY <1>0, BuildAllOverflowEffect, BuildFacts
<1>2. PICK order \in Bijection(1 .. Cardinality(Active), Active) :
          builds'[b] = [NoBuild EXCEPT !.tasks = TasksOf(order) \o Only(events, Overflow), !.mode = "held"]
  BY <1>0, BuildAllOverflowEffect
<1> DEFINE taken == TasksOf(order)
           waiting == Only(events, Overflow)
           rest == Only(events, Records \ Overflow)
<1>3. UNCHANGED <<kind, fate, settled, batch, parked, back>> /\ events' = rest
  BY DEF BuildAllOverflow, recordVars, replayVars
<1>4. batch \in Seq(Records) /\ parked \in Seq(Records) /\ events \in Seq(Records)
  BY LineIsSeq
<1>5. IsInjective(batch \o (parked \o events))
  BY DEF EachRecordInOnePlace, Line, Queue
<1>6. /\ rest \in Seq(Records) /\ IsInjective(batch \o (parked \o rest))
      /\ \A x : x \in Range(batch \o (parked \o rest)) <=>
             x \in Range(batch) \/ x \in Range(parked) \/ (x \in Range(events) /\ x \in Records \ Overflow)
      /\ \A x, y : Before(batch \o (parked \o rest), x, y) => Before(batch \o (parked \o events), x, y)
      /\ \A x : x \in Range(events) => x \notin Range(batch) /\ x \notin Range(parked)
      /\ IsInjective(events)
  BY <1>4, <1>5, LineThinned
<1>7. /\ waiting \in Seq(Records) /\ IsInjective(waiting)
      /\ \A x : x \in Range(waiting) <=> x \in Range(events) /\ x \in Overflow
  BY <1>4, <1>6, OnlyFacts, OnlyInjective
<1>8. \A c \in BuildIds :
          /\ builds[c].tasks \in Seq(Records) /\ IsInjective(builds[c].tasks)
          /\ IsInjective(Unfinished(Reclaimed(builds[c])))
          /\ \A x : InBuildOf(x, c) <=> x \in Range(builds[c].tasks) \/ x \in Range(Unfinished(Reclaimed(builds[c])))
          /\ \A x : ~(x \in Range(builds[c].tasks) /\ x \in Range(Unfinished(Reclaimed(builds[c]))))
  BY ReclaimedFacts DEF InBuildOf
<1>9. Active \subseteq BuildIds /\ IsFiniteSet(Active)
  BY BuildFacts, FS_Subset DEF Active
<1>10. \A x \in Records : /\ OnLine(x) => \A c \in BuildIds : ~InBuildOf(x, c)
                          /\ \A c, d \in BuildIds : InBuildOf(x, c) /\ InBuildOf(x, d) => c = d
                          /\ \A g \in Flushers : HandedBack(x, g) => ~OnLine(x) /\ \A c \in BuildIds : ~InBuildOf(x, c)
  BY ElsewhereNot
<1>11. /\ taken \in Seq(Records)
       /\ \A x : x \in Range(taken) <=> \E c \in Active : x \in Range(builds[c].tasks)
       /\ IsInjective(taken)
  <2>1. \A c \in Active : builds[c].tasks \in Seq(Records)
    BY <1>8, <1>9
  <2>2. /\ taken \in Seq(Records)
        /\ \A x : x \in Range(taken) <=> \E c \in Active : x \in Range(builds[c].tasks)
        /\ \A x : Before(taken, x, x) =>
               \/ \E c \in Active : Before(builds[c].tasks, x, x)
               \/ \E c, d \in Active :
                      c # d /\ x \in Range(builds[c].tasks) /\ x \in Range(builds[d].tasks)
    BY <1>9, <2>1, TasksOfFacts
  <2>3. \A x : \A c \in Active : ~Before(builds[c].tasks, x, x)
    BY <1>8, <1>9, InjectiveIsBefore
  <2>4. \A x : \A c, d \in Active : x \in Range(builds[c].tasks) /\ x \in Range(builds[d].tasks) => c = d
    <3>1. \A x : \A c \in Active : x \in Range(builds[c].tasks) => x \in Records
      BY <2>1, RangeFacts
    <3> QED  BY <1>8, <1>9, <1>10, <3>1
  <2> HIDE DEF taken
  <2> QED  BY <2>2, <2>3, <2>4, InjectiveIsBefore
<1> HIDE DEF taken, waiting, rest
<1>12. /\ taken \o waiting \in Seq(Records) /\ Range(taken \o waiting) = Range(taken) \cup Range(waiting)
       /\ IsInjective(taken \o waiting)
  <2>1. \A x : ~(x \in Range(taken) /\ x \in Range(waiting))
    <3>1. \A x : x \in Range(waiting) => x \in Records /\ OnLine(x)
      BY <1>4, <1>7, OnLineFacts
    <3>2. \A x : x \in Range(taken) => \E c \in BuildIds : InBuildOf(x, c)
      BY <1>8, <1>9, <1>11
    <3> QED  BY <1>10, <3>1, <3>2
  <2>2. IsInjective(taken \o waiting)
    BY <1>7, <1>11, <2>1, InjectiveConcat
  <2> QED  BY <1>7, <1>11, <2>2, RangeConcatenation
<1>13. Unfinished(builds'[b]) = taken \o waiting
  <2> DEFINE both == taken \o waiting
             build == [NoBuild EXCEPT !.tasks = both, !.mode = "held"]
  <2>1. builds'[b] = build
    BY <1>2 DEF taken, waiting
  <2> HIDE DEF both
  <2>2. build.built = FALSE /\ build.current = <<>> /\ build.tasks = both
    BY DEF NoBuild
  <2>3. both \in Seq(Records)
    BY <1>12 DEF both
  <2> HIDE DEF build
  <2>4. Unfinished(build) = <<>> \o both
    BY <2>2 DEF Unfinished
  <2>5. Unfinished(build) = both
    BY <2>3, <2>4, ConcatEmptySeq
  <2> QED  BY <2>1, <2>5 DEF both
<1>14. \A x : /\ InBuildOf(x, b)' <=> x \in Range(taken) \/ x \in Range(waiting)
              /\ ~InBuildOf(x, b)
  <2>1. \A x : InBuildOf(x, b)' <=> x \in Range(taken) \/ x \in Range(waiting)
    BY <1>12, <1>13 DEF InBuildOf
  <2>2. \A x : ~InBuildOf(x, b)
    <3>1. Unfinished(builds[b]) = <<>>
      BY <1>1 DEF Unfinished, NoBuild
    <3> QED  BY <3>1, NoElement DEF InBuildOf
  <2> QED  BY <2>1, <2>2
<1>15. \A c \in Active : \A x :
           /\ InBuildOf(x, c) <=> x \in Range(builds[c].tasks) \/ InBuildOf(x, c)'
           /\ ~(x \in Range(builds[c].tasks) /\ InBuildOf(x, c)')
  BY <1>1, <1>8, <1>9 DEF InBuildOf
<1>16. \A c \in BuildIds \ Active : c # b => \A x : InBuildOf(x, c)' <=> InBuildOf(x, c)
  BY <1>1 DEF InBuildOf
<1>17. \A x : \A g \in Flushers : HandedBack(x, g)' <=> HandedBack(x, g)
  BY <1>3 DEF HandedBack
<1>18. Line' = batch \o (parked \o rest) /\ Line = batch \o (parked \o events)
  BY <1>3 DEF Line, Queue
<1>19. /\ \A x : OnLine(x)' <=> x \in Range(batch) \/ x \in Range(parked) \/ (x \in Range(events) /\ x \in Records \ Overflow)
       /\ \A x : OnLine(x) <=> x \in Range(batch) \/ x \in Range(parked) \/ x \in Range(events)
  BY <1>6, <1>18, OnLineFacts DEF OnLine
<1>20. ASSUME NEW x \in Records
       PROVE  /\ \A c \in BuildIds : InBuildOf(x, c)' =>
                     \/ InBuildOf(x, c) /\ c # b
                     \/ c = b /\ \/ \E d \in BuildIds : InBuildOf(x, d)
                                 \/ OnLine(x) /\ ~OnLine(x)'
              /\ \A c \in BuildIds : InBuildOf(x, c)' /\ c # b => ~InBuildOf(x, b)'
              /\ \A c \in BuildIds : InBuildOf(x, c) => InBuildOf(x, c)' \/ InBuildOf(x, b)'
              /\ OnLine(x)' => OnLine(x)
              /\ OnLine(x) /\ ~OnLine(x)' => InBuildOf(x, b)'
  <2>1. \A c \in BuildIds : c # b /\ InBuildOf(x, c)' => InBuildOf(x, c)
    BY <1>15, <1>16
  <2>2. \A c \in BuildIds : InBuildOf(x, c) => InBuildOf(x, c)' \/ InBuildOf(x, b)'
    BY <1>11, <1>14, <1>15, <1>16
  <2>3. x \in Range(waiting) <=> OnLine(x) /\ ~OnLine(x)'
    BY <1>6, <1>7, <1>19
  <2>4. x \in Range(taken) => \E d \in BuildIds : InBuildOf(x, d)
    BY <1>8, <1>9, <1>11
  <2>5. ASSUME NEW c \in BuildIds, InBuildOf(x, c)', c # b, InBuildOf(x, b)' PROVE FALSE
    <3>1. InBuildOf(x, c) /\ x \notin Range(waiting)
      BY <1>10, <2>1, <2>3, <2>5
    <3>2. PICK d \in Active : x \in Range(builds[d].tasks)
      BY <1>11, <1>14, <2>5, <3>1
    <3>3. d = c
      BY <1>9, <1>10, <1>15, <3>1, <3>2
    <3> QED  BY <1>15, <2>5, <3>2, <3>3
  <2>6. OnLine(x)' => OnLine(x)
    BY <1>19
  <2>7. InBuildOf(x, b)' => (\E d \in BuildIds : InBuildOf(x, d)) \/ (OnLine(x) /\ ~OnLine(x)')
    BY <1>14, <2>3, <2>4
  <2>8. OnLine(x) /\ ~OnLine(x)' => InBuildOf(x, b)'
    BY <1>14, <2>3
  <2> QED  BY <2>1, <2>2, <2>5, <2>6, <2>7, <2>8
<1>21. EachRecordInOnePlace'
  <2>1. IsInjective(Line')
    BY <1>6, <1>18
  <2>2. \A c \in BuildIds : IsInjective(Unfinished(builds'[c]))
    BY <1>1, <1>8, <1>9, <1>12, <1>13 DEF EachRecordInOnePlace
  <2>3. \A g \in Flushers : IsInjective(back'[g])
    BY <1>3 DEF EachRecordInOnePlace
  <2>4. ASSUME NEW x \in Records
        PROVE  /\ x \in HeldRecords' <=> Present(x)'
               /\ \A c \in BuildIds : InBuildOf(x, c)' => ~OnLine(x)' /\ \A d \in BuildIds \ {c} : ~InBuildOf(x, d)'
               /\ \A g \in Flushers : HandedBack(x, g)' =>
                      /\ ~OnLine(x)' /\ \A c \in BuildIds : ~InBuildOf(x, c)'
                      /\ \A h \in Flushers \ {g} : ~HandedBack(x, h)'
               /\ fate'[x] # "none" /\ kind'[x] = "overflow" => x \in settled'
    <3>1. /\ x \in HeldRecords <=> Present(x)
          /\ \A g \in Flushers : HandedBack(x, g) => \A h \in Flushers \ {g} : ~HandedBack(x, h)
          /\ fate[x] # "none" /\ kind[x] = "overflow" => x \in settled
      BY DEF EachRecordInOnePlace
    <3>2. HeldRecords' = HeldRecords /\ (fate'[x] # "none" /\ kind'[x] = "overflow" => x \in settled')
      BY <1>3, <3>1 DEF HeldRecords
    <3>3. Present(x)' <=> Present(x)
      BY <1>17, <1>20 DEF Present
    <3>4. \A c \in BuildIds : InBuildOf(x, c)' => ~OnLine(x)'
      BY <1>10, <1>20
    <3>5. \A c, d \in BuildIds : InBuildOf(x, c)' /\ InBuildOf(x, d)' => c = d
      BY <1>10, <1>20
    <3>6. \A g \in Flushers : HandedBack(x, g)' => ~OnLine(x)' /\ \A c \in BuildIds : ~InBuildOf(x, c)'
      BY <1>10, <1>17, <1>20
    <3> QED  BY <1>17, <3>1, <3>2, <3>3, <3>4, <3>5, <3>6
  <2> QED  BY <2>1, <2>2, <2>3, <2>4 DEF EachRecordInOnePlace
<1>22. KindsFit'
  <2>1. \A x \in Records : \A c \in BuildIds : InBuildOf(x, c)' => kind'[x] = "overflow"
    <3>1. \A x \in Records : x \in Range(taken) \/ x \in Range(waiting) => kind[x] = "overflow"
      BY <1>7, <1>8, <1>9, <1>11 DEF KindsFit, Overflow
    <3>2. \A x \in Records : \A c \in BuildIds : c # b /\ InBuildOf(x, c)' => InBuildOf(x, c)
      BY <1>15, <1>16
    <3> QED  BY <1>3, <1>14, <3>1, <3>2 DEF KindsFit
  <2>2. \A x \in Records : \A g \in Flushers : HandedBack(x, g)' => kind'[x] = "overflow"
    BY <1>3, <1>17 DEF KindsFit
  <2>3. \A x \in Records : x \in Range(batch') \/ x \in Range(parked') => kind'[x] \in {"ai", "tool"}
    BY <1>3 DEF KindsFit
  <2>4. \A x \in Records : kind'[x] = "none" => fate'[x] = "none"
    BY <1>3 DEF KindsFit
  <2> QED  BY <2>1, <2>2, <2>3, <2>4, KindsFollow
<1>23. OrderKept
  <2>1. \A x, y \in Records : Ahead(x, y) /\ Ahead(y, x)' => Before(Line, y, x)
    BY <1>6, <1>18 DEF Ahead
  <2> QED  BY <2>1, OrderFollows DEF EachRecordInOnePlace
<1> QED  BY <1>21, <1>22, <1>23

-----------------------------------------------------------------------------
(* The bound on the deques.                                                  *)

LEMMA AppendIsBounded ==
    ASSUME TypeOK, NEW r \in Records, NEW k, NEW counted, AppendEvent(r, k, counted)
    PROVE  HeldIsBounded'
<1> DEFINE t == Append(events, r)
<1>1. t \in Seq(Records) /\ parked \in Seq(Records)
  BY LineIsSeq, BeforeAppend
<1>2. HoldAtMost(parked, t, MaxSize)
  BY DEF AppendEvent
<1> HIDE DEF t
<1>3. parked' \in Seq(Records) /\ events' \in Seq(Records) /\ Len(parked') + Len(events') <= MaxSize
  BY <1>1, <1>2, Hold
<1>4. Len(parked') \in Nat /\ Len(events') \in Nat
  BY <1>3
<1> QED  BY <1>3, <1>4 DEF HeldIsBounded, Held

LEMMA BoundStep ==
    ASSUME TypeOK, Control, HeldIsBounded, Next
    PROVE  HeldIsBounded'
<1> USE DEF recordVars, queueVars, replayVars, buildVars, envVars, askVars, flushVars
<1>0. /\ parked \in Seq(Records) /\ events \in Seq(Records) /\ MaxSize \in Nat
      /\ Len(parked) \in Nat /\ Len(events) \in Nat /\ Len(events) + Len(parked) <= MaxSize
  BY LineIsSeq, MaxSizeIsNat DEF HeldIsBounded, Held
<1>1. CASE UNCHANGED <<events, parked>>
  BY <1>1 DEF HeldIsBounded, Held
<1>2. ASSUME NEW r \in Records, Push(r) PROVE HeldIsBounded'
  BY <1>2, AppendIsBounded DEF Push
<1>3. ASSUME NEW r \in Records, PushOverflow(r) PROVE HeldIsBounded'
  BY <1>3, AppendIsBounded DEF PushOverflow
<1>4. ASSUME NEW b \in BuildIds, BuildEvent(b) PROVE HeldIsBounded'
  <2>1. Head(builds[b].current) \in Records
    BY <1>4, BuildFacts DEF BuildEvent
  <2> QED  BY <1>4, <2>1, AppendIsBounded DEF BuildEvent
<1>5. ASSUME NEW S, events' = Only(events, S), parked' = parked PROVE HeldIsBounded'
  <2>1. Only(events, S) \in Seq(Records) /\ Len(Only(events, S)) \in Nat /\ Len(Only(events, S)) <= Len(events)
    BY <1>0, OnlyFacts
  <2> QED  BY <1>0, <1>5, <2>1 DEF HeldIsBounded, Held
<1>6. ASSUME NEW f \in Flushers, ReturnToFront(f) PROVE HeldIsBounded'
  <2> DEFINE front == back[f] \o events
  <2>1. back[f] \in Seq(Records)
    BY TypeParts DEF FlushTypes
  <2>2. front \in Seq(Records)
    BY <1>0, <2>1
  <2>3. HoldAtMost(parked, front, MaxSize)
    BY <1>6 DEF ReturnToFront
  <2> HIDE DEF front
  <2>4. parked' \in Seq(Records) /\ events' \in Seq(Records) /\ Len(parked') + Len(events') <= MaxSize
    BY <1>0, <2>2, <2>3, Hold
  <2>5. Len(parked') \in Nat /\ Len(events') \in Nat
    BY <2>4
  <2> QED  BY <2>4, <2>5 DEF HeldIsBounded, Held
<1>7. ASSUME NEW f \in Flushers, TakeBatch(f) PROVE HeldIsBounded'
  <2>1. PICK n \in 0 .. Len(events) : TakesUpTo(f, n)
    BY <1>7, TakeBatchEffect
  <2> DEFINE park == Visited(n, "park")
             rest == Drop(events, n)
  <2>2. parked' = parked \o park /\ events' = rest
    BY <2>1 DEF TakesUpTo
  <2>3. park \in Seq(Records) /\ Len(park) <= n
    BY VisitedFacts
  <2>4. rest \in Seq(Records) /\ Len(rest) = Len(events) - n
    BY <1>0, DropFacts
  <2> HIDE DEF park, rest
  <2>5. Len(parked \o park) = Len(parked) + Len(park) /\ Len(park) \in Nat
    BY <1>0, <2>3
  <2>6. n \in Nat
    BY <1>0
  <2> QED  BY <1>0, <2>2, <2>3, <2>4, <2>5, <2>6 DEF HeldIsBounded, Held
<1>8. ASSUME NEW f \in Flushers, SettleReplays(f) PROVE HeldIsBounded'
  <2>1. PICK outcome \in [Range(batch) -> ReplayOutcomes(f)] : Settles(f, outcome)
    BY <1>8, SettleReplaysEffect
  <2> DEFINE S == EndedAs(outcome, "retry") \cup EndedAs(outcome, "untried")
             kept == Only(batch, S)
             line == parked \o kept
  <2>2. kept \in Seq(Records)
    BY LineIsSeq, OnlyFacts
  <2>3. HoldAtMost(line, events, MaxSize)
    BY <2>1 DEF Settles, LineAfter
  <2> HIDE DEF kept
  <2>4. line \in Seq(Records)
    BY <1>0, <2>2
  <2> HIDE DEF line
  <2>5. parked' \in Seq(Records) /\ events' \in Seq(Records) /\ Len(parked') + Len(events') <= MaxSize
    BY <1>0, <2>3, <2>4, Hold
  <2>6. Len(parked') \in Nat /\ Len(events') \in Nat
    BY <2>5
  <2> QED  BY <2>5, <2>6 DEF HeldIsBounded, Held
<1>9. ASSUME NEW f \in Flushers, Unpark(f) PROVE HeldIsBounded'
  <2>1. events' = parked \o events /\ parked' = <<>>
    BY <1>9 DEF Unpark, Unparked
  <2>2. Len(parked \o events) = Len(parked) + Len(events)
    BY <1>0
  <2>3. Len(<<>>) = 0
    OBVIOUS
  <2> QED  BY <1>0, <2>1, <2>2, <2>3 DEF HeldIsBounded, Held
<1>10. ASSUME NEW r \in Records, GrowOld(r) PROVE HeldIsBounded'
  BY <1>1, <1>10 DEF GrowOld
<1>11. ASSUME Traffic PROVE HeldIsBounded'
  BY <1>1, <1>11 DEF Traffic
<1>12. ASSUME NEW b \in BuildIds,
              StartTask(b) \/ EndTask(b) \/ SkipTask(b) \/ CutTaskShort(b) \/ EndRun(b)
       PROVE  HeldIsBounded'
  BY <1>1, <1>12 DEF StartTask, EndTask, SkipTask, CutTaskShort, EndRun
<1>13. ASSUME NEW f \in Flushers,
              \/ SetShutdown(f) \/ CheckExiting(f) \/ CheckGoesOn(f) \/ ForgetEmpty(f) \/ HandToThread(f)
              \/ HandToSelf(f) \/ HandOnEventLoop(f) \/ EndWait(f) \/ TakeLock(f) \/ SkipLock(f)
              \/ CountUndelivered(f) \/ CountInBuild(f) \/ Deadline(f)
       PROVE  HeldIsBounded'
  BY <1>1, <1>13 DEF SetShutdown, CheckExiting, CheckGoesOn, ForgetEmpty, HandToThread, HandToSelf,
                     HandOnEventLoop, EndWait, TakeLock, SkipLock, CountUndelivered, CountInBuild, Deadline
<1>14. ASSUME NEW f \in Flushers, StartFlush(f) \/ BuildAllOverflow(f) PROVE HeldIsBounded'
  BY <1>5, <1>14 DEF StartFlush, BuildAllOverflow
<1> QED  BY <1>2, <1>3, <1>4, <1>6, <1>7, <1>8, <1>9, <1>10, <1>11, <1>12, <1>13, <1>14
         DEF Next, Arrive, Build, Step

-----------------------------------------------------------------------------
(* What is parked, and what is replayed.                                     *)

\* Nothing is parked or taken into the batch, and no flush begins to replay.
LEMMA ParkedStay ==
    ASSUME TypeOK, ParkedFits, UNCHANGED <<batch, unreachable>>,
           \A x : x \in Range(parked') => x \in Range(parked),
           \A x \in Records : OnLine(x) => kind'[x] = kind[x],
           late \subseteq late',
           \A g \in Flushers : pc'[g] \in {"send", "take"} => pc'[g] = pc[g]
    PROVE  ParkedFits'
<1>1. Range(batch) \subseteq Records /\ Range(parked) \subseteq Records
  BY LineIsSeq, RangeFacts
<1>2. \A x : x \in Range(batch) \/ x \in Range(parked) => kind'[x] = kind[x]
  BY <1>1, OnLineFacts
<1>3. ASSUME NEW g \in Flushers, pc'[g] = "send"
      PROVE  /\ \A r \in Range(batch') : kind'[r] \notin unreachable'
             /\ \A r \in Range(parked') : kind'[r] \in unreachable'
  BY <1>2, <1>3 DEF ParkedFits
<1>4. ASSUME NEW g \in Flushers, pc'[g] = "take", g \notin late'
      PROVE  \A r \in Range(parked') : kind'[r] \in unreachable'
  BY <1>2, <1>4 DEF ParkedFits
<1> QED  BY <1>3, <1>4 DEF ParkedFits

\* Only the holder of the flush lock replays.
LEMMA OneReplays ==
    ASSUME Control, NEW f \in Flushers, NEW g \in Flushers,
           pc[f] \in {"take", "send", "unpark"}, pc[g] \in {"take", "send", "unpark"}
    PROVE  f = g
BY DEF Control, LockFits

LEMMA AppendParks ==
    ASSUME TypeOK, NEW r \in Records, NEW k, NEW counted, AppendEvent(r, k, counted)
    PROVE  /\ \A x : x \in Range(parked') => x \in Range(parked)
           /\ \A x \in Records : x # r => kind'[x] = kind[x]
<1> DEFINE t == Append(events, r)
<1>1. t \in Seq(Records) /\ parked \in Seq(Records)
  BY LineIsSeq, BeforeAppend
<1>2. HoldAtMost(parked, t, MaxSize) /\ kind' = [kind EXCEPT ![r] = k]
  BY DEF AppendEvent
<1> HIDE DEF t
<1>3. parked' = ParkedLeft(parked, t, MaxSize)
  BY <1>2 DEF HoldAtMost, ParkedLeft
<1>4. \A x : x \in Range(parked') => x \in Range(parked)
  BY <1>1, <1>3, MaxSizeIsNat, RoomAddsNothing
<1>5. \A x \in Records : x # r => kind'[x] = kind[x]
  BY <1>2, TypeParts DEF RecordTypes
<1> QED  BY <1>4, <1>5

LEMMA ParkedStep ==
    ASSUME TypeOK, Control, KindsFit, ParkedFits, EachRecordInOnePlace, Next
    PROVE  ParkedFits'
<1> USE DEF recordVars, queueVars, replayVars, buildVars, envVars, askVars, flushVars
<1>0. pc \in [Flushers -> {"idle", "hand", "await", "flush", "check", "wait", "return", "lock", "take",
                            "send", "unpark", "count", "tally", "done"}]
  BY TypeParts DEF FlushTypes
<1>1. ASSUME NEW f \in Flushers, UNCHANGED <<kind, batch, unreachable, parked, late>>,
             NEW to, to \notin {"send", "take"}, pc' = [pc EXCEPT ![f] = to]
      PROVE  ParkedFits'
  <2>1. \A g \in Flushers : pc'[g] \in {"send", "take"} => pc'[g] = pc[g]
    BY <1>0, <1>1
  <2> QED  BY <1>1, <2>1, ParkedStay
<1>2. ASSUME UNCHANGED <<kind, batch, unreachable, parked, pc>>, late \subseteq late' PROVE ParkedFits'
  BY <1>2, ParkedStay
<1>3. ASSUME NEW r \in Records, Push(r) \/ PushOverflow(r) PROVE ParkedFits'
  <2>1. UNCHANGED <<batch, unreachable, pc, late>> /\ kind[r] = "none"
    BY <1>3 DEF Push, PushOverflow
  <2>2. /\ \A x : x \in Range(parked') => x \in Range(parked)
        /\ \A x \in Records : x # r => kind'[x] = kind[x]
    BY <1>3, AppendParks DEF Push, PushOverflow
  <2>3. ~OnLine(r)
    BY <2>1, ElsewhereNot DEF HeldRecords
  <2>4. \A x \in Records : OnLine(x) => kind'[x] = kind[x]
    BY <2>2, <2>3
  <2> QED  BY <2>1, <2>2, <2>4, ParkedStay
<1>4. ASSUME NEW b \in BuildIds, BuildEvent(b) PROVE ParkedFits'
  <2> DEFINE r == Head(builds[b].current)
  <2>1. /\ UNCHANGED <<batch, unreachable, pc, late>> /\ AppendEvent(r, Endpoint[r], TRUE)
        /\ builds[b].current # <<>> /\ ~builds[b].built
    BY <1>4 DEF BuildEvent
  <2>2. r \in Records /\ InBuildOf(r, b)
    BY <2>1, CurrentFacts
  <2> HIDE DEF r
  <2>3. /\ \A x : x \in Range(parked') => x \in Range(parked)
        /\ \A x \in Records : x # r => kind'[x] = kind[x]
    BY <2>1, <2>2, AppendParks
  <2>4. ~OnLine(r)
    BY <2>2, ElsewhereNot
  <2>5. \A x \in Records : OnLine(x) => kind'[x] = kind[x]
    BY <2>3, <2>4
  <2> QED  BY <2>1, <2>3, <2>5, ParkedStay
<1>5. ASSUME NEW f \in Flushers, ReturnToFront(f) PROVE ParkedFits'
  <2> DEFINE front == back[f] \o events
             to == IF mine[f] # 0 THEN "wait" ELSE After(stage[f])
  <2>1. back[f] \in Seq(Records) /\ events \in Seq(Records) /\ parked \in Seq(Records)
    BY LineIsSeq, TypeParts DEF FlushTypes
  <2>2. front \in Seq(Records)
    BY <2>1
  <2>3. HoldAtMost(parked, front, MaxSize) /\ UNCHANGED <<kind, batch, unreachable, late>> /\ pc' = [pc EXCEPT ![f] = to]
    BY <1>5 DEF ReturnToFront, Go
  <2>4. to \notin {"send", "take"}
    BY DEF After
  <2> HIDE DEF front, to
  <2>5. parked' = ParkedLeft(parked, front, MaxSize)
    BY <2>3 DEF HoldAtMost, ParkedLeft
  <2>6. \A x : x \in Range(parked') => x \in Range(parked)
    BY <2>1, <2>2, <2>5, MaxSizeIsNat, RoomAddsNothing
  <2>7. \A g \in Flushers : pc'[g] \in {"send", "take"} => pc'[g] = pc[g]
    BY <1>0, <2>3, <2>4
  <2> QED  BY <2>3, <2>6, <2>7, ParkedStay
<1>6. ASSUME NEW f \in Flushers, TakeLock(f) PROVE ParkedFits'
  <2>1. lock = Nobody /\ parked' = parked /\ pc' = [pc EXCEPT ![f] = "take"]
    BY <1>6 DEF TakeLock, Go
  <2>2. parked = <<>> /\ \A g \in Flushers : pc[g] # "send"
    BY <2>1, BufferAssumption DEF Control, BatchFits, LockFits
  <2>3. \A r : r \notin Range(parked')
    BY <2>1, <2>2, NoElement
  <2>4. \A g \in Flushers : pc'[g] # "send"
    BY <1>0, <2>1, <2>2
  <2> QED  BY <2>3, <2>4 DEF ParkedFits
<1>7. ASSUME NEW f \in Flushers, Unpark(f) PROVE ParkedFits'
  <2>1. pc[f] \in {"take", "send", "unpark"} /\ pc' = [pc EXCEPT ![f] = "check"]
    BY <1>7 DEF Unpark, Go
  <2>2. \A g \in Flushers : g # f => pc[g] \notin {"take", "send"}
    BY <2>1, OneReplays
  <2>3. \A g \in Flushers : pc'[g] \notin {"take", "send"}
    BY <1>0, <2>1, <2>2
  <2> QED  BY <2>3 DEF ParkedFits
<1>8. ASSUME NEW f \in Flushers, TakeBatch(f) PROVE ParkedFits'
  <2>1. PICK n \in 0 .. Len(events) : TakesUpTo(f, n)
    BY <1>8, TakeBatchEffect
  <2>2. UNCHANGED <<kind, unreachable, late>> /\ pc[f] = "take" /\ MayReplayMore(f)
    BY <1>8, TakeBatchEffect DEF TakeBatch
  <2> DEFINE replay == Visited(n, "replay")
             park == Visited(n, "park")
             aside == parked \o park
  <2>3. batch' = replay /\ parked' = aside /\ \A g \in Flushers : g # f => pc'[g] = pc[g]
    BY <2>1 DEF TakesUpTo, Moved
  <2>3a. pc'[f] \in {"send", "unpark"}
    BY <2>1 DEF TakesUpTo, Moved
  <2>4. /\ \A x : x \in Range(replay) => x \in Records /\ Visit(x) = "replay"
        /\ \A x : x \in Range(park) => x \in Records /\ Visit(x) = "park"
        /\ park \in Seq(Records)
    BY VisitedFacts
  <2>5. Range(aside) = Range(parked) \cup Range(park)
    <3> HIDE DEF park
    <3> QED  BY <2>4, LineIsSeq, RangeConcatenation
  <2>6. \A x \in Range(parked) : x \in Records /\ kind[x] \in unreachable
    <3>1. f \notin late
      BY <2>2 DEF MayReplayMore, Control, CountsFit
    <3>2. Range(parked) \subseteq Records
      BY LineIsSeq, RangeFacts
    <3> QED  BY <2>2, <3>1, <3>2 DEF ParkedFits
  <2> HIDE DEF replay, park, aside
  <2>7. \A x \in Range(batch') : kind'[x] \notin unreachable'
    BY <2>2, <2>3, <2>4, VisitFacts
  <2>8. \A x \in Range(parked') : kind'[x] \in unreachable'
    BY <2>2, <2>3, <2>4, <2>5, <2>6, VisitFacts
  <2> QED  BY <2>7, <2>8 DEF ParkedFits
<1>9. ASSUME NEW f \in Flushers, SettleReplays(f) PROVE ParkedFits'
  <2>1. PICK outcome \in [Range(batch) -> ReplayOutcomes(f)] : Settles(f, outcome)
    BY <1>9, SettleReplaysEffect
  <2>2. UNCHANGED <<kind, late>> /\ pc[f] = "send" /\ pc' = [pc EXCEPT ![f] = "take"]
    BY <1>9 DEF SettleReplays, Go
  <2> DEFINE S == EndedAs(outcome, "retry") \cup EndedAs(outcome, "untried")
             kept == Only(batch, S)
             line == parked \o kept
  <2>3. kept \in Seq(Records) /\ \A x : x \in Range(kept) => x \in Range(batch) /\ x \in S
    BY LineIsSeq, OnlyFacts
  <2>4. HoldAtMost(line, events, MaxSize) /\ unreachable' = unreachable \cup {kind[r] : r \in EndedAs(outcome, "retry")}
    BY <2>1 DEF Settles, LineAfter
  <2>5. \A x \in Range(parked) : x \in Records /\ kind[x] \in unreachable
    <3>1. Range(parked) \subseteq Records
      BY LineIsSeq, RangeFacts
    <3> QED  BY <2>2, <3>1 DEF ParkedFits
  <2>6. f \notin late => \A x \in S : kind[x] \in unreachable'
    BY <2>1, <2>4 DEF EndedAs, ReplayOutcomes
  <2> HIDE DEF kept, S
  <2>7. line \in Seq(Records) /\ Range(line) = Range(parked) \cup Range(kept)
    BY <2>3, LineIsSeq, RangeConcatenation
  <2> HIDE DEF line
  <2>8. \A x : x \in Range(parked') => x \in Range(line)
    <3>1. parked' = ParkedLeft(line, events, MaxSize)
      BY <2>4 DEF HoldAtMost, ParkedLeft
    <3> QED  BY <2>7, <3>1, LineIsSeq, MaxSizeIsNat, RoomAddsNothing
  <2>9. f \notin late' => \A x \in Range(parked') : kind'[x] \in unreachable'
    BY <2>2, <2>3, <2>4, <2>5, <2>6, <2>7, <2>8
  <2>10. \A g \in Flushers : g # f => pc'[g] \notin {"take", "send"}
    BY <1>0, <2>2, OneReplays
  <2>11. pc'[f] = "take"
    BY <1>0, <2>2
  <2> QED  BY <2>9, <2>10, <2>11 DEF ParkedFits
<1>10. ASSUME NEW r \in Records, GrowOld(r) PROVE ParkedFits'
  BY <1>2, <1>10 DEF GrowOld
<1>11. ASSUME Traffic PROVE ParkedFits'
  BY <1>2, <1>11 DEF Traffic
<1>12. ASSUME NEW b \in BuildIds,
              StartTask(b) \/ EndTask(b) \/ SkipTask(b) \/ CutTaskShort(b) \/ EndRun(b)
       PROVE  ParkedFits'
  <2>1. UNCHANGED <<kind, batch, unreachable, parked, pc, late>>
    BY <1>12 DEF StartTask, EndTask, SkipTask, CutTaskShort, EndRun
  <2> QED  BY <1>2, <2>1
<1>13. ASSUME NEW f \in Flushers,
              \/ SetShutdown(f) \/ CheckExiting(f) \/ CheckGoesOn(f) \/ ForgetEmpty(f) \/ HandToThread(f)
              \/ HandToSelf(f) \/ HandOnEventLoop(f) \/ EndWait(f) \/ SkipLock(f)
              \/ CountUndelivered(f) \/ CountInBuild(f) \/ StartFlush(f) \/ BuildAllOverflow(f)
       PROVE  ParkedFits'
  <2>1. UNCHANGED <<kind, batch, unreachable, parked, late>>
    BY <1>13 DEF SetShutdown, CheckExiting, CheckGoesOn, ForgetEmpty, HandToThread, HandToSelf, HandOnEventLoop,
                 EndWait, SkipLock, CountUndelivered, CountInBuild, StartFlush, BuildAllOverflow
  <2>2. \E to : to \notin {"send", "take"} /\ pc' = [pc EXCEPT ![f] = to]
    BY <1>13 DEF SetShutdown, CheckExiting, CheckGoesOn, ForgetEmpty, HandToThread, HandToSelf, HandOnEventLoop,
                 EndWait, SkipLock, CountUndelivered, CountInBuild, StartFlush, BuildAllOverflow, Go, After
  <2> QED  BY <1>1, <2>1, <2>2
<1>14. ASSUME NEW f \in Flushers, Deadline(f) PROVE ParkedFits'
  <2>1. UNCHANGED <<kind, batch, unreachable, parked, pc>> /\ late \subseteq late'
    BY <1>14 DEF Deadline
  <2> QED  BY <1>2, <2>1
<1> QED  BY <1>3, <1>4, <1>5, <1>6, <1>7, <1>8, <1>9, <1>10, <1>11, <1>12, <1>13, <1>14
         DEF Next, Arrive, Build, Step

-----------------------------------------------------------------------------
(* What a step takes in and what it lets go, which the counters count and    *)
(* the contract allows.                                                      *)

Ending(how, what) == {r \in DOMAIN how : how[r] = what}

\* The records of new enter and those of how leave, each as how says.
Exchanged(new, how) ==
    /\ new \subseteq Records /\ Cardinality(new) <= 1 /\ \A r \in new : kind[r] = "none"
    /\ DOMAIN how \subseteq HeldRecords /\ how \in [DOMAIN how -> Fates]
    /\ \A r \in Records : kind'[r] # "none" <=> kind[r] # "none" \/ r \in new
    /\ \A r \in Records : fate'[r] = IF r \in DOMAIN how THEN how[r] ELSE fate[r]
    /\ (\E r \in DOMAIN how : how[r] = "evicted") => Cardinality(HeldRecords \cup new) > MaxSize

Counted(new, how) ==
    /\ total'.buffered = total.buffered + Cardinality(new)
    /\ total'.replayed = total.replayed + Cardinality(Ending(how, "sent"))
    /\ total'.discarded = total.discarded + Cardinality(Ending(how, "discarded"))
    /\ total'.evicted = total.evicted + Cardinality(Ending(how, "evicted"))
    /\ total'.expired = total.expired + Cardinality(Ending(how, "expired"))
    /\ total'.cutShort = total.cutShort + Cardinality(Ending(how, "cutShort"))

Exchanges == \E new, how : Exchanged(new, how) /\ Counted(new, how)

LEMMA AllEnds ==
    ASSUME NEW S, NEW what
    PROVE  /\ DOMAIN All(S, what) = S /\ \A r \in S : All(S, what)[r] = what
           /\ what \in Fates => All(S, what) \in [S -> Fates]
           /\ \A w : Ending(All(S, what), w) = IF w = what THEN S ELSE {}
<1>1. DOMAIN All(S, what) = S /\ \A r \in S : All(S, what)[r] = what
  BY DEF All
<1>2. what \in Fates => All(S, what) \in [S -> Fates]
  BY DEF All
<1>3. ASSUME NEW w PROVE Ending(All(S, what), w) = IF w = what THEN S ELSE {}
  BY <1>1 DEF Ending
<1> QED  BY <1>1, <1>2, <1>3

\* A record is evicted only where more have to be held than there is room for.
LEMMA EvictedForRoom ==
    ASSUME NEW p \in Seq(Records), NEW e \in Seq(Records), IsInjective(p \o e),
           NEW S, S \subseteq Records, \A x : x \in Range(p) \/ x \in Range(e) => x \in S,
           Evicted(p, e, MaxSize) # {}
    PROVE  Cardinality(S) > MaxSize
<1> DEFINE q == p \o e
<1>1. Len(p) + Len(e) > MaxSize /\ MaxSize \in Nat
  BY MaxSizeIsNat, RoomIsMade
<1>2. q \in Seq(Records) /\ Len(q) = Len(p) + Len(e) /\ Range(q) = Range(p) \cup Range(e) /\ IsInjective(q)
  BY RangeConcatenation
<1> HIDE DEF q
<1>3. Cardinality(Range(q)) = Len(q)
  BY <1>2, CardinalityOfRange
<1>4. IsFiniteSet(S)
  BY BufferAssumption, FS_Subset
<1>5. Range(q) \in SUBSET S
  BY <1>2
<1>6. Cardinality(Range(q)) <= Cardinality(S) /\ Cardinality(S) \in Nat
  BY <1>4, <1>5, FS_Subset, FS_CardinalityType
<1>7. Len(q) \in Nat
  BY <1>2
<1> QED  BY <1>1, <1>2, <1>3, <1>6, <1>7

\* The records that leave all leave in one way.
LEMMA OneFate ==
    ASSUME TypeOK, NEW new, new \subseteq Records, Cardinality(new) <= 1, \A r \in new : kind[r] = "none",
           NEW S, S \subseteq HeldRecords, NEW what \in Fates, Leave(All(S, what)),
           \A r \in Records : kind'[r] # "none" <=> kind[r] # "none" \/ r \in new,
           what = "evicted" /\ S # {} => Cardinality(HeldRecords \cup new) > MaxSize
    PROVE  Exchanged(new, All(S, what))
<1> DEFINE how == All(S, what)
<1>1. DOMAIN how = S /\ how \in [S -> Fates] /\ \A r \in S : how[r] = what
  BY AllEnds
<1>2. Leave(how)
  OBVIOUS
<1> HIDE DEF how
<1>3. \A r \in Records : fate'[r] = IF r \in DOMAIN how THEN how[r] ELSE fate[r]
  BY <1>2 DEF Leave
<1>4. (\E r \in DOMAIN how : how[r] = "evicted") => Cardinality(HeldRecords \cup new) > MaxSize
  BY <1>1
<1>5. Exchanged(new, how)
  BY <1>1, <1>3, <1>4 DEF Exchanged
<1> QED  BY <1>5 DEF how

\* The counter of that way counts them.
LEMMA OneCounter ==
    ASSUME NEW new, NEW S, NEW what,
           total'.buffered = total.buffered + Cardinality(new),
           total'.replayed = total.replayed, total'.discarded = total.discarded,
           total'.evicted = total.evicted + Cardinality(IF what = "evicted" THEN S ELSE {}),
           total'.expired = total.expired + Cardinality(IF what = "expired" THEN S ELSE {}),
           total'.cutShort = total.cutShort + Cardinality(IF what = "cutShort" THEN S ELSE {}),
           what \in {"evicted", "expired", "cutShort", "unbuilt"}, TypeOK
    PROVE  Counted(new, All(S, what))
<1> DEFINE how == All(S, what)
<1>1. \A w : Ending(how, w) = IF w = what THEN S ELSE {}
  BY AllEnds
<1>2. total.replayed \in Nat /\ total.discarded \in Nat
  BY TypeParts DEF CountTypes
<1> HIDE DEF how
<1>3. Cardinality(Ending(how, "sent")) = 0 /\ Cardinality(Ending(how, "discarded")) = 0
  <2>1. Ending(how, "sent") = {} /\ Ending(how, "discarded") = {}
    BY <1>1
  <2> QED  BY <2>1, FS_EmptySet
<1>4. /\ total'.replayed = total.replayed + Cardinality(Ending(how, "sent"))
      /\ total'.discarded = total.discarded + Cardinality(Ending(how, "discarded"))
  BY <1>2, <1>3
<1>5. total'.evicted = total.evicted + Cardinality(Ending(how, "evicted"))
  BY <1>1
<1>6. total'.expired = total.expired + Cardinality(Ending(how, "expired"))
  BY <1>1
<1>7. total'.cutShort = total.cutShort + Cardinality(Ending(how, "cutShort"))
  BY <1>1
<1>8. Counted(new, how)
  BY <1>4, <1>5, <1>6, <1>7 DEF Counted
<1> QED  BY <1>8 DEF how

\* A step that keeps the records and the counters.
LEMMA NothingLeaves ==
    ASSUME TypeOK, UNCHANGED <<kind, fate, total>>
    PROVE  Exchanges
<1> DEFINE none == {}
           how == All(none, "unbuilt")
<1>1. none \subseteq Records /\ Cardinality(none) = 0 /\ \A r : r \notin none
  BY FS_EmptySet
<1>2. DOMAIN how = none /\ how \in [none -> Fates]
  BY AllEnds DEF Fates
<1>2a. none = {}
  OBVIOUS
<1> HIDE DEF none
<1>3. Exchanged(none, how)
  <2> HIDE DEF how
  <2> QED  BY <1>1, <1>2 DEF Exchanged
<1>4. Counted(none, how)
  <2>1. /\ total.buffered \in Nat /\ total.replayed \in Nat /\ total.discarded \in Nat
        /\ total.evicted \in Nat /\ total.expired \in Nat /\ total.cutShort \in Nat
    BY TypeParts DEF CountTypes
  <2>2. total'.buffered = total.buffered + Cardinality(none)
    BY <1>1, <2>1
  <2>3. /\ total'.evicted = total.evicted + Cardinality(IF "unbuilt" = "evicted" THEN none ELSE {})
        /\ total'.expired = total.expired + Cardinality(IF "unbuilt" = "expired" THEN none ELSE {})
        /\ total'.cutShort = total.cutShort + Cardinality(IF "unbuilt" = "cutShort" THEN none ELSE {})
    BY <1>1, <1>2a, <2>1
  <2> QED  BY <2>2, <2>3, OneCounter
<1> QED  BY <1>3, <1>4 DEF Exchanges

\* A record is appended, for the first time or as the event of its task.
LEMMA AppendExchanges ==
    ASSUME TypeOK, EachRecordInOnePlace, NEW r \in Records, NEW k \in {"ai", "tool", "overflow"},
           NEW counted \in BOOLEAN, AppendEvent(r, k, counted), UNCHANGED batch, ~OnLine(r), fate[r] = "none",
           counted <=> kind[r] # "none"
    PROVE  Exchanges
<1> DEFINE t == Append(events, r)
           gone == Evicted(parked, t, MaxSize)
           new == IF counted THEN {} ELSE {r}
<1>1. /\ gone \subseteq Records /\ r \notin gone /\ kind' = [kind EXCEPT ![r] = k]
      /\ \A x \in gone : OnLine(x)
  BY AppendLine
<1>2. /\ Leave(All(gone, "evicted"))
      /\ total' = [total EXCEPT !.evicted = @ + Cardinality(gone),
                                !.buffered = IF counted THEN @ ELSE @ + 1,
                                !.overflowed = IF k = "overflow" THEN @ + 1 ELSE @]
  BY DEF AppendEvent
<1>3. /\ t \in Seq(Records) /\ parked \in Seq(Records) /\ batch \in Seq(Records) /\ events \in Seq(Records)
      /\ \A x : x \in Range(t) <=> x \in Range(events) \/ x = r
  BY LineIsSeq, BeforeAppend
<1>4. IsInjective(parked \o t)
  <2>1. IsInjective(batch \o (parked \o events)) /\ r \notin Range(batch \o (parked \o events))
    BY DEF EachRecordInOnePlace, OnLine, Line, Queue
  <2>2. IsInjective(batch \o (parked \o t))
    BY <1>3, <2>1, JoinsTheEnd
  <2> DEFINE q == parked \o t
  <2> HIDE DEF t
  <2>3. q \in Seq(Records)
    BY <1>3
  <2>4. IsInjective(batch \o q)
    BY <2>2
  <2> HIDE DEF q
  <2>5. IsInjective(q)
    BY <1>3, <2>3, <2>4, InjectiveConcat
  <2> QED  BY <2>5 DEF q
<1>5. /\ new \subseteq Records /\ (\A x : x \in new <=> ~counted /\ x = r)
      /\ Cardinality(new) = IF counted THEN 0 ELSE 1
  BY FS_EmptySet, FS_Singleton
<1> HIDE DEF t, gone, new
<1>6. \A x \in Records : OnLine(x) => x \in HeldRecords
  BY ElsewhereNot
<1>7. gone \subseteq HeldRecords /\ "evicted" \in Fates
  BY <1>1, <1>6 DEF Fates
<1>8. r \in HeldRecords \cup new
  BY <1>5 DEF HeldRecords
<1>9. gone # {} => Cardinality(HeldRecords \cup new) > MaxSize
  <2> DEFINE S == HeldRecords \cup new
  <2>1. S \subseteq Records
    BY <1>5 DEF HeldRecords
  <2>2. \A x : x \in Range(parked) \/ x \in Range(t) => x \in S
    BY <1>3, <1>6, <1>8, OnLineFacts
  <2> HIDE DEF S
  <2>3. gone # {} => Cardinality(S) > MaxSize
    BY <1>3, <1>4, <2>1, <2>2, EvictedForRoom DEF gone
  <2> QED  BY <2>3 DEF S
<1>10. \A x \in Records : kind'[x] # "none" <=> kind[x] # "none" \/ x \in new
  <2>1. \A x \in Records : kind'[x] = IF x = r THEN k ELSE kind[x]
    BY <1>1, TypeParts DEF RecordTypes
  <2> QED  BY <1>5, <2>1
<1>11. Cardinality(new) <= 1 /\ \A x \in new : kind[x] = "none"
  BY <1>5
<1>12. Exchanged(new, All(gone, "evicted"))
  BY <1>2, <1>5, <1>7, <1>9, <1>10, <1>11, OneFate
<1>13. Counted(new, All(gone, "evicted"))
  <2> DEFINE n == Cardinality(gone)
  <2>1. total \in [{"buffered", "overflowed", "replayed", "discarded", "evicted", "expired", "cutShort"} -> Nat]
    BY TypeParts DEF CountTypes
  <2>2. n \in Nat /\ Cardinality({}) = 0
    <3>1. IsFiniteSet(gone)
      BY <1>1, BufferAssumption, FS_Subset
    <3> QED  BY <3>1, FS_CardinalityType, FS_EmptySet
  <2>3. total' = [total EXCEPT !.evicted = @ + n,
                               !.buffered = IF counted THEN @ ELSE @ + 1,
                               !.overflowed = IF k = "overflow" THEN @ + 1 ELSE @]
    BY <1>2
  <2> HIDE DEF n
  <2>4. /\ total'.buffered = (IF counted THEN total.buffered ELSE total.buffered + 1)
        /\ total'.replayed = total.replayed /\ total'.discarded = total.discarded
        /\ total'.evicted = total.evicted + n
        /\ total'.expired = total.expired /\ total'.cutShort = total.cutShort
    BY <2>1, <2>3
  <2>5. total.buffered \in Nat /\ total.expired \in Nat /\ total.cutShort \in Nat
    BY <2>1
  <2>6. total'.buffered = total.buffered + Cardinality(new)
    BY <1>5, <2>4, <2>5
  <2>7. /\ total'.evicted = total.evicted + Cardinality(IF "evicted" = "evicted" THEN gone ELSE {})
        /\ total'.expired = total.expired + Cardinality(IF "evicted" = "expired" THEN gone ELSE {})
        /\ total'.cutShort = total.cutShort + Cardinality(IF "evicted" = "cutShort" THEN gone ELSE {})
    BY <2>2, <2>4, <2>5 DEF n
  <2> QED  BY <2>4, <2>6, <2>7, OneCounter
<1> QED  BY <1>12, <1>13 DEF Exchanges

LEMMA EnterExchanges ==
    ASSUME TypeOK, KindsFit, EachRecordInOnePlace, NEW r \in Records, Push(r) \/ PushOverflow(r)
    PROVE  Exchanges
<1>1. kind[r] = "none" /\ UNCHANGED batch
  BY DEF Push, PushOverflow, replayVars
<1>2. fate[r] = "none" /\ ~OnLine(r)
  BY <1>1, ElsewhereNot DEF HeldRecords, KindsFit
<1>3. Push(r) => AppendEvent(r, Endpoint[r], FALSE) /\ Endpoint[r] \in {"ai", "tool", "overflow"}
  BY BufferAssumption DEF Push
<1>4. PushOverflow(r) => AppendEvent(r, "overflow", FALSE)
  BY DEF PushOverflow
<1> QED  BY <1>1, <1>2, <1>3, <1>4, AppendExchanges

LEMMA BuildEventExchanges ==
    ASSUME TypeOK, Control, KindsFit, EachRecordInOnePlace, NEW b \in BuildIds, BuildEvent(b)
    PROVE  Exchanges
<1> DEFINE r == Head(builds[b].current)
<1>1. /\ builds[b].current # <<>> /\ ~builds[b].built /\ AppendEvent(r, Endpoint[r], TRUE) /\ UNCHANGED batch
  BY DEF BuildEvent, replayVars
<1>2. r \in Records /\ InBuildOf(r, b)
  BY <1>1, CurrentFacts
<1> HIDE DEF r
<1>3. fate[r] = "none" /\ ~OnLine(r) /\ kind[r] # "none" /\ Endpoint[r] \in {"ai", "tool", "overflow"}
  BY <1>2, ElsewhereNot, BufferAssumption DEF HeldRecords
<1> QED  BY <1>1, <1>2, <1>3, AppendExchanges

\* The task that a build is at ends without an event.
LEMMA TaskLeavesExchanges ==
    ASSUME TypeOK, Control, EachRecordInOnePlace, NEW b \in BuildIds, SkipTask(b) \/ CutTaskShort(b)
    PROVE  Exchanges
<1> DEFINE r == Head(builds[b].current)
           gone == {r}
           none == {}
<1>1. builds[b].current # <<>> /\ ~builds[b].built /\ kind' = kind
  BY DEF SkipTask, CutTaskShort
<1>2. r \in Records /\ InBuildOf(r, b)
  BY <1>1, CurrentFacts
<1>3. /\ SkipTask(b) => Leave(All(gone, "unbuilt")) /\ total' = total
      /\ CutTaskShort(b) => Leave(All(gone, "cutShort")) /\ total' = [total EXCEPT !.cutShort = @ + 1]
  BY DEF SkipTask, CutTaskShort
<1>4. Cardinality(gone) = 1 /\ none = {} /\ Cardinality(none) = 0 /\ gone = {r}
  BY FS_Singleton, FS_EmptySet
<1> HIDE DEF r, gone, none
<1>5. gone \subseteq HeldRecords
  BY <1>2, <1>4, ElsewhereNot
<1>6. none \subseteq Records /\ Cardinality(none) <= 1 /\ \A x : x \notin none
  BY <1>4
<1>7. "unbuilt" \in Fates /\ "cutShort" \in Fates
  BY DEF Fates
<1>8. /\ SkipTask(b) => Exchanged(none, All(gone, "unbuilt"))
      /\ CutTaskShort(b) => Exchanged(none, All(gone, "cutShort"))
  BY <1>1, <1>3, <1>5, <1>6, <1>7, OneFate
<1>9. /\ total.buffered \in Nat /\ total.evicted \in Nat /\ total.expired \in Nat /\ total.cutShort \in Nat
  BY TypeParts DEF CountTypes
<1>10. ASSUME SkipTask(b) PROVE Counted(none, All(gone, "unbuilt"))
  <2>1. /\ total'.buffered = total.buffered + Cardinality(none)
        /\ total'.replayed = total.replayed /\ total'.discarded = total.discarded
    BY <1>3, <1>4, <1>9, <1>10
  <2>2. /\ total'.evicted = total.evicted + Cardinality(IF "unbuilt" = "evicted" THEN gone ELSE {})
        /\ total'.expired = total.expired + Cardinality(IF "unbuilt" = "expired" THEN gone ELSE {})
        /\ total'.cutShort = total.cutShort + Cardinality(IF "unbuilt" = "cutShort" THEN gone ELSE {})
    BY <1>3, <1>4, <1>9, <1>10
  <2> QED  BY <2>1, <2>2, OneCounter
<1>11. ASSUME CutTaskShort(b) PROVE Counted(none, All(gone, "cutShort"))
  <2>0. total \in [{"buffered", "overflowed", "replayed", "discarded", "evicted", "expired", "cutShort"} -> Nat]
    BY TypeParts DEF CountTypes
  <2>1. /\ total'.buffered = total.buffered /\ total'.replayed = total.replayed
        /\ total'.discarded = total.discarded /\ total'.evicted = total.evicted
        /\ total'.expired = total.expired /\ total'.cutShort = total.cutShort + 1
    BY <1>3, <1>11, <2>0
  <2>2. total'.buffered = total.buffered + Cardinality(none)
    BY <1>4, <1>9, <2>1
  <2>3. /\ total'.evicted = total.evicted + Cardinality(IF "cutShort" = "evicted" THEN gone ELSE {})
        /\ total'.expired = total.expired + Cardinality(IF "cutShort" = "expired" THEN gone ELSE {})
        /\ total'.cutShort = total.cutShort + Cardinality(IF "cutShort" = "cutShort" THEN gone ELSE {})
    BY <1>4, <1>9, <2>1
  <2> QED  BY <2>1, <2>2, <2>3, OneCounter
<1> QED  BY <1>8, <1>10, <1>11 DEF Exchanges

LEMMA ReturnToFrontExchanges ==
    ASSUME TypeOK, Control, EachRecordInOnePlace, NEW f \in Flushers, ReturnToFront(f)
    PROVE  Exchanges
<1> DEFINE q == back[f]
           front == q \o events
           gone == Evicted(parked, front, MaxSize)
           none == {}
<1>1. /\ kind' = kind /\ HoldAtMost(parked, front, MaxSize) /\ Leave(All(gone, "evicted"))
      /\ total' = [total EXCEPT !.evicted = @ + Cardinality(gone)]
  BY DEF ReturnToFront
<1>2. q \in Seq(Records) /\ batch \in Seq(Records) /\ parked \in Seq(Records) /\ events \in Seq(Records)
  BY LineIsSeq, TypeParts DEF FlushTypes
<1>3. /\ IsInjective(batch \o (parked \o events)) /\ IsInjective(q)
      /\ \A x : OnLine(x) <=> x \in Range(batch \o (parked \o events))
      /\ \A x : HandedBack(x, f) <=> x \in Range(q)
  BY DEF EachRecordInOnePlace, Line, Queue, OnLine, HandedBack
<1> HIDE DEF q
<1>4. \A x : ~(x \in Range(q) /\ x \in Range(batch \o (parked \o events)))
  <2>1. \A x : x \in Range(q) => x \in Records
    BY <1>2, RangeFacts
  <2> QED  BY <1>3, <2>1, HereOnce
<1>5. front \in Seq(Records) /\ IsInjective(batch \o (parked \o front)) /\ Range(front) = Range(q) \cup Range(events)
  BY <1>2, <1>3, <1>4, FrontJoins, RangeConcatenation
<1> HIDE DEF front
<1>6. IsInjective(parked \o front)
  <2> DEFINE s == parked \o front
  <2>1. s \in Seq(Records)
    BY <1>2, <1>5
  <2>2. IsInjective(batch \o s)
    BY <1>5
  <2> HIDE DEF s
  <2>3. IsInjective(s)
    BY <1>2, <2>1, <2>2, InjectiveConcat
  <2> QED  BY <2>3 DEF s
<1>7. \A x : x \in Range(parked) \/ x \in Range(front) => x \in HeldRecords
  <2>1. \A x : x \in Range(parked) \/ x \in Range(front) => x \in Records /\ (OnLine(x) \/ HandedBack(x, f))
    BY <1>2, <1>3, <1>5, OnLineFacts, RangeFacts
  <2> QED  BY <2>1, ElsewhereNot
<1>8. /\ gone \subseteq HeldRecords /\ gone \subseteq Records
      /\ (gone # {} => Cardinality(HeldRecords) > MaxSize)
  <2> DEFINE S == HeldRecords
  <2>1. S \subseteq Records /\ \A x : x \in Range(parked) \/ x \in Range(front) => x \in S
    BY <1>7 DEF HeldRecords
  <2> HIDE DEF S
  <2>2. gone # {} => Cardinality(S) > MaxSize
    BY <1>2, <1>5, <1>6, <2>1, EvictedForRoom
  <2>3. gone \subseteq Records /\ \A x : x \in gone => x \in Range(parked) \/ x \in Range(front)
    BY <1>2, <1>5, MaxSizeIsNat, RoomIsMade
  <2> QED  BY <2>1, <2>2, <2>3 DEF S
<1> DEFINE n == Cardinality(gone)
<1>9. n \in Nat /\ none = {} /\ Cardinality(none) = 0
  <2>1. IsFiniteSet(gone)
    BY <1>8, BufferAssumption, FS_Subset
  <2> QED  BY <2>1, FS_CardinalityType, FS_EmptySet
<1> HIDE DEF gone, none
<1>10. Exchanged(none, All(gone, "evicted"))
  <2>1. none \subseteq Records /\ Cardinality(none) <= 1 /\ \A x : x \notin none
    BY <1>9
  <2>2. HeldRecords \cup none = HeldRecords /\ "evicted" \in Fates
    BY <2>1 DEF Fates
  <2> QED  BY <1>1, <1>8, <2>1, <2>2, OneFate
<1>11. Counted(none, All(gone, "evicted"))
  <2>1. total \in [{"buffered", "overflowed", "replayed", "discarded", "evicted", "expired", "cutShort"} -> Nat]
    BY TypeParts DEF CountTypes
  <2>2. total' = [total EXCEPT !.evicted = @ + n]
    BY <1>1
  <2> HIDE DEF n
  <2>3. /\ total'.buffered = total.buffered /\ total'.replayed = total.replayed
        /\ total'.discarded = total.discarded /\ total'.evicted = total.evicted + n
        /\ total'.expired = total.expired /\ total'.cutShort = total.cutShort
    BY <2>1, <2>2
  <2>4. total.buffered \in Nat /\ total.expired \in Nat /\ total.cutShort \in Nat
    BY <2>1
  <2>5. total'.buffered = total.buffered + Cardinality(none)
    BY <1>9, <2>3, <2>4
  <2>6. /\ total'.evicted = total.evicted + Cardinality(IF "evicted" = "evicted" THEN gone ELSE {})
        /\ total'.expired = total.expired + Cardinality(IF "evicted" = "expired" THEN gone ELSE {})
        /\ total'.cutShort = total.cutShort + Cardinality(IF "evicted" = "cutShort" THEN gone ELSE {})
    BY <1>9, <2>3, <2>4 DEF n, none
  <2> QED  BY <2>3, <2>5, <2>6, OneCounter
<1> QED  BY <1>10, <1>11 DEF Exchanges

LEMMA TakeBatchExchanges ==
    ASSUME TypeOK, Control, EachRecordInOnePlace, NEW f \in Flushers, TakeBatch(f)
    PROVE  Exchanges
<1>0. PICK m \in 0 .. Len(events) : TakesUpTo(f, m)
  BY TakeBatchEffect
<1> DEFINE expired == Visited(m, "expire")
           gone == Range(expired)
           none == {}
           n == Cardinality(gone)
<1>1. /\ kind' = kind /\ Leave(All(gone, "expired"))
      /\ total' = [total EXCEPT !.expired = @ + n]
  BY <1>0 DEF TakesUpTo, TakeBatch
<1>2. gone \subseteq HeldRecords /\ gone \subseteq Records
  <2>1. /\ \A x : x \in gone <=> x \in Range(SubSeq(events, 1, m)) /\ x \in Records /\ Visit(x) = "expire"
    BY VisitedFacts
  <2>2. \A x : x \in Range(SubSeq(events, 1, m)) => x \in Range(events)
    BY LineIsSeq, PartsFacts
  <2> QED  BY <2>1, <2>2, OnLineFacts, ElsewhereNot
<1>3. n \in Nat /\ none = {} /\ Cardinality(none) = 0
  <2>1. IsFiniteSet(gone)
    BY <1>2, BufferAssumption, FS_Subset
  <2> QED  BY <2>1, FS_CardinalityType, FS_EmptySet
<1> HIDE DEF expired, gone, none
<1>4. Exchanged(none, All(gone, "expired"))
  <2>1. none \subseteq Records /\ Cardinality(none) <= 1 /\ (\A x : x \notin none) /\ "expired" \in Fates
    BY <1>3 DEF Fates
  <2> QED  BY <1>1, <1>2, <2>1, OneFate
<1>5. Counted(none, All(gone, "expired"))
  <2>1. total \in [{"buffered", "overflowed", "replayed", "discarded", "evicted", "expired", "cutShort"} -> Nat]
    BY TypeParts DEF CountTypes
  <2>2. total' = [total EXCEPT !.expired = @ + n]
    BY <1>1
  <2> HIDE DEF n
  <2>3. /\ total'.buffered = total.buffered /\ total'.replayed = total.replayed
        /\ total'.discarded = total.discarded /\ total'.expired = total.expired + n
        /\ total'.evicted = total.evicted /\ total'.cutShort = total.cutShort
    BY <2>1, <2>2
  <2>4. total.buffered \in Nat /\ total.evicted \in Nat /\ total.cutShort \in Nat
    BY <2>1
  <2>5. total'.buffered = total.buffered + Cardinality(none)
    BY <1>3, <2>3, <2>4
  <2>6. /\ total'.evicted = total.evicted + Cardinality(IF "expired" = "evicted" THEN gone ELSE {})
        /\ total'.expired = total.expired + Cardinality(IF "expired" = "expired" THEN gone ELSE {})
        /\ total'.cutShort = total.cutShort + Cardinality(IF "expired" = "cutShort" THEN gone ELSE {})
    BY <1>3, <2>3, <2>4 DEF n, none
  <2> QED  BY <2>3, <2>5, <2>6, OneCounter
<1> QED  BY <1>4, <1>5 DEF Exchanges

LEMMA SettleReplaysExchanges ==
    ASSUME TypeOK, Control, ParkedFits, EachRecordInOnePlace, NEW f \in Flushers, SettleReplays(f)
    PROVE  Exchanges
<1>0. PICK outcome \in [Range(batch) -> ReplayOutcomes(f)] : Settles(f, outcome)
  BY SettleReplaysEffect
<1> DEFINE S == EndedAs(outcome, "retry") \cup EndedAs(outcome, "untried")
           line == LineAfter(outcome)
           out == GoneAfter(outcome)
           sent == EndedAs(outcome, "sent")
           refused == EndedAs(outcome, "discarded")
           gone == sent \cup refused \cup out
           how == [r \in gone |-> IF r \in out THEN "evicted" ELSE outcome[r]]
           none == {}
<1>1. /\ pc[f] = "send" /\ kind' = kind /\ Leave(how) /\ out = Evicted(line, events, MaxSize)
      /\ total' = [total EXCEPT !.replayed = @ + Cardinality(sent), !.discarded = @ + Cardinality(refused),
                                !.evicted = @ + Cardinality(out)]
  BY <1>0 DEF Settles, GoneAfter, SettleReplays
<1>2. /\ \A x : x \in sent <=> x \in Range(batch) /\ outcome[x] = "sent"
      /\ \A x : x \in refused <=> x \in Range(batch) /\ outcome[x] = "discarded"
      /\ \A x : x \in S <=> x \in Range(batch) /\ outcome[x] \in {"retry", "untried"}
      /\ none = {} /\ Cardinality(none) = 0
  BY FS_EmptySet DEF EndedAs
<1>3. /\ DOMAIN how = gone /\ \A x : x \in gone <=> x \in sent \/ x \in refused \/ x \in out
      /\ \A x \in gone : how[x] = IF x \in out THEN "evicted" ELSE outcome[x]
  <2> HIDE DEF gone, out
  <2>1. DOMAIN how = gone /\ \A x \in gone : how[x] = IF x \in out THEN "evicted" ELSE outcome[x]
    OBVIOUS
  <2> QED  BY <2>1 DEF gone
<1>3a. how \in [gone -> Fates]
  <2>1. \A x \in gone : (IF x \in out THEN "evicted" ELSE outcome[x]) \in Fates
    <3> HIDE DEF out, sent, refused
    <3> QED  BY <1>2 DEF Fates
  <2> HIDE DEF gone, out
  <2> QED  BY <2>1
<1>4. Range(batch) \subseteq Records /\ Range(parked) \subseteq Records
  BY LineIsSeq, RangeFacts
<1>5. /\ \A r \in Range(batch) : kind[r] \notin unreachable
      /\ \A r \in Range(parked) : kind[r] \in unreachable
      /\ IsInjective(Line) /\ line = parked \o Only(batch, S)
  BY <1>1, <1>4 DEF ParkedFits, EachRecordInOnePlace, LineAfter
<1> HIDE DEF S, line, out, sent, refused, gone, how, none
<1>6. /\ line \in Seq(Records) /\ IsInjective(<<>> \o (line \o events))
      /\ \A x : x \in Range(line) <=> x \in Range(parked) \/ (x \in Range(batch) /\ x \in S)
      /\ \A x : x \in Range(<<>> \o (line \o events)) <=> x \in Range(line) \/ x \in Range(events)
      /\ \A x : x \in Range(batch) => x \notin Range(parked) /\ x \notin Range(events)
  BY <1>5, SettledLine
<1>7. IsInjective(line \o events) /\ events \in Seq(Records)
  <2> DEFINE q == line \o events
  <2>1. q \in Seq(Records) /\ events \in Seq(Records)
    BY <1>6, LineIsSeq
  <2>2. IsInjective(<<>> \o q)
    BY <1>6
  <2> HIDE DEF q
  <2>3. IsInjective(q)
    BY <2>1, <2>2, ConcatEmptySeq
  <2> QED  BY <2>1, <2>3 DEF q
<1>8. \A x : x \in Range(line) \/ x \in Range(events) => x \in HeldRecords
  <2>1. \A x : x \in Range(line) \/ x \in Range(events) => OnLine(x) /\ x \in Records
    BY <1>6, OnLineFacts
  <2> QED  BY <2>1, ElsewhereNot
<1>9. /\ out \subseteq Records /\ \A x : x \in out => x \in Range(line) \/ x \in Range(events)
  BY <1>1, <1>6, <1>7, MaxSizeIsNat, RoomIsMade
<1>10. out # {} => Cardinality(HeldRecords) > MaxSize
  <2> DEFINE T == HeldRecords
  <2>1. T \subseteq Records /\ \A x : x \in Range(line) \/ x \in Range(events) => x \in T
    BY <1>8 DEF HeldRecords
  <2> HIDE DEF T
  <2>2. out # {} => Cardinality(T) > MaxSize
    BY <1>1, <1>6, <1>7, <2>1, EvictedForRoom
  <2> QED  BY <2>2 DEF T
<1>11. \A x : x \in sent \/ x \in refused => x \notin out
  BY <1>2, <1>6, <1>9
<1>12. gone \subseteq HeldRecords
  <2>1. \A x : x \in Range(batch) => x \in HeldRecords
    BY <1>4, OnLineFacts, ElsewhereNot
  <2> QED  BY <1>2, <1>3, <1>8, <1>9, <2>1
<1>13. /\ Ending(how, "sent") = sent /\ Ending(how, "discarded") = refused /\ Ending(how, "evicted") = out
       /\ Ending(how, "expired") = none /\ Ending(how, "cutShort") = none
  BY <1>2, <1>3, <1>11 DEF Ending
<1>14. Exchanged(none, how)
  <2>1. none \subseteq Records /\ Cardinality(none) <= 1 /\ (\A x : x \notin none) /\ HeldRecords \cup none = HeldRecords
    BY <1>2
  <2>2. \A r \in Records : fate'[r] = IF r \in DOMAIN how THEN how[r] ELSE fate[r]
    BY <1>1 DEF Leave
  <2>3. (\E r \in DOMAIN how : how[r] = "evicted") => out # {}
    BY <1>13 DEF Ending
  <2> QED  BY <1>1, <1>3, <1>3a, <1>10, <1>12, <2>1, <2>2, <2>3 DEF Exchanged
<1>15. Counted(none, how)
  <2> DEFINE s == Cardinality(sent)
             d == Cardinality(refused)
             e == Cardinality(out)
  <2>1. total \in [{"buffered", "overflowed", "replayed", "discarded", "evicted", "expired", "cutShort"} -> Nat]
    BY TypeParts DEF CountTypes
  <2>2. total' = [total EXCEPT !.replayed = @ + s, !.discarded = @ + d, !.evicted = @ + e]
    BY <1>1
  <2> HIDE DEF s, d, e
  <2>3. /\ total'.buffered = total.buffered /\ total'.replayed = total.replayed + s
        /\ total'.discarded = total.discarded + d /\ total'.evicted = total.evicted + e
        /\ total'.expired = total.expired /\ total'.cutShort = total.cutShort
    BY <2>1, <2>2
  <2>4. total.buffered \in Nat /\ total.expired \in Nat /\ total.cutShort \in Nat
    BY <2>1
  <2>5. /\ total'.buffered = total.buffered + Cardinality(none)
        /\ total'.expired = total.expired + Cardinality(none)
        /\ total'.cutShort = total.cutShort + Cardinality(none)
    BY <1>2, <2>3, <2>4
  <2> QED  BY <1>13, <2>3, <2>5 DEF Counted, s, d, e
<1> QED  BY <1>14, <1>15 DEF Exchanges

-----------------------------------------------------------------------------
(* Every step keeps the parts of the invariant.                              *)

LEMMA ControlStep ==
    ASSUME TypeOK, Control, KindsFit, EachRecordInOnePlace, Next
    PROVE  TypeOK' /\ Control'
<1>0. IsInjective(batch)
  <2>1. IsInjective(batch \o Queue)
    BY DEF EachRecordInOnePlace, Line
  <2> DEFINE q == Queue
  <2>2. q \in Seq(Records) /\ batch \in Seq(Records)
    BY LineIsSeq DEF Queue
  <2>3. IsInjective(batch \o q)
    BY <2>1
  <2> HIDE DEF q
  <2> QED  BY <2>2, <2>3, InjectiveConcat
<1>1. ASSUME NEW r \in Records, Push(r) \/ PushOverflow(r) \/ GrowOld(r) PROVE TypeOK' /\ Control'
  BY <1>1, PushControl, PushOverflowControl, GrowOldControl
<1>2. ASSUME NEW b \in BuildIds, Build(b) PROVE TypeOK' /\ Control'
  BY <1>2, StartTaskControl, BuildEventControl, EndTaskControl, SkipTaskControl, CutTaskShortControl, EndRunControl
     DEF Build
<1>3. ASSUME NEW f \in Flushers, Step(f) PROVE TypeOK' /\ Control'
  <2>1. CASE BuildAllOverflow(f) \/ SetShutdown(f) \/ StartFlush(f) \/ CheckExiting(f) \/ CheckGoesOn(f)
    BY <2>1, BuildAllOverflowControl, SetShutdownControl, StartFlushControl, CheckExitingControl, CheckGoesOnControl
  <2>2. CASE ForgetEmpty(f) \/ HandToThread(f) \/ HandToSelf(f) \/ HandOnEventLoop(f) \/ EndWait(f) \/ ReturnToFront(f)
    BY <2>2, ForgetEmptyControl, HandToThreadControl, HandToSelfControl, HandOnEventLoopControl, EndWaitControl,
       ReturnToFrontControl
  <2>3. CASE TakeLock(f) \/ SkipLock(f) \/ TakeBatch(f) \/ SettleReplays(f) \/ Unpark(f)
    BY <1>0, <2>3, TakeLockControl, SkipLockControl, TakeBatchControl, SettleReplaysControl, UnparkControl
  <2>4. CASE CountUndelivered(f) \/ CountInBuild(f)
    BY <2>4, CountUndeliveredControl, CountInBuildControl
  <2> QED  BY <1>3, <2>1, <2>2, <2>3, <2>4 DEF Step
<1>4. ASSUME NEW f \in Flushers, Deadline(f) PROVE TypeOK' /\ Control'
  BY <1>4, DeadlineControl
<1> QED  BY <1>1, <1>2, <1>3, <1>4, TrafficControl DEF Next, Arrive

LEMMA PlaceStep ==
    ASSUME TypeOK, Control, KindsFit, ParkedFits, EachRecordInOnePlace, Next
    PROVE  EachRecordInOnePlace' /\ KindsFit' /\ OrderKept
<1> DEFINE Kept == EachRecordInOnePlace' /\ KindsFit' /\ OrderKept
<1>0. FlushThread \in Flushers
  BY DEF Flushers
<1>1. ASSUME NEW r \in Records, Push(r) \/ PushOverflow(r) \/ GrowOld(r) PROVE Kept
  BY <1>0, <1>1, PushKeeps, PushOverflowKeeps, QuietSteps
<1>2. ASSUME NEW b \in BuildIds, Build(b) PROVE Kept
  BY <1>2, StartTaskKeeps, BuildEventKeeps, EndTaskKeeps, SkipTaskKeeps, CutTaskShortKeeps, EndRunKeeps DEF Build
<1>3. ASSUME NEW f \in Flushers, Step(f) PROVE Kept
  <2>1. CASE BuildAllOverflow(f) \/ StartFlush(f) \/ CheckExiting(f)
    BY <2>1, BuildAllOverflowKeeps, StartFlushKeeps, CheckExitingKeeps
  <2>2. CASE ForgetEmpty(f) \/ HandToThread(f) \/ HandToSelf(f) \/ HandOnEventLoop(f) \/ EndWait(f) \/ ReturnToFront(f)
    BY <2>2, ForgetEmptyKeeps, HandToThreadKeeps, HandToSelfKeeps, HandOnEventLoopKeeps, EndWaitKeeps,
       ReturnToFrontKeeps
  <2>3. CASE TakeLock(f) \/ TakeBatch(f) \/ SettleReplays(f) \/ Unpark(f)
    BY <2>3, TakeLockKeeps, TakeBatchKeeps, SettleReplaysKeeps, UnparkKeeps
  <2>4. CASE CheckGoesOn(f) \/ SkipLock(f) \/ CountUndelivered(f) \/ CountInBuild(f) \/ SetShutdown(f)
    BY <2>4, QuietSteps
  <2> QED  BY <1>3, <2>1, <2>2, <2>3, <2>4 DEF Step
<1>4. ASSUME NEW f \in Flushers, Deadline(f) PROVE Kept
  BY <1>4, QuietSteps
<1>5. Traffic => Kept
  BY <1>0, QuietSteps
<1> QED  BY <1>1, <1>2, <1>3, <1>4, <1>5 DEF Next, Arrive

LEMMA ExchangeStep ==
    ASSUME TypeOK, Control, KindsFit, ParkedFits, EachRecordInOnePlace, Next
    PROVE  Exchanges
<1> USE DEF recordVars
<1>1. ASSUME NEW r \in Records, Push(r) \/ PushOverflow(r) PROVE Exchanges
  BY <1>1, EnterExchanges
<1>2. ASSUME NEW r \in Records, GrowOld(r) PROVE Exchanges
  BY <1>2, NothingLeaves DEF GrowOld
<1>3. Traffic => Exchanges
  BY NothingLeaves DEF Traffic
<1>4. ASSUME NEW b \in BuildIds, StartTask(b) \/ EndTask(b) \/ EndRun(b) PROVE Exchanges
  <2>1. UNCHANGED <<kind, fate, total>>
    BY <1>4 DEF StartTask, EndTask, EndRun
  <2> QED  BY <2>1, NothingLeaves
<1>5. ASSUME NEW b \in BuildIds, BuildEvent(b) \/ SkipTask(b) \/ CutTaskShort(b) PROVE Exchanges
  BY <1>5, BuildEventExchanges, TaskLeavesExchanges
<1>6. ASSUME NEW f \in Flushers, ReturnToFront(f) \/ TakeBatch(f) \/ SettleReplays(f) PROVE Exchanges
  BY <1>6, ReturnToFrontExchanges, TakeBatchExchanges, SettleReplaysExchanges
<1>7. ASSUME NEW f \in Flushers,
             \/ SetShutdown(f) \/ CheckExiting(f) \/ CheckGoesOn(f) \/ ForgetEmpty(f) \/ HandToThread(f)
             \/ HandToSelf(f) \/ HandOnEventLoop(f) \/ EndWait(f) \/ TakeLock(f) \/ SkipLock(f) \/ Unpark(f)
             \/ CountUndelivered(f) \/ CountInBuild(f) \/ Deadline(f) \/ StartFlush(f) \/ BuildAllOverflow(f)
      PROVE  Exchanges
  <2>1. UNCHANGED <<kind, fate, total>>
    BY <1>7 DEF SetShutdown, CheckExiting, CheckGoesOn, ForgetEmpty, HandToThread, HandToSelf, HandOnEventLoop,
                EndWait, TakeLock, SkipLock, Unpark, CountUndelivered, CountInBuild, Deadline, StartFlush,
                BuildAllOverflow
  <2> QED  BY <2>1, NothingLeaves
<1> QED  BY <1>1, <1>2, <1>3, <1>4, <1>5, <1>6, <1>7 DEF Next, Arrive, Build, Step

\* The records that left in one way, before and after an exchange.
LEMMA EndedGrows ==
    ASSUME NEW new, NEW how, Exchanged(new, how), NEW what, what # "none"
    PROVE  Cardinality({r \in Records : fate'[r] = what})
               = Cardinality({r \in Records : fate[r] = what}) + Cardinality(Ending(how, what))
<1> DEFINE was == {r \in Records : fate[r] = what}
           now == {r \in Records : fate'[r] = what}
           more == Ending(how, what)
           none == was \cap more
<1>1. DOMAIN how \subseteq Records /\ \A r \in DOMAIN how : fate[r] = "none"
  BY DEF Exchanged, HeldRecords
<1>2. now = was \cup more
  BY <1>1 DEF Exchanged, Ending
<1>3. none = {}
  BY <1>1 DEF Ending
<1>4. was \subseteq Records /\ more \subseteq Records
  BY <1>1 DEF Ending
<1> HIDE DEF was, now, more
<1>5. IsFiniteSet(was) /\ IsFiniteSet(more)
  BY <1>4, BufferAssumption, FS_Subset
<1>6. Cardinality(was \cup more) = Cardinality(was) + Cardinality(more) - Cardinality(was \cap more)
  BY <1>5, FS_Union
<1>7. Cardinality(was \cap more) = 0
  BY <1>3, FS_EmptySet
<1>8. Cardinality(was) \in Nat /\ Cardinality(more) \in Nat
  BY <1>5, FS_CardinalityType
<1>9. Cardinality(now) = Cardinality(was) + Cardinality(more)
  BY <1>2, <1>6, <1>7, <1>8
<1> QED  BY <1>9 DEF was, now, more

\* The records that entered.
LEMMA EnteredGrows ==
    ASSUME NEW new, NEW how, Exchanged(new, how)
    PROVE  Cardinality({r \in Records : kind'[r] # "none"})
               = Cardinality({r \in Records : kind[r] # "none"}) + Cardinality(new)
<1> DEFINE was == {r \in Records : kind[r] # "none"}
           now == {r \in Records : kind'[r] # "none"}
<1>1. now = was \cup new /\ was \cap new = {} /\ was \subseteq Records /\ new \subseteq Records
  BY DEF Exchanged
<1> HIDE DEF was, now
<1>2. IsFiniteSet(was) /\ IsFiniteSet(new)
  BY <1>1, BufferAssumption, FS_Subset
<1>3. Cardinality(was \cup new) = Cardinality(was) + Cardinality(new) - Cardinality(was \cap new)
  BY <1>2, FS_Union
<1>4. Cardinality(was \cap new) = 0
  BY <1>1, FS_EmptySet
<1>5. Cardinality(was) \in Nat /\ Cardinality(new) \in Nat
  BY <1>2, FS_CardinalityType
<1>6. Cardinality(now) = Cardinality(was) + Cardinality(new)
  BY <1>1, <1>3, <1>4, <1>5
<1> QED  BY <1>6 DEF was, now

LEMMA TotalsStep ==
    ASSUME TotalsExact, Control', Exchanges
    PROVE  TotalsExact'
<1>1. PICK new, how : Exchanged(new, how) /\ Counted(new, how)
  BY DEF Exchanges
<1>2. total'.buffered = Cardinality({r \in Records : kind'[r] # "none"})
  BY <1>1, EnteredGrows DEF TotalsExact, Counted
<1>3. total'.replayed = Cardinality({r \in Records : fate'[r] = "sent"})
  BY <1>1, EndedGrows DEF TotalsExact, Counted
<1>4. total'.discarded = Cardinality({r \in Records : fate'[r] = "discarded"})
  BY <1>1, EndedGrows DEF TotalsExact, Counted
<1>5. total'.evicted = Cardinality({r \in Records : fate'[r] = "evicted"})
  BY <1>1, EndedGrows DEF TotalsExact, Counted
<1>6. total'.expired = Cardinality({r \in Records : fate'[r] = "expired"})
  BY <1>1, EndedGrows DEF TotalsExact, Counted
<1>7. total'.cutShort = Cardinality({r \in Records : fate'[r] = "cutShort"})
  BY <1>1, EndedGrows DEF TotalsExact, Counted
<1>8. inFlight' = Len(batch')
  BY DEF Control, BatchFits
<1> QED  BY <1>2, <1>3, <1>4, <1>5, <1>6, <1>7, <1>8 DEF TotalsExact

-----------------------------------------------------------------------------
(* The contract: what is held is what is found in a deque, the batch, a      *)
(* build or a hand-back.                                                     *)

LEMMA HeldArePresent ==
    ASSUME EachRecordInOnePlace
    PROVE  {r \in Records : Present(r)} = HeldRecords
BY DEF EachRecordInOnePlace, HeldRecords

LEMMA HeldArePresentNext ==
    ASSUME EachRecordInOnePlace'
    PROVE  {r \in Records : Present(r)}' = HeldRecords'
BY DEF EachRecordInOnePlace, HeldRecords

LEMMA ContractStep ==
    ASSUME TypeOK', KindsFit, EachRecordInOnePlace, EachRecordInOnePlace', Exchanges
    PROVE  Contract!Next
<1>1. PICK new, how : Exchanged(new, how)
  BY DEF Exchanges
<1> DEFINE gone == DOMAIN how
<1>2. /\ new \in SUBSET {r \in Records : r \notin HeldRecords /\ fate[r] = "none"}
      /\ gone \in SUBSET HeldRecords /\ how \in [gone -> Fates]
  BY <1>1 DEF Exchanged, HeldRecords, KindsFit
<1>3. Cardinality(new) <= 1 /\ ((\E r \in gone : how[r] = "evicted") => Cardinality(HeldRecords \cup new) > MaxSize)
  BY <1>1 DEF Exchanged
<1>4. fate' = [r \in Records |-> IF r \in gone THEN how[r] ELSE fate[r]]
  <2>1. fate' \in [Records -> Fates \cup {"none"}]
    BY DEF TypeOK
  <2> QED  BY <1>1, <2>1 DEF Exchanged
<1>5. HeldRecords' = (HeldRecords \cup new) \ gone
  <2>1. \A r \in gone : how[r] # "none"
    BY <1>2 DEF Fates
  <2>2. \A r \in new : r \in Records /\ r \notin HeldRecords /\ fate[r] = "none"
    BY <1>2
  <2> QED  BY <1>1, <1>2, <2>1, <2>2 DEF Exchanged, HeldRecords
<1>6. {r \in Records : Present(r)} = HeldRecords /\ {r \in Records : Present(r)}' = HeldRecords'
  BY HeldArePresent, HeldArePresentNext
<1> HIDE DEF gone
<1>7. Contract!Exchange(new, gone, how)
  <2>1. \A S : Contract!Cardinality(S) = Cardinality(S)
    BY DEF Contract!Cardinality, Cardinality
  <2> QED  BY <1>3, <1>4, <1>5, <1>6, <2>1 DEF Contract!Exchange
<1>8. Contract!Fresh = {r \in Records : r \notin HeldRecords /\ fate[r] = "none"}
  BY <1>6 DEF Contract!Fresh
<1> QED  BY <1>2, <1>6, <1>7, <1>8 DEF Contract!Next

-----------------------------------------------------------------------------
(* What holds at the start.                                                  *)

LEMMA InitPlaces ==
    ASSUME Init
    PROVE  /\ EachRecordInOnePlace /\ KindsFit /\ ParkedFits /\ HeldIsBounded /\ TotalsExact
           /\ Contract!Init
<1> DEFINE none == <<>>
<1>0. /\ none \in Seq(Records) /\ IsInjective(none) /\ (\A x : x \notin Range(none)) /\ Len(none) = 0
      /\ none \o none = none
  BY NoElement
<1>1. /\ batch = none /\ parked = none /\ events = none
      /\ \A b \in BuildIds : builds[b].built = FALSE /\ builds[b].current = none /\ builds[b].tasks = none
      /\ \A f \in Flushers : back[f] = none /\ pc[f] = "idle"
      /\ \A r \in Records : kind[r] = "none" /\ fate[r] = "none"
  BY DEF Init, NoBuild
<1> HIDE DEF none
<1>2. Line = none /\ \A b \in BuildIds : Unfinished(builds[b]) = none
  BY <1>0, <1>1 DEF Line, Queue, Unfinished
<1>3. \A r : ~OnLine(r) /\ (\A b \in BuildIds : ~InBuildOf(r, b)) /\ \A f \in Flushers : ~HandedBack(r, f)
  BY <1>0, <1>1, <1>2 DEF OnLine, InBuildOf, HandedBack
<1>4. HeldRecords = {} /\ \A r : ~Present(r)
  BY <1>1, <1>3 DEF HeldRecords, Present
<1>5. EachRecordInOnePlace
  <2>1. \A f \in Flushers : IsInjective(back[f])
    BY <1>0, <1>1
  <2>2. IsInjective(Line) /\ \A b \in BuildIds : IsInjective(Unfinished(builds[b]))
    BY <1>0, <1>2
  <2> QED  BY <1>1, <1>3, <1>4, <2>1, <2>2 DEF EachRecordInOnePlace
<1>6. KindsFit /\ ParkedFits
  BY <1>0, <1>1, <1>3 DEF KindsFit, ParkedFits
<1>7. HeldIsBounded
  BY <1>0, <1>1, MaxSizeIsNat DEF HeldIsBounded, Held
<1>8. TotalsExact
  <2>1. ASSUME NEW what, what # "none" PROVE Cardinality({r \in Records : fate[r] = what}) = 0
    <3>1. {r \in Records : fate[r] = what} = {}
      BY <1>1, <2>1
    <3> QED  BY <3>1, FS_EmptySet
  <2>2. Cardinality({r \in Records : kind[r] # "none"}) = 0
    <3>1. {r \in Records : kind[r] # "none"} = {}
      BY <1>1
    <3> QED  BY <3>1, FS_EmptySet
  <2>3. inFlight = Len(batch)
    BY <1>0, <1>1 DEF Init
  <2>4. /\ total.buffered = 0 /\ total.replayed = 0 /\ total.discarded = 0
        /\ total.evicted = 0 /\ total.expired = 0 /\ total.cutShort = 0
    BY DEF Init
  <2> QED  BY <2>1, <2>2, <2>3, <2>4 DEF TotalsExact
<1>9. Contract!Init
  <2>1. {r \in Records : Present(r)} = {}
    BY <1>4
  <2> QED  BY <2>1 DEF Contract!Init, Init
<1> QED  BY <1>5, <1>6, <1>7, <1>8, <1>9

LEMMA InvariantStep ==
    ASSUME IInv, [Next]_vars
    PROVE  IInv' /\ OrderKept /\ (UNCHANGED vars \/ Exchanges)
<1>1. TypeOK /\ Control /\ KindsFit /\ ParkedFits /\ EachRecordInOnePlace /\ HeldIsBounded /\ TotalsExact
  BY DEF IInv
<1>2. CASE Next
  <2>1. TypeOK' /\ Control'
    BY <1>1, <1>2, ControlStep
  <2>2. EachRecordInOnePlace' /\ KindsFit' /\ OrderKept
    BY <1>1, <1>2, PlaceStep
  <2>3. ParkedFits'
    BY <1>1, <1>2, ParkedStep
  <2>4. HeldIsBounded'
    BY <1>1, <1>2, BoundStep
  <2>5. Exchanges
    BY <1>1, <1>2, ExchangeStep
  <2>6. TotalsExact'
    BY <1>1, <2>1, <2>5, TotalsStep
  <2> QED  BY <2>1, <2>2, <2>3, <2>4, <2>5, <2>6 DEF IInv
<1>3. CASE UNCHANGED vars
  <2>1. /\ UNCHANGED <<recordVars, queueVars, replayVars, total, buildVars, envVars, flushVars>>
        /\ UNCHANGED <<kind, old, fate, settled, events, parked, lock, batch, inFlight, unreachable, total>>
        /\ UNCHANGED <<builds, jobs, workerUp, exitBuild, shutdown, circuitOpen>>
        /\ UNCHANGED <<pc, stage, mine, back, late, awaits, report, base, owed>>
    BY <1>3 DEF vars, recordVars, queueVars, replayVars, buildVars, envVars, flushVars, askVars
  <2>2. TypeOK'
    BY <1>1, <2>1 DEF TypeOK
  <2>3. Control'
    <3>1. LockFits' /\ BatchFits' /\ BackFits'
      BY <1>1, <2>1 DEF Control, LockFits, BatchFits, BackFits
    <3>2. MineFits'
      BY <1>1, <2>1 DEF Control, MineFits
    <3>3. BuildsFit' /\ CountsFit'
      BY <1>1, <2>1 DEF Control, BuildsFit, CountsFit
    <3> QED  BY <3>1, <3>2, <3>3 DEF Control
  <2>4. EachRecordInOnePlace' /\ KindsFit' /\ OrderKept
    <3>1. \A c \in BuildIds : Unfinished(builds'[c]) = Unfinished(builds[c])
      BY <2>1
    <3> QED  BY <1>1, <2>1, <3>1, QuietStep
  <2>5. ParkedFits' /\ HeldIsBounded' /\ TotalsExact'
    BY <1>1, <2>1 DEF ParkedFits, HeldIsBounded, Held, TotalsExact
  <2> QED  BY <1>3, <2>2, <2>3, <2>4, <2>5 DEF IInv
<1> QED  BY <1>2, <1>3

-----------------------------------------------------------------------------
(* What the buffer promises, for any records, sizes, threads and builds.     *)

\* The conjunction that every handler of MeteringBuffer, _OverflowBuild and their flushers
\* keeps, whatever deadlines, takeovers and disturbances come between two of their steps.
THEOREM BufferInvariant == Spec => []IInv
<1>1. Init => IInv
  BY InitControl, InitPlaces DEF IInv
<1>2. IInv /\ [Next]_vars => IInv'
  BY InvariantStep
<1> QED  BY <1>1, <1>2, PTL DEF Spec

\* The deques, builds, counters and places of the flushers keep their types.
THEOREM BufferTypes == Spec => []TypeOK
<1>1. IInv => TypeOK
  BY DEF IInv
<1> QED  BY <1>1, BufferInvariant, PTL

\* A record that entered and has not left is in exactly one of the deques, the batch, the
\* builds and the hand-backs (push, flush, materialize_overflow, build_all_overflow).
THEOREM EachRecordInOnePlaceHolds == Spec => []EachRecordInOnePlace
<1>1. IInv => EachRecordInOnePlace
  BY DEF IInv
<1> QED  BY <1>1, BufferInvariant, PTL

\* The deques never hold more than REVENIUM_BUFFER_MAX_SIZE (_append, _return_to_front and
\* _settle_replays all make room first).
THEOREM HeldIsBoundedHolds == Spec => []HeldIsBounded
<1>1. IInv => HeldIsBounded
  BY DEF IInv
<1> QED  BY <1>1, BufferInvariant, PTL

\* The counters of stats() count what happened to the records (_total_buffered and the rest).
THEOREM TotalsExactHolds == Spec => []TotalsExact
<1>1. IInv => TotalsExact
  BY DEF IInv
<1> QED  BY <1>1, BufferInvariant, PTL

\* No step turns two records of one endpoint round, through parking, unparking, retries and
\* evictions (_take_replay_batch, _settle_replays, _unpark).
THEOREM KeepsReplayOrderHolds == Spec => KeepsReplayOrder
<1>1. IInv /\ [Next]_vars => OrderKept
  BY InvariantStep
<1>2. IInv /\ [Next]_vars => [\A r, s \in Records : Ahead(r, s) => ~Ahead(s, r)']_vars
  BY <1>1 DEF OrderKept
<1> QED  BY <1>2, BufferInvariant, PTL DEF Spec, KeepsReplayOrder

\* The buffer implements DeliveryContract: what it takes in it holds until it lets it go with
\* one outcome, for good, and it evicts only for want of room.
THEOREM KeepsContractHolds == Spec => KeepsContract
<1>1. Init => Contract!Init
  BY InitPlaces
<1>2. ASSUME IInv, IInv', [Next]_vars PROVE [Contract!Next]_(Contract!vars)
  <2>1. UNCHANGED vars \/ Exchanges
    BY <1>2, InvariantStep
  <2>2. CASE UNCHANGED vars
    <3>1. UNCHANGED <<batch, parked, events, builds, back, fate>>
      BY <2>2 DEF vars, recordVars, queueVars, replayVars, buildVars, flushVars
    <3>2. {r \in Records : Present(r)}' = {r \in Records : Present(r)}
      BY <3>1 DEF Present, OnLine, Line, Queue, InBuildOf, HandedBack
    <3> QED  BY <3>1, <3>2 DEF Contract!vars
  <2>3. CASE Exchanges
    BY <1>2, <2>3, ContractStep DEF IInv
  <2> QED  BY <2>1, <2>2, <2>3
<1> QED  BY <1>1, <1>2, BufferInvariant, PTL DEF Spec, KeepsContract, Contract!Spec

\* As the contract has it, a record that has left is not held, and never again.
LeftForGood ==
    /\ fate \in [Records -> Fates \cup {"none"}]
    /\ \A r \in Records : Present(r) => fate[r] = "none"

LEMMA ContractIsFinal ==
    ASSUME LeftForGood, [Contract!Next]_(Contract!vars)
    PROVE  LeftForGood' /\ \A r \in Records : fate[r] # "none" => fate'[r] = fate[r] /\ ~Present(r)'
<1> DEFINE here == {r \in Records : Present(r)}
<1>1. CASE UNCHANGED Contract!vars
  <2>1. here' = here /\ fate' = fate
    BY <1>1 DEF Contract!vars
  <2>2. \A r \in Records : Present(r)' <=> Present(r)
    BY <2>1
  <2> QED  BY <2>1, <2>2 DEF LeftForGood
<1>2. CASE Contract!Next
  <2>0. PICK new \in SUBSET Contract!Fresh, gone \in SUBSET here :
            \E how \in [gone -> Fates] : Contract!Exchange(new, gone, how)
    BY <1>2 DEF Contract!Next
  <2>1. PICK how \in [gone -> Fates] : Contract!Exchange(new, gone, how)
    BY <2>0
  <2>2. here' = (here \cup new) \ gone /\ fate' = [r \in Records |-> IF r \in gone THEN how[r] ELSE fate[r]]
    BY <2>1 DEF Contract!Exchange
  <2>3. \A r \in new : r \in Records /\ fate[r] = "none"
    BY <2>1 DEF Contract!Fresh
  <2>4. \A r \in Records : Present(r)' => (Present(r) \/ r \in new) /\ r \notin gone
    BY <2>2
  <2>5. \A r \in gone : r \in Records /\ Present(r)
    BY <2>1
  <2> HIDE DEF here
  <2>6. fate' \in [Records -> Fates \cup {"none"}]
    BY <2>1, <2>2 DEF LeftForGood
  <2>7. \A r \in Records : fate[r] # "none" => fate'[r] = fate[r] /\ ~Present(r)'
    BY <2>2, <2>3, <2>4, <2>5 DEF LeftForGood
  <2>8. \A r \in Records : Present(r)' => fate'[r] = "none"
    BY <2>2, <2>3, <2>4 DEF LeftForGood
  <2> QED  BY <2>6, <2>7, <2>8 DEF LeftForGood
<1> QED  BY <1>1, <1>2

\* A record leaves the buffer once: whatever is replayed late, evicted, returned or cut short
\* afterwards, its outcome stays and it is not found in the buffer again.
THEOREM LeavesOnce ==
    Spec => [][\A r \in Records : fate[r] # "none" => fate'[r] = fate[r] /\ ~Present(r)']_vars
<1>1. Init => LeftForGood
  BY DEF Init, LeftForGood
<1>2. LeftForGood /\ [Contract!Next]_(Contract!vars) => LeftForGood'
  BY ContractIsFinal
<1>3. LeftForGood /\ [Contract!Next]_(Contract!vars)
        => [\A r \in Records : fate[r] # "none" => fate'[r] = fate[r] /\ ~Present(r)']_vars
  BY ContractIsFinal
<1> QED  BY <1>1, <1>2, <1>3, KeepsContractHolds, PTL DEF Spec, KeepsContract, Contract!Spec

-----------------------------------------------------------------------------
(* The answer of the exit drain.  build_all_overflow leaves no overflowed    *)
(* record it found without a build of its own or one it waits for, and in    *)
(* time it waits for both: what is left by then is on the line, and counted. *)

\* No build runs on its flusher's thread, and there is one exit drain.
ThreadsStart == "nothread" \notin Disturbances
OneExitThread == \A e, f \in ExitThreads : e = f

\* A stopped build has no tasks left, but for those its flusher still collects for it.
StopsFit ==
    /\ \A b \in BuildIds :
        /\ builds[b].mode \notin {"inline", "over"}
        /\ builds[b].stopped /\ builds[b].mode \in {"queued", "own"} => builds[b].tasks = <<>>
        /\ builds[b].stopped /\ builds[b].mode = "held" => exitBuild
    /\ \A f \in Flushers : pc[f] = "hand" /\ builds[mine[f]].stopped => builds[mine[f]].tasks = <<>>

\* The exit drain begins once, and only it takes builds over; until then the flush thread,
\* which has no deadline, hands nothing back.
ExitFits ==
    /\ \A e \in ExitThreads : (exitBuild => pc[e] # "idle") /\ (pc[e] = "idle" => owed[e] = {})
    /\ ~exitBuild => back[FlushThread] = <<>>
    /\ \A f \in Flushers : stage[f] = "takeover" \/ pc[f] = "await" => f \in ExitThreads

\* Build b is at the task of r and has not buffered its event.
Doing(b, r) == builds[b].current = <<r>> /\ ~builds[b].built

\* The exit drain is still building r itself, or waiting for the build that is.
Chased(e, r) ==
    /\ stage[e] = "takeover"
    /\ \/ pc[e] \in {"hand", "wait"} /\ mine[e] # 0 /\ InBuildOf(r, mine[e])
       \/ pc[e] \in {"hand", "wait", "await"} /\ \E b \in awaits : Doing(b, r)

\* In time the exit drain leaves no record it found overflowed.
ChaseFits ==
    \A e \in ExitThreads \ late : \A r \in owed[e] :
        kind[r] # "none" /\ (kind[r] = "overflow" /\ fate[r] = "none" => Chased(e, r))

\* An answer of 0 in time was true when it was counted.
AnswerFits ==
    \A e \in ExitThreads \ late :
        pc[e] \in {"tally", "done"} /\ report[e] = 0 => \A r \in owed[e] : fate[r] # "none"

LEMMA ThreadsAreStarted ==
    ASSUME ThreadsStart, NEW f, HandToSelf(f) \/ HandOnEventLoop(f)
    PROVE  FALSE
BY DEF ThreadsStart, HandToSelf, HandOnEventLoop

\* Exit threads are flushers with a deadline.
LEMMA ExitThreadFacts ==
    ASSUME NEW e \in ExitThreads
    PROVE  e \in Flushers /\ HasDeadline(e) /\ e \notin Callers /\ e # FlushThread
BY BufferAssumption DEF BufferAssumption, Flushers, HasDeadline

\* What is each flusher's own.
Stays(g) ==
    /\ pc'[g] = pc[g] /\ stage'[g] = stage[g] /\ mine'[g] = mine[g] /\ back'[g] = back[g]
    /\ owed'[g] = owed[g] /\ report'[g] = report[g]

\* A flusher's step moves that flusher.
LEMMA StepMovesOne ==
    ASSUME TypeOK, NEW f \in Flushers, Step(f)
    PROVE  late' = late /\ \A g \in Flushers \ {f} : Stays(g)
<1> USE TypeParts DEF FlushTypes, CountTypes, Go, Put, Stays, askVars, flushVars, RegisterBuild
<1>1. CASE BuildAllOverflow(f) \/ SetShutdown(f)
  BY <1>1 DEF BuildAllOverflow, SetShutdown
<1>2. CASE StartFlush(f)
  BY <1>2 DEF StartFlush
<1>3. CASE CheckExiting(f) \/ CheckGoesOn(f) \/ ForgetEmpty(f) \/ HandToThread(f)
  BY <1>3 DEF CheckExiting, CheckGoesOn, ForgetEmpty, HandToThread
<1>4. CASE HandToSelf(f) \/ HandOnEventLoop(f)
  BY <1>4 DEF HandToSelf, HandOnEventLoop
<1>5. CASE EndWait(f) \/ ReturnToFront(f)
  BY <1>5 DEF EndWait, ReturnToFront
<1>6. CASE TakeLock(f) \/ SkipLock(f)
  BY <1>6 DEF TakeLock, SkipLock
<1>7. CASE TakeBatch(f) \/ SettleReplays(f) \/ Unpark(f)
  BY <1>7 DEF TakeBatch, SettleReplays, Unpark
<1>8. CASE CountUndelivered(f) \/ CountInBuild(f)
  BY <1>8 DEF CountUndelivered, CountInBuild
<1> QED  BY <1>1, <1>2, <1>3, <1>4, <1>5, <1>6, <1>7, <1>8 DEF Step

\* The others move none: a record that arrives, the circuit, a deadline, a running build.
LEMMA OthersMoveNone ==
    ASSUME Arrive \/ Traffic \/ (\E f \in Flushers : Deadline(f)) \/ \E b \in BuildIds : Build(b)
    PROVE  /\ UNCHANGED <<pc, stage, back, owed, report, exitBuild>>
           /\ late \subseteq late'
           /\ (\E b \in BuildIds : EndRun(b)) \/ UNCHANGED <<mine, awaits>>
<1> USE DEF askVars, flushVars, buildVars
<1>1. CASE Arrive
  BY <1>1 DEF Arrive, Push, PushOverflow, GrowOld
<1>2. CASE Traffic
  BY <1>2 DEF Traffic
<1>3. ASSUME NEW f \in Flushers, Deadline(f)
      PROVE  /\ UNCHANGED <<pc, stage, back, owed, report, exitBuild>> /\ late \subseteq late'
             /\ UNCHANGED <<mine, awaits>>
  BY <1>3 DEF Deadline
<1>4. ASSUME NEW b \in BuildIds, Build(b)
      PROVE  /\ UNCHANGED <<pc, stage, back, owed, report, exitBuild>> /\ late \subseteq late'
             /\ EndRun(b) \/ UNCHANGED <<mine, awaits>>
  BY <1>4 DEF Build, StartTask, BuildEvent, EndTask, SkipTask, CutTaskShort, EndRun
<1> QED  BY <1>1, <1>2, <1>3, <1>4

\* A build that takes a step has been handed over.
LEMMA RunningBuild ==
    ASSUME TypeOK, Control, NEW b \in BuildIds, Build(b)
    PROVE  /\ builds[b].mode \in {"queued", "own", "inline"}
           /\ \A f \in Flushers : pc[f] \in Owning => mine[f] # b
<1>1. builds[b].mode \in {"queued", "own", "inline"}
  <2>1. CASE StartTask(b) \/ EndRun(b)
    BY <2>1 DEF StartTask, EndRun, IsRun
  <2>2. CASE BuildEvent(b) \/ EndTask(b) \/ SkipTask(b) \/ CutTaskShort(b)
    <3>1. builds[b].current # <<>>
      BY <2>2 DEF BuildEvent, EndTask, SkipTask, CutTaskShort, Control, BuildsFit
    <3>2. builds[b].mode \notin {"free", "held", "over"}
      BY <3>1 DEF Control, BuildsFit, NoBuild
    <3> QED  BY <3>2, BuildFacts DEF BuildType, Modes
  <2> QED  BY <2>1, <2>2 DEF Build
<1>2. \A f \in Flushers : pc[f] \in Owning => builds[mine[f]].mode = "held"
  BY DEF Control, MineFits
<1> QED  BY <1>1, <1>2

\* Where the exit drain's build does not start, no build of another flusher does.
LEMMA StopsBecame ==
    ASSUME StopsFit, NEW b \in BuildIds, NEW build, Became(b, build), exitBuild' = exitBuild,
           build.mode \notin {"inline", "over"},
           build.stopped /\ build.mode \in {"queued", "own"} => build.tasks = <<>>,
           build.stopped /\ build.mode = "held" => exitBuild,
           \A g \in Flushers : pc'[g] = "hand" =>
               pc[g] = "hand" /\ mine'[g] = mine[g] /\ mine[g] \in BuildIds /\ mine[g] # b
    PROVE  StopsFit'
BY DEF StopsFit, Became

\* The same of a flusher's own step, at its build or a new one.
LEMMA StopsMoved ==
    ASSUME TypeOK, Control, StopsFit, NEW f \in Flushers, Step(f), pc'[f] # "hand",
           NEW b \in BuildIds, b = mine[f] \/ builds[b].mode = "free",
           NEW build, Became(b, build), exitBuild' = exitBuild,
           build.mode \notin {"inline", "over"},
           build.stopped /\ build.mode \in {"queued", "own"} => build.tasks = <<>>,
           build.stopped /\ build.mode = "held" => exitBuild
    PROVE  StopsFit'
<1>1. \A g \in Flushers \ {f} : pc'[g] = pc[g] /\ mine'[g] = mine[g]
  BY StepMovesOne DEF Stays
<1>2. \A g \in Flushers : pc[g] = "hand" => mine[g] \in BuildIds /\ builds[mine[g]].mode = "held"
  BY OwnBuild DEF Owning
<1>3. \A g \in Flushers \ {f} : pc[g] = "hand" => mine[g] # b
  BY <1>2, BuildFacts DEF Control, MineFits
<1>4. \A g \in Flushers : pc'[g] = "hand" =>
          pc[g] = "hand" /\ mine'[g] = mine[g] /\ mine[g] \in BuildIds /\ mine[g] # b
  BY <1>1, <1>2, <1>3
<1> QED  BY <1>4, StopsBecame

\* A flusher's step stops no build it has tasks to hand over in, and the takeover takes
\* the tasks of what it stops.
LEMMA StopsSurviveFlusher ==
    ASSUME TypeOK, Control, StopsFit, ThreadsStart, NEW f \in Flushers, Step(f)
    PROVE  StopsFit'
<1> USE BuildFacts, OwnBuild DEF Owning
<1>0. \A g \in Flushers \ {f} : pc'[g] = pc[g] /\ mine'[g] = mine[g]
  BY StepMovesOne DEF Stays
<1>h. \A g \in Flushers : pc[g] = "hand" => mine[g] \in BuildIds /\ builds[mine[g]].mode = "held"
  OBVIOUS
<1>1. CASE BuildAllOverflow(f)
  <2>1. /\ Free # {} /\ pc'[f] = "hand" /\ mine'[f] = NewBuild /\ exitBuild' = TRUE
        /\ \A b \in Active : builds'[b] = Reclaimed(builds[b])
        /\ \A b \in BuildIds \ Active : b # NewBuild => builds'[b] = builds[b]
    BY <1>1, BuildAllOverflowEffect DEF Moved, BuildAllOverflow
  <2>2. builds'[NewBuild].mode = "held" /\ builds'[NewBuild].stopped = FALSE
    BY <1>1, BuildAllOverflowEffect DEF NoBuild
  <2>3. \A b \in Active : /\ b \in BuildIds /\ builds'[b].mode = builds[b].mode
                          /\ builds'[b].tasks = <<>>
    BY <2>1 DEF Active, Reclaimed, BuildType
  <2>4. \A b \in BuildIds \ Active : b # NewBuild => builds'[b].stopped = FALSE
    <3>1. \A b \in BuildIds \ Active : builds[b].mode = "free"
      BY DEF Active, StopsFit, BuildType, Modes
    <3>2. \A b \in BuildIds \ Active : builds[b].stopped = FALSE
      BY <3>1 DEF Control, BuildsFit, NoBuild
    <3> QED  BY <2>1, <3>2
  <2>5. ASSUME NEW b \in BuildIds
        PROVE  /\ builds'[b].mode \notin {"inline", "over"}
               /\ builds'[b].stopped => builds'[b].tasks = <<>>
    BY <2>1, <2>2, <2>3, <2>4 DEF StopsFit
  <2>6. \A g \in Flushers : pc'[g] = "hand" => mine'[g] \in BuildIds
    BY <1>0, <1>h, <2>1
  <2> QED  BY <2>1, <2>5, <2>6 DEF StopsFit
<1>2. ASSUME ~BuildAllOverflow(f) PROVE exitBuild' = exitBuild
  BY <1>2 DEF Step, SetShutdown, StartFlush, CheckExiting, CheckGoesOn, ForgetEmpty, HandToThread,
     HandToSelf, HandOnEventLoop, EndWait, ReturnToFront, TakeLock, SkipLock, TakeBatch, SettleReplays,
     Unpark, CountUndelivered, CountInBuild, buildVars
<1>3. CASE StartFlush(f)
  <2>1. /\ Free # {} /\ pc'[f] = "check"
        /\ Became(NewBuild, [NoBuild EXCEPT !.tasks = Only(events, Overflow), !.mode = "held"])
    BY <1>3, StartFlushEffect DEF Moved
  <2>2. exitBuild' = exitBuild
    BY <1>3 DEF StartFlush
  <2>3. NewBuild \in BuildIds /\ builds[NewBuild].mode = "free"
    BY <2>1 DEF NoBuild
  <2> QED  BY <2>1, <2>2, <2>3, StopsMoved DEF NoBuild
<1>4. CASE TakeLock(f)
  <2>1. /\ Free # {} /\ pc'[f] = "take"
        /\ Became(NewBuild, [NoBuild EXCEPT !.tasks = <<>>, !.mode = "held"])
    BY <1>4, TakeLockEffect DEF Moved
  <2>2. exitBuild' = exitBuild
    BY <1>4 DEF TakeLock
  <2>3. NewBuild \in BuildIds /\ builds[NewBuild].mode = "free"
    BY <2>1 DEF NoBuild
  <2> QED  BY <2>1, <2>2, <2>3, StopsMoved DEF NoBuild
<1>5. CASE CheckExiting(f) \/ ForgetEmpty(f)
  <2>1. /\ pc[f] \in {"check", "hand"} /\ pc'[f] \in {"return", "await", "lock", "count"}
        /\ Became(mine[f], NoBuild)
    BY <1>5, CheckExitingEffect, ForgetEmptyEffect DEF Moved, After
  <2>2. exitBuild' = exitBuild /\ mine[f] \in BuildIds
    BY <1>5, <2>1 DEF CheckExiting, ForgetEmpty
  <2> QED  BY <2>1, <2>2, StopsMoved DEF NoBuild
<1>6. CASE HandToThread(f)
  <2>1. /\ pc[f] = "hand" /\ pc'[f] = "wait" /\ mine[f] \in BuildIds
        /\ \E how \in {"own", "queued"} : Became(mine[f], [builds[mine[f]] EXCEPT !.mode = how])
    BY <1>6, HandToThreadEffect DEF Moved
  <2>2. exitBuild' = exitBuild
    BY <1>6 DEF HandToThread
  <2>3. PICK how \in {"own", "queued"} : Became(mine[f], [builds[mine[f]] EXCEPT !.mode = how])
    BY <2>1
  <2> DEFINE build == [builds[mine[f]] EXCEPT !.mode = how]
  <2>4. build.mode = how /\ build.stopped = builds[mine[f]].stopped /\ build.tasks = builds[mine[f]].tasks
    BY <2>1 DEF BuildType
  <2>5. builds[mine[f]].stopped => builds[mine[f]].tasks = <<>>
    BY <2>1 DEF StopsFit
  <2> HIDE DEF build
  <2>6. Became(mine[f], build)
    BY <2>3 DEF build
  <2> QED  BY <2>1, <2>2, <2>4, <2>5, <2>6, StopsMoved
<1>7. CASE HandToSelf(f) \/ HandOnEventLoop(f)
  BY <1>7, ThreadsAreStarted
<1>8. CASE EndWait(f)
  <2>1. /\ pc[f] = "wait" /\ pc'[f] \in {"return", "await", "lock", "count"}
        /\ \/ UNCHANGED builds
           \/ mine[f] \in BuildIds /\ Became(mine[f], NoBuild)
           \/ mine[f] \in BuildIds /\ Became(mine[f], Reclaimed(builds[mine[f]]))
    BY <1>8, EndWaitEffect DEF Moved, After
  <2>2. exitBuild' = exitBuild
    BY <1>8 DEF EndWait
  <2>3. CASE UNCHANGED builds
    BY <1>0, <2>1, <2>2, <2>3 DEF StopsFit
  <2>4. CASE mine[f] \in BuildIds /\ Became(mine[f], NoBuild)
    BY <2>1, <2>2, <2>4, StopsMoved DEF NoBuild
  <2>5. CASE mine[f] \in BuildIds /\ Became(mine[f], Reclaimed(builds[mine[f]]))
    <3> DEFINE build == Reclaimed(builds[mine[f]])
    <3>1. build.mode = builds[mine[f]].mode /\ build.tasks = <<>>
      BY <2>5 DEF BuildType, Reclaimed
    <3>2. builds[mine[f]].mode \notin {"inline", "over", "held"}
      <4>1. pc[f] \notin Owning /\ mine[f] # 0
        BY <2>1, <2>5
      <4> QED  BY <2>5, <4>1 DEF StopsFit, Control, MineFits
    <3> HIDE DEF build
    <3>3. Became(mine[f], build)
      BY <2>5 DEF build
    <3> QED  BY <2>1, <2>2, <2>5, <3>1, <3>2, <3>3, StopsMoved
  <2> QED  BY <2>1, <2>3, <2>4, <2>5
<1>9. CASE TakeBatch(f)
  <2>1. PICK n \in 0 .. Len(events) : TakesUpTo(f, n)
    BY <1>9, TakeBatchEffect
  <2>2. pc[f] = "take" /\ pc'[f] \in {"unpark", "send"} /\ exitBuild' = exitBuild
    BY <1>9, <2>1 DEF TakesUpTo, Moved, TakeBatch
  <2> DEFINE build == [builds[mine[f]] EXCEPT !.tasks = @ \o Visited(n, "build")]
  <2>3. Became(mine[f], build) /\ mine[f] \in BuildIds
    BY <2>1, <2>2 DEF TakesUpTo
  <2>4. build.mode = "held" /\ (build.stopped => exitBuild)
    <3>1. build.mode = builds[mine[f]].mode /\ build.stopped = builds[mine[f]].stopped
      BY <2>3 DEF BuildType
    <3> QED  BY <2>2, <2>3, <3>1 DEF StopsFit
  <2> HIDE DEF build
  <2> QED  BY <2>2, <2>3, <2>4, StopsMoved
<1>10. CASE CheckGoesOn(f)
  <2>1. ~exitBuild /\ UNCHANGED <<builds, exitBuild, mine>> /\ pc[f] = "check"
    BY <1>10 DEF CheckGoesOn, buildVars
  <2>2. builds[mine[f]].mode = "held" /\ mine[f] \in BuildIds
    BY <2>1
  <2>3. ~builds[mine[f]].stopped
    BY <2>1, <2>2 DEF StopsFit
  <2> QED  BY <1>0, <2>1, <2>3 DEF StopsFit
<1>11. CASE \/ SetShutdown(f) \/ ReturnToFront(f) \/ SkipLock(f) \/ SettleReplays(f) \/ Unpark(f)
            \/ CountUndelivered(f) \/ CountInBuild(f)
  <2>1. UNCHANGED <<builds, exitBuild>>
    BY <1>11 DEF SetShutdown, ReturnToFront, SkipLock, SettleReplays, Unpark, CountUndelivered,
       CountInBuild, buildVars
  <2>2. pc'[f] # "hand"
    BY <1>11, QuietEffects DEF Moved, After
  <2> QED  BY <1>0, <2>1, <2>2 DEF StopsFit
<1> QED  BY <1>1, <1>3, <1>4, <1>5, <1>6, <1>7, <1>8, <1>9, <1>10, <1>11 DEF Step

\* The steps within a task change what the build is at.
LEMMA RunsOn ==
    ASSUME TypeOK, Control, NEW b \in BuildIds,
           BuildEvent(b) \/ EndTask(b) \/ SkipTask(b) \/ CutTaskShort(b)
    PROVE  \E built \in BOOLEAN, current \in Seq(Records) :
               Became(b, [builds[b] EXCEPT !.built = built, !.current = current])
<1>0. builds[b] \in BuildType /\ builds[b].current \in Seq(Records) /\ <<>> \in Seq(Records)
  BY BuildFacts
<1>1. CASE BuildEvent(b)
  <2>1. [builds[b] EXCEPT !.built = TRUE] = [builds[b] EXCEPT !.built = TRUE, !.current = builds[b].current]
    BY <1>0 DEF BuildType
  <2> QED  BY <1>0, <1>1, <2>1, RunEffects
<1>2. CASE EndTask(b)
  BY <1>0, <1>2, RunEffects
<1>3. CASE SkipTask(b) \/ CutTaskShort(b)
  <2>1. [builds[b] EXCEPT !.current = <<>>] = [builds[b] EXCEPT !.built = builds[b].built, !.current = <<>>]
    BY <1>0 DEF BuildType
  <2>2. builds[b].built \in BOOLEAN
    BY <1>0 DEF BuildType
  <2> QED  BY <1>0, <1>3, <2>1, <2>2, RunEffects
<1> QED  BY <1>1, <1>2, <1>3

\* A running build neither stops itself nor ends with tasks left.
LEMMA StopsSurviveBuild ==
    ASSUME TypeOK, Control, StopsFit, NEW b \in BuildIds, Build(b)
    PROVE  StopsFit' /\ (EndRun(b) => builds[b].tasks = <<>> /\ Became(b, NoBuild))
<1>0. builds[b] \in BuildType /\ builds[b].mode \in {"queued", "own"}
  BY BuildFacts, RunningBuild DEF StopsFit
<1>1. exitBuild' = exitBuild /\ pc' = pc /\ (EndRun(b) \/ mine' = mine)
  BY DEF Build, StartTask, BuildEvent, EndTask, SkipTask, CutTaskShort, EndRun, flushVars
<1>2. \A g \in Flushers : pc[g] = "hand" => mine[g] \in BuildIds /\ mine[g] # b
  BY OwnBuild, RunningBuild DEF Owning
<1>3. CASE StartTask(b)
  <2> DEFINE build == [builds[b] EXCEPT !.current = <<Head(builds[b].tasks)>>, !.tasks = Tail(builds[b].tasks)]
  <2>1. Became(b, build) /\ ~builds[b].stopped
    BY <1>3, RunEffects DEF StartTask
  <2>2. build.mode = builds[b].mode /\ ~build.stopped
    BY <1>0, <2>1 DEF BuildType
  <2>3. mine' = mine /\ ~EndRun(b)
    BY <1>3 DEF StartTask, EndRun, flushVars
  <2> HIDE DEF build
  <2> QED  BY <1>0, <1>1, <1>2, <2>1, <2>2, <2>3, StopsBecame
<1>4. CASE BuildEvent(b) \/ EndTask(b) \/ SkipTask(b) \/ CutTaskShort(b)
  <2>1. PICK built \in BOOLEAN, current \in Seq(Records) :
            Became(b, [builds[b] EXCEPT !.built = built, !.current = current])
    BY <1>0, <1>4, RunsOn
  <2> DEFINE build == [builds[b] EXCEPT !.built = built, !.current = current]
  <2>1a. build.mode = builds[b].mode /\ build.stopped = builds[b].stopped /\ build.tasks = builds[b].tasks
    BY <1>0 DEF BuildType
  <2> HIDE DEF build
  <2>1b. Became(b, build)
    BY <2>1 DEF build
  <2>2. mine' = mine
    BY <1>4 DEF BuildEvent, EndTask, SkipTask, CutTaskShort, flushVars
  <2>3. ~EndRun(b)
    <3>1. builds[b].current # <<>>
      BY <1>4 DEF BuildEvent, EndTask, SkipTask, CutTaskShort, Control, BuildsFit
    <3> QED  BY <3>1 DEF EndRun
  <2>4. builds[b].stopped => builds[b].tasks = <<>>
    BY <1>0 DEF StopsFit
  <2> QED  BY <1>0, <1>1, <1>2, <2>1a, <2>1b, <2>2, <2>3, <2>4, StopsBecame
<1>5. CASE EndRun(b)
  <2>1. builds[b].tasks = <<>>
    <3>1. builds[b].tasks = <<>> \/ builds[b].stopped
      BY <1>0, <1>5 DEF EndRun, RunsOutOfTime
    <3> QED  BY <1>0, <3>1 DEF StopsFit
  <2>2. Became(b, NoBuild) /\ \A g \in Flushers : mine'[g] = IF mine[g] = b THEN 0 ELSE mine[g]
    <3>1. builds' = [builds EXCEPT ![b] = NoBuild] /\ mine' = [g \in Flushers |-> IF mine[g] = b THEN 0 ELSE mine[g]]
      BY <1>5, <2>1 DEF EndRun
    <3> QED  BY <3>1, TypeParts DEF Became, BuildTypes
  <2> QED  BY <1>1, <1>2, <2>1, <2>2, StopsBecame DEF NoBuild
<1> QED  BY <1>3, <1>4, <1>5 DEF Build

\* Neither does anything else.
LEMMA StopsStep ==
    ASSUME TypeOK, Control, StopsFit, ThreadsStart, Next
    PROVE  StopsFit'
<1>1. ASSUME Arrive \/ Traffic \/ \E f \in Flushers : Deadline(f) PROVE StopsFit'
  <2>1. UNCHANGED <<builds, exitBuild, pc, mine>>
    BY <1>1 DEF Arrive, Push, PushOverflow, GrowOld, Traffic, Deadline, buildVars, flushVars
  <2> QED  BY <2>1 DEF StopsFit
<1> QED  BY <1>1, StopsSurviveFlusher, StopsSurviveBuild DEF Next

\* A flusher with a deadline never returns to idle, and only the exit drain takes over.
LEMMA ExitStep ==
    ASSUME TypeOK, Control, StopsFit, ExitFits, ThreadsStart, OneExitThread, Next
    PROVE  ExitFits'
<1> USE OwnBuild DEF Owning
<1>1. CASE Arrive \/ Traffic \/ (\E f \in Flushers : Deadline(f)) \/ \E b \in BuildIds : Build(b)
  <2>1. UNCHANGED <<pc, stage, back, owed, exitBuild>>
    BY <1>1, OthersMoveNone
  <2> QED  BY <2>1 DEF ExitFits
<1>2. ASSUME NEW f \in Flushers, Step(f) PROVE ExitFits'
  <2>0. \A g \in Flushers \ {f} :
            pc'[g] = pc[g] /\ stage'[g] = stage[g] /\ back'[g] = back[g] /\ owed'[g] = owed[g]
    BY <1>2, StepMovesOne DEF Stays
  <2>f. /\ FlushThread \in Flushers
        /\ \A e \in ExitThreads : e \in Flushers /\ HasDeadline(e) /\ e \notin Callers /\ e # FlushThread
    BY ExitThreadFacts DEF Flushers
  <2>1. CASE BuildAllOverflow(f)
    <3>1. f \in ExitThreads /\ exitBuild' = TRUE /\ pc'[f] = "hand"
      <4>1. pc'[f] = "hand"
        BY <2>1, BuildAllOverflowEffect DEF Moved
      <4> QED  BY <2>1, <4>1 DEF BuildAllOverflow
    <3>2. \A e \in ExitThreads : e = f
      BY <3>1 DEF OneExitThread
    <3>3. \A e \in ExitThreads : (exitBuild' => pc'[e] # "idle") /\ (pc'[e] = "idle" => owed'[e] = {})
      BY <3>1, <3>2
    <3>4. \A g \in Flushers : stage'[g] = "takeover" \/ pc'[g] = "await" => g \in ExitThreads
      BY <2>0, <3>1 DEF ExitFits
    <3> QED  BY <3>1, <3>3, <3>4 DEF ExitFits
  <2>2. ASSUME ~BuildAllOverflow(f)
        PROVE  /\ exitBuild' = exitBuild
               /\ f \in ExitThreads => owed'[f] = owed[f]
               /\ stage'[f] = "takeover" => stage[f] = "takeover"
    <3> USE TypeParts DEF FlushTypes, CountTypes, askVars, flushVars, buildVars, Put
    <3>1. CASE SetShutdown(f) \/ CheckExiting(f) \/ CheckGoesOn(f) \/ ForgetEmpty(f) \/ HandToThread(f)
               \/ HandToSelf(f) \/ HandOnEventLoop(f)
      BY <3>1 DEF SetShutdown, CheckExiting, CheckGoesOn, ForgetEmpty, HandToThread, HandToSelf,
         HandOnEventLoop
    <3>2. CASE StartFlush(f)
      BY <2>f, <3>2 DEF StartFlush
    <3>3. CASE TakeLock(f) \/ CountUndelivered(f)
      BY <3>3 DEF TakeLock, CountUndelivered
    <3>4. CASE EndWait(f) \/ ReturnToFront(f) \/ SkipLock(f) \/ TakeBatch(f) \/ SettleReplays(f)
               \/ Unpark(f) \/ CountInBuild(f)
      BY <3>4 DEF EndWait, ReturnToFront, SkipLock, TakeBatch, SettleReplays, Unpark, CountInBuild
    <3> QED  BY <1>2, <2>2, <3>1, <3>2, <3>3, <3>4 DEF Step
  <2>3. ASSUME ~BuildAllOverflow(f)
        PROVE  /\ HasDeadline(f) => pc'[f] # "idle"
               /\ pc'[f] = "await" => stage[f] = "takeover"
    <3>1. CASE SetShutdown(f) \/ CheckGoesOn(f) \/ ReturnToFront(f) \/ SkipLock(f) \/ SettleReplays(f)
               \/ Unpark(f) \/ CountUndelivered(f) \/ CountInBuild(f)
      BY <3>1, QuietEffects DEF Moved, After
    <3>2. CASE StartFlush(f) \/ CheckExiting(f) \/ ForgetEmpty(f) \/ HandToThread(f)
      BY <3>2, StartFlushEffect, CheckExitingEffect, ForgetEmptyEffect, HandToThreadEffect, ZenonT(60) DEF Moved, After
    <3>3. CASE HandToSelf(f) \/ HandOnEventLoop(f)
      BY <3>3, ThreadsAreStarted
    <3>4. CASE EndWait(f) \/ TakeLock(f)
      BY <3>4, EndWaitEffect, TakeLockEffect DEF Moved, After
    <3>5. CASE TakeBatch(f)
      BY <3>5, TakeBatchEffect DEF TakesUpTo, Moved
    <3> QED  BY <1>2, <2>3, <3>1, <3>2, <3>3, <3>4, <3>5 DEF Step
  <2>4. ASSUME ~exitBuild, f = FlushThread, ~BuildAllOverflow(f) PROVE back'[f] = <<>>
    <3>0. back[f] = <<>> /\ f \notin late
      BY <2>4 DEF ExitFits, Control, CountsFit, HasDeadline
    <3>1. CASE SetShutdown(f) \/ CheckGoesOn(f) \/ ReturnToFront(f) \/ SkipLock(f) \/ SettleReplays(f)
               \/ Unpark(f) \/ CountUndelivered(f) \/ CountInBuild(f)
      BY <3>0, <3>1, QuietEffects DEF Moved
    <3>2. CASE StartFlush(f) \/ ForgetEmpty(f) \/ HandToThread(f) \/ TakeLock(f)
      BY <3>0, <3>2, StartFlushEffect, ForgetEmptyEffect, HandToThreadEffect, TakeLockEffect DEF Moved
    <3>3. CASE HandToSelf(f) \/ HandOnEventLoop(f)
      BY <3>3, ThreadsAreStarted
    <3>4. CASE CheckExiting(f)
      BY <2>4, <3>4 DEF CheckExiting
    <3>5. CASE EndWait(f)
      <4>1. mine[f] = 0
        BY <3>0, <3>5 DEF EndWait, StopsFit
      <4> QED  BY <3>5, <4>1, EndWaitEffect DEF Moved
    <3>6. CASE TakeBatch(f)
      BY <3>0, <3>6, TakeBatchEffect DEF TakesUpTo, Moved
    <3> QED  BY <1>2, <2>4, <3>1, <3>2, <3>3, <3>4, <3>5, <3>6 DEF Step
  <2>5. CASE ~BuildAllOverflow(f)
    <3>1. \A e \in ExitThreads : (exitBuild' => pc'[e] # "idle") /\ (pc'[e] = "idle" => owed'[e] = {})
      BY <2>0, <2>2, <2>3, <2>5, <2>f DEF ExitFits
    <3>2. ~exitBuild' => back'[FlushThread] = <<>>
      BY <2>0, <2>2, <2>4, <2>5, <2>f DEF ExitFits
    <3>3. \A g \in Flushers : stage'[g] = "takeover" \/ pc'[g] = "await" => g \in ExitThreads
      BY <2>0, <2>2, <2>3, <2>5 DEF ExitFits
    <3> QED  BY <3>1, <3>2, <3>3 DEF ExitFits
  <2> QED  BY <2>1, <2>5
<1> QED  BY <1>1, <1>2 DEF Next

\* A record that left stays so, and one that entered is not overflowed a second time.
LEMMA RecordsMoveOn ==
    ASSUME TypeOK, Next, Exchanges, NEW r \in Records
    PROVE  /\ fate'[r] = "none" => fate[r] = "none"
           /\ kind[r] # "none" => kind'[r] # "none"
           /\ kind[r] # "none" /\ kind'[r] = "overflow" => kind[r] = "overflow"
<1>1. PICK new, how : Exchanged(new, how)
  BY DEF Exchanges
<1>2. fate'[r] = "none" => fate[r] = "none"
  BY <1>1 DEF Exchanged, Fates
<1>3. kind[r] # "none" => kind'[r] # "none"
  BY <1>1 DEF Exchanged
<1>4. kind \in [Records -> {"none", "ai", "tool", "overflow"}] /\ Endpoint \in [Records -> {"ai", "tool"}]
  BY TypeParts, BufferAssumption DEF RecordTypes
<1>5. ASSUME kind[r] # "none", kind'[r] = "overflow" PROVE kind[r] = "overflow"
  <2> USE <1>4, <1>5 DEF recordVars, AppendEvent
  <2>1. ASSUME NEW x \in Records, Push(x) \/ PushOverflow(x) \/ GrowOld(x) PROVE kind[r] = "overflow"
    <3>1. CASE Push(x)
      <4>1. kind' = [kind EXCEPT ![x] = Endpoint[x]]
        BY <3>1 DEF Push
      <4> QED  BY <4>1
    <3>2. CASE PushOverflow(x)
      <4>1. kind[x] = "none" /\ kind' = [kind EXCEPT ![x] = "overflow"]
        BY <3>2 DEF PushOverflow
      <4> QED  BY <4>1
    <3>3. CASE GrowOld(x)
      BY <3>3 DEF GrowOld
    <3> QED  BY <2>1, <3>1, <3>2, <3>3
  <2>2. ASSUME NEW b \in BuildIds, Build(b) PROVE kind[r] = "overflow"
    <3>1. kind' = kind \/ \E x : kind' = [kind EXCEPT ![x] = Endpoint[x]]
      BY <2>2 DEF Build, StartTask, BuildEvent, EndTask, SkipTask, CutTaskShort, EndRun
    <3> QED  BY <3>1
  <2>3. ASSUME NEW f \in Flushers, Step(f) PROVE kind' = kind
    BY <2>3 DEF Step, BuildAllOverflow, SetShutdown, StartFlush, CheckExiting, CheckGoesOn, ForgetEmpty,
       HandToThread, HandToSelf, HandOnEventLoop, EndWait, ReturnToFront, TakeLock, SkipLock, TakeBatch,
       SettleReplays, Unpark, CountUndelivered, CountInBuild
  <2>4. ASSUME NEW f \in Flushers, Deadline(f) PROVE kind' = kind
    BY <2>4 DEF Deadline
  <2>5. Traffic => kind' = kind
    BY DEF Traffic
  <2> QED  BY <2>1, <2>2, <2>3, <2>4, <2>5 DEF Next, Arrive
<1> QED  BY <1>2, <1>3, <1>5

\* The chase goes on where the exit drain does not move and the two builds keep the record.
LEMMA ChaseKept ==
    ASSUME NEW e, NEW r, Chased(e, r), pc'[e] = pc[e], stage'[e] = stage[e],
           pc[e] \in {"hand", "wait"} /\ mine[e] # 0 /\ InBuildOf(r, mine[e])
               => mine'[e] = mine[e] /\ InBuildOf(r, mine[e])',
           \A b \in awaits : Doing(b, r) => b \in awaits' /\ Doing(b, r)'
    PROVE  Chased(e, r)'
<1>1. CASE pc[e] \in {"hand", "wait"} /\ mine[e] # 0 /\ InBuildOf(r, mine[e])
  <2>1. mine'[e] = mine[e] /\ InBuildOf(r, mine[e])'
    BY <1>1
  <2>2. InBuildOf(r, mine[e])' => r \in Range(Unfinished(builds'[mine'[e]]))
    BY <2>1 DEF InBuildOf
  <2> QED  BY <1>1, <2>1, <2>2 DEF Chased, InBuildOf
<1>2. CASE pc[e] \in {"hand", "wait", "await"} /\ \E b \in awaits : Doing(b, r)
  BY <1>2 DEF Chased, Doing
<1> QED  BY <1>1, <1>2 DEF Chased

\* A task that starts is still to be built.
LEMMA StartTaskWork ==
    ASSUME TypeOK, NEW b \in BuildIds, builds[b].current = <<>>, builds[b].tasks # <<>>, builds[b].built = FALSE
    PROVE  Unfinished([builds[b] EXCEPT !.current = <<Head(builds[b].tasks)>>, !.tasks = Tail(builds[b].tasks)])
               = Unfinished(builds[b])
<1> DEFINE build == [builds[b] EXCEPT !.current = <<Head(builds[b].tasks)>>, !.tasks = Tail(builds[b].tasks)]
<1>1. builds[b] \in BuildType /\ builds[b].tasks \in Seq(Records)
  BY TypeParts DEF BuildTypes, BuildType
<1>2. build.current = <<Head(builds[b].tasks)>> /\ build.tasks = Tail(builds[b].tasks) /\ build.built = FALSE
  BY <1>1 DEF BuildType
<1> HIDE DEF build
<1>3. Unfinished(build) = <<Head(builds[b].tasks)>> \o Tail(builds[b].tasks)
  BY <1>2 DEF Unfinished
<1>4. Unfinished(builds[b]) = <<>> \o builds[b].tasks
  BY DEF Unfinished
<1>5. <<>> \o builds[b].tasks = builds[b].tasks
  BY <1>1, ConcatEmptySeq
<1> QED  BY <1>1, <1>3, <1>4, <1>5, HeadTailFacts DEF build

\* What a running build does to the work it has left.
LEMMA RunKeepsWork ==
    ASSUME TypeOK, Control, StopsFit, EachRecordInOnePlace, NEW b \in BuildIds, Build(b),
           NEW r \in Records, kind'[r] = "overflow", fate'[r] = "none"
    PROVE  /\ \A c \in BuildIds : InBuildOf(r, c) => InBuildOf(r, c)' /\ (EndRun(b) => c # b)
           /\ \A c \in BuildIds : Doing(c, r) => Doing(c, r)' /\ (EndRun(b) => c # b)
<1>0. builds[b] \in BuildType
  BY BuildFacts
<1>1. CASE StartTask(b)
  <2> DEFINE build == [builds[b] EXCEPT !.current = <<Head(builds[b].tasks)>>, !.tasks = Tail(builds[b].tasks)]
  <2>1. Became(b, build) /\ builds[b].current = <<>> /\ builds[b].tasks # <<>> /\ builds[b].built = FALSE
    BY <1>0, <1>1, RunEffects DEF Control, BuildsFit, BuildType
  <2>2. Unfinished(build) = Unfinished(builds[b])
    BY <2>1, StartTaskWork
  <2> HIDE DEF build
  <2>3. \A c \in BuildIds : InBuildOf(r, c) => InBuildOf(r, c)'
    BY <2>1, <2>2, SameWork DEF InBuildOf
  <2>4. \A c \in BuildIds : Doing(c, r) => Doing(c, r)'
    BY <2>1 DEF Became, Doing
  <2>5. ~EndRun(b)
    BY <1>1 DEF StartTask, EndRun, RunsOutOfTime
  <2> QED  BY <2>3, <2>4, <2>5
<1>2. CASE BuildEvent(b) \/ SkipTask(b) \/ CutTaskShort(b)
  <2> DEFINE x == Head(builds[b].current)
  <2>1. builds[b].current # <<>> /\ ~builds[b].built
    BY <1>2 DEF BuildEvent, SkipTask, CutTaskShort
  <2>2. /\ x \in Records /\ builds[b].current = <<x>> /\ builds[b].tasks \in Seq(Records)
        /\ \A y : InBuildOf(y, b) <=> y = x \/ y \in Range(builds[b].tasks)
    BY <2>1, CurrentFacts
  <2>3. r # x
    <3>1. CASE BuildEvent(b)
      <4>1. kind' = [kind EXCEPT ![x] = Endpoint[x]]
        BY <3>1 DEF BuildEvent, AppendEvent
      <4>2. kind'[x] \in {"ai", "tool"}
        BY <2>2, <4>1, TypeParts, BufferAssumption DEF RecordTypes
      <4> QED  BY <4>2
    <3>2. CASE SkipTask(b) \/ CutTaskShort(b)
      <4>1. fate'[x] # "none"
        BY <2>2, <3>2 DEF SkipTask, CutTaskShort, Leave, All
      <4> QED  BY <4>1
    <3> QED  BY <1>2, <3>1, <3>2
  <2>4. PICK build : Became(b, build) /\ Unfinished(build) = builds[b].tasks
    <3>1. CASE BuildEvent(b)
      <4> DEFINE new == [builds[b] EXCEPT !.built = TRUE]
      <4>1. new.built = TRUE /\ new.tasks = builds[b].tasks
        BY <1>0 DEF BuildType
      <4>2. Became(b, new)
        BY <3>1, RunEffects
      <4> HIDE DEF new
      <4>3. Unfinished(new) = <<>> \o builds[b].tasks
        BY <4>1 DEF Unfinished
      <4> QED  BY <2>2, <4>2, <4>3, ConcatEmptySeq
    <3>2. CASE SkipTask(b) \/ CutTaskShort(b)
      <4> DEFINE new == [builds[b] EXCEPT !.current = <<>>]
      <4>1. new.built = FALSE /\ new.current = <<>> /\ new.tasks = builds[b].tasks
        BY <1>0, <2>1 DEF BuildType
      <4>2. Became(b, new)
        BY <3>2, RunEffects
      <4> HIDE DEF new
      <4>3. Unfinished(new) = <<>> \o builds[b].tasks
        BY <4>1 DEF Unfinished
      <4> QED  BY <2>2, <4>2, <4>3, ConcatEmptySeq
    <3> QED  BY <1>2, <3>1, <3>2
  <2>5. \A c \in BuildIds : InBuildOf(r, c) => InBuildOf(r, c)'
    BY <2>2, <2>3, <2>4, OneBuild
  <2>6. ~Doing(b, r)
    BY <2>2, <2>3 DEF Doing
  <2>7. \A c \in BuildIds : Doing(c, r) => Doing(c, r)'
    BY <2>4, <2>6 DEF Became, Doing
  <2>8. ~EndRun(b)
    BY <2>1 DEF EndRun
  <2> QED  BY <2>5, <2>7, <2>8
<1>3. CASE EndTask(b)
  <2> DEFINE new == [builds[b] EXCEPT !.built = FALSE, !.current = <<>>]
  <2>1. Became(b, new) /\ builds[b].built /\ builds[b].current # <<>>
    BY <1>3, RunEffects DEF EndTask, Control, BuildsFit
  <2>2. new.current = <<>> /\ new.tasks = builds[b].tasks
    BY <1>0 DEF BuildType
  <2> HIDE DEF new
  <2>3. Unfinished(new) = Unfinished(builds[b])
    BY <2>1, <2>2 DEF Unfinished
  <2>4. \A c \in BuildIds : InBuildOf(r, c) => InBuildOf(r, c)'
    BY <2>1, <2>3, SameWork DEF InBuildOf
  <2>5. \A c \in BuildIds : Doing(c, r) => Doing(c, r)'
    BY <2>1 DEF Became, Doing
  <2>6. ~EndRun(b)
    BY <2>1 DEF EndRun
  <2> QED  BY <2>4, <2>5, <2>6
<1>4. CASE EndRun(b)
  <2>1. builds[b].current = <<>> /\ builds[b].tasks = <<>> /\ Became(b, NoBuild)
    BY <1>4, StopsSurviveBuild DEF EndRun
  <2>2. Unfinished(builds[b]) = <<>>
    BY <2>1 DEF Unfinished
  <2>3. ~InBuildOf(r, b) /\ ~Doing(b, r)
    <3>1. r \notin Range(<<>>) /\ r \in Range(<<r>>)
      BY NoElement, OneElement
    <3> QED  BY <2>1, <2>2, <3>1 DEF InBuildOf, Doing
  <2> QED  BY <2>1, <2>3 DEF Became, InBuildOf, Doing
<1> QED  BY <1>1, <1>2, <1>3, <1>4 DEF Build

\* The step of another flusher spares the build the exit drain made and the tasks of the rest.
LEMMA ChaseSpared ==
    ASSUME TypeOK, NEW e \in Flushers, NEW r, Chased(e, r), Stays(e), awaits' = awaits,
           NEW b, NEW build, Became(b, build), b # mine[e],
           Doing(b, r) => build.current = <<r>> /\ ~build.built
    PROVE  Chased(e, r)'
<1>1. mine[e] \in BuildIds \cup {0} /\ awaits \subseteq BuildIds
  BY TypeParts DEF FlushTypes
<1>2. mine[e] # 0 => builds'[mine[e]] = builds[mine[e]]
  BY <1>1 DEF Became
<1>3. \A c \in awaits : Doing(c, r) => Doing(c, r)'
  <2>1. \A c \in awaits : builds'[c] = IF c = b THEN build ELSE builds[c]
    BY <1>1 DEF Became
  <2> QED  BY <2>1 DEF Doing
<1> QED  BY <1>2, <1>3, ChaseKept DEF Stays, InBuildOf

LEMMA OtherKeepsChase ==
    ASSUME TypeOK, Control, StopsFit, ExitFits, ThreadsStart, OneExitThread,
           NEW e \in ExitThreads, NEW f \in Flushers \ {e}, Step(f), NEW r, Chased(e, r)
    PROVE  Chased(e, r)'
<1>0. e \in Flushers /\ Stays(e)
  BY ExitThreadFacts, StepMovesOne
<1>1. f \notin ExitThreads
  BY DEF OneExitThread
<1>2. ~BuildAllOverflow(f) /\ ~SetShutdown(f)
  BY <1>1 DEF BuildAllOverflow, SetShutdown, ExitFits
<1>3. awaits' = awaits
  BY <1>2 DEF Step, StartFlush, CheckExiting, CheckGoesOn, ForgetEmpty, HandToThread, HandToSelf,
     HandOnEventLoop, EndWait, ReturnToFront, TakeLock, SkipLock, TakeBatch, SettleReplays, Unpark,
     CountUndelivered, CountInBuild, flushVars
<1>4. mine[f] # 0 => mine[e] # mine[f]
  BY <1>0 DEF Control, MineFits
<1>5. ASSUME UNCHANGED builds PROVE Chased(e, r)'
  BY <1>0, <1>3, <1>5, ChaseKept DEF Stays, InBuildOf, Doing
<1>6. ASSUME NEW b \in BuildIds, NEW build, Became(b, build),
             b = mine[f] \/ (Free # {} /\ b = NewBuild), builds[b].current = <<>>
      PROVE  Chased(e, r)'
  <2>1. b # mine[e]
    BY <1>0, <1>4, <1>6, BuildFacts
  <2>2. ~Doing(b, r)
    <3>1. <<r>> # <<>>
      OBVIOUS
    <3> QED  BY <1>6, <3>1 DEF Doing
  <2> QED  BY <1>0, <1>3, <1>6, <2>1, <2>2, ChaseSpared
<1>7. CASE StartFlush(f) \/ TakeLock(f)
  <2>1. Free # {} /\ \E build : Became(NewBuild, build)
    BY <1>7, StartFlushEffect, TakeLockEffect
  <2>2. NewBuild \in BuildIds /\ builds[NewBuild].current = <<>>
    BY <2>1, BuildFacts DEF NoBuild
  <2> QED  BY <1>6, <2>1, <2>2
<1>8. CASE CheckExiting(f) \/ ForgetEmpty(f) \/ HandToThread(f) \/ TakeBatch(f)
  <2>1. pc[f] \in Owning /\ \E build : Became(mine[f], build)
    <3>1. CASE CheckExiting(f) \/ ForgetEmpty(f)
      BY <3>1, CheckExitingEffect, ForgetEmptyEffect DEF Owning
    <3>2. CASE HandToThread(f)
      BY <3>2, HandToThreadEffect DEF Owning
    <3>3. CASE TakeBatch(f)
      BY <3>3, TakeBatchEffect DEF TakesUpTo, Owning
    <3> QED  BY <1>8, <3>1, <3>2, <3>3
  <2>2. mine[f] \in BuildIds /\ builds[mine[f]].current = <<>>
    BY <2>1, OwnBuild
  <2> QED  BY <1>6, <2>1, <2>2
<1>9. CASE HandToSelf(f) \/ HandOnEventLoop(f)
  BY <1>9, ThreadsAreStarted
<1>10. CASE EndWait(f)
  <2>1. UNCHANGED builds \/ (mine[f] \in BuildIds /\ Became(mine[f], Reclaimed(builds[mine[f]])))
    <3>1. mine[f] \in BuildIds => builds[mine[f]].mode # "over"
      BY DEF StopsFit
    <3>2. \/ UNCHANGED builds
          \/ mine[f] \in BuildIds /\ builds[mine[f]].mode = "over"
          \/ mine[f] \in BuildIds /\ Became(mine[f], Reclaimed(builds[mine[f]]))
      BY <1>10, EndWaitEffect
    <3> QED  BY <3>1, <3>2
  <2>2. ASSUME mine[f] \in BuildIds, Became(mine[f], Reclaimed(builds[mine[f]])) PROVE Chased(e, r)'
    <3> DEFINE build == Reclaimed(builds[mine[f]])
    <3>1. build.current = builds[mine[f]].current /\ build.built = builds[mine[f]].built
      BY <2>2, BuildFacts DEF Reclaimed, BuildType
    <3> HIDE DEF build
    <3>2. mine[f] # mine[e] /\ Became(mine[f], build)
      BY <1>4, <2>2, BuildFacts DEF build
    <3> QED  BY <1>0, <1>3, <3>1, <3>2, ChaseSpared DEF Doing
  <2> QED  BY <1>5, <2>1, <2>2
<1>11. CASE \/ CheckGoesOn(f) \/ ReturnToFront(f) \/ SkipLock(f) \/ SettleReplays(f) \/ Unpark(f)
            \/ CountUndelivered(f) \/ CountInBuild(f)
  <2>1. UNCHANGED builds
    BY <1>11 DEF ReturnToFront, CheckGoesOn, SkipLock, SettleReplays, Unpark, CountUndelivered,
       CountInBuild, buildVars
  <2> QED  BY <1>5, <2>1
<1> QED  BY <1>2, <1>7, <1>8, <1>9, <1>10, <1>11 DEF Step

\* A build ends, and the exit drain waits no longer for it; no record is lost to it.
LEMMA BuildKeepsChase ==
    ASSUME TypeOK, Control, StopsFit, EachRecordInOnePlace, NEW b \in BuildIds, Build(b),
           NEW e \in Flushers, NEW r \in Records, Chased(e, r), kind'[r] = "overflow", fate'[r] = "none"
    PROVE  Chased(e, r)'
<1>1. pc' = pc /\ stage' = stage
  BY OthersMoveNone
<1>2. mine[e] \in BuildIds \cup {0} /\ awaits \subseteq BuildIds
  BY TypeParts DEF FlushTypes
<1>3. \A c \in BuildIds : InBuildOf(r, c) => InBuildOf(r, c)' /\ (EndRun(b) => c # b)
  BY RunKeepsWork
<1>4. \A c \in BuildIds : Doing(c, r) => Doing(c, r)' /\ (EndRun(b) => c # b)
  BY RunKeepsWork
<1>5. /\ awaits' = awaits \/ (EndRun(b) /\ awaits' = awaits \ {b})
      /\ mine'[e] = mine[e] \/ (EndRun(b) /\ mine[e] = b)
  <2>1. CASE EndRun(b)
    <3>1. awaits' = awaits \ {b}
      BY <2>1 DEF EndRun
    <3> QED  BY <2>1, <3>1, EndRunEffect
  <2>2. CASE ~EndRun(b)
    BY <2>2 DEF Build, StartTask, BuildEvent, EndTask, SkipTask, CutTaskShort, flushVars
  <2> QED  BY <2>1, <2>2
<1>6. \A c \in awaits : Doing(c, r) => c \in awaits' /\ Doing(c, r)'
  BY <1>2, <1>4, <1>5
<1>7. mine[e] # 0 /\ InBuildOf(r, mine[e]) => mine'[e] = mine[e] /\ InBuildOf(r, mine[e])'
  BY <1>2, <1>3, <1>5
<1> QED  BY <1>1, <1>6, <1>7, ChaseKept

\* In time the exit drain goes on only where there is nothing left to chase.
LEMMA DrainKeepsChase ==
    ASSUME TypeOK, Control, StopsFit, ExitFits, ThreadsStart, NEW e \in ExitThreads, e \notin late, Step(e),
           NEW r \in Records, Chased(e, r)
    PROVE  Chased(e, r)'
<1> USE OwnBuild DEF Owning
<1>0. e \in Flushers /\ stage[e] = "takeover" /\ pc[e] \in {"hand", "wait", "await"}
  BY ExitThreadFacts DEF Chased
<1>1. Step(e) => ForgetEmpty(e) \/ HandToThread(e) \/ EndWait(e) \/ SetShutdown(e)
  <2>1. ~HandToSelf(e) /\ ~HandOnEventLoop(e)
    BY <1>0, ThreadsAreStarted
  <2> QED  BY <1>0, <2>1 DEF Step, BuildAllOverflow, StartFlush, CheckExiting, CheckGoesOn, ReturnToFront,
           TakeLock, SkipLock, TakeBatch, SettleReplays, Unpark, CountUndelivered, CountInBuild
<1>2. mine[e] \in BuildIds \cup {0} /\ awaits \subseteq BuildIds
  BY <1>0, TypeParts DEF FlushTypes
<1>n. <<r>> # <<>> /\ r \notin Range(<<>>) /\ <<>> \o <<>> = <<>>
  BY NoElement
<1>3. CASE ForgetEmpty(e)
  <2>1. /\ pc[e] = "hand" /\ pc'[e] = "await" /\ Became(mine[e], NoBuild)
        /\ builds[mine[e]].tasks = <<>> /\ mine[e] \in BuildIds
        /\ stage' = stage /\ awaits' = awaits
    <3>1. stage' = stage /\ awaits' = awaits
      BY <1>3 DEF ForgetEmpty
    <3> QED  BY <1>0, <1>3, <3>1, ForgetEmptyEffect DEF Moved, After
  <2>2. builds[mine[e]].current = <<>>
    BY <1>0, <2>1
  <2>3. ~InBuildOf(r, mine[e]) /\ ~Doing(mine[e], r)
    <3>1. Unfinished(builds[mine[e]]) = <<>>
      BY <1>n, <2>1, <2>2 DEF Unfinished
    <3> QED  BY <1>n, <2>2, <3>1 DEF InBuildOf, Doing
  <2>4. PICK c \in awaits : Doing(c, r)
    BY <2>3 DEF Chased
  <2>5. Doing(c, r)'
    BY <1>2, <2>1, <2>3, <2>4 DEF Doing, Became
  <2> QED  BY <1>0, <2>1, <2>4, <2>5 DEF Chased
<1>4. CASE HandToThread(e)
  <2>1. /\ pc'[e] = "wait" /\ mine'[e] = mine[e] /\ mine[e] \in BuildIds
        /\ stage' = stage /\ awaits' = awaits
        /\ \E how \in Modes : Became(mine[e], [builds[mine[e]] EXCEPT !.mode = how])
    <3>1. stage' = stage /\ awaits' = awaits
      BY <1>4 DEF HandToThread
    <3>2. "own" \in Modes /\ "queued" \in Modes
      BY DEF Modes
    <3> QED  BY <1>0, <1>4, <3>1, <3>2, HandToThreadEffect DEF Moved
  <2>2. PICK how \in Modes : Became(mine[e], [builds[mine[e]] EXCEPT !.mode = how])
    BY <2>1
  <2> DEFINE build == [builds[mine[e]] EXCEPT !.mode = how]
  <2>3. build.current = builds[mine[e]].current /\ build.built = builds[mine[e]].built
        /\ build.tasks = builds[mine[e]].tasks
    BY <2>1, BuildFacts DEF BuildType
  <2> HIDE DEF build
  <2>4. Became(mine[e], build)
    BY <2>2 DEF build
  <2>5. Unfinished(build) = Unfinished(builds[mine[e]])
    BY <2>3 DEF Unfinished
  <2>6. \A c \in BuildIds : (InBuildOf(r, c) => InBuildOf(r, c)') /\ (Doing(c, r) => Doing(c, r)')
    BY <2>3, <2>4, <2>5 DEF InBuildOf, Doing, Became
  <2>7. CASE InBuildOf(r, mine[e])
    <3>1. r \in Range(Unfinished(builds'[mine[e]]))
      BY <2>1, <2>6, <2>7 DEF InBuildOf
    <3>2. mine'[e] # 0 /\ InBuildOf(r, mine[e])' 
      BY <2>1, <3>1, BuildFacts DEF InBuildOf
    <3> QED  BY <1>0, <2>1, <3>2 DEF Chased, InBuildOf
  <2>8. CASE \E c \in awaits : Doing(c, r)
    <3>1. \E c \in awaits' : Doing(c, r)'
      BY <1>2, <2>1, <2>6, <2>8
    <3> QED  BY <1>0, <2>1, <3>1 DEF Chased, Doing
  <2> QED  BY <2>7, <2>8 DEF Chased
<1>5. CASE EndWait(e)
  <2>1. mine[e] = 0 /\ UNCHANGED <<builds, awaits, stage>>
    <3>1. mine[e] = 0
      BY <1>0, <1>2, <1>5 DEF EndWait, StopsFit
    <3> QED  BY <1>5, <3>1 DEF EndWait
  <2>2. pc'[e] = "await"
    BY <1>0, <1>5, <2>1, EndWaitEffect DEF Moved, After
  <2> QED  BY <1>0, <2>1, <2>2 DEF Chased, Doing
<1>6. CASE SetShutdown(e)
  BY <1>6 DEF SetShutdown, Chased
<1> QED  BY <1>1, <1>3, <1>4, <1>5, <1>6

\* So until its deadline the exit drain is after each record it found overflowed.
LEMMA ChaseSurvives ==
    ASSUME IInv, StopsFit, ExitFits, ThreadsStart, OneExitThread, Next,
           NEW e \in ExitThreads, e \notin late', NEW r \in Records,
           Chased(e, r), kind'[r] = "overflow", fate'[r] = "none"
    PROVE  Chased(e, r)'
<1>0. TypeOK /\ Control /\ EachRecordInOnePlace /\ e \in Flushers
  BY ExitThreadFacts DEF IInv
<1>1. CASE Arrive \/ Traffic \/ \E f \in Flushers : Deadline(f)
  <2>1. UNCHANGED <<builds, pc, stage, mine, awaits>>
    BY <1>1 DEF Arrive, Push, PushOverflow, GrowOld, Traffic, Deadline, buildVars, flushVars
  <2> QED  BY <2>1, ChaseKept DEF InBuildOf, Doing
<1>2. CASE \E b \in BuildIds : Build(b)
  BY <1>0, <1>2, BuildKeepsChase
<1>3. ASSUME NEW f \in Flushers, Step(f) PROVE Chased(e, r)'
  <2>1. late' = late
    BY <1>0, <1>3, StepMovesOne
  <2> QED  BY <1>0, <1>3, <2>1, OtherKeepsChase, DrainKeepsChase
<1> QED  BY <1>1, <1>2, <1>3 DEF Next

\* What build_all_overflow finds overflowed is in a build by then, for no task is being handed
\* back: it takes the tasks of each build and of the line, and waits for what is started.
LEMMA ChaseBegins ==
    ASSUME IInv, IInv', StopsFit, ExitFits, OneExitThread, NEW e \in ExitThreads, BuildAllOverflow(e),
           \A c \in Callers : back[c] = <<>>, NEW r \in HeldRecords, kind[r] = "overflow"
    PROVE  Chased(e, r)'
<1>0. TypeOK /\ Control /\ KindsFit /\ e \in Flushers /\ r \in Records
  BY ExitThreadFacts DEF IInv, HeldRecords
<1>1. /\ pc[e] = "idle" /\ Free # {} /\ pc'[e] = "hand" /\ mine'[e] = NewBuild
      /\ \A b \in Active : builds'[b] = Reclaimed(builds[b])
      /\ \A b \in BuildIds \ Active : b # NewBuild => builds'[b] = builds[b]
  BY <1>0, BuildAllOverflowEffect DEF Moved
<1>2. /\ UNCHANGED <<kind, fate, batch, parked, back>> /\ events' = Only(events, Records \ Overflow)
      /\ awaits' = InProgress
  BY DEF BuildAllOverflow, recordVars, replayVars
<1>3. stage'[e] = "takeover"
  BY <1>0, TypeParts DEF BuildAllOverflow, FlushTypes, Put
<1>4. Present(r)'
  BY <1>2 DEF IInv, EachRecordInOnePlace, HeldRecords
<1>5. ~OnLine(r)'
  <2>1. r \notin Range(events')
    <3>1. events \in Seq(Records)
      BY <1>0, LineIsSeq
    <3> QED  BY <1>0, <1>2, <3>1, OnlyFacts DEF Overflow
  <2>2. r \notin Range(batch') /\ r \notin Range(parked')
    BY <1>0, <1>2 DEF KindsFit
  <2>3. TypeOK' => (OnLine(r)' => r \in Range(batch') \/ r \in Range(parked') \/ r \in Range(events'))
    <3>1. TypeOK' => batch' \in Seq(Records) /\ parked' \in Seq(Records) /\ events' \in Seq(Records)
      BY DEF TypeOK
    <3> QED  BY <3>1, ThreeFacts DEF OnLine, Line, Queue
  <2> QED  BY <2>1, <2>2, <2>3 DEF IInv
<1>6. ASSUME NEW f \in Flushers, HandedBack(r, f)' PROVE FALSE
  <2>1. back[f] # <<>>
    BY <1>2, <1>6, NoElement DEF HandedBack
  <2>2. f \notin ExitThreads /\ f # FlushThread
    <3>1. back[e] = <<>>
      BY <1>0, <1>1, OwnBuild
    <3>2. back[FlushThread] = <<>>
      BY <1>1 DEF ExitFits
    <3> QED  BY <2>1, <3>1, <3>2 DEF OneExitThread
  <2> QED  BY <2>1, <2>2 DEF Flushers
<1>7. ASSUME NEW b \in BuildIds, InBuildOf(r, b)' PROVE Chased(e, r)'
  <2>1. CASE b = NewBuild
    <3>1. mine'[e] # 0
      BY <1>0, <1>1, BuildFacts
    <3> QED  BY <1>1, <1>3, <1>7, <2>1, <3>1 DEF Chased, InBuildOf
  <2>2. CASE b \in Active
    <3> DEFINE doing == IF builds[b].built THEN <<>> ELSE builds[b].current
               build == Reclaimed(builds[b])
    <3>1. builds[b] \in BuildType /\ builds[b].current \in Seq(Records) /\ Len(builds[b].current) <= 1
      BY <1>0, BuildFacts DEF Control, BuildsFit
    <3>2. builds'[b] = build /\ build.current = builds[b].current /\ build.built = builds[b].built
          /\ build.tasks = <<>>
      BY <1>1, <2>2, <3>1 DEF Reclaimed, BuildType
    <3> HIDE DEF build
    <3>3. Unfinished(builds'[b]) = doing \o <<>>
      BY <3>2 DEF Unfinished
    <3>4. doing \in Seq(Records) /\ doing \o <<>> = doing
      BY <3>1, ConcatEmptySeq
    <3>5. r \in Range(doing)
      BY <1>7, <3>3, <3>4 DEF InBuildOf
    <3>6. ~builds[b].built /\ r \in Range(builds[b].current)
      BY <3>5, NoElement
    <3>7. builds[b].current = <<r>> /\ builds[b].current # <<>>
      <4>1. builds[b].current # <<>>
        BY <3>6, NoElement
      <4>2. PICK x \in Records : builds[b].current = <<x>>
        BY <1>0, <3>6, <4>1, CurrentFacts DEF IInv
      <4>3. r = x
        BY <3>6, <4>2, OneElement
      <4> QED  BY <4>1, <4>2, <4>3
    <3>8. b \in awaits' /\ Doing(b, r)'
      BY <1>2, <2>2, <3>2, <3>6, <3>7 DEF InProgress, Doing
    <3> QED  BY <1>1, <1>3, <3>8 DEF Chased
  <2>3. CASE b \notin Active /\ b # NewBuild
    <3>1. builds[b].mode = "free"
      BY <1>0, <2>3, BuildFacts DEF Active, StopsFit, BuildType, Modes
    <3>2. builds'[b] = NoBuild
      BY <1>0, <1>1, <2>3, <3>1 DEF Control, BuildsFit
    <3>3. Unfinished(builds'[b]) = <<>>
      BY <3>2 DEF Unfinished, NoBuild
    <3> QED  BY <1>7, <3>3, NoElement DEF InBuildOf
  <2> QED  BY <2>1, <2>2, <2>3
<1> QED  BY <1>4, <1>5, <1>6, <1>7 DEF Present

\* What is owed is noted when the exit drain begins, and the deadline passes once.
LEMMA OwedStays ==
    ASSUME TypeOK, NEW e \in ExitThreads, Next, e \notin late'
    PROVE  /\ e \notin late
           /\ ~BuildAllOverflow(e) => owed'[e] = owed[e]
<1>0. e \in Flushers /\ e \notin Callers
  BY ExitThreadFacts
<1>1. CASE Arrive \/ Traffic \/ (\E f \in Flushers : Deadline(f)) \/ \E b \in BuildIds : Build(b)
  BY <1>1, OthersMoveNone
<1>2. ASSUME NEW f \in Flushers, Step(f) PROVE e \notin late /\ (~BuildAllOverflow(e) => owed'[e] = owed[e])
  <2>1. late' = late /\ (f # e => owed'[e] = owed[e])
    BY <1>0, <1>2, StepMovesOne DEF Stays
  <2>2. f = e => \/ BuildAllOverflow(e) \/ owed' = owed
    BY <1>0, <1>2 DEF Step, SetShutdown, StartFlush, CheckExiting, CheckGoesOn, ForgetEmpty, HandToThread,
       HandToSelf, HandOnEventLoop, EndWait, ReturnToFront, TakeLock, SkipLock, TakeBatch, SettleReplays,
       Unpark, CountUndelivered, CountInBuild, askVars
  <2> QED  BY <2>1, <2>2
<1> QED  BY <1>1, <1>2 DEF Next

LEMMA ChaseStep ==
    ASSUME IInv, IInv', StopsFit, ExitFits, ChaseFits, ThreadsStart, OneExitThread, Next, Exchanges,
           exitBuild' # exitBuild => \A c \in Callers : back[c] = <<>>
    PROVE  ChaseFits'
<1> SUFFICES ASSUME NEW e \in ExitThreads, e \notin late', NEW r \in owed'[e]
             PROVE  kind'[r] # "none" /\ (kind'[r] = "overflow" /\ fate'[r] = "none" => Chased(e, r)')
  BY DEF ChaseFits, Chased, InBuildOf, Doing
<1>0. TypeOK /\ e \notin late /\ r \in Records
  <2>1. owed'[e] \subseteq Records
    BY ExitThreadFacts DEF IInv, TypeOK
  <2> QED  BY <2>1, OwedStays DEF IInv
<1>1. CASE BuildAllOverflow(e)
  <2>1. kind' = kind /\ fate' = fate /\ exitBuild' = TRUE /\ pc[e] = "idle"
    BY <1>1 DEF BuildAllOverflow, recordVars
  <2>2. \A c \in Callers : back[c] = <<>>
    BY <2>1 DEF ExitFits
  <2>3. r \in HeldRecords
    BY <1>0, <1>1, ExitThreadFacts, TypeParts DEF BuildAllOverflow, CountTypes, Put
  <2> QED  BY <1>1, <2>1, <2>2, <2>3, ChaseBegins DEF HeldRecords
<1>2. CASE ~BuildAllOverflow(e)
  <2>1. r \in owed[e]
    BY <1>0, <1>2, OwedStays
  <2>2. kind[r] # "none" /\ (kind[r] = "overflow" /\ fate[r] = "none" => Chased(e, r))
    BY <1>0, <2>1 DEF ChaseFits
  <2>3. kind'[r] # "none" /\ (kind'[r] = "overflow" /\ fate'[r] = "none" => Chased(e, r))
    BY <1>0, <2>2, RecordsMoveOn
  <2> QED  BY <1>0, <2>3, ChaseSurvives
<1> QED  BY <1>1, <1>2

\* Only the two counts lead to an answer.
LEMMA CountsAnswer ==
    ASSUME TypeOK, Control, ThreadsStart, NEW f \in Flushers, Step(f), pc'[f] \in {"tally", "done"}
    PROVE  CountUndelivered(f) \/ CountInBuild(f)
<1>1. CASE SetShutdown(f) \/ CheckGoesOn(f) \/ ReturnToFront(f) \/ SkipLock(f) \/ SettleReplays(f) \/ Unpark(f)
  BY <1>1, QuietEffects DEF Moved, After
<1>2. CASE StartFlush(f) \/ CheckExiting(f) \/ ForgetEmpty(f) \/ HandToThread(f)
  BY <1>2, StartFlushEffect, CheckExitingEffect, ForgetEmptyEffect, HandToThreadEffect DEF Moved, After
<1>3. CASE HandToSelf(f) \/ HandOnEventLoop(f)
  BY <1>3, ThreadsAreStarted
<1>4. CASE EndWait(f) \/ TakeLock(f)
  BY <1>4, EndWaitEffect, TakeLockEffect DEF Moved, After
<1>5. CASE TakeBatch(f)
  BY <1>5, TakeBatchEffect DEF TakesUpTo, Moved
<1>6. CASE BuildAllOverflow(f)
  BY <1>6, BuildAllOverflowEffect DEF Moved
<1> QED  BY <1>1, <1>2, <1>3, <1>4, <1>5, <1>6 DEF Step

\* Nothing is on the line, and what is in a build or a hand-back is overflowed.
LEMMA NothingUndelivered ==
    ASSUME IInv, Undelivered = 0, NEW r \in HeldRecords
    PROVE  kind[r] = "overflow"
<1>1. TypeOK /\ Control /\ KindsFit /\ EachRecordInOnePlace /\ r \in Records
  BY DEF IInv, HeldRecords
<1>2. batch \in Seq(Records) /\ parked \in Seq(Records) /\ events \in Seq(Records) /\ inFlight = Len(batch)
  BY <1>1, LineIsSeq DEF Control, BatchFits
<1>3. Len(batch) = 0 /\ Len(parked) = 0 /\ Len(events) = 0
  <2>1. Len(batch) \in Nat /\ Len(parked) \in Nat /\ Len(events) \in Nat
    BY <1>2, LenProperties
  <2>2. Len(events) + Len(parked) + Len(batch) = 0
    BY <1>2 DEF Undelivered, Held
  <2> QED  BY <2>1, <2>2
<1>4. ~OnLine(r)
  <2>1. batch = <<>> /\ parked = <<>> /\ events = <<>>
    BY <1>2, <1>3, EmptySeq
  <2> QED  BY <1>1, <2>1, OnLineFacts, NoElement
<1>5. Present(r)
  BY <1>1 DEF EachRecordInOnePlace
<1> QED  BY <1>1, <1>4, <1>5 DEF Present, KindsFit

LEMMA AnswerStep ==
    ASSUME IInv, ChaseFits, AnswerFits, ThreadsStart, OneExitThread, Next, Exchanges
    PROVE  AnswerFits'
<1> SUFFICES ASSUME NEW e \in ExitThreads, e \notin late', pc'[e] \in {"tally", "done"}, report'[e] = 0,
                    NEW r \in owed'[e]
             PROVE  fate'[r] # "none"
  BY DEF AnswerFits
<1>0. TypeOK /\ Control /\ e \in Flushers /\ HasDeadline(e) /\ e \notin late
  BY ExitThreadFacts, OwedStays DEF IInv
<1>1. ~BuildAllOverflow(e) /\ r \in owed[e] /\ r \in Records
  <2>1. ~BuildAllOverflow(e)
    BY <1>0, BuildAllOverflowEffect DEF Moved
  <2>2. r \in owed[e]
    BY <1>0, <2>1, OwedStays
  <2> QED  BY <1>0, <2>1, <2>2, TypeParts DEF CountTypes
<1>2. fate[r] # "none" => fate'[r] # "none"
  BY <1>0, <1>1, RecordsMoveOn
<1>3. ASSUME pc[e] \in {"tally", "done"}, report[e] = 0 PROVE fate'[r] # "none"
  BY <1>0, <1>1, <1>2, <1>3 DEF AnswerFits
<1>4. CASE CountUndelivered(e)
  <2>1. Undelivered = 0 /\ pc[e] = "count"
    BY <1>0, <1>4, TypeParts DEF CountUndelivered, CountTypes, Put
  <2>2. kind[r] # "none" /\ (kind[r] = "overflow" => fate[r] # "none")
    BY <1>0, <1>1, <2>1 DEF ChaseFits, Chased
  <2>3. fate[r] = "none" => kind[r] = "overflow"
    BY <1>1, <2>1, <2>2, NothingUndelivered DEF HeldRecords
  <2> QED  BY <1>2, <2>2, <2>3
<1>5. CASE CountInBuild(e)
  <2>1. pc[e] = "tally" /\ report'[e] = report[e] + InBuild + (total.cutShort - base[e])
    BY <1>0, <1>5, TypeParts DEF CountInBuild, CountTypes, Put
  <2>2. report[e] \in Nat /\ base[e] \in Nat /\ total.cutShort \in Nat /\ base[e] <= total.cutShort
    BY <1>0, TypeParts DEF CountTypes, Control, CountsFit
  <2>3. report[e] = 0
    BY <1>0, <2>1, <2>2, InBuildIsNat
  <2> QED  BY <1>3, <2>1, <2>3
<1>6. CASE ~CountUndelivered(e) /\ ~CountInBuild(e)
  <2>1. pc'[e] = pc[e] /\ report'[e] = report[e]
    <3>1. CASE Arrive \/ Traffic \/ (\E f \in Flushers : Deadline(f)) \/ \E b \in BuildIds : Build(b)
      BY <3>1, OthersMoveNone
    <3>2. ASSUME NEW f \in Flushers, Step(f) PROVE pc'[e] = pc[e] /\ report'[e] = report[e]
      <4>1. f # e
        BY <1>0, <1>6, <3>2, CountsAnswer
      <4> QED  BY <1>0, <3>2, <4>1, StepMovesOne DEF Stays
    <3> QED  BY <3>1, <3>2 DEF Next
  <2> QED  BY <1>3, <2>1
<1> QED  BY <1>4, <1>5, <1>6

QuietInvariant == StopsFit /\ ExitFits /\ ChaseFits /\ AnswerFits

LEMMA QuietInit ==
    ASSUME Init
    PROVE  QuietInvariant
<1>1. /\ \A b \in BuildIds : builds[b] = NoBuild
      /\ \A f \in Flushers : pc[f] = "idle" /\ stage[f] = "first" /\ back[f] = <<>> /\ owed[f] = {}
      /\ exitBuild = FALSE
  BY DEF Init
<1>2. \A e \in ExitThreads : e \in Flushers
  BY ExitThreadFacts
<1>3. FlushThread \in Flushers
  BY DEF Flushers
<1>4. StopsFit
  BY <1>1 DEF StopsFit, NoBuild
<1> QED  BY <1>1, <1>2, <1>3, <1>4 DEF QuietInvariant, ExitFits, ChaseFits, AnswerFits

\* Between a reclaim and its _return_to_front a caller's tasks are in neither deque nor build;
\* the assumption is that none are when build_all_overflow begins.
TakeoverFindsAll == [][exitBuild' # exitBuild => \A c \in Callers : back[c] = <<>>]_vars

\* An answer of 0 in time from _drain_buffer at exit means what its caller takes it to mean:
\* each record held when build_all_overflow began was sent or has a status of its own.
THEOREM QuietExitHolds ==
    ASSUME ThreadsStart, OneExitThread
    PROVE  Spec /\ TakeoverFindsAll => []QuietExitIsComplete
<1>1. Init => QuietInvariant
  BY QuietInit
<1>2. ASSUME IInv, QuietInvariant, [Next]_vars,
             [exitBuild' # exitBuild => \A c \in Callers : back[c] = <<>>]_vars
      PROVE  QuietInvariant'
  <2>1. IInv' /\ (UNCHANGED vars \/ Exchanges)
    BY <1>2, InvariantStep
  <2>2. CASE UNCHANGED vars
    <3>1. UNCHANGED <<kind, fate, builds, exitBuild, pc, stage, mine, back, late, awaits, report, owed>>
      BY <2>2 DEF vars, recordVars, buildVars, flushVars, askVars
    <3>2. StopsFit' /\ ExitFits' /\ AnswerFits'
      BY <1>2, <3>1 DEF QuietInvariant, StopsFit, ExitFits, AnswerFits
    <3>3. ChaseFits'
      BY <1>2, <3>1 DEF QuietInvariant, ChaseFits, Chased, InBuildOf, Doing
    <3> QED  BY <3>2, <3>3 DEF QuietInvariant
  <2>3. CASE ~UNCHANGED vars
    <3>1. /\ Next /\ Exchanges /\ TypeOK /\ Control
          /\ exitBuild' # exitBuild => \A c \in Callers : back[c] = <<>>
      BY <1>2, <2>1, <2>3 DEF IInv
    <3>2. StopsFit' /\ ExitFits'
      BY <1>2, <3>1, StopsStep, ExitStep DEF QuietInvariant
    <3>3. ChaseFits' /\ AnswerFits'
      BY <1>2, <2>1, <3>1, ChaseStep, AnswerStep DEF QuietInvariant
    <3> QED  BY <3>2, <3>3 DEF QuietInvariant
  <2> QED  BY <2>2, <2>3
<1>3. QuietInvariant => QuietExitIsComplete
  BY DEF QuietInvariant, AnswerFits, QuietExitIsComplete
<1> QED  BY <1>1, <1>2, <1>3, BufferInvariant, PTL DEF Spec, TakeoverFindsAll

\* With no flush_metering under way nothing is assumed of the run itself.
THEOREM QuietExitWithoutCallers ==
    ASSUME ThreadsStart, OneExitThread, Callers = {}
    PROVE  Spec => []QuietExitIsComplete
<1>1. [Next]_vars => [exitBuild' # exitBuild => \A c \in Callers : back[c] = <<>>]_vars
  OBVIOUS
<1>2. Spec => TakeoverFindsAll
  BY <1>1, PTL DEF Spec, TakeoverFindsAll
<1> QED  BY <1>2, QuietExitHolds
==============================================================================
