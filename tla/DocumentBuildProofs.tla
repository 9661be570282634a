------------------------- MODULE DocumentBuildProofs -------------------------
(***************************************************************************)
(* For every file that can be made of any kinds of blocks, of any length,  *)
(* and every window and overlap that chunk_text accepts: types, windows    *)
(* and citations.                                                          *)
(* In their order: sequences and numbers; the types of what is rendered;   *)
(* the parser and the tables it reads; names, paths and their order; each  *)
(* step keeps BuildOK; the windows; the citations.                         *)
(***************************************************************************)
EXTENDS DocumentBuild, SequenceTheorems, FunctionTheorems, FiniteSetTheorems,
        NaturalsInduction, WellFoundedInduction, TLAPS

-----------------------------------------------------------------------------
(* Numbers.  A least element stands where an induction would.              *)
LEMMA Least ==
  ASSUME NEW T \in SUBSET Nat, T # {}
  PROVE  \E x \in T : \A y \in T : x <= y
<1>1. PICK x \in T : \A y \in T : ~ (<<y, x>> \in OpToRel(<,Nat))
  BY NatLessThanWellFounded, WFMin
<1>2. \A y \in T : ~(y < x)
  BY <1>1 DEF OpToRel
<1> QED
  BY <1>2

LEMMA LeastIs ==
  ASSUME NEW T \in SUBSET Nat, T # {}
  PROVE  Min(T) \in T /\ \A y \in T : Min(T) <= y
  BY Least DEF Min

LEMMA Greatest ==
  ASSUME NEW T \in SUBSET Nat, T # {}, NEW n \in Nat, \A y \in T : y <= n
  PROVE  Max(T) \in T /\ \A y \in T : y <= Max(T)
<1> DEFINE U == {u \in Nat : \E y \in T : u + y = n}
<1>1. PICK y0 \in T : TRUE
  OBVIOUS
<1>2. n - y0 \in Nat /\ (n - y0) + y0 = n
  BY <1>1
<1>3. U \in SUBSET Nat /\ U # {}
  BY <1>2
<1>4. PICK u \in U : \A v \in U : u <= v
  <2> HIDE DEF U
  <2> QED BY <1>3, Least
<1>5. PICK x \in T : u + x = n
  BY <1>4
<1>6. \A y \in T : x >= y
  <2> SUFFICES ASSUME NEW y \in T PROVE x >= y
    OBVIOUS
  <2>1. n - y \in U
    OBVIOUS
  <2>2. u <= n - y
    BY <2>1, <1>4
  <2> QED BY <2>2, <1>4, <1>5
<1> QED
  BY <1>6 DEF Max

(* Induction over the numbers, as a lemma about the set of those for which *)
(* something holds.                                                        *)
LEMMA EveryNumber ==
  ASSUME NEW G, 0 \in G, \A k \in Nat : k \in G => k + 1 \in G
  PROVE  \A k \in Nat : k \in G
<1> DEFINE Bad == {k \in Nat : k \notin G}
<1>1. Bad \in SUBSET Nat
  OBVIOUS
<1> SUFFICES ASSUME Bad # {} PROVE FALSE
  OBVIOUS
<1>2. PICK m \in Bad : \A k \in Bad : m <= k
  <2> HIDE DEF Bad
  <2> QED BY <1>1, Least
<1>3. m \in Nat /\ m \notin G /\ m # 0
  OBVIOUS
<1>4. m - 1 \in Nat /\ ~(m <= m - 1) /\ (m - 1) + 1 = m
  BY <1>3
<1>5. m - 1 \notin Bad
  <2> HIDE DEF Bad
  <2> QED BY <1>2, <1>4
<1>6. m - 1 \in G
  BY <1>4, <1>5
<1> QED BY <1>3, <1>4, <1>6

LEMMA UpTo ==
  ASSUME NEW n \in Nat, NEW G, 0 \in G, \A k \in 0 .. (n - 1) : k \in G => k + 1 \in G
  PROVE  \A k \in 0 .. n : k \in G
<1> DEFINE H == {k \in Nat : k \in 0 .. n => k \in G}
<1>1. 0 \in H
  OBVIOUS
<1>2. ASSUME NEW k \in Nat, k \in H PROVE k + 1 \in H
  <2>1. CASE k + 1 \in 0 .. n
    <3>1. k \in 0 .. (n - 1) /\ k \in 0 .. n
      BY <2>1
    <3> QED BY <1>2, <3>1
  <2>2. CASE k + 1 \notin 0 .. n
    BY <2>2
  <2> QED BY <2>1, <2>2
<1>3. \A k \in Nat : k \in H
  <2> HIDE DEF H
  <2> QED BY <1>1, <1>2, EveryNumber
<1>4. \A k \in 0 .. n : k \in Nat
  OBVIOUS
<1> QED BY <1>3, <1>4

-----------------------------------------------------------------------------
(* FlattenSeq: its recursive function exists, and adds the pieces one by   *)
(* one.                                                                    *)
Flattens(s, f, n) ==
  /\ f = [i \in 1 .. n |-> IF i = 1 THEN s[i] ELSE f[i - 1] \o s[i]]

LEMMA FlattensExists ==
  ASSUME NEW s, NEW n \in Nat
  PROVE  \E f : Flattens(s, f, n)
<1> DEFINE G == {m \in Nat : \E f : Flattens(s, f, m)}
<1>1. 0 \in G
  <2>1. Flattens(s, [i \in 1 .. 0 |-> s[i]], 0)
    BY DEF Flattens
  <2> QED BY <2>1
<1>2. ASSUME NEW k \in Nat, k \in G PROVE k + 1 \in G
  <2>1. PICK f : Flattens(s, f, k)
    BY <1>2
  <2> DEFINE v == IF k = 0 THEN s[1] ELSE f[k] \o s[k + 1]
             g == [i \in 1 .. (k + 1) |-> IF i = k + 1 THEN v ELSE f[i]]
  <2>2. \A i \in 1 .. k : f[i] = IF i = 1 THEN s[i] ELSE f[i - 1] \o s[i]
    BY <2>1 DEF Flattens
  <2>3. \A i \in 1 .. (k + 1) : g[i] = IF i = 1 THEN s[i] ELSE g[i - 1] \o s[i]
    <3> SUFFICES ASSUME NEW i \in 1 .. (k + 1)
                 PROVE  g[i] = IF i = 1 THEN s[i] ELSE g[i - 1] \o s[i]
      OBVIOUS
    <3>1. CASE i = k + 1
      <4>1. g[i] = v
        BY <3>1
      <4>2. CASE k = 0
        BY <3>1, <4>1, <4>2
      <4>3. CASE k # 0
        <5>1. k \in 1 .. (k + 1) /\ k # k + 1 /\ i - 1 = k /\ i # 1
          BY <3>1, <4>3
        <5>2. g[k] = f[k]
          BY <5>1
        <5>3. v = f[k] \o s[k + 1]
          BY <4>3
        <5> HIDE DEF v, g
        <5> QED BY <3>1, <4>1, <5>1, <5>2, <5>3
      <4> QED BY <4>2, <4>3
    <3>2. CASE i # k + 1
      <4>1. i \in 1 .. k /\ (i # 1 => i - 1 \in 1 .. (k + 1) /\ i - 1 # k + 1)
        BY <3>2
      <4>2. g[i] = f[i] /\ (i # 1 => g[i - 1] = f[i - 1])
        BY <3>2, <4>1
      <4> HIDE DEF g
      <4> QED BY <2>2, <4>1, <4>2
    <3> QED BY <3>1, <3>2
  <2>4. Flattens(s, g, k + 1)
    <3> DEFINE h == [i \in 1 .. (k + 1) |-> IF i = 1 THEN s[i] ELSE g[i - 1] \o s[i]]
    <3>1. DOMAIN g = 1 .. (k + 1) /\ g = [i \in 1 .. (k + 1) |-> g[i]]
      OBVIOUS
    <3> HIDE DEF g
    <3>2. g = h
      BY <2>3, <3>1
    <3> QED BY <3>2 DEF Flattens
  <2> QED BY <2>4
<1>3. \A k \in Nat : k \in G
  <2> HIDE DEF G
  <2> QED BY <1>1, <1>2, EveryNumber
<1> QED BY <1>3

LEMMA FlattensTypes ==
  ASSUME NEW T, NEW s \in Seq(Seq(T)), NEW n \in 0 .. Len(s), NEW f, Flattens(s, f, n)
  PROVE  \A i \in 1 .. n : /\ f[i] \in Seq(T)
                            /\ f[i] = IF i = 1 THEN s[1] ELSE f[i - 1] \o s[i]
<1>1. \A i \in 1 .. n : f[i] = IF i = 1 THEN s[1] ELSE f[i - 1] \o s[i]
  BY DEF Flattens
<1>2. n \in Nat /\ \A i \in 1 .. n : s[i] \in Seq(T)
  OBVIOUS
<1> DEFINE G == {m \in Nat : m = 0 \/ f[m] \in Seq(T)}
<1>3. 0 \in G
  OBVIOUS
<1>4. ASSUME NEW k \in 0 .. (n - 1), k \in G PROVE k + 1 \in G
  <2>1. k + 1 \in 1 .. n /\ k + 1 \in Nat /\ (k + 1) - 1 = k /\ (k = 0 <=> k + 1 = 1) /\ s[k + 1] \in Seq(T)
    BY <1>2
  <2>2. CASE k = 0
    <3>1. f[k + 1] = s[k + 1]
      BY <1>1, <2>1, <2>2
    <3> QED BY <2>1, <3>1
  <2>3. CASE k # 0
    <3>1. f[k] \in Seq(T)
      BY <1>4, <2>3
    <3>2. f[k + 1] = f[k] \o s[k + 1]
      BY <1>1, <2>1, <2>3
    <3>3. f[k] \o s[k + 1] \in Seq(T)
      BY <2>1, <3>1, ConcatProperties
    <3> QED BY <2>1, <3>2, <3>3
  <2> QED BY <2>2, <2>3
<1>5. \A k \in 0 .. n : k \in G
  <2> HIDE DEF G
  <2> QED BY <1>2, <1>3, <1>4, UpTo
<1>6. \A i \in 1 .. n : i \in 0 .. n /\ i # 0
  BY <1>2
<1> QED BY <1>1, <1>5, <1>6

LEMMA FlattenIs ==
  ASSUME NEW s, Len(s) \in Nat
  PROVE  \E f : Flattens(s, f, Len(s)) /\ FlattenSeq(s) = IF Len(s) = 0 THEN <<>> ELSE f[Len(s)]
<1>2. \E f : Flattens(s, f, Len(s))
  BY FlattensExists
<1> DEFINE F == CHOOSE f : f = [i \in 1 .. Len(s) |-> IF i = 1 THEN s[i] ELSE f[i - 1] \o s[i]]
<1>3. Flattens(s, F, Len(s))
  BY <1>2 DEF Flattens
<1>4. FlattenSeq(s) = IF Len(s) = 0 THEN <<>> ELSE F[Len(s)]
  BY DEF FlattenSeq
<1> HIDE DEF F
<1> QED BY <1>3, <1>4

LEMMA FlattenEmpty == FlattenSeq(<<>>) = <<>>
  BY DEF FlattenSeq

LEMMA FlattenAppend ==
  ASSUME NEW T, NEW s \in Seq(Seq(T)), NEW x \in Seq(T)
  PROVE  FlattenSeq(s) \in Seq(T) /\ FlattenSeq(Append(s, x)) = FlattenSeq(s) \o x
<1> DEFINE t == Append(s, x)
           n == Len(s)
<1>1. /\ n \in Nat /\ t \in Seq(Seq(T)) /\ Len(t) = n + 1 /\ t[n + 1] = x
      /\ \A i \in 1 .. n : t[i] = s[i]
  BY AppendProperties
<1> HIDE DEF t
<1>2. PICK g : Flattens(t, g, n + 1) /\ FlattenSeq(t) = g[n + 1]
  BY <1>1, FlattenIs
<1>3. n + 1 \in 0 .. Len(t) /\ n \in 0 .. Len(s)
  BY <1>1
<1>4. \A i \in 1 .. (n + 1) : g[i] \in Seq(T) /\ g[i] = IF i = 1 THEN t[1] ELSE g[i - 1] \o t[i]
  <2> DEFINE m == n + 1
  <2>1. t \in Seq(Seq(T)) /\ m \in 0 .. Len(t) /\ Flattens(t, g, m)
    BY <1>1, <1>2, <1>3
  <2> HIDE DEF m, t
  <2>2. \A i \in 1 .. m : g[i] \in Seq(T) /\ g[i] = IF i = 1 THEN t[1] ELSE g[i - 1] \o t[i]
    BY <2>1, FlattensTypes
  <2> QED BY <2>2 DEF m
<1>5. PICK f : Flattens(s, f, n) /\ FlattenSeq(s) = IF n = 0 THEN <<>> ELSE f[n]
  BY <1>1, FlattenIs
<1>6. \A i \in 1 .. n : f[i] \in Seq(T) /\ f[i] = IF i = 1 THEN s[1] ELSE f[i - 1] \o s[i]
  <2>1. n \in 0 .. Len(s) /\ Flattens(s, f, n)
    BY <1>3, <1>5
  <2> HIDE DEF n
  <2> QED BY <2>1, FlattensTypes
<1> DEFINE G == {k \in Nat : k = 0 \/ f[k] = g[k]}
<1>7. 0 \in G
  OBVIOUS
<1>8. ASSUME NEW k \in 0 .. (n - 1), k \in G PROVE k + 1 \in G
  <2>1. k + 1 \in 1 .. n /\ k + 1 \in 1 .. (n + 1) /\ k + 1 \in Nat /\ (k + 1) - 1 = k
        /\ (k = 0 <=> k + 1 = 1) /\ 1 \in 1 .. n
    BY <1>1
  <2>2. t[k + 1] = s[k + 1] /\ t[1] = s[1]
    BY <1>1, <2>1
  <2>3. f[k + 1] = g[k + 1]
    BY <1>4, <1>6, <1>8, <2>1, <2>2
  <2> QED BY <2>1, <2>3
<1>9. \A k \in 0 .. n : k \in G
  <2> HIDE DEF G
  <2> QED BY <1>1, <1>7, <1>8, UpTo
<1>10. CASE n = 0
  <2>1. 1 \in 1 .. (n + 1) /\ FlattenSeq(s) = <<>> /\ n + 1 = 1
    BY <1>5, <1>10
  <2>2. FlattenSeq(t) = x
    BY <1>1, <1>2, <1>4, <2>1
  <2>3. <<>> \in Seq(T) /\ <<>> \o x = x
    BY ConcatEmptySeq
  <2> QED BY <2>1, <2>2, <2>3 DEF t
<1>11. CASE n # 0
  <2>1. n \in 1 .. n /\ n + 1 \in 1 .. (n + 1) /\ n + 1 # 1 /\ (n + 1) - 1 = n /\ n \in 0 .. n
    BY <1>1, <1>11
  <2>2. f[n] = g[n]
    BY <1>9, <1>11, <2>1
  <2>3. g[n + 1] = g[n] \o x
    BY <1>1, <1>4, <2>1
  <2> QED BY <1>2, <1>5, <1>6, <1>11, <2>1, <2>2, <2>3 DEF t
<1> QED BY <1>10, <1>11

(* The first k pieces; facts about FlattenSeq go by induction over them.   *)
Flat(s, k) == FlattenSeq(SubSeq(s, 1, k))

LEMMA FlatSteps ==
  ASSUME NEW T, NEW s \in Seq(Seq(T))
  PROVE  /\ Flat(s, 0) = <<>> /\ Flat(s, Len(s)) = FlattenSeq(s)
         /\ \A k \in 0 .. Len(s) : Flat(s, k) \in Seq(T)
         /\ \A k \in 0 .. (Len(s) - 1) : Flat(s, k + 1) = Flat(s, k) \o s[k + 1]
<1>0. Len(s) \in Nat
  OBVIOUS
<1>1. SubSeq(s, 1, 0) = <<>> /\ SubSeq(s, 1, Len(s)) = s
  BY EmptySeq, SubSeqProperties
<1>2. ASSUME NEW k \in 0 .. Len(s)
      PROVE  SubSeq(s, 1, k) \in Seq(Seq(T)) /\ Flat(s, k) \in Seq(T)
  <2>1. \A i \in 1 .. k : s[i] \in Seq(T)
    BY <1>0
  <2>2. SubSeq(s, 1, k) \in Seq(Seq(T))
    BY <1>0, SubSeqProperties
  <2>3. <<>> \in Seq(T)
    OBVIOUS
  <2> QED BY <2>2, <2>3, FlattenAppend DEF Flat
<1>3. ASSUME NEW k \in 0 .. (Len(s) - 1)
      PROVE  Flat(s, k + 1) = Flat(s, k) \o s[k + 1]
  <2>1. k \in 0 .. Len(s) /\ k + 1 \in 1 .. Len(s) /\ s[k + 1] \in Seq(T)
    BY <1>0
  <2>2. SubSeq(s, 1, k + 1) = Append(SubSeq(s, 1, k), s[k + 1])
    BY <1>0, <2>1
  <2> QED BY <1>2, <2>1, <2>2, FlattenAppend DEF Flat
<1> QED BY <1>1, <1>2, <1>3, FlattenEmpty DEF Flat

LEMMA FlattenRange ==
  ASSUME NEW T, NEW s \in Seq(Seq(T))
  PROVE  /\ FlattenSeq(s) \in Seq(T)
         /\ \A c : c \in Range(FlattenSeq(s)) <=> \E k \in 1 .. Len(s) : c \in Range(s[k])
<1> DEFINE n == Len(s)
           In(k, c) == c \in Range(Flat(s, k)) <=> \E j \in 1 .. k : c \in Range(s[j])
           G == {k \in Nat : \A c : In(k, c)}
<1>0. n \in Nat
  OBVIOUS
<1>1. 0 \in G
  BY FlatSteps DEF Range
<1>2. ASSUME NEW k \in 0 .. (n - 1), k \in G PROVE k + 1 \in G
  <2>1. /\ Flat(s, k + 1) = Flat(s, k) \o s[k + 1]
        /\ Flat(s, k) \in Seq(T) /\ s[k + 1] \in Seq(T) /\ k + 1 \in Nat
    <3>1. k \in 0 .. n /\ k + 1 \in 1 .. n
      BY <1>0
    <3> QED BY <3>1, FlatSteps
  <2>2. \A c : c \in Range(Flat(s, k + 1)) <=> c \in Range(Flat(s, k)) \/ c \in Range(s[k + 1])
    <3> DEFINE x == Flat(s, k)
               y == s[k + 1]
    <3>1. x \in Seq(T) /\ y \in Seq(T)
      BY <2>1
    <3> HIDE DEF x, y
    <3>2. Range(x \o y) = Range(x) \cup Range(y)
      BY <3>1, RangeConcatenation
    <3>3. Range(Flat(s, k + 1)) = Range(x \o y)
      BY <2>1 DEF x, y
    <3> QED BY <3>2, <3>3 DEF x, y
  <2>3. \A j : j \in 1 .. (k + 1) <=> j \in 1 .. k \/ j = k + 1
    BY <1>0
  <2>4. \A c : In(k, c)
    BY <1>2
  <2>5. \A c : In(k + 1, c)
    BY <2>2, <2>3, <2>4
  <2> QED BY <2>1, <2>5
<1>3. \A k \in 0 .. n : k \in G
  <2> HIDE DEF G
  <2> QED BY <1>0, <1>1, <1>2, UpTo
<1>4. n \in 0 .. n
  BY <1>0
<1>5. \A c : In(n, c)
  BY <1>3, <1>4
<1> QED BY <1>0, <1>4, <1>5, FlatSteps

(* The numbers of a set in increasing order.                               *)
LEMMA InOrderIs ==
  ASSUME NEW S, NEW n \in Nat
  PROVE  /\ InOrder(S, n) \in Seq(Nat)
         /\ \A m : m \in Range(InOrder(S, n)) <=> m \in S /\ m \in 1 .. n
         /\ \A i, j \in 1 .. Len(InOrder(S, n)) : i < j => InOrder(S, n)[i] < InOrder(S, n)[j]
<1> DEFINE s == [k \in 1 .. n |-> IF k \in S THEN <<k>> ELSE <<>>]
           Rises(x) == \A i, j \in 1 .. Len(x) : i < j => x[i] < x[j]
           Lists(x, k) == /\ x \in Seq(Nat)
                          /\ \A m : m \in Range(x) <=> m \in S /\ m \in 1 .. k
                          /\ Rises(x)
           G == {k \in Nat : Lists(Flat(s, k), k)}
<1>1. s \in Seq(Seq(Nat)) /\ Len(s) = n /\ \A k \in 1 .. n : s[k] = IF k \in S THEN <<k>> ELSE <<>>
  <2>1. \A k \in 1 .. n : (IF k \in S THEN <<k>> ELSE <<>>) \in Seq(Nat)
    OBVIOUS
  <2>2. s \in [1 .. n -> Seq(Nat)]
    BY <2>1
  <2> QED BY <2>2
<1> HIDE DEF s
<1>2. 0 \in G
  <2>1. Lists(<<>>, 0)
    BY DEF Range
  <2>2. Flat(s, 0) = <<>>
    BY <1>1, FlatSteps
  <2> QED BY <2>1, <2>2
<1>3. ASSUME NEW k \in 0 .. (n - 1), k \in G PROVE k + 1 \in G
  <2> DEFINE x == Flat(s, k)
             y == Flat(s, k + 1)
  <2>1. /\ k \in Nat /\ k + 1 \in Nat /\ k + 1 \in 1 .. n /\ y = x \o s[k + 1]
        /\ s[k + 1] = IF k + 1 \in S THEN <<k + 1>> ELSE <<>>
    <3>1. k \in Nat /\ k + 1 \in Nat /\ k + 1 \in 1 .. n /\ k \in 0 .. (Len(s) - 1)
      BY <1>1
    <3>2. y = x \o s[k + 1]
      BY <1>1, <3>1, FlatSteps
    <3> QED BY <1>1, <3>1, <3>2
  <2>2. Lists(x, k)
    BY <1>3
  <2> HIDE DEF x, y
  <2>3. x \in Seq(Nat) /\ Len(x) \in Nat /\ \A i \in 1 .. Len(x) : x[i] \in 1 .. k
    <3>1. \A i \in 1 .. Len(x) : x[i] \in Range(x)
      BY <2>2 DEF Range
    <3> QED BY <2>2, <3>1
  <2>4. \A m : m \in 1 .. (k + 1) <=> m \in 1 .. k \/ m = k + 1
    BY <2>1
  <2>5. CASE k + 1 \in S
    <3>1. y \in Seq(Nat) /\ Len(y) = Len(x) + 1 /\ y[Len(x) + 1] = k + 1
          /\ \A i \in 1 .. Len(x) : y[i] = x[i]
      BY <2>1, <2>3, <2>5
    <3>2. \A m : m \in Range(y) <=> m \in Range(x) \/ m = k + 1
      <4>1. DOMAIN x = 1 .. Len(x) /\ DOMAIN y = 1 .. (Len(x) + 1)
        BY <2>3, <3>1
      <4>2. \A i : i \in DOMAIN y <=> i \in DOMAIN x \/ i = Len(x) + 1
        BY <2>3, <4>1
      <4>3. \A i \in DOMAIN x : y[i] = x[i]
        BY <3>1, <4>1
      <4> QED BY <3>1, <4>2, <4>3 DEF Range
    <3>3. Rises(y)
      BY <2>1, <2>2, <2>3, <3>1
    <3>4. Lists(y, k + 1)
      BY <2>2, <2>4, <2>5, <3>1, <3>2, <3>3
    <3> QED BY <2>1, <3>4 DEF y
  <2>6. CASE k + 1 \notin S
    <3>1. y = x
      BY <2>1, <2>3, <2>6
    <3>2. Lists(y, k + 1)
      BY <2>2, <2>4, <2>6, <3>1
    <3> QED BY <2>1, <3>2 DEF y
  <2> QED BY <2>5, <2>6
<1>4. \A k \in 0 .. n : k \in G
  <2> HIDE DEF G
  <2> QED BY <1>2, <1>3, UpTo
<1>5. Lists(Flat(s, n), n) /\ Flat(s, n) = InOrder(S, n)
  <2>1. n \in 0 .. n
    OBVIOUS
  <2>2. Flat(s, n) = FlattenSeq(s)
    BY <1>1, FlatSteps
  <2>3. FlattenSeq(s) = InOrder(S, n)
    BY DEF InOrder, s
  <2> QED BY <1>4, <2>1, <2>2, <2>3
<1> QED BY <1>5

(* There is only one way to list a set of numbers in increasing order.     *)
LEMMA OneListing ==
  ASSUME NEW x \in Seq(Nat), NEW y \in Seq(Nat),
         \A i, j \in 1 .. Len(x) : i < j => x[i] < x[j],
         \A i, j \in 1 .. Len(y) : i < j => y[i] < y[j],
         \A m : m \in Range(x) <=> m \in Range(y)
  PROVE  x = y
<1>0. Len(x) \in Nat /\ Len(y) \in Nat /\ DOMAIN x = 1 .. Len(x) /\ DOMAIN y = 1 .. Len(y)
  OBVIOUS
<1> DEFINE Both == {k \in Nat : k <= Len(x) /\ k <= Len(y) /\ \A i \in 1 .. k : x[i] = y[i]}
           G == {k \in Nat : k <= Len(x) \/ k <= Len(y) => k \in Both}
<1>1. 0 \in G
  OBVIOUS
<1>2. ASSUME NEW k \in Nat, k \in G PROVE k + 1 \in G
  <2> SUFFICES ASSUME k + 1 <= Len(x) \/ k + 1 <= Len(y) PROVE k + 1 \in Both
    OBVIOUS
  <2>1. k <= Len(x) /\ k <= Len(y) /\ \A i \in 1 .. k : x[i] = y[i]
    BY <1>0, <1>2
  <2>2. ASSUME k + 1 <= Len(x) PROVE \E j \in (k + 1) .. Len(y) : y[j] = x[k + 1]
    <3>1. k + 1 \in DOMAIN x /\ x[k + 1] \in Range(x)
      BY <1>0, <2>2 DEF Range
    <3>2. PICK j \in 1 .. Len(y) : y[j] = x[k + 1]
      BY <1>0, <3>1 DEF Range
    <3>3. ASSUME j <= k PROVE FALSE
      <4>1. x[j] = x[k + 1] /\ j \in 1 .. Len(x) /\ k + 1 \in 1 .. Len(x) /\ j < k + 1
        BY <1>0, <2>1, <3>1, <3>2, <3>3
      <4>2. x[j] < x[k + 1] /\ x[j] \in Nat
        BY <4>1
      <4> QED BY <4>1, <4>2
    <3> QED BY <1>0, <3>2, <3>3
  <2>3. ASSUME k + 1 <= Len(y) PROVE \E j \in (k + 1) .. Len(x) : x[j] = y[k + 1]
    <3>1. k + 1 \in DOMAIN y /\ y[k + 1] \in Range(y)
      BY <1>0, <2>3 DEF Range
    <3>2. PICK j \in 1 .. Len(x) : x[j] = y[k + 1]
      BY <1>0, <3>1 DEF Range
    <3>3. ASSUME j <= k PROVE FALSE
      <4>1. y[j] = y[k + 1] /\ j \in 1 .. Len(y) /\ k + 1 \in 1 .. Len(y) /\ j < k + 1
        BY <1>0, <2>1, <3>1, <3>2, <3>3
      <4>2. y[j] < y[k + 1] /\ y[j] \in Nat
        BY <4>1
      <4> QED BY <4>1, <4>2
    <3> QED BY <1>0, <3>2, <3>3
  <2>4. k + 1 <= Len(x) /\ k + 1 <= Len(y)
    BY <1>0, <2>2, <2>3
  <2>5. PICK j \in (k + 1) .. Len(y) : y[j] = x[k + 1]
    BY <2>2, <2>4
  <2>6. PICK i \in (k + 1) .. Len(x) : x[i] = y[k + 1]
    BY <2>3, <2>4
  <2>7. /\ k + 1 \in 1 .. Len(x) /\ k + 1 \in 1 .. Len(y) /\ i \in 1 .. Len(x) /\ j \in 1 .. Len(y)
        /\ x[k + 1] \in Nat /\ y[k + 1] \in Nat
    BY <1>0, <2>4
  <2>8. y[k + 1] <= x[k + 1] /\ x[k + 1] <= y[k + 1]
    <3>1. j = k + 1 \/ k + 1 < j
      OBVIOUS
    <3>2. i = k + 1 \/ k + 1 < i
      OBVIOUS
    <3> QED BY <2>5, <2>6, <2>7, <3>1, <3>2
  <2>9. x[k + 1] = y[k + 1]
    BY <2>7, <2>8
  <2> QED BY <2>1, <2>4, <2>9
<1>3. \A k \in Nat : k \in G
  <2> HIDE DEF G
  <2> QED BY <1>1, <1>2, EveryNumber
<1>4. Len(x) \in Both /\ Len(y) \in Both
  BY <1>0, <1>3
<1>5. Len(x) = Len(y)
  <2>1. Len(x) <= Len(y) /\ Len(y) <= Len(x)
    BY <1>4
  <2>2. \A a, b \in Nat : a <= b /\ b <= a => a = b
    OBVIOUS
  <2> QED BY <1>0, <2>1, <2>2
<1>6. \A i \in 1 .. Len(x) : x[i] = y[i]
  BY <1>4
<1> QED BY <1>5, <1>6, SeqEqual

LEMMA SeqBy ==
  ASSUME NEW T, NEW n \in Nat, NEW s, s = [k \in 1 .. n |-> s[k]], \A k \in 1 .. n : s[k] \in T
  PROVE  s \in Seq(T) /\ Len(s) = n
<1>1. s \in [1 .. n -> T]
  OBVIOUS
<1> QED BY <1>1

-----------------------------------------------------------------------------
(* Texts: no character of a file is the separator of the stream.           *)
Visible == Characters \ {Newline}
Texts == Seq(Visible)

LEMMA VisibleIs ==
  /\ \A i \in Nat \ {0}, r, c \in Nat : <<i, r, c>> \in Visible
  /\ Mark \in Visible /\ ShellTitle \in Visible /\ Newline \notin Visible
  BY DEF Visible, Characters, Newline, Mark, ShellTitle

LEMMA FewElements ==
  ASSUME NEW S
  PROVE  /\ \A x \in S : <<x>> \in Seq(S)
         /\ \A x, y, z \in S : <<x, y, z>> \in Seq(S)
  OBVIOUS

LEMMA EmptyText == <<>> \in Texts
  BY DEF Texts

LEMMA JoinTexts ==
  ASSUME NEW s \in Texts, NEW t \in Texts
  PROVE  s \o t \in Texts
  BY ConcatProperties DEF Texts

LEMMA TextOf ==
  ASSUME NEW s \in Seq(Texts)
  PROVE  /\ FlattenSeq(s) \in Texts
         /\ \A c : c \in Range(FlattenSeq(s)) <=> \E k \in 1 .. Len(s) : c \in Range(s[k])
  BY FlattenRange DEF Texts

LEMMA CharsTyped ==
  ASSUME NEW i \in Nat \ {0}, NEW r \in Nat, NEW c \in Nat, NEW n \in Nat
  PROVE  /\ Chars(i, r, c, n) \in Texts /\ Len(Chars(i, r, c, n)) = n
         /\ \A x : x \in Range(Chars(i, r, c, n)) <=> x = <<i, r, c>> /\ n > 0
<1> DEFINE s == Chars(i, r, c, n)
<1>1. s = [k \in 1 .. n |-> s[k]] /\ \A k \in 1 .. n : s[k] = <<i, r, c>>
  BY DEF Chars
<1>2. <<i, r, c>> \in Visible
  BY VisibleIs
<1>3. DOMAIN s = 1 .. n
  BY DEF Chars
<1> HIDE DEF s
<1>4. s \in Texts /\ Len(s) = n
  <2>1. \A k \in 1 .. n : s[k] \in Visible
    BY <1>1, <1>2
  <2>2. s = [k \in 1 .. n |-> s[k]]
    BY <1>1
  <2> QED BY <2>1, <2>2, SeqBy DEF Texts
<1>5. n > 0 => 1 \in 1 .. n
  OBVIOUS
<1>6. \A k : k \in 1 .. n => n > 0
  OBVIOUS
<1>7. \A x : x \in Range(s) <=> x = <<i, r, c>> /\ n > 0
  BY <1>1, <1>3, <1>5, <1>6 DEF Range
<1> QED BY <1>4, <1>7 DEF s

-----------------------------------------------------------------------------
(* The texts of a block.                                                   *)
LEMMA BlockFields ==
  ASSUME NEW b \in SourceBlock
  PROVE  /\ b.type \in BlockType /\ b.level \in Nat /\ b.page \in Nat
         /\ b.caption \in Nat /\ b.footnote \in Nat
         /\ b.rows \in Seq(Seq(TextCell)) /\ Len(b.rows) \in Nat /\ DOMAIN b.rows = 1 .. Len(b.rows)
         /\ \A r \in 1 .. Len(b.rows) :
               /\ b.rows[r] \in Seq(TextCell) /\ Len(b.rows[r]) \in Nat
               /\ DOMAIN b.rows[r] = 1 .. Len(b.rows[r])
               /\ \A c \in 1 .. Len(b.rows[r]) : /\ b.rows[r][c].size \in Nat
                                                  /\ b.rows[r][c].span \in Span
<1>1. /\ b.type \in BlockType /\ b.level \in Nat /\ b.page \in Nat
      /\ b.caption \in Nat /\ b.footnote \in Nat /\ b.rows \in Seq(Seq(TextCell))
  BY DEF SourceBlock
<1>2. Len(b.rows) \in Nat /\ DOMAIN b.rows = 1 .. Len(b.rows)
      /\ \A r \in 1 .. Len(b.rows) : b.rows[r] \in Seq(TextCell)
  BY <1>1
<1>3. ASSUME NEW r \in 1 .. Len(b.rows)
      PROVE  /\ Len(b.rows[r]) \in Nat /\ DOMAIN b.rows[r] = 1 .. Len(b.rows[r])
             /\ \A c \in 1 .. Len(b.rows[r]) : b.rows[r][c] \in TextCell
  BY <1>2
<1>4. \A x \in TextCell : x.size \in Nat /\ x.span \in Span
  BY DEF TextCell
<1> QED BY <1>1, <1>2, <1>3, <1>4

LEMMA CellTyped ==
  ASSUME NEW i \in Nat \ {0}, NEW b \in SourceBlock, NEW r \in 1 .. Len(b.rows),
         NEW c \in 1 .. Len(b.rows[r])
  PROVE  /\ Cell(i, b, r, c) \in Texts
         /\ \A x : x \in Range(Cell(i, b, r, c)) => x = <<i, r, c>>
<1>1. b.rows[r][c].size \in Nat
  BY BlockFields
<1>2. r \in Nat /\ c \in Nat
  BY BlockFields
<1> QED BY <1>1, <1>2, CharsTyped DEF Cell

LEMMA RowTyped ==
  ASSUME NEW i \in Nat \ {0}, NEW b \in SourceBlock, NEW r \in 1 .. Len(b.rows)
  PROVE  /\ Row(i, b, r) \in Texts
         /\ \A x : x \in Range(Row(i, b, r)) <=>
                      \E c \in 1 .. Len(b.rows[r]) : x \in Range(Cell(i, b, r, c))
<1> DEFINE s == [c \in DOMAIN b.rows[r] |-> Cell(i, b, r, c)]
<1>1. Len(b.rows[r]) \in Nat /\ DOMAIN b.rows[r] = 1 .. Len(b.rows[r])
  BY BlockFields
<1>2. s = [c \in 1 .. Len(b.rows[r]) |-> s[c]]
      /\ \A c \in 1 .. Len(b.rows[r]) : s[c] = Cell(i, b, r, c)
  BY <1>1
<1>3. Row(i, b, r) = FlattenSeq(s)
  BY DEF Row
<1> HIDE DEF s
<1>4. \A c \in 1 .. Len(b.rows[r]) : s[c] \in Texts
  BY <1>2, CellTyped
<1>5. s \in Seq(Texts) /\ Len(s) = Len(b.rows[r])
  BY <1>1, <1>2, <1>4, SeqBy
<1> QED BY <1>2, <1>3, <1>5, TextOf

LEMMA BodyTyped ==
  ASSUME NEW i \in Nat \ {0}, NEW b \in SourceBlock
  PROVE  /\ Body(i, b) \in Texts
         /\ \A x : x \in Range(Body(i, b)) <=>
                      \E r \in 1 .. Len(b.rows) : x \in Range(Row(i, b, r))
<1> DEFINE s == [r \in DOMAIN b.rows |-> Row(i, b, r)]
<1>1. Len(b.rows) \in Nat /\ DOMAIN b.rows = 1 .. Len(b.rows)
  BY BlockFields
<1>2. s = [r \in 1 .. Len(b.rows) |-> s[r]] /\ \A r \in 1 .. Len(b.rows) : s[r] = Row(i, b, r)
  BY <1>1
<1>3. Body(i, b) = FlattenSeq(s)
  BY DEF Body
<1> HIDE DEF s
<1>4. \A r \in 1 .. Len(b.rows) : s[r] \in Texts
  BY <1>2, RowTyped
<1>5. s \in Seq(Texts) /\ Len(s) = Len(b.rows)
  BY <1>1, <1>2, <1>4, SeqBy
<1> QED BY <1>2, <1>3, <1>5, TextOf

LEMMA AroundTyped ==
  ASSUME NEW i \in Nat \ {0}, NEW b \in SourceBlock
  PROVE  /\ Caption(i, b) \in Texts /\ \A x : x \in Range(Caption(i, b)) => x[1] = i
         /\ Footnote(i, b) \in Texts
<1>1. b.caption \in Nat /\ b.footnote \in Nat /\ Len(b.rows) + 1 \in Nat
  BY BlockFields
<1>2. \A x : x = <<i, 0, 0>> => x[1] = i
  OBVIOUS
<1> QED BY <1>1, <1>2, CharsTyped DEF Caption, Footnote

(* All the characters of a block are its own.                              *)
LEMMA BodyOwn ==
  ASSUME NEW i \in Nat \ {0}, NEW b \in SourceBlock, NEW x \in Range(Body(i, b))
  PROVE  x[1] = i
<1>1. PICK r \in 1 .. Len(b.rows) : x \in Range(Row(i, b, r))
  BY BodyTyped
<1>2. PICK c \in 1 .. Len(b.rows[r]) : x \in Range(Cell(i, b, r, c))
  BY <1>1, RowTyped
<1>3. x = <<i, r, c>>
  BY <1>2, CellTyped
<1> QED BY <1>3

-----------------------------------------------------------------------------
(* Tokens.                                                                 *)
Tag == {HeadingTag[l] : l \in 1 .. 9} \cup
       {"html", "head", "meta", "title", "body", "main", "section", "p", "div", "ul", "li",
        "table", "caption", "tr", "td", "text"}
TokenSet == [do : {"open", "close", "text"}, tag : Tag, text : Texts, span : Span]
Tokenized == Seq(TokenSet)

LEMMA JoinTokens ==
  ASSUME NEW s \in Tokenized, NEW t \in Tokenized
  PROVE  s \o t \in Tokenized
  BY ConcatProperties DEF Tokenized

LEMMA TokenTyped ==
  /\ \A tag \in Tag : Open(tag) \in TokenSet /\ Close(tag) \in TokenSet
  /\ \A span \in Span : Token("open", "td", <<>>, span) \in TokenSet
  /\ \A text \in Texts : Data(text) \in Tokenized
<1>1. <<1, 1>> \in Span
  BY DEF Span
<1>2. ASSUME NEW do \in {"open", "close", "text"}, NEW tag \in Tag, NEW text \in Texts,
             NEW span \in Span
      PROVE  Token(do, tag, text, span) \in TokenSet
  BY DEF Token, TokenSet
<1>3. "td" \in Tag /\ "text" \in Tag
  BY DEF Tag
<1>4. \A tag \in Tag : Open(tag) \in TokenSet /\ Close(tag) \in TokenSet
  BY <1>1, <1>2, EmptyText DEF Open, Close
<1>5. \A span \in Span : Token("open", "td", <<>>, span) \in TokenSet
  BY <1>2, <1>3, EmptyText
<1>6. ASSUME NEW text \in Texts PROVE Data(text) \in Tokenized
  <2>1. Token("text", "text", text, <<1, 1>>) \in TokenSet
    BY <1>1, <1>2, <1>3
  <2>2. \A x \in TokenSet : <<x>> \in Tokenized
    BY FewElements DEF Tokenized
  <2>3. <<>> \in Tokenized
    BY DEF Tokenized
  <2> QED BY <2>1, <2>2, <2>3 DEF Data
<1> QED BY <1>4, <1>5, <1>6

LEMMA ElementTyped ==
  ASSUME NEW tag \in Tag, NEW text \in Texts
  PROVE  Element(tag, text) \in Tokenized
<1>1. Open(tag) \in TokenSet /\ Close(tag) \in TokenSet /\ Data(text) \in Tokenized
  BY TokenTyped
<1>2. <<Open(tag)>> \in Tokenized /\ <<Close(tag)>> \in Tokenized
  BY <1>1, FewElements DEF Tokenized
<1> QED BY <1>1, <1>2, JoinTokens DEF Element

LEMMA HeadingTagTyped ==
  \A l \in 1 .. 9 : HeadingTag[l] \in Tag
  BY DEF Tag

LEMMA ShellTyped == Shell \in Tokenized /\ ShellEnd \in Tokenized
<1>1. <<ShellTitle>> \in Texts
  BY VisibleIs, FewElements DEF Texts
<1>2. Element("title", <<ShellTitle>>) \in Tokenized
  <2>1. "title" \in Tag
    BY DEF Tag
  <2> QED BY <1>1, <2>1, ElementTyped
<1>3. /\ Open("html") \in TokenSet /\ Open("head") \in TokenSet /\ Open("meta") \in TokenSet
      /\ Close("head") \in TokenSet /\ Open("body") \in TokenSet /\ Open("main") \in TokenSet
      /\ Close("main") \in TokenSet /\ Close("body") \in TokenSet /\ Close("html") \in TokenSet
  <2>1. {"html", "head", "meta", "body", "main"} \subseteq Tag
    BY DEF Tag
  <2> QED BY <2>1, TokenTyped
<1>4. /\ <<Open("html"), Open("head"), Open("meta")>> \in Tokenized
      /\ <<Close("head"), Open("body"), Open("main")>> \in Tokenized
      /\ ShellEnd \in Tokenized
  BY <1>3, FewElements DEF Tokenized, ShellEnd
<1> QED BY <1>2, <1>4, JoinTokens DEF Shell

LEMMA CloseTyped ==
  ASSUME NEW n \in Nat
  PROVE  CloseSections(n) \in Tokenized /\ Len(CloseSections(n)) = n
<1>1. Close("section") \in TokenSet
  <2>1. "section" \in Tag
    BY DEF Tag
  <2> QED BY <2>1, TokenTyped
<1> DEFINE s == CloseSections(n)
<1>2. s = [k \in 1 .. n |-> s[k]] /\ \A k \in 1 .. n : s[k] = Close("section")
  BY DEF CloseSections
<1> HIDE DEF s
<1>3. \A k \in 1 .. n : s[k] \in TokenSet
  BY <1>1, <1>2
<1>4. s \in Seq(TokenSet) /\ Len(s) = n
  BY <1>2, <1>3, SeqBy
<1> QED BY <1>4 DEF s, Tokenized

(* The tokens of pieces, one after the other.                              *)
LEMMA TokensOfPieces ==
  ASSUME NEW n \in Nat, NEW s, s = [k \in 1 .. n |-> s[k]], \A k \in 1 .. n : s[k] \in Tokenized
  PROVE  s \in Seq(Tokenized) /\ Len(s) = n /\ FlattenSeq(s) \in Tokenized
<1>1. s \in Seq(Tokenized) /\ Len(s) = n
  BY SeqBy
<1>2. s \in Seq(Seq(TokenSet))
  BY <1>1 DEF Tokenized
<1> QED BY <1>1, <1>2, FlattenRange DEF Tokenized

LEMMA TableCellTyped ==
  ASSUME NEW i \in Nat \ {0}, NEW b \in SourceBlock, NEW r \in 1 .. Len(b.rows),
         NEW c \in 1 .. Len(b.rows[r])
  PROVE  TableCell(i, b, r, c) \in Tokenized
<1>1. Token("open", "td", <<>>, b.rows[r][c].span) \in TokenSet
  BY BlockFields, TokenTyped
<1>2. Close("td") \in TokenSet
  <2>1. "td" \in Tag
    BY DEF Tag
  <2> QED BY <2>1, TokenTyped
<1>3. Data(Cell(i, b, r, c)) \in Tokenized
  BY CellTyped, TokenTyped
<1>4. \A x \in TokenSet : <<x>> \in Tokenized
  BY FewElements DEF Tokenized
<1> QED BY <1>1, <1>2, <1>3, <1>4, JoinTokens DEF TableCell

LEMMA TableRowTyped ==
  ASSUME NEW i \in Nat \ {0}, NEW b \in SourceBlock, NEW r \in 1 .. Len(b.rows)
  PROVE  TableRow(i, b, r) \in Tokenized
<1> DEFINE s == [c \in DOMAIN b.rows[r] |-> TableCell(i, b, r, c)]
<1>1. Len(b.rows[r]) \in Nat /\ DOMAIN b.rows[r] = 1 .. Len(b.rows[r])
  BY BlockFields
<1>2. s = [c \in 1 .. Len(b.rows[r]) |-> s[c]]
      /\ \A c \in 1 .. Len(b.rows[r]) : s[c] = TableCell(i, b, r, c)
  BY <1>1
<1>3. TableRow(i, b, r) = <<Open("tr")>> \o FlattenSeq(s) \o <<Close("tr")>>
  BY DEF TableRow
<1> HIDE DEF s
<1>4. \A c \in 1 .. Len(b.rows[r]) : s[c] \in Tokenized
  BY <1>2, TableCellTyped
<1>5. FlattenSeq(s) \in Tokenized
  BY <1>1, <1>2, <1>4, TokensOfPieces
<1>6. <<Open("tr")>> \in Tokenized /\ <<Close("tr")>> \in Tokenized
  <2>1. "tr" \in Tag
    BY DEF Tag
  <2> QED BY <2>1, TokenTyped, FewElements DEF Tokenized
<1> QED BY <1>3, <1>5, <1>6, JoinTokens

LEMMA TableTyped ==
  ASSUME NEW i \in Nat \ {0}, NEW b \in SourceBlock, NEW rows
  PROVE  RenderTable(i, b, rows) \in Tokenized
<1> DEFINE s == [r \in DOMAIN b.rows |-> IF r \in rows THEN TableRow(i, b, r) ELSE <<>>]
           cap == IF b.caption = 0 THEN <<>> ELSE Element("caption", Caption(i, b))
           foot == IF b.footnote = 0 THEN <<>> ELSE Element("div", Footnote(i, b))
<1>1. Len(b.rows) \in Nat /\ DOMAIN b.rows = 1 .. Len(b.rows)
  BY BlockFields
<1>2. s = [r \in 1 .. Len(b.rows) |-> s[r]]
      /\ \A r \in 1 .. Len(b.rows) : s[r] = IF r \in rows THEN TableRow(i, b, r) ELSE <<>>
  BY <1>1
<1>3. RenderTable(i, b, rows) = <<Open("table")>> \o cap \o FlattenSeq(s) \o <<Close("table")>> \o foot
  BY DEF RenderTable
<1>4. <<>> \in Tokenized
  BY DEF Tokenized
<1>5. \A r \in 1 .. Len(b.rows) : s[r] \in Tokenized
  <2> HIDE DEF s
  <2> QED BY <1>2, <1>4, TableRowTyped
<1>6. FlattenSeq(s) \in Tokenized
  <2> HIDE DEF s
  <2> QED BY <1>1, <1>2, <1>5, TokensOfPieces
<1>7. "table" \in Tag /\ "caption" \in Tag /\ "div" \in Tag
  BY DEF Tag
<1>8. <<Open("table")>> \in Tokenized /\ <<Close("table")>> \in Tokenized
  BY <1>7, TokenTyped, FewElements DEF Tokenized
<1>9. cap \in Tokenized /\ foot \in Tokenized
  BY <1>4, <1>7, AroundTyped, ElementTyped
<1> HIDE DEF s, cap, foot
<1> QED BY <1>3, <1>6, <1>8, <1>9, JoinTokens

LEMMA ListTyped ==
  ASSUME NEW i \in Nat \ {0}, NEW b \in SourceBlock
  PROVE  RenderListItems(i, b) \in Tokenized
<1> DEFINE s == [r \in DOMAIN b.rows |-> Element("li", Row(i, b, r))]
<1>1. Len(b.rows) \in Nat /\ DOMAIN b.rows = 1 .. Len(b.rows)
  BY BlockFields
<1>2. s = [r \in 1 .. Len(b.rows) |-> s[r]]
      /\ \A r \in 1 .. Len(b.rows) : s[r] = Element("li", Row(i, b, r))
  BY <1>1
<1>3. RenderListItems(i, b) = <<Open("ul")>> \o FlattenSeq(s) \o <<Close("ul")>>
  BY DEF RenderListItems
<1> HIDE DEF s
<1>4. "ul" \in Tag /\ "li" \in Tag
  BY DEF Tag
<1>5. \A r \in 1 .. Len(b.rows) : s[r] \in Tokenized
  BY <1>2, <1>4, RowTyped, ElementTyped
<1>6. FlattenSeq(s) \in Tokenized
  BY <1>1, <1>2, <1>5, TokensOfPieces
<1>7. <<Open("ul")>> \in Tokenized /\ <<Close("ul")>> \in Tokenized
  BY <1>4, TokenTyped, FewElements DEF Tokenized
<1> QED BY <1>3, <1>6, <1>7, JoinTokens

LEMMA BlockTyped ==
  ASSUME NEW i \in Nat \ {0}, NEW b \in SourceBlock, NEW level
  PROVE  RenderBlock(i, b, level) \in Tokenized
<1>1. Body(i, b) \in Texts
  BY BodyTyped
<1>2. "p" \in Tag /\ "div" \in Tag /\ (level \in 1 .. 3 => HeadingTag[level] \in Tag)
  <2>1. "p" \in Tag /\ "div" \in Tag
    BY DEF Tag
  <2>2. level \in 1 .. 3 => level \in 1 .. 9
    OBVIOUS
  <2> QED BY <2>1, <2>2, HeadingTagTyped
<1>3. b.type \in BlockType
  BY BlockFields
<1>4. CASE b.type = "title"
  <2>1. RenderBlock(i, b, level)
          = Element(IF level \in 1 .. 3 THEN HeadingTag[level] ELSE "p", Body(i, b))
    BY <1>4 DEF RenderBlock
  <2> QED BY <1>1, <1>2, <2>1, ElementTyped
<1>5. CASE b.type = "paragraph"
  <2>1. RenderBlock(i, b, level) = Element("p", Body(i, b))
    BY <1>5 DEF RenderBlock
  <2> QED BY <1>1, <1>2, <2>1, ElementTyped
<1>6. CASE b.type = "list"
  <2>1. RenderBlock(i, b, level) = RenderListItems(i, b)
    BY <1>6 DEF RenderBlock
  <2> QED BY <2>1, ListTyped
<1>7. CASE b.type = "table"
  <2>1. RenderBlock(i, b, level) = RenderTable(i, b, DOMAIN b.rows)
    BY <1>7 DEF RenderBlock
  <2> QED BY <2>1, TableTyped
<1>8. CASE b.type \notin {"title", "paragraph", "list", "table"}
  <2>1. RenderBlock(i, b, level) = Element("div", Body(i, b))
    BY <1>8 DEF RenderBlock
  <2> QED BY <1>1, <1>2, <2>1, ElementTyped
<1> QED BY <1>4, <1>5, <1>6, <1>7, <1>8

-----------------------------------------------------------------------------
(* Sections.                                                               *)
LEMMA PoppedIs ==
  ASSUME NEW o \in Seq(1 .. 9), NEW level
  PROVE  /\ \E m \in 0 .. Len(o) : Popped(o, level) = SubSeq(o, 1, m) /\ (m > 0 => o[m] < level)
         /\ Popped(o, level) \in Seq(1 .. 9) /\ Len(Popped(o, level)) \in 0 .. Len(o)
         /\ \A k \in 1 .. Len(Popped(o, level)) : Popped(o, level)[k] = o[k]
<1> DEFINE K == {k \in DOMAIN o : o[k] < level} \cup {0}
<1>0. Len(o) \in Nat /\ DOMAIN o = 1 .. Len(o) /\ \A k \in 1 .. Len(o) : o[k] \in 1 .. 9
  OBVIOUS
<1>1. K \in SUBSET Nat /\ K # {} /\ \A k \in K : k <= Len(o)
  BY <1>0
<1>2. Max(K) \in K
  <2> HIDE DEF K
  <2> QED BY <1>0, <1>1, Greatest
<1>3. Max(K) \in 0 .. Len(o) /\ (Max(K) > 0 => o[Max(K)] < level)
  BY <1>0, <1>2
<1> DEFINE m == Max(K)
<1>4. Popped(o, level) = SubSeq(o, 1, m)
  BY DEF Popped
<1> HIDE DEF m, K
<1>5. m \in 0 .. Len(o) /\ (m > 0 => o[m] < level)
  BY <1>3 DEF m
<1>6. \A k \in 1 .. m : o[k] \in 1 .. 9
  BY <1>0, <1>5
<1>7. SubSeq(o, 1, m) \in Seq(1 .. 9) /\ Len(SubSeq(o, 1, m)) = m
      /\ \A k \in 1 .. m : SubSeq(o, 1, m)[k] = o[k]
  BY <1>0, <1>5, <1>6, SubSeqProperties
<1> QED BY <1>4, <1>5, <1>7

LEMMA StartTyped ==
  ASSUME NEW o \in Seq(1 .. 9), NEW level
  PROVE  /\ StartSection(o, level) \in Tokenized /\ PdfStart(o, level) \in Tokenized
         /\ PdfSections(o, level) \in Seq(1 .. 9)
         /\ level \in 1 .. 9 => Append(Popped(o, level), level) \in Seq(1 .. 9)
<1>1. Popped(o, level) \in Seq(1 .. 9) /\ Len(Popped(o, level)) \in 0 .. Len(o) /\ Len(o) \in Nat
  BY PoppedIs
<1>2. Len(o) - Len(Popped(o, level)) \in Nat
  BY <1>1
<1>3. "section" \in Tag /\ <<>> \in Tokenized
  BY DEF Tag, Tokenized
<1>4. <<Open("section")>> \in Tokenized
  BY <1>3, TokenTyped, FewElements DEF Tokenized
<1>5. StartSection(o, level) \in Tokenized
  BY <1>2, <1>4, CloseTyped, JoinTokens DEF StartSection
<1>6. level \in {2, 3} => level \in 1 .. 9
  OBVIOUS
<1>7. level \in 1 .. 9 => Append(Popped(o, level), level) \in Seq(1 .. 9)
  BY <1>1, AppendProperties
<1> QED BY <1>3, <1>5, <1>6, <1>7 DEF PdfStart, PdfSections

LEMMA DocxTyped ==
  ASSUME NEW i \in Nat \ {0}, NEW b \in SourceBlock, b.level \in 0 .. 9, NEW o \in Seq(1 .. 9)
  PROVE  DocxBlock(o, i, b) \in Tokenized /\ DocxSections(o, b) \in Seq(1 .. 9)
<1>1. "p" \in Tag /\ (b.level > 0 => b.level \in 1 .. 9 /\ HeadingTag[b.level] \in Tag)
  <2>1. "p" \in Tag
    BY DEF Tag
  <2>2. b.level > 0 => b.level \in 1 .. 9
    OBVIOUS
  <2> QED BY <2>1, <2>2, HeadingTagTyped
<1>2. Body(i, b) \in Texts
  BY BodyTyped
<1>3. CASE b.level > 0
  <2>1. Element(HeadingTag[b.level], Body(i, b)) \in Tokenized
    BY <1>1, <1>2, <1>3, ElementTyped
  <2> QED BY <1>1, <1>3, <2>1, StartTyped, JoinTokens DEF DocxBlock, DocxSections
<1>4. CASE ~(b.level > 0)
  BY <1>1, <1>2, <1>4, ElementTyped, TableTyped DEF DocxBlock, DocxSections
<1> QED BY <1>3, <1>4

-----------------------------------------------------------------------------
(* The parser.                                                             *)
NodeSet == [tag : Tag, text : Texts, span : Span, within : Seq(Nat)]
ParserOK(p) ==
  /\ p \in [nodes : Seq(NodeSet), stack : Seq(Nat)]
  /\ \A k \in 1 .. Len(p.stack) : p.stack[k] \in 1 .. Len(p.nodes)

LEMMA ParserFields ==
  ASSUME NEW p, ParserOK(p)
  PROVE  /\ p.nodes \in Seq(NodeSet) /\ Len(p.nodes) \in Nat /\ DOMAIN p.nodes = 1 .. Len(p.nodes)
         /\ p.stack \in Seq(Nat) /\ Len(p.stack) \in Nat /\ DOMAIN p.stack = 1 .. Len(p.stack)
         /\ \A n \in 1 .. Len(p.nodes) : p.nodes[n] \in NodeSet
         /\ p = [nodes |-> p.nodes, stack |-> p.stack]
  BY DEF ParserOK

LEMMA ParserMade ==
  ASSUME NEW nodes \in Seq(NodeSet), NEW stack \in Seq(Nat),
         \A k \in 1 .. Len(stack) : stack[k] \in 1 .. Len(nodes)
  PROVE  ParserOK([nodes |-> nodes, stack |-> stack])
  BY DEF ParserOK

LEMMA NodeTyped ==
  ASSUME NEW p, ParserOK(p), NEW t \in TokenSet
  PROVE  Node(p, t) \in NodeSet
<1>1. t.tag \in Tag /\ t.text \in Texts /\ t.span \in Span
  BY DEF TokenSet
<1> QED BY <1>1, ParserFields DEF Node, NodeSet

LEMMA FeedTyped ==
  ASSUME NEW p, ParserOK(p), NEW t \in TokenSet
  PROVE  ParserOK(Feed(p, t))
<1> DEFINE n == Len(p.nodes)
           more == Append(p.nodes, Node(p, t))
<1>1. /\ p.nodes \in Seq(NodeSet) /\ n \in Nat /\ p.stack \in Seq(Nat) /\ Len(p.stack) \in Nat
      /\ DOMAIN p.stack = 1 .. Len(p.stack)
      /\ p = [nodes |-> p.nodes, stack |-> p.stack]
      /\ \A k \in 1 .. Len(p.stack) : p.stack[k] \in 1 .. n
  BY ParserFields DEF ParserOK
<1>2. more \in Seq(NodeSet) /\ Len(more) = n + 1
  BY <1>1, NodeTyped, AppendProperties
<1>3. \A k \in 1 .. Len(p.stack) : p.stack[k] \in 1 .. (n + 1)
  BY <1>1
<1>4. CASE t.do = "open"
  <2> DEFINE s == IF t.tag \in VoidTags THEN p.stack ELSE Append(p.stack, n + 1)
  <2>1. Feed(p, t) = [nodes |-> more, stack |-> s]
    BY <1>4 DEF Feed, StartTag
  <2>2. s \in Seq(Nat) /\ \A k \in 1 .. Len(s) : s[k] \in 1 .. (n + 1)
    <3>1. CASE t.tag \in VoidTags
      BY <1>1, <1>3, <3>1
    <3>2. CASE t.tag \notin VoidTags
      <4>1. s = Append(p.stack, n + 1) /\ s \in Seq(Nat) /\ Len(s) = Len(p.stack) + 1
            /\ s[Len(p.stack) + 1] = n + 1 /\ \A k \in 1 .. Len(p.stack) : s[k] = p.stack[k]
        BY <1>1, <3>2, AppendProperties
      <4> QED BY <1>1, <1>3, <4>1
    <3> QED BY <3>1, <3>2
  <2> HIDE DEF s, more
  <2> QED BY <1>2, <2>1, <2>2, ParserMade
<1>5. CASE t.do = "close"
  <2> DEFINE O == {k \in DOMAIN p.stack : p.nodes[p.stack[k]].tag = t.tag}
  <2>1. CASE O = {}
    BY <1>5, <2>1 DEF Feed, EndTag
  <2>2. CASE O # {}
    <3>1. O \in SUBSET Nat /\ \A k \in O : k <= Len(p.stack)
      BY <1>1
    <3>2. Max(O) \in O
      <4> HIDE DEF O
      <4> QED BY <1>1, <2>2, <3>1, Greatest
    <3>3. Max(O) \in 1 .. Len(p.stack)
      BY <1>1, <3>2
    <3> DEFINE m == Max(O) - 1
               s == SubSeq(p.stack, 1, m)
    <3>4. Feed(p, t) = [nodes |-> p.nodes, stack |-> s]
      BY <1>1, <1>5, <2>2 DEF Feed, EndTag
    <3>5. m \in 0 .. Len(p.stack)
      <4> HIDE DEF O
      <4> QED BY <1>1, <3>3
    <3> HIDE DEF m
    <3>6. \A k \in 1 .. m : k \in 1 .. Len(p.stack)
      BY <1>1, <3>5
    <3>7. s \in Seq(Nat) /\ Len(s) = m /\ \A k \in 1 .. m : s[k] = p.stack[k]
      BY <1>1, <3>5, <3>6, SubSeqProperties
    <3> HIDE DEF s
    <3> QED BY <1>1, <3>4, <3>6, <3>7, ParserMade
  <2> QED BY <2>1, <2>2
<1>6. CASE t.do \notin {"open", "close"}
  <2>1. Feed(p, t) = [nodes |-> more, stack |-> p.stack]
    BY <1>1, <1>6 DEF Feed, Text
  <2> HIDE DEF more
  <2> QED BY <1>1, <1>2, <1>3, <2>1, ParserMade
<1> QED BY <1>4, <1>5, <1>6

-----------------------------------------------------------------------------
(* Reading the tree.                                                       *)
LEMMA NodeFields ==
  ASSUME NEW nodes \in Seq(NodeSet)
  PROVE  /\ Len(nodes) \in Nat /\ DOMAIN nodes = 1 .. Len(nodes)
         /\ \A n \in 1 .. Len(nodes) :
               /\ nodes[n].tag \in Tag /\ nodes[n].text \in Texts
               /\ nodes[n].span \in Span /\ nodes[n].within \in Seq(Nat)
<1>1. Len(nodes) \in Nat /\ DOMAIN nodes = 1 .. Len(nodes)
      /\ \A n \in 1 .. Len(nodes) : nodes[n] \in NodeSet
  OBVIOUS
<1>2. \A x \in NodeSet : x.tag \in Tag /\ x.text \in Texts /\ x.span \in Span /\ x.within \in Seq(Nat)
  BY DEF NodeSet
<1> QED BY <1>1, <1>2

LEMMA NodeTextIs ==
  ASSUME NEW nodes \in Seq(NodeSet), NEW n
  PROVE  /\ NodeText(nodes, n) \in Texts
         /\ \A c : c \in Range(NodeText(nodes, n)) <=>
                      \E d \in 1 .. Len(nodes) : /\ n \in Range(nodes[d].within)
                                                 /\ c \in Range(nodes[d].text)
<1> DEFINE s == [d \in DOMAIN nodes |-> IF n \in Range(nodes[d].within) THEN nodes[d].text ELSE <<>>]
<1>1. Len(nodes) \in Nat /\ DOMAIN nodes = 1 .. Len(nodes)
  BY NodeFields
<1>2. s = [d \in 1 .. Len(nodes) |-> s[d]]
      /\ \A d \in 1 .. Len(nodes) : s[d] = IF n \in Range(nodes[d].within) THEN nodes[d].text ELSE <<>>
  BY <1>1
<1>3. NodeText(nodes, n) = FlattenSeq(s)
  BY DEF NodeText
<1> HIDE DEF s
<1>4. \A d \in 1 .. Len(nodes) : s[d] \in Texts
  BY <1>2, NodeFields, EmptyText
<1>5. s \in Seq(Texts) /\ Len(s) = Len(nodes)
  BY <1>1, <1>2, <1>4, SeqBy
<1>6. Range(<<>>) = {}
  BY DEF Range
<1>7. \A d \in 1 .. Len(nodes) : \A c :
         c \in Range(s[d]) <=> n \in Range(nodes[d].within) /\ c \in Range(nodes[d].text)
  BY <1>2, <1>6
<1>8. NodeText(nodes, n) \in Texts
      /\ \A c : c \in Range(NodeText(nodes, n)) <=> \E d \in 1 .. Len(s) : c \in Range(s[d])
  BY <1>3, <1>5, TextOf
<1> QED BY <1>5, <1>7, <1>8

LEMMA ChildrenIs ==
  ASSUME NEW nodes \in Seq(NodeSet), NEW n, NEW tags
  PROVE  /\ ChildrenOf(nodes, n, tags) \in Seq(Nat)
         /\ \A m : m \in Range(ChildrenOf(nodes, n, tags)) <=>
                      /\ m \in 1 .. Len(nodes) /\ nodes[m].tag \in tags
                      /\ nodes[m].within # <<>> /\ Last(nodes[m].within) = n
         /\ \A k \in 1 .. Len(ChildrenOf(nodes, n, tags)) :
               ChildrenOf(nodes, n, tags)[k] \in 1 .. Len(nodes)
<1> DEFINE S == {m \in DOMAIN nodes : /\ nodes[m].tag \in tags /\ nodes[m].within # <<>>
                                      /\ Last(nodes[m].within) = n}
           x == InOrder(S, Len(nodes))
<1>1. Len(nodes) \in Nat /\ DOMAIN nodes = 1 .. Len(nodes)
  BY NodeFields
<1>2. ChildrenOf(nodes, n, tags) = x
  BY DEF ChildrenOf
<1>3. \A m : m \in S /\ m \in 1 .. Len(nodes) <=>
               /\ m \in 1 .. Len(nodes) /\ nodes[m].tag \in tags
               /\ nodes[m].within # <<>> /\ Last(nodes[m].within) = n
  BY <1>1
<1>4. x \in Seq(Nat) /\ \A m : m \in Range(x) <=> m \in S /\ m \in 1 .. Len(nodes)
  <2> HIDE DEF S
  <2> QED BY <1>1, InOrderIs
<1> HIDE DEF x, S
<1>5. \A k \in 1 .. Len(x) : x[k] \in Range(x)
  BY <1>4 DEF Range
<1> QED BY <1>2, <1>3, <1>4, <1>5

LEMMA ItemsTyped ==
  ASSUME NEW nodes \in Seq(NodeSet), NEW n
  PROVE  /\ ListItems(nodes, n) \in Seq(Texts)
         /\ Len(ListItems(nodes, n)) = Len(ChildrenOf(nodes, n, {"li"}))
         /\ \A k \in 1 .. Len(ListItems(nodes, n)) :
               ListItems(nodes, n)[k] = NodeText(nodes, ChildrenOf(nodes, n, {"li"})[k])
<1> DEFINE x == ChildrenOf(nodes, n, {"li"})
           s == [k \in DOMAIN x |-> NodeText(nodes, x[k])]
<1>1. x \in Seq(Nat) /\ Len(x) \in Nat /\ DOMAIN x = 1 .. Len(x)
  <2>1. x \in Seq(Nat)
    BY ChildrenIs
  <2> HIDE DEF x
  <2> QED BY <2>1
<1>2. ListItems(nodes, n) = s
  BY DEF ListItems
<1> HIDE DEF x
<1>3. s = [k \in 1 .. Len(x) |-> s[k]] /\ \A k \in 1 .. Len(x) : s[k] = NodeText(nodes, x[k])
  BY <1>1
<1> HIDE DEF s
<1>4. \A k \in 1 .. Len(x) : s[k] \in Texts
  BY <1>3, NodeTextIs
<1>5. s \in Seq(Texts) /\ Len(s) = Len(x)
  BY <1>1, <1>3, <1>4, SeqBy
<1> QED BY <1>2, <1>3, <1>5 DEF x

LEMMA MarkText == <<Mark>> \in Texts /\ \A c : c \in Range(<<Mark>>) <=> c = Mark
<1>1. <<Mark>> \in Texts
  BY VisibleIs, FewElements DEF Texts
<1>2. DOMAIN <<Mark>> = {1} /\ <<Mark>>[1] = Mark
  OBVIOUS
<1> QED BY <1>1, <1>2 DEF Range

LEMMA RangeOfJoin ==
  ASSUME NEW s \in Texts, NEW t \in Texts
  PROVE  \A c : c \in Range(s \o t) <=> c \in Range(s) \/ c \in Range(t)
<1>1. Range(s \o t) = Range(s) \cup Range(t)
  BY RangeConcatenation DEF Texts
<1> QED BY <1>1

(* Texts in a row, each with a mark before it: dashes or the bars of rows. *)
LEMMA MarkedTyped ==
  ASSUME NEW items \in Seq(Texts), NEW s, s = [k \in DOMAIN items |-> s[k]],
         \A k \in DOMAIN items : s[k] = <<Mark>> \o items[k]
  PROVE  /\ FlattenSeq(s) \in Texts
         /\ \A c : c \in Range(FlattenSeq(s)) <=>
                      \E k \in 1 .. Len(items) : c = Mark \/ c \in Range(items[k])
<1>1. Len(items) \in Nat /\ DOMAIN items = 1 .. Len(items) /\ \A k \in 1 .. Len(items) : items[k] \in Texts
  OBVIOUS
<1>2. \A k \in 1 .. Len(items) :
         s[k] \in Texts /\ \A c : c \in Range(s[k]) <=> c = Mark \/ c \in Range(items[k])
  BY <1>1, MarkText, JoinTexts, RangeOfJoin
<1>3. s \in Seq(Texts) /\ Len(s) = Len(items)
  <2>1. s = [k \in 1 .. Len(items) |-> s[k]]
    BY <1>1
  <2> QED BY <1>1, <1>2, <2>1, SeqBy
<1> QED BY <1>2, <1>3, TextOf

LEMMA ListMarkdownIs ==
  ASSUME NEW items \in Seq(Texts)
  PROVE  /\ ListMarkdown(items) \in Texts
         /\ \A c : c \in Range(ListMarkdown(items)) <=>
                      \E k \in 1 .. Len(items) : c = Mark \/ c \in Range(items[k])
<1> DEFINE s == [k \in DOMAIN items |-> <<Mark>> \o items[k]]
<1>1. s = [k \in DOMAIN items |-> s[k]] /\ \A k \in DOMAIN items : s[k] = <<Mark>> \o items[k]
  OBVIOUS
<1>2. ListMarkdown(items) = FlattenSeq(s)
  BY DEF ListMarkdown
<1> HIDE DEF s
<1> QED BY <1>1, <1>2, MarkedTyped

-----------------------------------------------------------------------------
(* Tables: the slots filled so far lie in a square.                        *)
SlotsIn(slots, m) ==
  /\ DOMAIN slots \subseteq (0 .. m) \X (0 .. m)
  /\ \A s \in DOMAIN slots : slots[s] \in Texts
SlotsOK(slots) == \E m \in Nat : SlotsIn(slots, m)

LEMMA SlotsFinite ==
  ASSUME NEW slots, SlotsOK(slots)
  PROVE  /\ IsFiniteSet(DOMAIN slots) /\ Cardinality(DOMAIN slots) \in Nat
         /\ \A s \in DOMAIN slots : s = <<s[1], s[2]>> /\ s[1] \in Nat /\ s[2] \in Nat
<1>1. PICK m \in Nat : SlotsIn(slots, m)
  BY DEF SlotsOK
<1>2. IsFiniteSet(0 .. m)
  BY FS_Interval
<1>3. IsFiniteSet((0 .. m) \X (0 .. m))
  BY <1>2, FS_Product
<1>4. IsFiniteSet(DOMAIN slots)
  BY <1>1, <1>3, FS_Subset DEF SlotsIn
<1>5. \A s \in DOMAIN slots : s = <<s[1], s[2]>> /\ s[1] \in Nat /\ s[2] \in Nat
  BY <1>1 DEF SlotsIn
<1> QED BY <1>4, <1>5, FS_CardinalityType

(* There is a free column among the first ones, one more than slots.       *)
LEMMA FreeColumn ==
  ASSUME NEW slots, SlotsOK(slots), NEW row \in Nat, NEW first \in Nat,
         NEW C, C = {c \in first .. first + Cardinality(DOMAIN slots) : <<row, c>> \notin DOMAIN slots}
  PROVE  Min(C) \in Nat /\ Min(C) >= first /\ <<row, Min(C)>> \notin DOMAIN slots
<1> DEFINE n == Cardinality(DOMAIN slots)
           I == first .. (first + n)
           f == [c \in I |-> <<row, c>>]
<1>1. IsFiniteSet(DOMAIN slots) /\ n \in Nat
  BY SlotsFinite
<1> HIDE DEF n
<1>2. C = {c \in first .. first + n : <<row, c>> \notin DOMAIN slots}
  BY DEF n
<1>3. C # {}
  <2> SUFFICES ASSUME C = {} PROVE FALSE
    OBVIOUS
  <2>1. \A c \in I : <<row, c>> \in DOMAIN slots
    BY <1>2
  <2>2. f \in [I -> DOMAIN slots]
    BY <2>1
  <2>3. \A c, d \in I : f[c] = f[d] => c = d
    OBVIOUS
  <2>4. f \in Injection(I, DOMAIN slots)
    <3> HIDE DEF f
    <3> QED BY <2>2, <2>3 DEF Injection, IsInjective
  <2>5. Cardinality(I) <= n
    <3> HIDE DEF f
    <3> QED BY <1>1, <2>4, FS_Injection DEF n
  <2>6. Cardinality(I) = n + 1
    BY <1>1, FS_Interval
  <2> QED BY <1>1, <2>5, <2>6
<1>4. C \in SUBSET Nat
  BY <1>1, <1>2
<1>5. Min(C) \in C
  BY <1>3, <1>4, LeastIs
<1> QED BY <1>1, <1>2, <1>5

(* What placing a cell in a row does to the slots: its text stands at a    *)
(* free slot behind those of the row, and no slot of an earlier row or     *)
(* column changes.                                                         *)
Placing(row, slots, column, after, next, text) ==
  /\ DOMAIN slots \subseteq DOMAIN after
  /\ \E c \in Nat : /\ column <= c /\ c < next
                    /\ <<row, c>> \in DOMAIN after /\ after[<<row, c>>] = text
  /\ \A s \in DOMAIN after : \/ s \in DOMAIN slots /\ after[s] = slots[s]
                             \/ s[1] >= row /\ after[s] = text
  /\ \A s \in DOMAIN slots : s[1] < row \/ s[2] < column => after[s] = slots[s]

LEMMA PlaceCellIs ==
  ASSUME NEW nodes \in Seq(NodeSet), NEW row \in Nat, NEW grid, NEW cell \in 1 .. Len(nodes),
         SlotsOK(grid.slots), grid.column \in Nat
  PROVE  /\ SlotsOK(PlaceCell(nodes, row, grid, cell).slots)
         /\ PlaceCell(nodes, row, grid, cell).column \in Nat
         /\ Placing(row, grid.slots, grid.column, PlaceCell(nodes, row, grid, cell).slots,
                    PlaceCell(nodes, row, grid, cell).column, NodeText(nodes, cell))
<1> DEFINE slots == grid.slots
           C == {c \in grid.column .. grid.column + Cardinality(DOMAIN slots) : <<row, c>> \notin DOMAIN slots}
           column == Min(C)
           cols == nodes[cell].span[1]
           rows == nodes[cell].span[2]
           area == (row .. row + rows - 1) \X (column .. column + cols - 1)
           text == NodeText(nodes, cell)
           after == [s \in area \cup DOMAIN slots |-> IF s \in area THEN text ELSE slots[s]]
<1>1. column \in Nat /\ column >= grid.column /\ <<row, column>> \notin DOMAIN slots
  <2> HIDE DEF C
  <2>1. C = {c \in grid.column .. grid.column + Cardinality(DOMAIN slots) : <<row, c>> \notin DOMAIN slots}
    BY DEF C
  <2> HIDE DEF slots
  <2> QED BY <2>1, FreeColumn DEF slots
<1>2. cols \in Nat \ {0} /\ rows \in Nat \ {0}
  <2>1. nodes[cell].span \in Span
    BY NodeFields
  <2> QED BY <2>1 DEF Span
<1>3. PlaceCell(nodes, row, grid, cell) = [slots |-> after, column |-> column + cols]
  BY DEF PlaceCell
<1> HIDE DEF column, cols, rows, text, C
<1>4. text \in Texts
  BY NodeTextIs DEF text
<1>5. \A s \in area : s = <<s[1], s[2]>> /\ s[1] >= row /\ s[2] >= column
                      /\ s[1] <= row + rows /\ s[2] <= column + cols /\ s[1] \in Nat /\ s[2] \in Nat
  BY <1>1, <1>2
<1>6. <<row, column>> \in area
  BY <1>1, <1>2
<1>7. SlotsOK(after)
  <2>1. PICK m \in Nat : SlotsIn(slots, m)
    BY DEF SlotsOK
  <2> DEFINE k == m + (row + rows) + (column + cols)
  <2>2. k \in Nat /\ m <= k /\ row + rows <= k /\ column + cols <= k
    BY <1>1, <1>2
  <2> HIDE DEF area, k
  <2>3. ASSUME NEW s \in area \cup DOMAIN slots PROVE s \in (0 .. k) \X (0 .. k)
    <3>1. CASE s \in area
      <4>1. s = <<s[1], s[2]>> /\ s[1] \in 0 .. k /\ s[2] \in 0 .. k
        BY <1>1, <1>2, <1>5, <2>2, <3>1
      <4> QED BY <4>1
    <3>2. CASE s \in DOMAIN slots
      <4>1. s \in (0 .. m) \X (0 .. m)
        BY <2>1, <3>2 DEF SlotsIn
      <4>2. s = <<s[1], s[2]>> /\ s[1] \in 0 .. k /\ s[2] \in 0 .. k
        BY <2>2, <4>1
      <4> QED BY <4>2
    <3> QED BY <3>1, <3>2
  <2>4. \A s \in area \cup DOMAIN slots : after[s] \in Texts
    BY <1>4, <2>1 DEF SlotsIn
  <2>5. DOMAIN after = area \cup DOMAIN slots
    OBVIOUS
  <2> HIDE DEF after
  <2>6. SlotsIn(after, k)
    BY <2>3, <2>4, <2>5 DEF SlotsIn
  <2> QED BY <2>2, <2>6 DEF SlotsOK
<1>8. DOMAIN after = area \cup DOMAIN slots
      /\ \A s \in DOMAIN after : after[s] = IF s \in area THEN text ELSE slots[s]
  OBVIOUS
<1> HIDE DEF after, area
<1>9. \A s \in DOMAIN slots : s[1] \in Nat /\ s[2] \in Nat
  BY SlotsFinite
<1>10. \A s \in DOMAIN slots : s[1] < row \/ s[2] < grid.column => s \notin area
  BY <1>1, <1>5, <1>9
<1>11. \A s \in DOMAIN slots : s[1] < row \/ s[2] < grid.column => after[s] = slots[s]
  BY <1>8, <1>10
<1>12. column + cols \in Nat /\ grid.column <= column /\ column < column + cols
  BY <1>1, <1>2
<1>13. Placing(row, slots, grid.column, after, column + cols, text)
  <2>1. \A s \in DOMAIN after : \/ s \in DOMAIN slots /\ after[s] = slots[s]
                                \/ s[1] >= row /\ after[s] = text
    BY <1>5, <1>8
  <2> QED BY <1>1, <1>6, <1>8, <1>11, <1>12, <2>1 DEF Placing
<1> QED BY <1>3, <1>7, <1>12, <1>13 DEF text

-----------------------------------------------------------------------------
(* A row of cells.                                                         *)
RowGrid(nodes, row, slots, cells, f, n) ==
  /\ DOMAIN f = 0 .. n
  /\ f[0] = [slots |-> slots, column |-> 0]
  /\ \A k \in 1 .. n : f[k] = PlaceCell(nodes, row, f[k - 1], cells[k])

RowGridFunction(nodes, row, slots, cells, f, n) ==
  f = [k \in 0 .. n |-> IF k = 0 THEN [slots |-> slots, column |-> 0]
                        ELSE PlaceCell(nodes, row, f[k - 1], cells[k])]

LEMMA RowGridExists ==
  ASSUME NEW nodes, NEW row, NEW slots, NEW cells, NEW n \in Nat
  PROVE  \E f : RowGridFunction(nodes, row, slots, cells, f, n)
<1> DEFINE start0 == [slots |-> slots, column |-> 0]
           G == {m \in Nat : \E f : RowGrid(nodes, row, slots, cells, f, m)}
<1>1. 0 \in G
  <2>1. RowGrid(nodes, row, slots, cells, [k \in 0 .. 0 |-> start0], 0)
    BY DEF RowGrid
  <2> QED BY <2>1
<1>2. ASSUME NEW m \in Nat, m \in G PROVE m + 1 \in G
  <2>1. PICK f : RowGrid(nodes, row, slots, cells, f, m)
    BY <1>2
  <2> DEFINE v == PlaceCell(nodes, row, f[m], cells[m + 1])
             g == [k \in 0 .. (m + 1) |-> IF k = m + 1 THEN v ELSE f[k]]
  <2>2. DOMAIN g = 0 .. (m + 1) /\ g[m + 1] = v /\ \A k \in 0 .. m : g[k] = f[k]
    OBVIOUS
  <2> HIDE DEF g
  <2>3. g[0] = start0
    BY <2>1, <2>2 DEF RowGrid
  <2>4. ASSUME NEW k \in 1 .. (m + 1) PROVE g[k] = PlaceCell(nodes, row, g[k - 1], cells[k])
    <3>1. CASE k = m + 1
      <4>1. k - 1 = m /\ g[m] = f[m]
        BY <2>2, <3>1
      <4> QED BY <2>2, <3>1, <4>1
    <3>2. CASE k # m + 1
      <4>1. k \in 1 .. m /\ k \in 0 .. m /\ k - 1 \in 0 .. m
        BY <3>2
      <4> QED BY <2>1, <2>2, <4>1 DEF RowGrid
    <3> QED BY <3>1, <3>2
  <2>5. RowGrid(nodes, row, slots, cells, g, m + 1)
    BY <2>2, <2>3, <2>4 DEF RowGrid
  <2> QED BY <2>5
<1>3. \A m \in Nat : m \in G
  <2> HIDE DEF G
  <2> QED BY <1>1, <1>2, EveryNumber
<1>4. PICK f : RowGrid(nodes, row, slots, cells, f, n)
  BY <1>3
<1> DEFINE h == [k \in 0 .. n |-> IF k = 0 THEN start0 ELSE PlaceCell(nodes, row, f[k - 1], cells[k])]
           fn == [k \in 0 .. n |-> f[k]]
           hn == [k \in 0 .. n |-> IF k = 0 THEN start0 ELSE PlaceCell(nodes, row, fn[k - 1], cells[k])]
<1>5. \A k \in 0 .. n : fn[k] = hn[k]
  <2> SUFFICES ASSUME NEW k \in 0 .. n PROVE fn[k] = hn[k]
    OBVIOUS
  <2>1. CASE k = 0
    BY <1>4, <2>1 DEF RowGrid
  <2>2. CASE k # 0
    <3>1. k \in 1 .. n /\ k - 1 \in 0 .. n
      BY <2>2
    <3>2. f[k] = PlaceCell(nodes, row, f[k - 1], cells[k])
      BY <1>4, <3>1 DEF RowGrid
    <3>3. fn[k] = f[k] /\ fn[k - 1] = f[k - 1]
      BY <3>1
    <3>4. hn[k] = PlaceCell(nodes, row, fn[k - 1], cells[k])
      BY <2>2
    <3> QED BY <3>2, <3>3, <3>4
  <2> QED BY <2>1, <2>2
<1>6. fn = hn
  <2>1. DOMAIN fn = 0 .. n /\ DOMAIN hn = 0 .. n /\ fn = [k \in 0 .. n |-> fn[k]] /\ hn = [k \in 0 .. n |-> hn[k]]
    OBVIOUS
  <2> HIDE DEF fn, hn
  <2> QED BY <1>5, <2>1
<1>7. RowGridFunction(nodes, row, slots, cells, fn, n)
  BY <1>6 DEF RowGridFunction
<1> QED BY <1>7

LEMMA RowGridIs ==
  ASSUME NEW nodes, NEW row, NEW slots, NEW cells, Len(cells) \in Nat
  PROVE  \E f : /\ RowGrid(nodes, row, slots, cells, f, Len(cells))
                /\ PlaceRow(nodes, row, slots, cells) = f[Len(cells)].slots
<1> DEFINE F == CHOOSE f : f = [k \in 0 .. Len(cells) |->
                                  IF k = 0 THEN [slots |-> slots, column |-> 0]
                                  ELSE PlaceCell(nodes, row, f[k - 1], cells[k])]
<1>1. F = [k \in 0 .. Len(cells) |-> IF k = 0 THEN [slots |-> slots, column |-> 0]
                                     ELSE PlaceCell(nodes, row, F[k - 1], cells[k])]
  <2>1. \E f : RowGridFunction(nodes, row, slots, cells, f, Len(cells))
    BY RowGridExists
  <2> QED BY <2>1 DEF RowGridFunction
<1>2. PlaceRow(nodes, row, slots, cells) = F[Len(cells)].slots
  BY DEF PlaceRow
<1> HIDE DEF F
<1>3. DOMAIN F = 0 .. Len(cells) /\ F[0] = [slots |-> slots, column |-> 0]
  BY <1>1
<1>4. \A k \in 1 .. Len(cells) : F[k] = PlaceCell(nodes, row, F[k - 1], cells[k])
  BY <1>1
<1> QED BY <1>2, <1>3, <1>4 DEF RowGrid

(* What placing all the cells of a row does.                               *)
PlacingRow(nodes, row, slots, after, cells) ==
  /\ DOMAIN slots \subseteq DOMAIN after
  /\ \A k \in 1 .. Len(cells) :
        \E c \in Nat : <<row, c>> \in DOMAIN after /\ after[<<row, c>>] = NodeText(nodes, cells[k])
  /\ \A s \in DOMAIN after : \/ s \in DOMAIN slots /\ after[s] = slots[s]
                             \/ \E k \in 1 .. Len(cells) : after[s] = NodeText(nodes, cells[k])
  /\ \A s \in DOMAIN slots : s[1] < row => after[s] = slots[s]

LEMMA PlaceRowIs ==
  ASSUME NEW nodes \in Seq(NodeSet), NEW row \in Nat, NEW slots, SlotsOK(slots),
         NEW cells \in Seq(Nat), \A k \in 1 .. Len(cells) : cells[k] \in 1 .. Len(nodes)
  PROVE  /\ SlotsOK(PlaceRow(nodes, row, slots, cells))
         /\ PlacingRow(nodes, row, slots, PlaceRow(nodes, row, slots, cells), cells)
<1> DEFINE n == Len(cells)
           text(k) == NodeText(nodes, cells[k])
<1>1. n \in Nat
  OBVIOUS
<1>2. PICK f : RowGrid(nodes, row, slots, cells, f, n)
               /\ PlaceRow(nodes, row, slots, cells) = f[n].slots
  BY RowGridIs
<1> DEFINE Placed1(m, g) ==
             /\ SlotsOK(g.slots) /\ g.column \in Nat
             /\ DOMAIN slots \subseteq DOMAIN g.slots
             /\ \A k \in 1 .. m : \E c \in Nat : /\ c < g.column /\ <<row, c>> \in DOMAIN g.slots
                                                 /\ g.slots[<<row, c>>] = text(k)
             /\ \A s \in DOMAIN g.slots : \/ s \in DOMAIN slots /\ g.slots[s] = slots[s]
                                          \/ \E k \in 1 .. m : g.slots[s] = text(k)
             /\ \A s \in DOMAIN slots : s[1] < row => g.slots[s] = slots[s]
           G == {m \in Nat : Placed1(m, f[m])}
<1>3. 0 \in G
  <2>1. f[0].slots = slots /\ f[0].column = 0
    BY <1>2 DEF RowGrid
  <2> QED BY <2>1
<1>4. ASSUME NEW m \in 0 .. (n - 1), m \in G PROVE m + 1 \in G
  <2> DEFINE g == f[m]
             h == f[m + 1]
             t == text(m + 1)
  <2>1. m \in Nat /\ m + 1 \in Nat /\ m + 1 \in 1 .. n /\ (m + 1) - 1 = m /\ cells[m + 1] \in 1 .. Len(nodes)
    BY <1>1
  <2>2. h = PlaceCell(nodes, row, g, cells[m + 1])
    BY <1>2, <2>1 DEF RowGrid
  <2>3. Placed1(m, g)
    BY <1>4
  <2> HIDE DEF g, h
  <2>4. SlotsOK(h.slots) /\ h.column \in Nat /\ Placing(row, g.slots, g.column, h.slots, h.column, t)
    BY <2>1, <2>2, <2>3, PlaceCellIs
  <2> HIDE DEF t
  <2>5. /\ DOMAIN g.slots \subseteq DOMAIN h.slots
        /\ \E c \in Nat : /\ g.column <= c /\ c < h.column
                          /\ <<row, c>> \in DOMAIN h.slots /\ h.slots[<<row, c>>] = t
        /\ \A s \in DOMAIN h.slots : \/ s \in DOMAIN g.slots /\ h.slots[s] = g.slots[s]
                                     \/ s[1] >= row /\ h.slots[s] = t
        /\ \A s \in DOMAIN g.slots : s[1] < row \/ s[2] < g.column => h.slots[s] = g.slots[s]
    BY <2>4 DEF Placing
  <2>6. g.column < h.column /\ g.column \in Nat
    BY <2>3, <2>4, <2>5
  <2>7. \A k \in 1 .. (m + 1) : \E c \in Nat : /\ c < h.column /\ <<row, c>> \in DOMAIN h.slots
                                               /\ h.slots[<<row, c>>] = text(k)
    <3> SUFFICES ASSUME NEW k \in 1 .. (m + 1)
                 PROVE  \E c \in Nat : /\ c < h.column /\ <<row, c>> \in DOMAIN h.slots
                                       /\ h.slots[<<row, c>>] = text(k)
      OBVIOUS
    <3>1. CASE k = m + 1
      BY <2>5, <3>1 DEF t
    <3>2. CASE k # m + 1
      <4>1. k \in 1 .. m
        BY <2>1, <3>2
      <4>2. PICK c \in Nat : c < g.column /\ <<row, c>> \in DOMAIN g.slots /\ g.slots[<<row, c>>] = text(k)
        BY <2>3, <4>1
      <4>3. c < h.column /\ <<row, c>>[2] < g.column
        BY <2>4, <2>6, <4>2
      <4>4. h.slots[<<row, c>>] = g.slots[<<row, c>>]
        BY <2>5, <4>2, <4>3
      <4> QED BY <2>5, <4>2, <4>3, <4>4
    <3> QED BY <3>1, <3>2
  <2>8. \A s \in DOMAIN h.slots : \/ s \in DOMAIN slots /\ h.slots[s] = slots[s]
                                  \/ \E k \in 1 .. (m + 1) : h.slots[s] = text(k)
    <3>1. m + 1 \in 1 .. (m + 1) /\ \A k \in 1 .. m : k \in 1 .. (m + 1)
      BY <2>1
    <3> QED BY <2>3, <2>5, <3>1 DEF t
  <2>9. \A s \in DOMAIN slots : s[1] < row => h.slots[s] = slots[s]
    BY <2>3, <2>5
  <2>10. Placed1(m + 1, h)
    BY <2>3, <2>4, <2>5, <2>7, <2>8, <2>9
  <2> QED BY <2>1, <2>10 DEF h
<1>5. \A m \in 0 .. n : m \in G
  <2> HIDE DEF G
  <2> QED BY <1>1, <1>3, <1>4, UpTo
<1>6. Placed1(n, f[n])
  <2>1. n \in 0 .. n
    BY <1>1
  <2>2. n \in G
    BY <1>5, <2>1
  <2> QED BY <2>2
<1> QED BY <1>2, <1>6 DEF PlacingRow

-----------------------------------------------------------------------------
(* The rows of a table.                                                    *)
CellsOf(nodes, rows, r) == ChildrenOf(nodes, rows[r], {"th", "td"})

TableFills(nodes, rows, f, n) ==
  /\ DOMAIN f = 0 .. n
  /\ f[0] = <<>>
  /\ \A r \in 1 .. n : f[r] = PlaceRow(nodes, r, f[r - 1], CellsOf(nodes, rows, r))

TableFunction(nodes, rows, f, n) ==
  f = [r \in 0 .. n |-> IF r = 0 THEN <<>>
                        ELSE PlaceRow(nodes, r, f[r - 1], ChildrenOf(nodes, rows[r], {"th", "td"}))]

LEMMA TableFillsExists ==
  ASSUME NEW nodes, NEW rows, NEW n \in Nat
  PROVE  \E f : TableFunction(nodes, rows, f, n)
<1> DEFINE G == {m \in Nat : \E f : TableFills(nodes, rows, f, m)}
<1>1. 0 \in G
  <2>1. TableFills(nodes, rows, [k \in 0 .. 0 |-> <<>>], 0)
    BY DEF TableFills
  <2> QED BY <2>1
<1>2. ASSUME NEW m \in Nat, m \in G PROVE m + 1 \in G
  <2>1. PICK f : TableFills(nodes, rows, f, m)
    BY <1>2
  <2> DEFINE v == PlaceRow(nodes, m + 1, f[m], CellsOf(nodes, rows, m + 1))
             g == [k \in 0 .. (m + 1) |-> IF k = m + 1 THEN v ELSE f[k]]
  <2>2. DOMAIN g = 0 .. (m + 1) /\ g[m + 1] = v /\ \A k \in 0 .. m : g[k] = f[k]
    OBVIOUS
  <2> HIDE DEF g
  <2>3. g[0] = <<>>
    BY <2>1, <2>2 DEF TableFills
  <2>4. ASSUME NEW k \in 1 .. (m + 1)
        PROVE  g[k] = PlaceRow(nodes, k, g[k - 1], CellsOf(nodes, rows, k))
    <3>1. CASE k = m + 1
      <4>1. k - 1 = m /\ g[m] = f[m]
        BY <2>2, <3>1
      <4> QED BY <2>2, <3>1, <4>1
    <3>2. CASE k # m + 1
      <4>1. k \in 1 .. m /\ k \in 0 .. m /\ k - 1 \in 0 .. m
        BY <3>2
      <4> QED BY <2>1, <2>2, <4>1 DEF TableFills
    <3> QED BY <3>1, <3>2
  <2>5. TableFills(nodes, rows, g, m + 1)
    BY <2>2, <2>3, <2>4 DEF TableFills
  <2> QED BY <2>5
<1>3. \A m \in Nat : m \in G
  <2> HIDE DEF G
  <2> QED BY <1>1, <1>2, EveryNumber
<1>4. PICK f : TableFills(nodes, rows, f, n)
  BY <1>3
<1> DEFINE fn == [r \in 0 .. n |-> f[r]]
           hn == [r \in 0 .. n |-> IF r = 0 THEN <<>>
                                   ELSE PlaceRow(nodes, r, fn[r - 1], CellsOf(nodes, rows, r))]
<1>5. \A r \in 0 .. n : fn[r] = hn[r]
  <2> SUFFICES ASSUME NEW r \in 0 .. n PROVE fn[r] = hn[r]
    OBVIOUS
  <2>1. CASE r = 0
    BY <1>4, <2>1 DEF TableFills
  <2>2. CASE r # 0
    <3>1. r \in 1 .. n /\ r - 1 \in 0 .. n
      BY <2>2
    <3>2. f[r] = PlaceRow(nodes, r, f[r - 1], CellsOf(nodes, rows, r))
      BY <1>4, <3>1 DEF TableFills
    <3>3. fn[r] = f[r] /\ fn[r - 1] = f[r - 1]
      BY <3>1
    <3>4. hn[r] = PlaceRow(nodes, r, fn[r - 1], CellsOf(nodes, rows, r))
      BY <2>2
    <3> QED BY <3>2, <3>3, <3>4
  <2> QED BY <2>1, <2>2
<1>6. fn = hn
  <2>1. fn = [k \in 0 .. n |-> fn[k]] /\ hn = [k \in 0 .. n |-> hn[k]]
    OBVIOUS
  <2> HIDE DEF fn, hn
  <2> QED BY <1>5, <2>1
<1>7. TableFunction(nodes, rows, fn, n)
  BY <1>6 DEF TableFunction, CellsOf
<1> QED BY <1>7

LEMMA TableSlotsIs ==
  ASSUME NEW nodes, NEW n, Len(TableRows(nodes, n)) \in Nat
  PROVE  \E f : /\ TableFills(nodes, TableRows(nodes, n), f, Len(TableRows(nodes, n)))
                /\ TableSlots(nodes, n) = f[Len(TableRows(nodes, n))]
<1> DEFINE rows == TableRows(nodes, n)
           F == CHOOSE f : f = [r \in 0 .. Len(rows) |->
                                  IF r = 0 THEN <<>>
                                  ELSE PlaceRow(nodes, r, f[r - 1], ChildrenOf(nodes, rows[r], {"th", "td"}))]
<1>1. F = [r \in 0 .. Len(rows) |->
             IF r = 0 THEN <<>>
             ELSE PlaceRow(nodes, r, F[r - 1], ChildrenOf(nodes, rows[r], {"th", "td"}))]
  <2>1. \E f : TableFunction(nodes, rows, f, Len(rows))
    BY TableFillsExists
  <2> QED BY <2>1 DEF TableFunction
<1>2. TableSlots(nodes, n) = F[Len(rows)]
  BY DEF TableSlots
<1> HIDE DEF F, rows
<1>3. DOMAIN F = 0 .. Len(rows) /\ F[0] = <<>>
  BY <1>1 DEF rows
<1>4. \A r \in 1 .. Len(rows) : F[r] = PlaceRow(nodes, r, F[r - 1], CellsOf(nodes, rows, r))
  BY <1>1 DEF CellsOf
<1> QED BY <1>2, <1>3, <1>4 DEF TableFills, rows

LEMMA RowsOf ==
  ASSUME NEW nodes \in Seq(NodeSet), NEW n
  PROVE  /\ TableRows(nodes, n) \in Seq(Nat) /\ Len(TableRows(nodes, n)) \in Nat
         /\ DOMAIN TableRows(nodes, n) = 1 .. Len(TableRows(nodes, n))
         /\ \A m : m \in Range(TableRows(nodes, n)) <=>
                      m \in 1 .. Len(nodes) /\ nodes[m].tag = "tr" /\ n \in Range(nodes[m].within)
<1> DEFINE S == {m \in DOMAIN nodes : nodes[m].tag = "tr" /\ n \in Range(nodes[m].within)}
           x == InOrder(S, Len(nodes))
<1>1. Len(nodes) \in Nat /\ DOMAIN nodes = 1 .. Len(nodes)
  BY NodeFields
<1>2. TableRows(nodes, n) = x
  BY DEF TableRows
<1>3. \A m : m \in S /\ m \in 1 .. Len(nodes) <=>
               m \in 1 .. Len(nodes) /\ nodes[m].tag = "tr" /\ n \in Range(nodes[m].within)
  BY <1>1
<1>4. x \in Seq(Nat) /\ \A m : m \in Range(x) <=> m \in S /\ m \in 1 .. Len(nodes)
  <2> HIDE DEF S
  <2> QED BY <1>1, InOrderIs
<1> HIDE DEF x, S
<1> QED BY <1>2, <1>3, <1>4

(* Every cell has a slot of its own in its row, and nothing else is in the *)
(* slots.                                                                  *)
LEMMA SlotsIs ==
  ASSUME NEW nodes \in Seq(NodeSet), NEW n
  PROVE  LET rows == TableRows(nodes, n)
             slots == TableSlots(nodes, n)
         IN /\ SlotsOK(slots)
            /\ \A r \in 1 .. Len(rows) : \A k \in 1 .. Len(CellsOf(nodes, rows, r)) :
                  \E c \in Nat : /\ <<r, c>> \in DOMAIN slots
                                 /\ slots[<<r, c>>] = NodeText(nodes, CellsOf(nodes, rows, r)[k])
            /\ \A s \in DOMAIN slots : \E r \in 1 .. Len(rows) :
                  \E k \in 1 .. Len(CellsOf(nodes, rows, r)) :
                     slots[s] = NodeText(nodes, CellsOf(nodes, rows, r)[k])
<1> DEFINE rows == TableRows(nodes, n)
           N == Len(rows)
           text(r, k) == NodeText(nodes, CellsOf(nodes, rows, r)[k])
<1>1. N \in Nat
  BY RowsOf
<1>2. PICK f : TableFills(nodes, rows, f, N) /\ TableSlots(nodes, n) = f[N]
  BY <1>1, TableSlotsIs
<1> HIDE DEF rows
<1> DEFINE Filled(m, g) ==
             /\ SlotsOK(g)
             /\ \A r \in 1 .. m : \A k \in 1 .. Len(CellsOf(nodes, rows, r)) :
                   \E c \in Nat : <<r, c>> \in DOMAIN g /\ g[<<r, c>>] = text(r, k)
             /\ \A s \in DOMAIN g : \E r \in 1 .. m : \E k \in 1 .. Len(CellsOf(nodes, rows, r)) :
                   g[s] = text(r, k)
           G == {m \in Nat : Filled(m, f[m])}
<1>3. 0 \in G
  <2>1. f[0] = <<>>
    BY <1>2 DEF TableFills
  <2>2. SlotsIn(<<>>, 0)
    BY DEF SlotsIn
  <2> QED BY <2>1, <2>2 DEF SlotsOK
<1>4. ASSUME NEW m \in 0 .. (N - 1), m \in G PROVE m + 1 \in G
  <2> DEFINE g == f[m]
             h == f[m + 1]
             cells == CellsOf(nodes, rows, m + 1)
  <2>1. m \in Nat /\ m + 1 \in Nat /\ m + 1 \in 1 .. N /\ (m + 1) - 1 = m
    BY <1>1
  <2>2. h = PlaceRow(nodes, m + 1, g, cells)
    BY <1>2, <2>1 DEF TableFills
  <2>3. Filled(m, g)
    BY <1>4
  <2>4. cells \in Seq(Nat) /\ \A k \in 1 .. Len(cells) : cells[k] \in 1 .. Len(nodes)
    BY ChildrenIs DEF CellsOf
  <2> HIDE DEF g, h
  <2>5. SlotsOK(h) /\ PlacingRow(nodes, m + 1, g, h, cells)
    <3> HIDE DEF cells
    <3> QED BY <2>1, <2>2, <2>3, <2>4, PlaceRowIs
  <2>6. /\ DOMAIN g \subseteq DOMAIN h
        /\ \A k \in 1 .. Len(cells) :
              \E c \in Nat : <<m + 1, c>> \in DOMAIN h /\ h[<<m + 1, c>>] = text(m + 1, k)
        /\ \A s \in DOMAIN h : \/ s \in DOMAIN g /\ h[s] = g[s]
                               \/ \E k \in 1 .. Len(cells) : h[s] = text(m + 1, k)
        /\ \A s \in DOMAIN g : s[1] < m + 1 => h[s] = g[s]
    BY <2>5 DEF PlacingRow
  <2>7. ASSUME NEW r \in 1 .. (m + 1), NEW k \in 1 .. Len(CellsOf(nodes, rows, r))
        PROVE  \E c \in Nat : <<r, c>> \in DOMAIN h /\ h[<<r, c>>] = text(r, k)
    <3>1. CASE r = m + 1
      BY <2>6, <3>1
    <3>2. CASE r # m + 1
      <4>1. r \in 1 .. m /\ r < m + 1
        BY <2>1, <3>2
      <4>2. PICK c \in Nat : <<r, c>> \in DOMAIN g /\ g[<<r, c>>] = text(r, k)
        BY <2>3, <4>1
      <4>3. <<r, c>>[1] < m + 1
        BY <4>1
      <4> QED BY <2>6, <4>2, <4>3
    <3> QED BY <3>1, <3>2
  <2>8. ASSUME NEW s \in DOMAIN h
        PROVE  \E r \in 1 .. (m + 1) : \E k \in 1 .. Len(CellsOf(nodes, rows, r)) : h[s] = text(r, k)
    <3>1. m + 1 \in 1 .. (m + 1) /\ \A r \in 1 .. m : r \in 1 .. (m + 1)
      BY <2>1
    <3> QED BY <2>3, <2>6, <3>1
  <2>9. Filled(m + 1, h)
    BY <2>5, <2>7, <2>8
  <2> QED BY <2>1, <2>9 DEF h
<1>5. \A m \in 0 .. N : m \in G
  <2> HIDE DEF G
  <2> QED BY <1>1, <1>3, <1>4, UpTo
<1>6. N \in 0 .. N
  BY <1>1
<1>7. N \in G
  BY <1>5, <1>6
<1>8. Filled(N, f[N])
  BY <1>7
<1> QED BY <1>2, <1>8 DEF rows

LEMMA LastOf ==
  ASSUME NEW S, NEW s \in Seq(S), s # <<>>
  PROVE  /\ Len(s) \in 1 .. Len(s) /\ Last(s) = s[Len(s)] /\ Last(s) \in S /\ Last(s) \in Range(s)
<1>1. Len(s) \in Nat /\ Len(s) # 0 /\ DOMAIN s = 1 .. Len(s)
  OBVIOUS
<1>2. Len(s) \in 1 .. Len(s) /\ s[Len(s)] \in S
  BY <1>1
<1> QED BY <1>1, <1>2 DEF Last, Range

(* The lines of a table: nothing but slots and empty places, and every     *)
(* slot of its rows.                                                       *)
GridHolds(grid, slots, rows) ==
  /\ grid \in Seq(Seq(Texts))
  /\ \A k \in 1 .. Len(grid) : \A j \in 1 .. Len(grid[k]) :
        grid[k][j] = <<>> \/ \E s \in DOMAIN slots : grid[k][j] = slots[s]
  /\ \A s \in DOMAIN slots : s[1] \in 1 .. Len(rows) =>
        \E k \in 1 .. Len(grid) : \E j \in 1 .. Len(grid[k]) : grid[k][j] = slots[s]

LEMMA GridIs ==
  ASSUME NEW nodes \in Seq(NodeSet), NEW n
  PROVE  GridHolds(TableGrid(nodes, n), TableSlots(nodes, n), TableRows(nodes, n))
<1> DEFINE slots == TableSlots(nodes, n)
           rows == DOMAIN TableRows(nodes, n)
           N == Len(TableRows(nodes, n))
           W(r) == {s[2] + 1 : s \in {t \in DOMAIN slots : t[1] = r}} \cup {0}
           width(r) == Max(W(r))
           line(r) == [c \in 1 .. width(r) |->
                         IF <<r, c - 1>> \in DOMAIN slots THEN slots[<<r, c - 1>>] ELSE <<>>]
           kept == InOrder({r \in rows : width(r) > 0}, Cardinality(rows))
           grid == [k \in DOMAIN kept |-> line(kept[k])]
<1>1. rows = 1 .. N /\ N \in Nat
  BY RowsOf
<1>2. SlotsOK(slots)
  BY SlotsIs
<1>3. TableGrid(nodes, n) = grid
  BY DEF TableGrid
<1> HIDE DEF slots, N
<1>4. Cardinality(rows) = N
  <2>1. Cardinality(1 .. N) = N
    BY <1>1, FS_Interval
  <2> QED BY <1>1, <2>1
<1> HIDE DEF rows
<1>5. \A r : width(r) \in Nat /\ \A s \in DOMAIN slots : s[1] = r => s[2] < width(r)
  <2> SUFFICES ASSUME NEW r
               PROVE  width(r) \in Nat /\ \A s \in DOMAIN slots : s[1] = r => s[2] < width(r)
    OBVIOUS
  <2>1. PICK m \in Nat : SlotsIn(slots, m)
    BY <1>2 DEF SlotsOK
  <2>2. \A s \in DOMAIN slots : s[2] \in 0 .. m
    BY <2>1 DEF SlotsIn
  <2>3. W(r) \in SUBSET Nat /\ W(r) # {} /\ \A x \in W(r) : x <= m + 1
    BY <2>2
  <2>4. Max(W(r)) \in W(r) /\ \A x \in W(r) : x <= Max(W(r))
    <3> DEFINE w == W(r)
    <3>1. w \in SUBSET Nat /\ w # {} /\ m + 1 \in Nat /\ \A x \in w : x <= m + 1
      BY <2>3
    <3> HIDE DEF w
    <3>2. Max(w) \in w /\ \A x \in w : x <= Max(w)
      BY <3>1, Greatest
    <3> QED BY <3>2 DEF w
  <2>5. \A s \in DOMAIN slots : s[1] = r => s[2] + 1 \in W(r)
    OBVIOUS
  <2>6. width(r) \in Nat
    BY <2>3, <2>4
  <2> HIDE DEF W
  <2>7. ASSUME NEW s \in DOMAIN slots, s[1] = r PROVE s[2] < width(r)
    <3>1. s[2] + 1 <= width(r) /\ s[2] \in Nat
      BY <2>2, <2>4, <2>5, <2>7
    <3> QED BY <2>6, <3>1
  <2> QED BY <2>6, <2>7
<1> HIDE DEF width
<1>6. \A s \in DOMAIN slots : slots[s] \in Texts
  BY <1>2 DEF SlotsOK, SlotsIn
<1>7. ASSUME NEW r
      PROVE  /\ line(r) \in Seq(Texts) /\ Len(line(r)) = width(r)
             /\ \A j \in 1 .. width(r) :
                   line(r)[j] = IF <<r, j - 1>> \in DOMAIN slots THEN slots[<<r, j - 1>>] ELSE <<>>
  <2> DEFINE x == line(r)
             w == width(r)
  <2>1. x = [j \in 1 .. w |-> x[j]] /\ \A j \in 1 .. w :
           x[j] = IF <<r, j - 1>> \in DOMAIN slots THEN slots[<<r, j - 1>>] ELSE <<>>
    OBVIOUS
  <2>2. w \in Nat
    BY <1>5
  <2> HIDE DEF x, w
  <2>3. \A j \in 1 .. w : x[j] \in Texts
    BY <1>6, <2>1, EmptyText
  <2>4. x \in Seq(Texts) /\ Len(x) = w
    BY <2>1, <2>2, <2>3, SeqBy
  <2> QED BY <2>1, <2>4 DEF x, w
<1> DEFINE S == {r \in rows : width(r) > 0}
<1>8. /\ kept \in Seq(Nat) /\ \A m : m \in Range(kept) <=> m \in S /\ m \in 1 .. N
  <2> HIDE DEF S
  <2>1. kept = InOrder(S, N)
    BY <1>4 DEF S
  <2> HIDE DEF kept
  <2> QED BY <1>1, <2>1, InOrderIs
<1>9. \A m : m \in Range(kept) <=> m \in 1 .. N /\ width(m) > 0
  BY <1>1, <1>8
<1> HIDE DEF kept, line
<1>10. Len(kept) \in Nat /\ DOMAIN kept = 1 .. Len(kept)
  BY <1>8
<1>11. grid = [k \in 1 .. Len(kept) |-> grid[k]] /\ \A k \in 1 .. Len(kept) : grid[k] = line(kept[k])
  BY <1>10
<1> HIDE DEF grid
<1>12. grid \in Seq(Seq(Texts)) /\ Len(grid) = Len(kept)
  <2>1. \A k \in 1 .. Len(kept) : grid[k] \in Seq(Texts)
    BY <1>7, <1>11
  <2> QED BY <1>10, <1>11, <2>1, SeqBy
<1>13. ASSUME NEW k \in 1 .. Len(grid), NEW j \in 1 .. Len(grid[k])
       PROVE  grid[k][j] = <<>> \/ \E s \in DOMAIN slots : grid[k][j] = slots[s]
  <2>1. grid[k] = line(kept[k]) /\ j \in 1 .. width(kept[k])
    BY <1>7, <1>11, <1>12
  <2>2. grid[k][j] = IF <<kept[k], j - 1>> \in DOMAIN slots THEN slots[<<kept[k], j - 1>>] ELSE <<>>
    BY <1>7, <2>1
  <2> QED BY <2>2
<1>14. ASSUME NEW s \in DOMAIN slots, s[1] \in 1 .. N
       PROVE  \E k \in 1 .. Len(grid) : \E j \in 1 .. Len(grid[k]) : grid[k][j] = slots[s]
  <2>1. s = <<s[1], s[2]>> /\ s[2] \in Nat /\ s[2] < width(s[1]) /\ width(s[1]) \in Nat
    BY <1>2, <1>5, SlotsFinite
  <2>2. s[1] \in Range(kept)
    BY <1>9, <1>14, <2>1
  <2>3. PICK k \in 1 .. Len(kept) : kept[k] = s[1]
    BY <1>10, <2>2 DEF Range
  <2>4. s[2] + 1 \in 1 .. width(s[1]) /\ (s[2] + 1) - 1 = s[2]
    BY <2>1
  <2>5. line(s[1])[s[2] + 1] = slots[s]
    BY <1>7, <2>1, <2>4
  <2>6. k \in 1 .. Len(grid) /\ grid[k] = line(s[1]) /\ s[2] + 1 \in 1 .. Len(grid[k])
    BY <1>7, <1>11, <1>12, <2>3, <2>4
  <2> QED BY <2>5, <2>6
<1> QED BY <1>3, <1>12, <1>13, <1>14 DEF slots, N, GridHolds

-----------------------------------------------------------------------------
(* The first caption that has a text.                                      *)
CaptionsOf(nodes, n) ==
  {m \in 1 .. Len(nodes) : /\ nodes[m].tag = "caption" /\ n \in Range(nodes[m].within)
                           /\ NodeText(nodes, m) # <<>>}

LEMMA LabelIs ==
  ASSUME NEW nodes \in Seq(NodeSet), NEW n
  PROVE  /\ TableLabel(nodes, n) \in Texts
         /\ CaptionsOf(nodes, n) = {} => TableLabel(nodes, n) = <<>>
         /\ CaptionsOf(nodes, n) # {} =>
               /\ Min(CaptionsOf(nodes, n)) \in CaptionsOf(nodes, n)
               /\ TableLabel(nodes, n) = NodeText(nodes, Min(CaptionsOf(nodes, n)))
<1> DEFINE C == CaptionsOf(nodes, n)
<1>1. DOMAIN nodes = 1 .. Len(nodes) /\ Len(nodes) \in Nat
  BY NodeFields
<1>2. TableLabel(nodes, n) = IF C = {} THEN <<>> ELSE NodeText(nodes, Min(C))
  BY <1>1 DEF TableLabel, CaptionsOf
<1>3. C \in SUBSET Nat
  BY <1>1 DEF CaptionsOf
<1> HIDE DEF C
<1>4. C # {} => Min(C) \in C
  BY <1>3, LeastIs
<1> QED BY <1>2, <1>4, EmptyText, NodeTextIs DEF C

LEMMA GridTextIs ==
  ASSUME NEW label \in Texts, NEW grid \in Seq(Seq(Texts))
  PROVE  /\ TableMarkdown(label, grid) \in Texts
         /\ \A c \in Range(TableMarkdown(label, grid)) :
               c = Mark \/ c \in Range(label)
               \/ \E k \in 1 .. Len(grid) : \E j \in 1 .. Len(grid[k]) : c \in Range(grid[k][j])
         /\ \A k \in 1 .. Len(grid) :
               /\ \A c \in Range(label) : c \in Range(TableMarkdown(label, grid))
               /\ \A j \in 1 .. Len(grid[k]) : \A c \in Range(grid[k][j]) :
                     c \in Range(TableMarkdown(label, grid))
         /\ \A k \in 1 .. Len(grid) :
               /\ FlattenSeq(grid[k]) \in Texts
               /\ \A c \in Range(FlattenSeq(grid[k])) :
                     \E j \in 1 .. Len(grid[k]) : c \in Range(grid[k][j])
<1> DEFINE items == [k \in DOMAIN grid |-> FlattenSeq(grid[k])]
           s == [k \in DOMAIN grid |-> <<Mark>> \o FlattenSeq(grid[k])]
           text == TableMarkdown(label, grid)
<1>1. Len(grid) \in Nat /\ DOMAIN grid = 1 .. Len(grid)
      /\ \A k \in 1 .. Len(grid) : grid[k] \in Seq(Texts)
  OBVIOUS
<1>2. \A k \in 1 .. Len(grid) : /\ FlattenSeq(grid[k]) \in Texts
                                /\ \A c : c \in Range(FlattenSeq(grid[k])) <=>
                                      \E j \in 1 .. Len(grid[k]) : c \in Range(grid[k][j])
  BY <1>1, TextOf
<1>3. items = [k \in 1 .. Len(grid) |-> items[k]]
      /\ \A k \in 1 .. Len(grid) : items[k] = FlattenSeq(grid[k])
  BY <1>1
<1>4. s = [k \in 1 .. Len(grid) |-> s[k]]
      /\ \A k \in 1 .. Len(grid) : s[k] = <<Mark>> \o FlattenSeq(grid[k])
  BY <1>1
<1>5. text = IF grid = <<>> THEN <<>> ELSE label \o FlattenSeq(s)
  BY DEF TableMarkdown
<1> HIDE DEF items, s, text
<1>6. items \in Seq(Texts) /\ Len(items) = Len(grid) /\ DOMAIN items = 1 .. Len(grid)
  <2>1. \A k \in 1 .. Len(grid) : items[k] \in Texts
    BY <1>2, <1>3
  <2>2. items \in Seq(Texts) /\ Len(items) = Len(grid)
    BY <1>1, <1>3, <2>1, SeqBy
  <2> QED BY <2>2
<1>7. /\ FlattenSeq(s) \in Texts
      /\ \A c : c \in Range(FlattenSeq(s)) <=>
                   \E k \in 1 .. Len(items) : c = Mark \/ c \in Range(items[k])
  <2>1. s = [k \in DOMAIN items |-> s[k]] /\ \A k \in DOMAIN items : s[k] = <<Mark>> \o items[k]
    BY <1>3, <1>4, <1>6
  <2> QED BY <1>6, <2>1, MarkedTyped
<1>8. label \o FlattenSeq(s) \in Texts
      /\ \A c : c \in Range(label \o FlattenSeq(s)) <=> c \in Range(label) \/ c \in Range(FlattenSeq(s))
  BY <1>7, JoinTexts, RangeOfJoin
<1>9. text \in Texts
  BY <1>5, <1>8, EmptyText
<1>10. ASSUME NEW c \in Range(text)
       PROVE  c = Mark \/ c \in Range(label)
              \/ \E k \in 1 .. Len(grid) : \E j \in 1 .. Len(grid[k]) : c \in Range(grid[k][j])
  <2>1. Range(<<>>) = {}
    BY DEF Range
  <2>2. c \in Range(label) \/ c \in Range(FlattenSeq(s))
    BY <1>5, <1>8, <2>1
  <2> QED BY <1>2, <1>3, <1>6, <1>7, <2>2
<1>11. ASSUME NEW k \in 1 .. Len(grid)
       PROVE  /\ \A c \in Range(label) : c \in Range(text)
              /\ \A j \in 1 .. Len(grid[k]) : \A c \in Range(grid[k][j]) : c \in Range(text)
  <2>1. grid # <<>>
    BY <1>1
  <2> QED BY <1>2, <1>3, <1>5, <1>6, <1>7, <1>8, <2>1
<1> QED BY <1>2, <1>9, <1>10, <1>11 DEF text

-----------------------------------------------------------------------------
(* What is written for a node.  Its characters are of nodes under it.      *)
PartOf(nodes, n, x) ==
  n \in Range(nodes[x].within) /\ nodes[x].tag \in {"li", "caption", "tr", "th", "td"}

Under(nodes, n, x) ==
  \/ x = n \/ PartOf(nodes, n, x)
  \/ \E y \in 1 .. Len(nodes) : PartOf(nodes, n, y) /\ PartOf(nodes, y, x)

From(nodes, n, text) ==
  /\ text \in Texts
  /\ \A c \in Range(text) :
        c = Mark \/ \E x \in 1 .. Len(nodes) : Under(nodes, n, x) /\ c \in Range(NodeText(nodes, x))

LEMMA ItemsFrom ==
  ASSUME NEW nodes \in Seq(NodeSet), NEW n \in 1 .. Len(nodes),
         NEW k \in 1 .. Len(ListItems(nodes, n))
  PROVE  From(nodes, n, ListItems(nodes, n)[k])
<1> DEFINE x == ChildrenOf(nodes, n, {"li"})
<1>1. x \in Seq(Nat) /\ k \in 1 .. Len(x) /\ ListItems(nodes, n)[k] = NodeText(nodes, x[k])
      /\ x[k] \in 1 .. Len(nodes)
      /\ \A m : m \in Range(x) => /\ nodes[m].tag = "li"
                                  /\ nodes[m].within # <<>> /\ Last(nodes[m].within) = n
  BY ChildrenIs, ItemsTyped
<1> HIDE DEF x
<1>2. x[k] \in Range(x)
  BY <1>1 DEF Range
<1>3. /\ nodes[x[k]].within # <<>> /\ Last(nodes[x[k]].within) = n
      /\ nodes[x[k]].within \in Seq(Nat) /\ nodes[x[k]].tag = "li"
  BY <1>1, <1>2, NodeFields
<1>4. PartOf(nodes, n, x[k])
  BY <1>3, LastOf DEF PartOf
<1> QED BY <1>1, <1>4, NodeTextIs DEF From, Under

LEMMA SlotFrom ==
  ASSUME NEW nodes \in Seq(NodeSet), NEW n \in 1 .. Len(nodes),
         NEW s \in DOMAIN TableSlots(nodes, n)
  PROVE  From(nodes, n, TableSlots(nodes, n)[s])
<1> DEFINE rows == TableRows(nodes, n)
<1>1. PICK r \in 1 .. Len(rows) : \E k \in 1 .. Len(CellsOf(nodes, rows, r)) :
         TableSlots(nodes, n)[s] = NodeText(nodes, CellsOf(nodes, rows, r)[k])
  BY SlotsIs
<1> DEFINE x == CellsOf(nodes, rows, r)
<1>2. PICK k \in 1 .. Len(x) : TableSlots(nodes, n)[s] = NodeText(nodes, x[k])
  BY <1>1
<1>3. rows[r] \in Range(rows)
  BY RowsOf DEF Range
<1>4. rows[r] \in 1 .. Len(nodes) /\ PartOf(nodes, n, rows[r])
  BY <1>3, RowsOf DEF PartOf
<1>5. x \in Seq(Nat) /\ x[k] \in 1 .. Len(nodes)
      /\ \A m : m \in Range(x) => /\ nodes[m].tag \in {"th", "td"}
                                  /\ nodes[m].within # <<>> /\ Last(nodes[m].within) = rows[r]
  BY ChildrenIs DEF CellsOf
<1> HIDE DEF x, rows
<1>6. x[k] \in Range(x)
  BY <1>5 DEF Range
<1>7. /\ nodes[x[k]].within # <<>> /\ Last(nodes[x[k]].within) = rows[r]
      /\ nodes[x[k]].within \in Seq(Nat) /\ nodes[x[k]].tag \in {"th", "td"}
  BY <1>5, <1>6, NodeFields
<1>8. PartOf(nodes, rows[r], x[k])
  BY <1>7, LastOf DEF PartOf
<1> QED BY <1>2, <1>4, <1>5, <1>8, NodeTextIs DEF From, Under

LEMMA LabelFrom ==
  ASSUME NEW nodes \in Seq(NodeSet), NEW n \in 1 .. Len(nodes)
  PROVE  From(nodes, n, TableLabel(nodes, n))
<1>1. Range(<<>>) = {}
  BY DEF Range
<1>2. CASE CaptionsOf(nodes, n) = {}
  BY <1>1, <1>2, LabelIs DEF From
<1>3. CASE CaptionsOf(nodes, n) # {}
  <2>1. PICK m \in CaptionsOf(nodes, n) : TableLabel(nodes, n) = NodeText(nodes, m)
    BY <1>3, LabelIs
  <2>2. m \in 1 .. Len(nodes) /\ Under(nodes, n, m)
    BY <2>1 DEF CaptionsOf, Under, PartOf
  <2> QED BY <2>1, <2>2, LabelIs DEF From
<1> QED BY <1>2, <1>3

LEMMA MarkdownFrom ==
  ASSUME NEW nodes \in Seq(NodeSet), NEW n \in 1 .. Len(nodes)
  PROVE  From(nodes, n, Markdown(nodes, n))
<1> DEFINE grid == TableGrid(nodes, n)
           slots == TableSlots(nodes, n)
           label == TableLabel(nodes, n)
           items == ListItems(nodes, n)
<1>0. Range(<<>>) = {}
  BY DEF Range
<1>1. From(nodes, n, NodeText(nodes, n)) /\ From(nodes, n, <<>>)
  BY <1>0, NodeTextIs, EmptyText DEF From, Under
<1>2. /\ grid \in Seq(Seq(Texts))
      /\ \A k \in 1 .. Len(grid) : \A j \in 1 .. Len(grid[k]) :
            grid[k][j] = <<>> \/ \E s \in DOMAIN slots : grid[k][j] = slots[s]
  <2>1. GridHolds(grid, slots, TableRows(nodes, n))
    BY GridIs
  <2> QED BY <2>1 DEF GridHolds
<1>3. \A k \in 1 .. Len(grid) : \A j \in 1 .. Len(grid[k]) : From(nodes, n, grid[k][j])
  <2>1. \A s \in DOMAIN slots : From(nodes, n, slots[s])
    BY SlotFrom
  <2> HIDE DEF grid, slots
  <2> QED BY <1>1, <1>2, <2>1
<1>4. label \in Texts /\ From(nodes, n, label)
  BY LabelIs, LabelFrom
<1>5. items \in Seq(Texts) /\ \A k \in 1 .. Len(items) : From(nodes, n, items[k])
  BY ItemsTyped, ItemsFrom
<1> HIDE DEF grid, slots, label, items
<1>6. From(nodes, n, TableMarkdown(label, grid))
  <2>1. TableMarkdown(label, grid) \in Texts
    BY <1>2, <1>4, GridTextIs
  <2>2. ASSUME NEW c \in Range(TableMarkdown(label, grid))
        PROVE  c = Mark \/ \E x \in 1 .. Len(nodes) : Under(nodes, n, x) /\ c \in Range(NodeText(nodes, x))
    <3>1. c = Mark \/ c \in Range(label)
          \/ \E k \in 1 .. Len(grid) : \E j \in 1 .. Len(grid[k]) : c \in Range(grid[k][j])
      BY <1>2, <1>4, GridTextIs
    <3> QED BY <1>3, <1>4, <3>1 DEF From
  <2> QED BY <2>1, <2>2 DEF From
<1>7. From(nodes, n, ListMarkdown(items))
  <2>1. ListMarkdown(items) \in Texts
        /\ \A c : c \in Range(ListMarkdown(items)) =>
              \E k \in 1 .. Len(items) : c = Mark \/ c \in Range(items[k])
    BY <1>5, ListMarkdownIs
  <2> QED BY <1>5, <2>1 DEF From
<1> QED BY <1>1, <1>6, <1>7 DEF Markdown, grid, label, items

-----------------------------------------------------------------------------
(* Slugs: texts that begin with the first character that a name can show,  *)
(* and hold all such characters when they are shorter than the limit.      *)
LEMMA FirstOfIs ==
  ASSUME NEW T, NEW s \in Seq(T), NEW n \in Nat \ {0}
  PROVE  /\ FirstOf(s, n) \in Seq(T)
         /\ \A j \in 1 .. Len(FirstOf(s, n)) : j \in 1 .. Len(s) /\ FirstOf(s, n)[j] = s[j]
         /\ 1 \in 1 .. Len(s) => 1 \in 1 .. Len(FirstOf(s, n))
         /\ Len(FirstOf(s, n)) < n => FirstOf(s, n) = s
<1>1. CASE Len(s) <= n
  <2>1. FirstOf(s, n) = s
    BY <1>1 DEF FirstOf
  <2> QED BY <2>1
<1>2. CASE ~(Len(s) <= n)
  <2>1. PICK x : x = SubSeq(s, 1, n)
    OBVIOUS
  <2>2. 1 \in 1 .. n /\ n \in 1 .. Len(s) /\ n \in Nat /\ Len(s) \in Nat
    BY <1>2
  <2>3. x \in Seq(T) /\ Len(x) = n /\ \A j \in 1 .. n : x[j] = s[j]
    BY <2>1, <2>2, SubSeqProperties
  <2>4. FirstOf(s, n) = x
    BY <1>2, <2>1 DEF FirstOf
  <2> QED BY <2>2, <2>3, <2>4
<1> QED BY <1>1, <1>2

Solid(c) == c \notin Barred \cup Trimmed

KeptIn(text) ==
  InOrder({k \in DOMAIN text : /\ \E a, b \in {j \in DOMAIN text : text[j] \notin Barred \cup Trimmed} :
                                     a <= k /\ k <= b
                               /\ text[k] \in Barred => text[k - 1] \notin Barred},
          Len(text))

LEMMA KeptIs ==
  ASSUME NEW text \in Texts
  PROVE  /\ KeptIn(text) \in Seq(Nat)
         /\ \A j \in 1 .. Len(KeptIn(text)) : KeptIn(text)[j] \in 1 .. Len(text)
         /\ \A k \in 1 .. Len(text) : Solid(text[k]) => \E j \in 1 .. Len(KeptIn(text)) : KeptIn(text)[j] = k
         /\ KeptIn(text) # <<>> => 1 \in 1 .. Len(KeptIn(text)) /\ Solid(text[KeptIn(text)[1]])
<1> DEFINE solid == {j \in DOMAIN text : text[j] \notin Barred \cup Trimmed}
           K == {k \in DOMAIN text : /\ \E a, b \in solid : a <= k /\ k <= b
                                     /\ text[k] \in Barred => text[k - 1] \notin Barred}
           x == InOrder(K, Len(text))
<1>1. Len(text) \in Nat /\ DOMAIN text = 1 .. Len(text)
  BY DEF Texts
<1>2. \A k : k \in solid <=> k \in 1 .. Len(text) /\ Solid(text[k])
  BY <1>1 DEF Solid
<1>3. \A k : k \in K <=> /\ k \in 1 .. Len(text)
                         /\ \E a, b \in solid : a <= k /\ k <= b
                         /\ text[k] \in Barred => text[k - 1] \notin Barred
  BY <1>1
<1>4. KeptIn(text) = x
  BY DEF KeptIn
<1> HIDE DEF solid, K
<1>5. /\ x \in Seq(Nat) /\ \A m : m \in Range(x) <=> m \in K /\ m \in 1 .. Len(text)
      /\ \A i, j \in 1 .. Len(x) : i < j => x[i] < x[j]
  BY <1>1, InOrderIs
<1> HIDE DEF x
<1>6. /\ \A j \in 1 .. Len(x) : x[j] \in Range(x)
      /\ \A m \in Range(x) : \E j \in 1 .. Len(x) : x[j] = m
  BY <1>5 DEF Range
<1>7. \A k \in solid : k \in K
  <2> SUFFICES ASSUME NEW k \in solid PROVE k \in K
    OBVIOUS
  <2>1. k \in 1 .. Len(text) /\ Solid(text[k]) /\ k <= k
    BY <1>1, <1>2
  <2>2. text[k] \notin Barred
    BY <2>1 DEF Solid
  <2> QED BY <1>3, <2>1, <2>2
<1>8. \A k \in 1 .. Len(text) : Solid(text[k]) => \E j \in 1 .. Len(x) : x[j] = k
  BY <1>2, <1>5, <1>6, <1>7
<1>9. ASSUME x # <<>> PROVE 1 \in 1 .. Len(x) /\ Solid(text[x[1]])
  <2>1. 1 \in 1 .. Len(x) /\ Len(x) \in Nat
    BY <1>5, <1>9
  <2>2. PICK k \in Nat : k = x[1] /\ k \in K
    BY <1>5, <1>6, <2>1
  <2>3. PICK a \in solid : a <= k
    BY <1>3, <2>2
  <2>4. a \in Nat /\ a \in 1 .. Len(text) /\ Solid(text[a])
    BY <1>1, <1>2
  <2>5. PICK j \in 1 .. Len(x) : x[j] = a
    BY <1>5, <1>6, <1>7, <2>4
  <2>6. j = 1
    <3>1. CASE 1 < j
      <4>1. k < a
        BY <1>5, <2>1, <2>2, <2>5, <3>1
      <4> QED BY <2>2, <2>3, <2>4, <4>1
    <3> QED BY <2>1, <3>1
  <2> QED BY <2>1, <2>4, <2>5, <2>6
<1> QED BY <1>4, <1>5, <1>6, <1>8, <1>9

LEMMA SlugIs ==
  ASSUME NEW text \in Texts
  PROVE  /\ SlugText(text) \in Texts
         /\ \A c \in Range(SlugText(text)) : c \in Range(text) \/ c \in {Dash, NoName}
         /\ (\E c \in Range(text) : Solid(c)) => \E c \in Range(SlugText(text)) : c \in Range(text) /\ Solid(c)
         /\ (\A c \in Range(text) : ~Solid(c)) => SlugText(text) = <<NoName>>
         /\ Len(SlugText(text)) < NameLimit
              => \A c \in Range(text) : Solid(c) => c \in Range(SlugText(text))
<1> DEFINE sign(k) == IF text[k] \in Barred THEN Dash ELSE text[k]
           kept == KeptIn(text)
           slug == [j \in DOMAIN kept |-> sign(kept[j])]
<1>1. SlugText(text) = IF slug = <<>> THEN <<NoName>> ELSE FirstOf(slug, NameLimit)
  BY DEF SlugText, KeptIn
<1>2. /\ kept \in Seq(Nat) /\ \A j \in 1 .. Len(kept) : kept[j] \in 1 .. Len(text)
      /\ \A k \in 1 .. Len(text) : Solid(text[k]) => \E j \in 1 .. Len(kept) : kept[j] = k
      /\ kept # <<>> => 1 \in 1 .. Len(kept) /\ Solid(text[kept[1]])
  BY KeptIs
<1>3. Dash \in Visible /\ NoName \in Visible /\ \A k \in 1 .. Len(text) : text[k] \in Visible
  BY DEF Dash, NoName, Visible, Characters, Newline, Texts
<1>4. \A k \in 1 .. Len(text) : /\ sign(k) \in Visible
                                /\ sign(k) = Dash \/ sign(k) = text[k]
                                /\ Solid(text[k]) => sign(k) = text[k]
  BY <1>3 DEF Solid
<1>5. \A c : c \in Range(text) <=> \E k \in 1 .. Len(text) : c = text[k]
  BY DEF Range, Texts
<1> HIDE DEF sign, kept
<1>6. /\ slug \in Texts /\ Len(slug) = Len(kept) /\ Len(kept) \in Nat
      /\ \A j \in 1 .. Len(kept) : slug[j] = sign(kept[j])
  <2>1. slug = [j \in 1 .. Len(kept) |-> slug[j]] /\ \A j \in 1 .. Len(kept) : slug[j] = sign(kept[j])
    BY <1>2
  <2>2. \A j \in 1 .. Len(kept) : slug[j] \in Visible
    BY <1>2, <1>4, <2>1
  <2> HIDE DEF slug
  <2> QED BY <1>2, <2>1, <2>2, SeqBy DEF Texts
<1> HIDE DEF slug
<1>7. Range(<<NoName>>) = {NoName} /\ <<NoName>> \in Texts
  BY <1>3, FewElements DEF Range, Texts
<1>8. CASE \A c \in Range(text) : ~Solid(c)
  <2>1. kept = <<>>
    BY <1>2, <1>5, <1>8
  <2>2. slug = <<>>
    BY <1>6, <2>1 DEF Texts
  <2> QED BY <1>1, <1>7, <1>8, <2>2
<1>9. ASSUME NEW c \in Range(text), Solid(c)
      PROVE  /\ \E e \in Range(SlugText(text)) : e \in Range(text) /\ Solid(e)
             /\ SlugText(text) \in Texts
             /\ \A e \in Range(SlugText(text)) : e \in Range(text) \/ e \in {Dash, NoName}
             /\ Len(SlugText(text)) < NameLimit => c \in Range(SlugText(text))
  <2>1. PICK k \in 1 .. Len(text) : c = text[k]
    BY <1>5
  <2>2. PICK j \in 1 .. Len(kept) : kept[j] = k
    BY <1>2, <1>9, <2>1
  <2>3. kept # <<>> /\ slug # <<>>
    BY <1>2, <1>6, <2>2
  <2>4. PICK x : x = FirstOf(slug, NameLimit) /\ SlugText(text) = x
    BY <1>1, <2>3
  <2>5. /\ x \in Texts /\ \A i \in 1 .. Len(x) : i \in 1 .. Len(slug) /\ x[i] = slug[i]
        /\ 1 \in 1 .. Len(slug) => 1 \in 1 .. Len(x)
        /\ Len(x) < NameLimit => x = slug
    BY <1>6, <2>4, FirstOfIs, SlugAssumption DEF Texts
  <2>6. \A e : e \in Range(x) <=> \E i \in 1 .. Len(x) : e = x[i]
    BY <2>5 DEF Range, Texts
  <2>7. 1 \in 1 .. Len(x) /\ x[1] = text[kept[1]] /\ kept[1] \in 1 .. Len(text) /\ Solid(text[kept[1]])
    BY <1>2, <1>4, <1>6, <2>3, <2>5
  <2>8. \A e \in Range(x) : e \in Range(text) \/ e = Dash
    <3> SUFFICES ASSUME NEW i \in 1 .. Len(x) PROVE x[i] \in Range(text) \/ x[i] = Dash
      BY <2>6
    <3>1. x[i] = sign(kept[i]) /\ kept[i] \in 1 .. Len(text)
      BY <1>2, <1>6, <2>5
    <3> QED BY <1>4, <1>5, <3>1
  <2>9. Len(x) < NameLimit => c \in Range(x)
    <3> SUFFICES ASSUME Len(x) < NameLimit PROVE c \in Range(x)
      OBVIOUS
    <3>1. x = slug /\ j \in 1 .. Len(x)
      BY <1>6, <2>2, <2>5
    <3>2. x[j] = c
      BY <1>4, <1>6, <1>9, <2>1, <2>2, <3>1
    <3> QED BY <2>6, <3>1, <3>2
  <2> QED BY <1>5, <2>4, <2>5, <2>6, <2>7, <2>8, <2>9
<1> QED BY <1>8, <1>9

LEMMA SlugTyped == \A text \in Texts : SlugText(text) \in Texts
  BY SlugIs

LEMMA SlugOfNode ==
  ASSUME NEW nodes \in Seq(NodeSet), NEW n \in 1 .. Len(nodes)
  PROVE  Slug(nodes, n) \in Texts
<1> DEFINE grid == TableGrid(nodes, n)
           label == TableLabel(nodes, n)
           items == ListItems(nodes, n)
<1>1. /\ label \in Texts /\ items \in Seq(Texts) /\ NodeText(nodes, n) \in Texts /\ <<>> \in Texts
      /\ grid \in Seq(Seq(Texts))
  <2>1. GridHolds(grid, TableSlots(nodes, n), TableRows(nodes, n))
    BY GridIs
  <2>2. grid \in Seq(Seq(Texts))
    BY <2>1 DEF GridHolds
  <2> QED BY <2>2, LabelIs, ItemsTyped, NodeTextIs, EmptyText
<1>2. CASE nodes[n].tag \in {"ul", "ol"}
  <2>1. Slug(nodes, n) = SlugText(IF items = <<>> THEN <<>> ELSE FirstOf(items[1], SnippetLimit))
    BY <1>2 DEF Slug
  <2> HIDE DEF items
  <2>2. items # <<>> => items[1] \in Texts
    BY <1>1
  <2>3. items # <<>> => FirstOf(items[1], SnippetLimit) \in Texts
    BY <2>2, FirstOfIs, SlugAssumption DEF Texts
  <2> QED BY <1>1, <2>1, <2>3, SlugTyped
<1>3. CASE nodes[n].tag = "table"
  <2>1. Slug(nodes, n) = SlugText(IF label # <<>> THEN label
                                  ELSE IF grid = <<>> THEN <<>> ELSE FlattenSeq(FirstOf(grid[1], 3)))
    BY <1>3 DEF Slug
  <2> HIDE DEF label, grid
  <2>2. grid # <<>> => grid[1] \in Seq(Texts)
    BY <1>1
  <2>3. grid # <<>> => FirstOf(grid[1], 3) \in Seq(Texts)
    BY <2>2, FirstOfIs
  <2>4. grid # <<>> => FlattenSeq(FirstOf(grid[1], 3)) \in Texts
    BY <2>3, TextOf
  <2> QED BY <1>1, <2>1, <2>4, SlugTyped
<1>4. CASE nodes[n].tag \notin {"ul", "ol", "table"}
  <2>1. Slug(nodes, n) = SlugText(FirstOf(NodeText(nodes, n), SnippetLimit))
    BY <1>4 DEF Slug
  <2>2. FirstOf(NodeText(nodes, n), SnippetLimit) \in Texts
    BY <1>1, FirstOfIs, SlugAssumption DEF Texts
  <2> QED BY <2>1, <2>2, SlugTyped
<1> QED BY <1>2, <1>3, <1>4

-----------------------------------------------------------------------------
(* Names: a directory has given the numbers from 1 on, and a path says of  *)
(* each of its names which one it is there.                                *)
Base == [number : Nat \ {0}, slug : Texts, suffix : {NoSuffix, ".md"}]
GivenName == [base : Base, copy : {1}]

NamesOK(given) ==
  /\ <<>> \in DOMAIN given
  /\ \A d \in DOMAIN given :
        /\ d \in Seq(GivenName) /\ given[d] \in Seq(Base)
        /\ \A k \in 1 .. Len(given[d]) : given[d][k].number = k

Located(given, path, suffix) ==
  /\ path \in Seq(GivenName)
  /\ \A j \in 1 .. Len(path) :
        /\ SubSeq(path, 1, j - 1) \in DOMAIN given
        /\ path[j].base.number \in 1 .. Len(given[SubSeq(path, 1, j - 1)])
        /\ path[j].base = given[SubSeq(path, 1, j - 1)][path[j].base.number]
        /\ path[j].base.suffix = IF j = Len(path) THEN suffix ELSE NoSuffix

DirsOK(given) == NamesOK(given) /\ \A d \in DOMAIN given : Located(given, d, NoSuffix)

NewName(given, dir, slug, suffix) == NumberedName(given[dir], slug, suffix)
NewPath(given, dir, slug, suffix) == Append(dir, NewName(given, dir, slug, suffix))
AfterName(given, dir, slug, suffix) ==
  [given EXCEPT ![dir] = Counted(@, NewName(given, dir, slug, suffix))]

LEMMA NameIs ==
  ASSUME NEW given, NamesOK(given), NEW dir \in DOMAIN given, NEW slug \in Texts,
         NEW suffix \in {NoSuffix, ".md"}
  PROVE  /\ NewName(given, dir, slug, suffix) \in GivenName
         /\ NewName(given, dir, slug, suffix).base \in Base
         /\ NewName(given, dir, slug, suffix).base.number = Len(given[dir]) + 1
         /\ NewName(given, dir, slug, suffix).base.slug = slug
         /\ NewName(given, dir, slug, suffix).base.suffix = suffix
         /\ DOMAIN AfterName(given, dir, slug, suffix) = DOMAIN given
         /\ AfterName(given, dir, slug, suffix)[dir]
              = Append(given[dir], NewName(given, dir, slug, suffix).base)
         /\ \A d \in DOMAIN given : d # dir => AfterName(given, dir, slug, suffix)[d] = given[d]
<1> DEFINE bucket == given[dir]
           base == BaseName(bucket, slug, suffix)
           name == NewName(given, dir, slug, suffix)
<1>1. bucket \in Seq(Base) /\ Len(bucket) \in Nat /\ DOMAIN bucket = 1 .. Len(bucket)
      /\ \A k \in 1 .. Len(bucket) : bucket[k].number = k
  BY DEF NamesOK
<1> HIDE DEF bucket
<1>2. base = [number |-> Len(bucket) + 1, slug |-> slug, suffix |-> suffix]
  BY DEF BaseName
<1>3. base \in Base /\ base.number = Len(bucket) + 1 /\ base.slug = slug /\ base.suffix = suffix
  BY <1>1, <1>2 DEF Base
<1> HIDE DEF base
<1>4. {k \in DOMAIN bucket : bucket[k] = base} = {}
  <2> SUFFICES ASSUME NEW k \in 1 .. Len(bucket), bucket[k] = base PROVE FALSE
    BY <1>1
  <2> QED BY <1>1, <1>3
<1>5. Cardinality({k \in DOMAIN bucket : bucket[k] = base}) = 0
  BY <1>4, FS_EmptySet
<1>6. name = [base |-> base, copy |-> 1]
  BY <1>5 DEF NewName, NumberedName, base, bucket
<1> HIDE DEF name
<1>7. name \in GivenName /\ name.base = base
  BY <1>3, <1>6 DEF GivenName
<1>8. AfterName(given, dir, slug, suffix) = [given EXCEPT ![dir] = Append(@, name.base)]
  BY DEF AfterName, Counted, name
<1> QED BY <1>3, <1>7, <1>8 DEF name, bucket

LEMMA NamesKept ==
  ASSUME NEW given, NamesOK(given), NEW dir \in DOMAIN given, NEW slug \in Texts,
         NEW suffix \in {NoSuffix, ".md"}, NEW after, after = AfterName(given, dir, slug, suffix)
  PROVE  /\ NamesOK(after) /\ DOMAIN after = DOMAIN given
         /\ \A p, s : Located(given, p, s) => Located(after, p, s)
<1> DEFINE name == NewName(given, dir, slug, suffix)
<1>2. name.base \in Base /\ name.base.number = Len(given[dir]) + 1
  BY NameIs
<1>3. DOMAIN after = DOMAIN given /\ after[dir] = Append(given[dir], name.base)
      /\ \A d \in DOMAIN given : d # dir => after[d] = given[d]
  BY NameIs
<1> HIDE DEF name
<1>4. \A d \in DOMAIN given : given[d] \in Seq(Base) /\ Len(given[d]) \in Nat
                              /\ \A k \in 1 .. Len(given[d]) : given[d][k].number = k
  BY DEF NamesOK
<1>5. after[dir] \in Seq(Base) /\ Len(after[dir]) = Len(given[dir]) + 1
      /\ after[dir][Len(given[dir]) + 1] = name.base
      /\ \A k \in 1 .. Len(given[dir]) : after[dir][k] = given[dir][k]
  <2> DEFINE bucket == given[dir]
  <2>1. bucket \in Seq(Base) /\ after[dir] = Append(bucket, name.base)
    BY <1>3, <1>4
  <2> HIDE DEF bucket
  <2>2. after[dir] \in Seq(Base) /\ Len(after[dir]) = Len(bucket) + 1
        /\ after[dir][Len(bucket) + 1] = name.base
        /\ \A k \in 1 .. Len(bucket) : after[dir][k] = bucket[k]
    BY <1>2, <2>1, AppendProperties
  <2> QED BY <2>2 DEF bucket
<1>6. \A d \in DOMAIN given : \A k \in 1 .. Len(given[d]) :
         k \in 1 .. Len(after[d]) /\ after[d][k] = given[d][k]
  <2> SUFFICES ASSUME NEW d \in DOMAIN given, NEW k \in 1 .. Len(given[d])
               PROVE  k \in 1 .. Len(after[d]) /\ after[d][k] = given[d][k]
    OBVIOUS
  <2>1. CASE d = dir
    <3>1. Len(given[d]) \in Nat /\ Len(after[d]) = Len(given[d]) + 1 /\ after[d][k] = given[d][k]
      BY <1>4, <1>5, <2>1
    <3> QED BY <3>1
  <2>2. CASE d # dir
    BY <1>3, <2>2
  <2> QED BY <2>1, <2>2
<1>7. NamesOK(after)
  <2>1. \A k \in 1 .. Len(after[dir]) : after[dir][k].number = k
    <3> SUFFICES ASSUME NEW k \in 1 .. Len(after[dir]) PROVE after[dir][k].number = k
      OBVIOUS
    <3>1. k \in 1 .. Len(given[dir]) \/ k = Len(given[dir]) + 1
      BY <1>4, <1>5
    <3> QED BY <1>2, <1>4, <1>5, <3>1
  <2>2. \A d \in DOMAIN after : d \in Seq(GivenName) /\ after[d] \in Seq(Base)
                                /\ \A k \in 1 .. Len(after[d]) : after[d][k].number = k
    BY <1>3, <1>4, <1>5, <2>1 DEF NamesOK
  <2> QED BY <1>3, <2>2 DEF NamesOK
<1>8. ASSUME NEW p, NEW s, Located(given, p, s) PROVE Located(after, p, s)
  <2> SUFFICES ASSUME NEW j \in 1 .. Len(p)
               PROVE  /\ SubSeq(p, 1, j - 1) \in DOMAIN after
                      /\ p[j].base.number \in 1 .. Len(after[SubSeq(p, 1, j - 1)])
                      /\ p[j].base = after[SubSeq(p, 1, j - 1)][p[j].base.number]
    BY <1>8 DEF Located
  <2> DEFINE d == SubSeq(p, 1, j - 1)
  <2>1. d \in DOMAIN given /\ p[j].base.number \in 1 .. Len(given[d])
        /\ p[j].base = given[d][p[j].base.number]
    BY <1>8 DEF Located
  <2> HIDE DEF d
  <2>2. d \in DOMAIN after /\ p[j].base.number \in 1 .. Len(after[d])
        /\ after[d][p[j].base.number] = given[d][p[j].base.number]
    BY <1>3, <1>6, <2>1
  <2> QED BY <2>1, <2>2 DEF d
<1> QED BY <1>3, <1>7, <1>8

(* The path of a name just given.                                          *)
LEMMA PathIs ==
  ASSUME NEW given, DirsOK(given), NEW dir \in DOMAIN given, NEW slug \in Texts,
         NEW suffix \in {NoSuffix, ".md"}, NEW after, after = AfterName(given, dir, slug, suffix),
         NEW path, path = NewPath(given, dir, slug, suffix)
  PROVE  /\ Located(after, path, suffix)
         /\ path \in Seq(GivenName) /\ Len(path) = Len(dir) + 1 /\ Len(dir) \in Nat
         /\ SubSeq(path, 1, Len(dir)) = dir
         /\ path[Len(path)].base.number = Len(given[dir]) + 1
         /\ path[Len(path)].base.slug = slug
         /\ \A s : ~Located(given, path, s)
<1> DEFINE name == NewName(given, dir, slug, suffix)
           n == Len(dir)
<1>0. NamesOK(given) /\ Located(given, dir, NoSuffix)
  BY DEF DirsOK
<1>1. /\ name \in GivenName /\ name.base \in Base
      /\ name.base.number = Len(given[dir]) + 1 /\ name.base.suffix = suffix /\ name.base.slug = slug
      /\ DOMAIN after = DOMAIN given /\ after[dir] = Append(given[dir], name.base)
  BY <1>0, NameIs
<1> HIDE DEF name
<1>2. dir \in Seq(GivenName) /\ n \in Nat /\ given[dir] \in Seq(Base) /\ Len(given[dir]) \in Nat
  BY <1>0 DEF NamesOK
<1>3. path = Append(dir, name)
  BY DEF NewPath, name
<1>4. path \in Seq(GivenName) /\ Len(path) = n + 1 /\ path[n + 1] = name
      /\ \A k \in 1 .. n : path[k] = dir[k]
  BY <1>1, <1>2, <1>3, AppendProperties
<1>5. \A m \in 0 .. n : SubSeq(path, 1, m) = SubSeq(dir, 1, m)
  <2> SUFFICES ASSUME NEW m \in 0 .. n PROVE SubSeq(path, 1, m) = SubSeq(dir, 1, m)
    OBVIOUS
  <2>1. \A k \in 1 .. m : k \in 1 .. n /\ path[k] = dir[k] /\ dir[k] \in GivenName /\ path[k] \in GivenName
    BY <1>2, <1>4
  <2>2. /\ SubSeq(path, 1, m) \in Seq(GivenName) /\ Len(SubSeq(path, 1, m)) = m
        /\ \A k \in 1 .. m : SubSeq(path, 1, m)[k] = path[k]
    BY <1>2, <1>4, <2>1, SubSeqProperties
  <2>3. /\ SubSeq(dir, 1, m) \in Seq(GivenName) /\ Len(SubSeq(dir, 1, m)) = m
        /\ \A k \in 1 .. m : SubSeq(dir, 1, m)[k] = dir[k]
    BY <1>2, <2>1, SubSeqProperties
  <2> QED BY <2>1, <2>2, <2>3, SeqEqual
<1>6. SubSeq(dir, 1, n) = dir
  BY <1>2, SubSeqProperties
<1>7. after[dir] = Append(given[dir], name.base) /\ DOMAIN after = DOMAIN given
  BY <1>1
<1>8. Len(after[dir]) = Len(given[dir]) + 1 /\ after[dir][Len(given[dir]) + 1] = name.base
  BY <1>1, <1>2, <1>7, AppendProperties
<1>9. name.base.number = Len(given[dir]) + 1 /\ name.base.suffix = suffix /\ name.base.slug = slug
  BY <1>1
<1>10. Located(after, dir, NoSuffix)
  <2>1. Located(given, dir, NoSuffix) => Located(after, dir, NoSuffix)
    BY <1>0, NamesKept
  <2> QED BY <1>0, <2>1
<1>11. ASSUME NEW j \in 1 .. Len(path)
       PROVE  /\ SubSeq(path, 1, j - 1) \in DOMAIN after
              /\ path[j].base.number \in 1 .. Len(after[SubSeq(path, 1, j - 1)])
              /\ path[j].base = after[SubSeq(path, 1, j - 1)][path[j].base.number]
              /\ path[j].base.suffix = IF j = Len(path) THEN suffix ELSE NoSuffix
  <2>1. CASE j = n + 1
    <3>1. SubSeq(path, 1, j - 1) = dir /\ path[j] = name
      <4>1. n \in 0 .. n /\ j - 1 = n
        BY <1>2, <2>1
      <4> QED BY <1>4, <1>5, <1>6, <2>1, <4>1
    <3>2. Len(given[dir]) + 1 \in 1 .. Len(after[dir])
      BY <1>2, <1>8
    <3> QED BY <1>4, <1>7, <1>8, <1>9, <2>1, <3>1, <3>2
  <2>2. CASE j # n + 1
    <3>1. j \in 1 .. n /\ j - 1 \in 0 .. n /\ j # Len(path)
      BY <1>2, <1>4, <2>2
    <3>2. path[j] = dir[j] /\ SubSeq(path, 1, j - 1) = SubSeq(dir, 1, j - 1)
      BY <1>4, <1>5, <3>1
    <3>3. /\ SubSeq(dir, 1, j - 1) \in DOMAIN after
          /\ dir[j].base.number \in 1 .. Len(after[SubSeq(dir, 1, j - 1)])
          /\ dir[j].base = after[SubSeq(dir, 1, j - 1)][dir[j].base.number]
          /\ dir[j].base.suffix = NoSuffix
      BY <1>10, <3>1 DEF Located
    <3> QED BY <3>1, <3>2, <3>3
  <2> QED BY <2>1, <2>2
<1>12. Located(after, path, suffix)
  BY <1>4, <1>11 DEF Located
<1>13. ASSUME NEW s, Located(given, path, s) PROVE FALSE
  <2>1. n + 1 \in 1 .. Len(path) /\ (n + 1) - 1 = n /\ n \in 0 .. n
    BY <1>2, <1>4
  <2>2. SubSeq(path, 1, n) = dir
    BY <1>5, <1>6, <2>1
  <2>3. path[n + 1].base.number \in 1 .. Len(given[dir])
    BY <1>13, <2>1, <2>2 DEF Located
  <2> QED BY <1>2, <1>4, <1>9, <2>3
<1>14. SubSeq(path, 1, n) = dir
  <2>1. n \in 0 .. n
    BY <1>2
  <2> QED BY <1>5, <1>6, <2>1
<1> QED BY <1>2, <1>4, <1>9, <1>12, <1>13, <1>14

(* A directory more: the path of a heading, with no names in it yet.       *)
LEMMA WithIs ==
  ASSUME NEW f, NEW key, NEW value
  PROVE  /\ DOMAIN With(f, key, value) = DOMAIN f \cup {key}
         /\ With(f, key, value)[key] = value
         /\ \A k \in DOMAIN f : k # key => With(f, key, value)[k] = f[k]
  BY DEF With

LEMMA DirAdded ==
  ASSUME NEW given, DirsOK(given), NEW dir \in DOMAIN given, NEW slug \in Texts,
         NEW after, after = AfterName(given, dir, slug, NoSuffix),
         NEW path, path = NewPath(given, dir, slug, NoSuffix),
         NEW more, more = With(after, path, <<>>)
  PROVE  /\ DirsOK(more) /\ path \notin DOMAIN given
         /\ \A p, s : Located(given, p, s) => Located(more, p, s)
         /\ \A d : d \in DOMAIN more <=> d \in DOMAIN given \/ d = path
         /\ more[path] = <<>> /\ \A d \in DOMAIN given : more[d] = after[d]
<1>1. NamesOK(given) /\ \A d \in DOMAIN given : Located(given, d, NoSuffix)
  BY DEF DirsOK
<1>2. NamesOK(after) /\ DOMAIN after = DOMAIN given
      /\ \A p, s : Located(given, p, s) => Located(after, p, s)
  BY <1>1, NamesKept
<1>3. Located(after, path, NoSuffix) /\ path \in Seq(GivenName) /\ \A s : ~Located(given, path, s)
  BY PathIs
<1>4. path \notin DOMAIN given
  BY <1>1, <1>3
<1>5. DOMAIN more = DOMAIN given \cup {path} /\ more[path] = <<>>
      /\ \A d \in DOMAIN given : more[d] = after[d]
  <2>1. DOMAIN more = DOMAIN after \cup {path} /\ more[path] = <<>>
        /\ \A d \in DOMAIN after : d # path => more[d] = after[d]
    BY DEF With
  <2>2. DOMAIN after = DOMAIN given
    BY <1>2
  <2>3. DOMAIN more = DOMAIN given \cup {path}
    BY <2>1, <2>2
  <2>4. \A d \in DOMAIN given : d # path
    BY <1>4
  <2> QED BY <2>1, <2>2, <2>3, <2>4
<1>6. NamesOK(more)
  <2>1. <<>> \in Seq(Base) /\ Len(<<>>) = 0
    OBVIOUS
  <2>2. \A d \in DOMAIN more : /\ d \in Seq(GivenName) /\ more[d] \in Seq(Base)
                               /\ \A k \in 1 .. Len(more[d]) : more[d][k].number = k
    <3> SUFFICES ASSUME NEW d \in DOMAIN more
                 PROVE  /\ d \in Seq(GivenName) /\ more[d] \in Seq(Base)
                        /\ \A k \in 1 .. Len(more[d]) : more[d][k].number = k
      OBVIOUS
    <3>1. CASE d = path
      <4>1. more[d] = <<>> /\ d \in Seq(GivenName)
        BY <1>3, <1>5, <3>1
      <4>2. more[d] \in Seq(Base) /\ Len(more[d]) = 0
        BY <2>1, <4>1
      <4>3. 1 .. Len(more[d]) = {}
        BY <4>2
      <4> QED BY <4>1, <4>2, <4>3
    <3>2. CASE d # path
      <4>1. d \in DOMAIN given /\ d \in DOMAIN after /\ more[d] = after[d]
        BY <1>2, <1>5, <3>2
      <4> QED BY <1>2, <4>1 DEF NamesOK
    <3> QED BY <3>1, <3>2
  <2> QED BY <1>2, <1>5, <2>2 DEF NamesOK
<1>7. ASSUME NEW p, NEW s, Located(after, p, s) PROVE Located(more, p, s)
  BY <1>2, <1>5, <1>7 DEF Located
<1>8. \A d \in DOMAIN more : Located(more, d, NoSuffix)
  BY <1>1, <1>2, <1>3, <1>5, <1>7
<1> QED BY <1>2, <1>4, <1>5, <1>6, <1>7, <1>8 DEF DirsOK

LEMMA FileNamed ==
  ASSUME NEW given, DirsOK(given), NEW dir \in DOMAIN given, NEW slug \in Texts,
         NEW suffix \in {NoSuffix, ".md"}, NEW after, after = AfterName(given, dir, slug, suffix)
  PROVE  DirsOK(after)
<1>1. NamesOK(given) /\ \A d \in DOMAIN given : Located(given, d, NoSuffix)
  BY DEF DirsOK
<1>2. NamesOK(after) /\ DOMAIN after = DOMAIN given
      /\ \A p, s : Located(given, p, s) => Located(after, p, s)
  BY <1>1, NamesKept
<1> QED BY <1>1, <1>2 DEF DirsOK

-----------------------------------------------------------------------------
(* The order of a walk.                                                    *)
NumbersOf(p) == \A k \in 1 .. Len(p) : p[k].base.number \in Nat

LEMMA PathFields ==
  ASSUME NEW p \in Seq(GivenName)
  PROVE  /\ Len(p) \in Nat /\ DOMAIN p = 1 .. Len(p) /\ NumbersOf(p)
         /\ \A k \in 1 .. Len(p) : /\ p[k] = [base |-> p[k].base, copy |-> 1]
                                   /\ p[k].base \in Base
<1>1. Len(p) \in Nat /\ DOMAIN p = 1 .. Len(p) /\ \A k \in 1 .. Len(p) : p[k] \in GivenName
  OBVIOUS
<1>2. \A x \in GivenName : x = [base |-> x.base, copy |-> 1] /\ x.base \in Base
  BY DEF GivenName
<1>3. \A x \in Base : x.number \in Nat
  BY DEF Base
<1> QED BY <1>1, <1>2, <1>3 DEF NumbersOf

LEMMA WalkedOnce ==
  ASSUME NEW p \in Seq(GivenName), NEW q \in Seq(GivenName), WalkedBefore(p, q)
  PROVE  ~WalkedBefore(q, p)
<1> SUFFICES ASSUME WalkedBefore(q, p) PROVE FALSE
  OBVIOUS
<1>1. /\ Len(p) \in Nat /\ DOMAIN p = 1 .. Len(p) /\ NumbersOf(p)
      /\ Len(q) \in Nat /\ DOMAIN q = 1 .. Len(q) /\ NumbersOf(q)
  BY PathFields
<1>2. PICK k \in DOMAIN p \cap DOMAIN q :
         /\ \A j \in 1 .. k - 1 : p[j] = q[j]
         /\ p[k].base.number < q[k].base.number
  BY DEF WalkedBefore
<1>3. PICK l \in DOMAIN q \cap DOMAIN p :
         /\ \A j \in 1 .. l - 1 : q[j] = p[j]
         /\ q[l].base.number < p[l].base.number
  BY DEF WalkedBefore
<1>4. /\ k \in 1 .. Len(p) /\ l \in 1 .. Len(p) /\ k \in 1 .. Len(q) /\ l \in 1 .. Len(q)
      /\ p[k].base.number \in Nat /\ q[k].base.number \in Nat
      /\ p[l].base.number \in Nat /\ q[l].base.number \in Nat
  BY <1>1, <1>2, <1>3 DEF NumbersOf
<1>5. CASE k < l
  <2>1. k \in 1 .. l - 1
    BY <1>4, <1>5
  <2>2. q[k] = p[k]
    BY <1>3, <2>1
  <2> QED BY <1>2, <1>4, <2>2
<1>6. CASE l < k
  <2>1. l \in 1 .. k - 1
    BY <1>4, <1>6
  <2>2. q[l] = p[l]
    BY <1>2, <2>1
  <2> QED BY <1>3, <1>4, <2>2
<1>7. CASE k = l
  BY <1>2, <1>3, <1>4, <1>7
<1> QED BY <1>4, <1>5, <1>6, <1>7

LEMMA WalkedOn ==
  ASSUME NEW p \in Seq(GivenName), NEW q \in Seq(GivenName), NEW r \in Seq(GivenName),
         WalkedBefore(p, q), WalkedBefore(q, r)
  PROVE  WalkedBefore(p, r)
<1>1. /\ Len(p) \in Nat /\ DOMAIN p = 1 .. Len(p) /\ NumbersOf(p)
      /\ Len(q) \in Nat /\ DOMAIN q = 1 .. Len(q) /\ NumbersOf(q)
      /\ Len(r) \in Nat /\ DOMAIN r = 1 .. Len(r) /\ NumbersOf(r)
  BY PathFields
<1>2. PICK k \in DOMAIN p \cap DOMAIN q :
         /\ \A j \in 1 .. k - 1 : p[j] = q[j]
         /\ p[k].base.number < q[k].base.number
  BY DEF WalkedBefore
<1>3. PICK l \in DOMAIN q \cap DOMAIN r :
         /\ \A j \in 1 .. l - 1 : q[j] = r[j]
         /\ q[l].base.number < r[l].base.number
  BY DEF WalkedBefore
<1>4. k \in 1 .. Len(p) /\ k \in 1 .. Len(q) /\ l \in 1 .. Len(q) /\ l \in 1 .. Len(r)
  BY <1>1, <1>2, <1>3
<1>5. CASE k < l
  <2>1. k \in 1 .. Len(r) /\ k \in 1 .. l - 1 /\ \A j \in 1 .. k - 1 : j \in 1 .. l - 1
    BY <1>1, <1>4, <1>5
  <2>2. r[k] = q[k] /\ \A j \in 1 .. k - 1 : p[j] = r[j]
    BY <1>2, <1>3, <2>1
  <2> QED BY <1>1, <1>2, <2>1, <2>2 DEF WalkedBefore
<1>6. CASE l < k
  <2>1. l \in 1 .. Len(p) /\ l \in 1 .. k - 1 /\ \A j \in 1 .. l - 1 : j \in 1 .. k - 1
    BY <1>1, <1>4, <1>6
  <2>2. p[l] = q[l] /\ \A j \in 1 .. l - 1 : p[j] = r[j]
    BY <1>2, <1>3, <2>1
  <2> QED BY <1>1, <1>3, <1>4, <2>1, <2>2 DEF WalkedBefore
<1>7. CASE k = l
  <2>1. \A j \in 1 .. k - 1 : p[j] = r[j]
    BY <1>2, <1>3, <1>7
  <2>2. p[k].base.number \in Nat /\ q[k].base.number \in Nat /\ r[k].base.number \in Nat
    BY <1>1, <1>4, <1>7 DEF NumbersOf
  <2>3. p[k].base.number < r[k].base.number
    BY <1>2, <1>3, <1>7, <2>2
  <2> QED BY <1>1, <1>4, <1>7, <2>1, <2>3 DEF WalkedBefore
<1> QED BY <1>4, <1>5, <1>6, <1>7

(* Two files: one of them is walked before the other.                      *)
LEMMA WalkedApart ==
  ASSUME NEW given, NEW p, NEW q, p # q, p # <<>>, q # <<>>,
         Located(given, p, ".md"), Located(given, q, ".md")
  PROVE  WalkedBefore(p, q) \/ WalkedBefore(q, p)
<1>1. p \in Seq(GivenName) /\ q \in Seq(GivenName)
  BY DEF Located
<1>2. /\ Len(p) \in Nat /\ DOMAIN p = 1 .. Len(p) /\ NumbersOf(p)
      /\ Len(q) \in Nat /\ DOMAIN q = 1 .. Len(q) /\ NumbersOf(q)
      /\ \A k \in 1 .. Len(p) : p[k] = [base |-> p[k].base, copy |-> 1]
      /\ \A k \in 1 .. Len(q) : q[k] = [base |-> q[k].base, copy |-> 1]
      /\ Len(p) # 0 /\ Len(q) # 0
  BY <1>1, PathFields
<1>3. NoSuffix # ".md"
  BY Zenon DEF NoSuffix
<1> DEFINE K == {k \in Nat : k \in 1 .. Len(p) /\ k \in 1 .. Len(q) /\ p[k] # q[k]}
<1>4. CASE K = {}
  <2>1. \A k \in 1 .. Len(p) : k \in 1 .. Len(q) => p[k] = q[k]
    BY <1>2, <1>4
  <2>0. \A a, b \in Nat : /\ a = b \/ a < b \/ b < a
                          /\ a < b /\ a # 0 => a \in 1 .. a /\ a \in 1 .. b /\ a # b
    OBVIOUS
  <2>2. CASE Len(p) = Len(q)
    BY <1>1, <2>1, <2>2, SeqEqual
  <2>3. CASE Len(p) < Len(q)
    <3>1. Len(p) \in 1 .. Len(p) /\ Len(p) \in 1 .. Len(q) /\ Len(p) # Len(q)
      BY <1>2, <2>0, <2>3
    <3>2. p[Len(p)].base.suffix = ".md" /\ q[Len(p)].base.suffix = NoSuffix
      BY <3>1 DEF Located
    <3> QED BY <1>3, <2>1, <3>1, <3>2
  <2>4. CASE Len(q) < Len(p)
    <3>1. Len(q) \in 1 .. Len(p) /\ Len(q) \in 1 .. Len(q) /\ Len(p) # Len(q)
      BY <1>2, <2>0, <2>4
    <3>2. q[Len(q)].base.suffix = ".md" /\ p[Len(q)].base.suffix = NoSuffix
      BY <3>1 DEF Located
    <3> QED BY <1>3, <2>1, <3>1, <3>2
  <2> QED BY <1>2, <2>0, <2>2, <2>3, <2>4
<1>5. CASE K # {}
  <2>1. PICK k \in K : \A j \in K : k <= j
    <3>1. K \in SUBSET Nat
      OBVIOUS
    <3> HIDE DEF K
    <3> QED BY <1>5, <3>1, Least
  <2>2. k \in 1 .. Len(p) /\ k \in 1 .. Len(q) /\ p[k] # q[k] /\ k \in Nat
    BY <2>1
  <2>3. \A j \in 1 .. k - 1 : p[j] = q[j]
    <3> SUFFICES ASSUME NEW j \in 1 .. k - 1, p[j] # q[j] PROVE FALSE
      OBVIOUS
    <3>1. j \in Nat /\ j \in 1 .. Len(p) /\ j \in 1 .. Len(q) /\ ~(k <= j)
      BY <1>2, <2>2
    <3>2. j \in K
      BY <3>1
    <3> QED BY <2>1, <3>1, <3>2
  <2> DEFINE d == SubSeq(p, 1, k - 1)
             e == SubSeq(q, 1, k - 1)
  <2>4. d = e
    <3>1. k - 1 \in 0 .. Len(p) /\ k - 1 \in 0 .. Len(q)
      BY <1>2, <2>2
    <3>2. \A j \in 1 .. k - 1 : p[j] \in GivenName /\ q[j] \in GivenName
      BY <1>1, <1>2, <2>2
    <3>3. d \in Seq(GivenName) /\ Len(d) = k - 1 /\ \A j \in 1 .. k - 1 : d[j] = p[j]
      BY <1>1, <3>1, <3>2, SubSeqProperties
    <3>4. e \in Seq(GivenName) /\ Len(e) = k - 1 /\ \A j \in 1 .. k - 1 : e[j] = q[j]
      BY <1>1, <3>1, <3>2, SubSeqProperties
    <3> HIDE DEF d, e
    <3> QED BY <2>3, <3>3, <3>4, SeqEqual
  <2>5. p[k].base = given[d][p[k].base.number] /\ q[k].base = given[e][q[k].base.number]
    BY <2>2 DEF Located
  <2>6. p[k].base.number # q[k].base.number
    <3> SUFFICES ASSUME p[k].base.number = q[k].base.number PROVE FALSE
      OBVIOUS
    <3> HIDE DEF d, e
    <3>1. p[k].base = q[k].base
      BY <2>4, <2>5
    <3>2. p[k] = q[k]
      BY <1>2, <2>2, <3>1
    <3> QED BY <2>2, <3>2
  <2>7. p[k].base.number \in Nat /\ q[k].base.number \in Nat
    BY <1>2, <2>2 DEF NumbersOf
  <2>8. p[k].base.number < q[k].base.number \/ q[k].base.number < p[k].base.number
    BY <2>6, <2>7
  <2>9. k \in DOMAIN p \cap DOMAIN q /\ k \in DOMAIN q \cap DOMAIN p
        /\ \A j \in 1 .. k - 1 : q[j] = p[j]
    BY <1>2, <2>2, <2>3
  <2> QED BY <2>3, <2>8, <2>9 DEF WalkedBefore
<1> QED BY <1>4, <1>5

(* A finite set of files can be listed in the order of a walk.             *)
Apart(F) ==
  /\ IsFiniteSet(F) /\ F \subseteq Seq(GivenName)
  /\ \A p, q \in F : p # q => WalkedBefore(p, q) \/ WalkedBefore(q, p)

Below(F, p) == {q \in F : WalkedBefore(q, p)}

LEMMA BelowRises ==
  ASSUME NEW F, Apart(F), NEW p \in F, NEW q \in F, WalkedBefore(p, q)
  PROVE  /\ Cardinality(Below(F, p)) \in Nat /\ Cardinality(Below(F, q)) \in Nat
         /\ Cardinality(Below(F, p)) < Cardinality(Below(F, q))
<1>1. IsFiniteSet(F) /\ F \subseteq Seq(GivenName)
  BY DEF Apart
<1>2. Below(F, p) \in SUBSET F /\ Below(F, q) \in SUBSET F
  BY DEF Below
<1>3. IsFiniteSet(Below(F, p)) /\ IsFiniteSet(Below(F, q))
  BY <1>1, <1>2, FS_Subset
<1>4. ASSUME NEW r \in Below(F, p) PROVE r \in Below(F, q)
  <2>1. r \in F /\ WalkedBefore(r, p)
    BY DEF Below
  <2>2. WalkedBefore(r, q)
    BY <1>1, <2>1, WalkedOn
  <2> QED BY <2>1, <2>2 DEF Below
<1>5. p \in Below(F, q) /\ p \notin Below(F, p)
  BY <1>1, WalkedOnce DEF Below
<1>6. Below(F, p) \in SUBSET Below(F, q) /\ Below(F, p) # Below(F, q)
  BY <1>4, <1>5
<1>7. /\ Cardinality(Below(F, p)) <= Cardinality(Below(F, q))
      /\ Cardinality(Below(F, p)) # Cardinality(Below(F, q))
  BY <1>3, <1>6, FS_Subset
<1>8. Cardinality(Below(F, p)) \in Nat /\ Cardinality(Below(F, q)) \in Nat
  BY <1>3, FS_CardinalityType
<1> QED BY <1>7, <1>8

LEMMA BelowFew ==
  ASSUME NEW F, Apart(F), NEW p \in F
  PROVE  Cardinality(Below(F, p)) \in Nat /\ Cardinality(Below(F, p)) + 1 \in 1 .. Cardinality(F)
<1>1. IsFiniteSet(F) /\ F \subseteq Seq(GivenName)
  BY DEF Apart
<1>2. Below(F, p) \in SUBSET (F \ {p})
  BY <1>1, WalkedOnce DEF Below
<1>3. IsFiniteSet(F \ {p}) /\ Cardinality(F \ {p}) = Cardinality(F) - 1
  BY <1>1, FS_RemoveElement
<1>4. IsFiniteSet(Below(F, p)) /\ Cardinality(Below(F, p)) <= Cardinality(F \ {p})
  BY <1>2, <1>3, FS_Subset
<1>5. Cardinality(Below(F, p)) \in Nat /\ Cardinality(F) \in Nat
  BY <1>1, <1>4, FS_CardinalityType
<1> QED BY <1>3, <1>4, <1>5

Walk(F, paths) ==
  /\ paths \in SetToSeqs(F)
  /\ \A j, k \in DOMAIN paths : j < k => WalkedBefore(paths[j], paths[k])

LEMMA WalkExists ==
  ASSUME NEW F, Apart(F)
  PROVE  \E paths : Walk(F, paths)
<1> DEFINE n == Cardinality(F)
           rank == [p \in F |-> Cardinality(Below(F, p)) + 1]
           paths == [k \in 1 .. n |-> CHOOSE p \in F : rank[p] = k]
<1>1. IsFiniteSet(F) /\ F \subseteq Seq(GivenName) /\ n \in Nat
  BY FS_CardinalityType DEF Apart
<1>2. \A p \in F : rank[p] = Cardinality(Below(F, p)) + 1
  OBVIOUS
<1>3. rank \in [F -> 1 .. n]
  BY BelowFew
<1> HIDE DEF rank, n
<1>4. \A p, q \in F : WalkedBefore(p, q) => rank[p] < rank[q]
  BY <1>2, BelowRises
<1>5. \A p \in F : rank[p] \in Nat
  BY <1>3
<1>6. \A p, q \in F : rank[p] = rank[q] => p = q
  <2> SUFFICES ASSUME NEW p \in F, NEW q \in F, rank[p] = rank[q], p # q PROVE FALSE
    OBVIOUS
  <2>1. WalkedBefore(p, q) \/ WalkedBefore(q, p)
    BY DEF Apart
  <2>2. rank[p] < rank[q] \/ rank[q] < rank[p]
    BY <1>4, <2>1
  <2> QED BY <1>5, <2>2
<1>7. rank \in Injection(F, 1 .. n)
  BY <1>3, <1>6 DEF Injection, IsInjective
<1>8. IsFiniteSet(1 .. n) /\ Cardinality(1 .. n) = n
  BY <1>1, FS_Interval
<1>9. rank \in Surjection(F, 1 .. n)
  BY <1>7, <1>8, FS_Injection DEF n
<1>10. \A k \in 1 .. n : \E p \in F : rank[p] = k
  BY <1>9 DEF Surjection
<1>11. \A k \in 1 .. n : paths[k] \in F /\ rank[paths[k]] = k
  BY <1>10
<1>12. paths \in [1 .. n -> F] /\ DOMAIN paths = 1 .. n
  BY <1>11
<1> HIDE DEF paths
<1>13. \A j, k \in 1 .. n : j # k => paths[j] # paths[k]
  BY <1>11
<1>14. paths \in SetToSeqs(F)
  BY <1>12, <1>13 DEF SetToSeqs, n
<1>15. ASSUME NEW j \in 1 .. n, NEW k \in 1 .. n, j < k PROVE WalkedBefore(paths[j], paths[k])
  <2>1. paths[j] # paths[k] /\ paths[j] \in F /\ paths[k] \in F
    BY <1>11, <1>13, <1>15
  <2>2. WalkedBefore(paths[j], paths[k]) \/ WalkedBefore(paths[k], paths[j])
    BY <2>1 DEF Apart
  <2>3. ~WalkedBefore(paths[k], paths[j])
    <3> SUFFICES ASSUME WalkedBefore(paths[k], paths[j]) PROVE FALSE
      OBVIOUS
    <3>1. rank[paths[k]] < rank[paths[j]]
      BY <1>4, <2>1
    <3>2. k < j
      BY <1>11, <3>1
    <3> QED BY <1>15, <3>2
  <2> QED BY <2>2, <2>3
<1> QED BY <1>12, <1>14, <1>15 DEF Walk

-----------------------------------------------------------------------------
(* The types of the state, and the tree of directories.                    *)
SourceOK ==
  /\ kind \in {"pdf", "docx"} /\ blocks \in Seq(SourceBlock)
  /\ kind = "pdf" =>
        /\ \A i \in 1 .. Len(blocks) :
              blocks[i].type # "table" => blocks[i].caption = 0 /\ blocks[i].footnote = 0
        /\ \A i \in 1 .. Len(blocks) - 1 : blocks[i].page <= blocks[i + 1].page
  /\ kind = "docx" =>
        \A i \in 1 .. Len(blocks) :
           /\ blocks[i].type \in {"paragraph", "table"} /\ blocks[i].level \in 0 .. 9
           /\ blocks[i].type = "table" => blocks[i].level = 0
           /\ blocks[i].caption = 0 /\ blocks[i].footnote = 0

Phases == {"render", "parse", "write", "cut", "published", "refused"}

HtmlOK ==
  /\ phase \in Phases /\ at \in Nat
  /\ html \in Tokenized /\ open \in Seq(1 .. 9) /\ ParserOK(parser)
  /\ phase = "render" => at <= Len(blocks)

SectionsOK ==
  /\ sections \in Seq((0 .. 6) \X Seq(GivenName)) /\ sections # <<>> /\ sections[1] = <<0, <<>>>>
  /\ \A k \in 1 .. Len(sections) : /\ sections[k][2] \in DOMAIN names
                                   /\ k > 1 => sections[k][1] \in 1 .. 6

FilesOK ==
  /\ IsFiniteSet(DOMAIN files)
  /\ \A p \in DOMAIN files : p # <<>> /\ Located(names, p, ".md") /\ files[p] \in Texts

TreeOK == DirsOK(names) /\ SectionsOK /\ FilesOK

Unwritten == sections = <<>> /\ names = <<>> /\ files = <<>>

BuildOK ==
  /\ SourceOK /\ HtmlOK
  /\ phase \in {"render", "parse"} => Unwritten
  /\ phase \notin {"render", "parse"} => TreeOK

-----------------------------------------------------------------------------
(* The first state.                                                        *)
LEMMA PdfSource ==
  ASSUME blocks \in Pdfs
  PROVE  /\ blocks \in Seq(SourceBlock)
         /\ \A i \in 1 .. Len(blocks) :
               blocks[i].type # "table" => blocks[i].caption = 0 /\ blocks[i].footnote = 0
         /\ \A i \in 1 .. Len(blocks) - 1 : blocks[i].page <= blocks[i + 1].page
<1> DEFINE P == {OnPage(b, p) : b \in PdfBlocks, p \in 1 .. MaxPages}
<1>1. PICK n \in 1 .. MaxBlocks : blocks \in [1 .. n -> P]
  BY DEF Pdfs
<1>2. \A i \in 1 .. Len(blocks) - 1 : blocks[i].page <= blocks[i + 1].page
  BY DEF Pdfs
<1>3. PdfBlocks \subseteq SourceBlock /\ MaxBlocks \in Nat /\ MaxPages \in Nat
      /\ \A b \in PdfBlocks : b.type # "table" => b.caption = 0 /\ b.footnote = 0
  BY BlockAssumption
<1>4. ASSUME NEW b \in PdfBlocks, NEW p \in 1 .. MaxPages
      PROVE  OnPage(b, p) \in SourceBlock
             /\ (OnPage(b, p).type # "table" => OnPage(b, p).caption = 0 /\ OnPage(b, p).footnote = 0)
  <2>1. b \in SourceBlock /\ p \in Nat
    BY <1>3
  <2>2. OnPage(b, p) \in SourceBlock
    BY <2>1 DEF OnPage, SourceBlock
  <2>3. OnPage(b, p).type = b.type /\ OnPage(b, p).caption = b.caption
        /\ OnPage(b, p).footnote = b.footnote
    BY <2>1 DEF OnPage, SourceBlock
  <2> QED BY <1>3, <2>2, <2>3
<1>5. \A x \in P : x \in SourceBlock /\ (x.type # "table" => x.caption = 0 /\ x.footnote = 0)
  BY <1>4
<1> HIDE DEF P
<1>6. n \in Nat /\ \A i \in 1 .. n : blocks[i] \in P
  BY <1>1, <1>3
<1>7. blocks = [i \in 1 .. n |-> blocks[i]] /\ \A i \in 1 .. n : blocks[i] \in SourceBlock
  BY <1>1, <1>5, <1>6
<1>8. blocks \in Seq(SourceBlock) /\ Len(blocks) = n
  BY <1>6, <1>7, SeqBy
<1> QED BY <1>2, <1>5, <1>6, <1>8

LEMMA DocxSource ==
  ASSUME blocks \in Docxs
  PROVE  /\ blocks \in Seq(SourceBlock)
         /\ \A i \in 1 .. Len(blocks) :
               /\ blocks[i].type \in {"paragraph", "table"} /\ blocks[i].level \in 0 .. 9
               /\ blocks[i].type = "table" => blocks[i].level = 0
               /\ blocks[i].caption = 0 /\ blocks[i].footnote = 0
<1>1. PICK n \in 1 .. MaxItems : blocks \in [1 .. n -> DocxBlocks]
  BY DEF Docxs
<1>2. DocxBlocks \subseteq SourceBlock /\ MaxItems \in Nat
      /\ \A b \in DocxBlocks : /\ b.type \in {"paragraph", "table"} /\ b.level \in 0 .. 9
                               /\ b.type = "table" => b.level = 0
                               /\ b.caption = 0 /\ b.footnote = 0
  BY BlockAssumption
<1>3. n \in Nat /\ blocks = [i \in 1 .. n |-> blocks[i]] /\ \A i \in 1 .. n : blocks[i] \in DocxBlocks
  BY <1>1, <1>2
<1>4. \A i \in 1 .. n : blocks[i] \in SourceBlock
  BY <1>2, <1>3
<1>5. blocks \in Seq(SourceBlock) /\ Len(blocks) = n
  BY <1>3, <1>4, SeqBy
<1> QED BY <1>2, <1>3, <1>5

LEMMA InitOK == Init => BuildOK
<1> SUFFICES ASSUME Init PROVE BuildOK
  OBVIOUS
<1>1. SourceOK
  <2>1. CASE kind = "pdf" /\ blocks \in Pdfs
    BY <2>1, PdfSource DEF SourceOK
  <2>2. CASE kind = "docx" /\ blocks \in Docxs
    BY <2>2, DocxSource DEF SourceOK
  <2> QED BY <2>1, <2>2 DEF Init
<1>2. phase = "render" /\ at = 0 /\ html = <<>> /\ open = <<>> /\ parser = NewParser
      /\ sections = <<>> /\ names = <<>> /\ files = <<>>
  BY DEF Init
<1>3. ParserOK(parser)
  BY <1>2 DEF ParserOK, NewParser
<1>4. html \in Tokenized /\ open \in Seq(1 .. 9)
  BY <1>2 DEF Tokenized
<1>5. Len(blocks) \in Nat
  BY <1>1 DEF SourceOK
<1>6. HtmlOK
  BY <1>2, <1>3, <1>4, <1>5 DEF HtmlOK, Phases
<1> QED BY <1>1, <1>2, <1>6 DEF BuildOK, Unwritten

-----------------------------------------------------------------------------
(* Rendering.                                                              *)
LEMMA SourceBlocks ==
  ASSUME SourceOK
  PROVE  Len(blocks) \in Nat /\ DOMAIN blocks = 1 .. Len(blocks)
         /\ \A i \in 1 .. Len(blocks) : blocks[i] \in SourceBlock
  BY DEF SourceOK

LEMMA NextBlock ==
  ASSUME BuildOK, Rendering
  PROVE  /\ at + 1 \in 1 .. Len(blocks) /\ at + 1 \in Nat \ {0} /\ at + 1 <= Len(blocks)
         /\ blocks[at + 1] \in SourceBlock
         /\ kind = "docx" => blocks[at + 1].level \in 0 .. 9
<1>1. SourceOK /\ at \in Nat /\ at < Len(blocks)
  BY DEF BuildOK, HtmlOK, Rendering
<1>2. Len(blocks) \in Nat /\ \A i \in 1 .. Len(blocks) : blocks[i] \in SourceBlock
  BY <1>1, SourceBlocks
<1>3. at + 1 \in 1 .. Len(blocks) /\ at + 1 \in Nat \ {0} /\ at + 1 <= Len(blocks)
  BY <1>1, <1>2
<1> QED BY <1>1, <1>2, <1>3 DEF SourceOK

LEMMA SkipOK == ASSUME BuildOK, SkipBlock PROVE BuildOK'
<1>1. /\ Rendering /\ at' = at + 1
      /\ UNCHANGED <<kind, blocks, phase, html, open, parser, sections, names, files>>
  BY DEF SkipBlock
<1>2. at + 1 \in Nat /\ at + 1 <= Len(blocks)
  BY <1>1, NextBlock
<1>3. SourceOK'
  BY <1>1 DEF BuildOK, SourceOK
<1>4. HtmlOK'
  BY <1>1, <1>2 DEF BuildOK, HtmlOK
<1> QED BY <1>1, <1>3, <1>4 DEF BuildOK, Unwritten, Rendering

LEMMA PdfOK == ASSUME BuildOK, RenderPdfBlock PROVE BuildOK'
<1> DEFINE i == at + 1
           b == blocks[i]
           level == HeadingLevel(blocks, b)
           within == PdfSections(open, level)
           first == IF Opens(i) THEN <<Open("section")>> ELSE <<>>
           last == IF Ends(i) THEN CloseSections(Len(within) + 1) ELSE <<>>
<1>1. /\ Rendering /\ at' = i
      /\ html' = html \o first \o PdfStart(open, level) \o RenderBlock(i, b, level) \o last
      /\ open' = IF Ends(i) THEN <<>> ELSE within
      /\ UNCHANGED <<kind, blocks, phase, parser, sections, names, files>>
  BY DEF RenderPdfBlock
<1>2. i \in Nat \ {0} /\ i <= Len(blocks) /\ b \in SourceBlock /\ i \in Nat
  BY <1>1, NextBlock
<1>3. html \in Tokenized /\ open \in Seq(1 .. 9) /\ ParserOK(parser) /\ phase \in Phases
  BY DEF BuildOK, HtmlOK
<1>4. <<>> \in Tokenized /\ <<>> \in Seq(1 .. 9)
  BY DEF Tokenized
<1>5. first \in Tokenized
  <2>1. "section" \in Tag
    BY DEF Tag
  <2>2. <<Open("section")>> \in Tokenized
    BY <2>1, TokenTyped, FewElements DEF Tokenized
  <2> QED BY <1>4, <2>2
<1>6. within \in Seq(1 .. 9) /\ PdfStart(open, level) \in Tokenized
  BY <1>3, StartTyped
<1>7. last \in Tokenized
  <2>1. Len(within) + 1 \in Nat
    BY <1>6
  <2> QED BY <1>4, <2>1, CloseTyped
<1>8. RenderBlock(i, b, level) \in Tokenized
  BY <1>2, BlockTyped
<1> HIDE DEF first, last, within, level, i, b
<1>9. html' \in Tokenized /\ open' \in Seq(1 .. 9)
  BY <1>1, <1>3, <1>4, <1>5, <1>6, <1>7, <1>8, JoinTokens
<1>10. SourceOK'
  BY <1>1 DEF BuildOK, SourceOK
<1>11. HtmlOK'
  BY <1>1, <1>2, <1>3, <1>9 DEF HtmlOK
<1> QED BY <1>1, <1>10, <1>11 DEF BuildOK, Unwritten, Rendering

LEMMA DocxOK == ASSUME BuildOK, RenderDocxBlock PROVE BuildOK'
<1> DEFINE i == at + 1
           b == blocks[i]
<1>1. /\ Rendering /\ at' = i /\ kind = "docx"
      /\ html' = html \o DocxBlock(open, i, b) /\ open' = DocxSections(open, b)
      /\ UNCHANGED <<kind, blocks, phase, parser, sections, names, files>>
  BY DEF RenderDocxBlock
<1>2. i \in Nat \ {0} /\ i <= Len(blocks) /\ b \in SourceBlock /\ i \in Nat /\ b.level \in 0 .. 9
  BY <1>1, NextBlock
<1>3. html \in Tokenized /\ open \in Seq(1 .. 9) /\ ParserOK(parser) /\ phase \in Phases
  BY DEF BuildOK, HtmlOK
<1> HIDE DEF i, b
<1>4. DocxBlock(open, i, b) \in Tokenized /\ DocxSections(open, b) \in Seq(1 .. 9)
  BY <1>2, <1>3, DocxTyped
<1>5. html' \in Tokenized /\ open' \in Seq(1 .. 9)
  BY <1>1, <1>3, <1>4, JoinTokens
<1>6. SourceOK'
  BY <1>1 DEF BuildOK, SourceOK
<1>7. HtmlOK'
  BY <1>1, <1>2, <1>3, <1>5 DEF HtmlOK
<1> QED BY <1>1, <1>6, <1>7 DEF BuildOK, Unwritten, Rendering

LEMMA FinishOK == ASSUME BuildOK, FinishHtml PROVE BuildOK'
<1>1. /\ phase = "render" /\ phase' = "parse" /\ at' = 0 /\ open' = <<>>
      /\ html' = Shell \o html \o CloseSections(Len(open)) \o ShellEnd
      /\ UNCHANGED <<kind, blocks, parser, sections, names, files>>
  BY DEF FinishHtml
<1>2. html \in Tokenized /\ Len(open) \in Nat /\ ParserOK(parser)
  BY DEF BuildOK, HtmlOK
<1>3. html' \in Tokenized
  BY <1>1, <1>2, ShellTyped, CloseTyped, JoinTokens
<1>4. SourceOK'
  BY <1>1 DEF BuildOK, SourceOK
<1>5. HtmlOK'
  BY <1>1, <1>2, <1>3 DEF HtmlOK, Phases
<1> QED BY <1>1, <1>4, <1>5 DEF BuildOK, Unwritten

LEMMA ParseOK == ASSUME BuildOK, Parse PROVE BuildOK'
<1>1. /\ phase = "parse" /\ at < Len(html) /\ at' = at + 1 /\ parser' = Feed(parser, html[at + 1])
      /\ UNCHANGED <<kind, blocks, phase, html, open, sections, names, files>>
  BY DEF Parse
<1>2. html \in Seq(TokenSet) /\ at \in Nat /\ ParserOK(parser)
  BY DEF BuildOK, HtmlOK, Tokenized
<1>3. html[at + 1] \in TokenSet
  BY <1>1, <1>2
<1>4. ParserOK(parser')
  BY <1>1, <1>2, <1>3, FeedTyped
<1>5. SourceOK'
  BY <1>1 DEF BuildOK, SourceOK
<1>6. HtmlOK'
  BY <1>1, <1>2, <1>4 DEF BuildOK, HtmlOK
<1> QED BY <1>1, <1>5, <1>6 DEF BuildOK, Unwritten

-----------------------------------------------------------------------------
(* Writing: the node to be written next, and the sections that stay open   *)
(* above a heading.                                                        *)
LEMMA NextNodeIs ==
  ASSUME HtmlOK, at < Len(BlockNodes(parser.nodes))
  PROVE  /\ NextNode \in 1 .. Len(parser.nodes) /\ parser.nodes \in Seq(NodeSet)
         /\ NextNode \in Range(BlockNodes(parser.nodes))
<1> DEFINE x == BlockNodes(parser.nodes)
<1>1. parser.nodes \in Seq(NodeSet) /\ Len(parser.nodes) \in Nat /\ at \in Nat
  BY ParserFields DEF HtmlOK
<1>2. x \in Seq(Nat) /\ \A m : m \in Range(x) => m \in 1 .. Len(parser.nodes)
  BY <1>1, InOrderIs DEF BlockNodes
<1> HIDE DEF x
<1>3. at + 1 \in DOMAIN x
  BY <1>1, <1>2 DEF x
<1>4. x[at + 1] \in Range(x)
  BY <1>3 DEF Range
<1> QED BY <1>1, <1>2, <1>4 DEF NextNode, x

LEMMA LevelIs ==
  ASSUME NEW tag \in HeadingTags
  PROVE  LevelOf(tag) \in 1 .. 6 /\ HeadingTag[LevelOf(tag)] = tag
<1>1. \E l \in 1 .. 6 : HeadingTag[l] = tag
  BY DEF HeadingTags
<1> QED BY <1>1 DEF LevelOf

LEMMA AboveIs ==
  ASSUME SectionsOK, NEW level \in 1 .. 6
  PROVE  \E m \in 1 .. Len(sections) :
            /\ Above(level) = SubSeq(sections, 1, m)
            /\ Above(level) \in Seq((0 .. 6) \X Seq(GivenName)) /\ Len(Above(level)) = m
            /\ \A k \in 1 .. m : Above(level)[k] = sections[k]
            /\ sections[m][1] < level
            /\ \A k \in (m + 1) .. Len(sections) : ~(sections[k][1] < level)
<1> DEFINE S == {k \in DOMAIN sections : sections[k][1] < level} \cup {0}
<1>1. /\ sections \in Seq((0 .. 6) \X Seq(GivenName)) /\ sections # <<>> /\ sections[1] = <<0, <<>>>>
      /\ Len(sections) \in Nat /\ DOMAIN sections = 1 .. Len(sections) /\ 1 \in 1 .. Len(sections)
  BY DEF SectionsOK
<1>2. S \in SUBSET Nat /\ S # {} /\ \A y \in S : y <= Len(sections)
  BY <1>1
<1>3. 1 \in S
  BY <1>1
<1>4. Max(S) \in S /\ \A y \in S : y <= Max(S)
  BY <1>1, <1>2, Greatest
<1>5. Max(S) \in 1 .. Len(sections) /\ sections[Max(S)][1] < level
  BY <1>2, <1>3, <1>4
<1>6. \A k \in (Max(S) + 1) .. Len(sections) : ~(sections[k][1] < level)
  <2> SUFFICES ASSUME NEW k \in (Max(S) + 1) .. Len(sections), sections[k][1] < level PROVE FALSE
    OBVIOUS
  <2>1. Max(S) \in Nat /\ ~(k <= Max(S)) /\ k \in DOMAIN sections
    BY <1>1, <1>5
  <2>2. k \in S
    BY <2>1
  <2> QED BY <1>4, <2>1, <2>2
<1>7. Above(level) = SubSeq(sections, 1, Max(S))
  BY DEF Above
<1> HIDE DEF S
<1> DEFINE m == Max(S)
<1>8. m \in 1 .. Len(sections) /\ Above(level) = SubSeq(sections, 1, m)
  BY <1>5, <1>7
<1> HIDE DEF m
<1>9. /\ SubSeq(sections, 1, m) \in Seq((0 .. 6) \X Seq(GivenName))
      /\ Len(SubSeq(sections, 1, m)) = m /\ \A k \in 1 .. m : SubSeq(sections, 1, m)[k] = sections[k]
  BY <1>1, <1>8, SubSeqProperties
<1> QED BY <1>5, <1>6, <1>8, <1>9 DEF m

LEMMA StartWritingOK == ASSUME BuildOK, StartWriting PROVE BuildOK'
<1>1. /\ phase = "parse" /\ phase' = "write" /\ at' = 0
      /\ sections' = <<<<0, <<>>>>>> /\ names' = With(<<>>, <<>>, <<>>)
      /\ UNCHANGED <<kind, blocks, html, open, parser, files>>
  BY DEF StartWriting
<1>2. SourceOK' /\ HtmlOK'
  BY <1>1 DEF BuildOK, SourceOK, HtmlOK, Phases
<1>3. DOMAIN names' = {<<>>} /\ names'[<<>>] = <<>>
  BY <1>1 DEF With
<1>4. DirsOK(names')
  <2>1. <<>> \in Seq(GivenName) /\ <<>> \in Seq(Base) /\ Len(<<>>) = 0
    OBVIOUS
  <2>2. NamesOK(names')
    <3>1. \A d \in DOMAIN names' : d = <<>> /\ names'[d] = <<>>
      BY <1>3
    <3>2. \A d \in DOMAIN names' :
             /\ d \in Seq(GivenName) /\ names'[d] \in Seq(Base)
             /\ \A k \in 1 .. Len(names'[d]) : names'[d][k].number = k
      <4> SUFFICES ASSUME NEW d \in DOMAIN names'
                   PROVE  /\ d \in Seq(GivenName) /\ names'[d] \in Seq(Base)
                          /\ \A k \in 1 .. Len(names'[d]) : names'[d][k].number = k
        OBVIOUS
      <4>1. d = <<>> /\ names'[d] = <<>>
        BY <3>1
      <4>2. \A k \in 1 .. Len(names'[d]) : FALSE
        BY <2>1, <4>1
      <4> QED BY <2>1, <4>1, <4>2
    <3> QED BY <1>3, <3>2 DEF NamesOK
  <2>3. Located(names', <<>>, NoSuffix)
    BY <2>1 DEF Located
  <2> QED BY <1>3, <2>2, <2>3 DEF DirsOK
<1>5. SectionsOK'
  <2>1. <<0, <<>>>> \in (0 .. 6) \X Seq(GivenName)
    <3>1. 0 \in 0 .. 6 /\ <<>> \in Seq(GivenName)
      OBVIOUS
    <3> QED BY <3>1, Zenon
  <2>2. sections' \in Seq((0 .. 6) \X Seq(GivenName)) /\ sections' # <<>>
        /\ sections'[1] = <<0, <<>>>> /\ Len(sections') = 1
    BY <1>1, <2>1, FewElements
  <2> QED BY <1>3, <2>2 DEF SectionsOK
<1>6. FilesOK'
  <2>1. files' = <<>> /\ DOMAIN files' = {}
    BY <1>1 DEF BuildOK, Unwritten
  <2> QED BY <2>1, FS_EmptySet DEF FilesOK
<1> QED BY <1>1, <1>2, <1>4, <1>5, <1>6 DEF BuildOK, TreeOK

LEMMA DirMade ==
  ASSUME DirsOK(names), NEW dir \in DOMAIN names, NEW slug \in Texts,
         NEW after, after = AfterName(names, dir, slug, NoSuffix),
         NEW path, path = NewPath(names, dir, slug, NoSuffix),
         names' = With(after, path, <<>>)
  PROVE  /\ DirsOK(names') /\ \A d : d \in DOMAIN names' <=> d \in DOMAIN names \/ d = path
         /\ \A p, s : Located(names, p, s) => Located(names', p, s)
         /\ path \in Seq(GivenName) /\ path \notin DOMAIN names
<1>1. PICK more : more = With(after, path, <<>>)
  OBVIOUS
<1>2. /\ DirsOK(more) /\ \A d : d \in DOMAIN more <=> d \in DOMAIN names \/ d = path
      /\ \A p, s : Located(names, p, s) => Located(more, p, s)
      /\ path \notin DOMAIN names
  BY <1>1, DirAdded
<1>3. path \in Seq(GivenName)
  BY PathIs
<1>4. names' = more
  BY <1>1
<1> QED BY <1>2, <1>3, <1>4

LEMMA HeadingOK == ASSUME BuildOK, WriteHeading PROVE BuildOK'
<1> DEFINE n == NextNode
           level == LevelOf(parser.nodes[n].tag)
           above == Above(level)
           dir == Last(above)[2]
           slug == SlugText(NodeText(parser.nodes, n))
           path == NewPath(names, dir, slug, NoSuffix)
           after == AfterName(names, dir, slug, NoSuffix)
<1>1. /\ phase = "write" /\ at < Len(BlockNodes(parser.nodes))
      /\ parser.nodes[n].tag \in HeadingTags
      /\ names' = With(after, path, <<>>) /\ sections' = Append(above, <<level, path>>)
      /\ at' = at + 1
      /\ UNCHANGED <<kind, blocks, phase, html, open, parser, files>>
  BY DEF WriteHeading, Writing, NewPath, AfterName, NewName
<1>2. SourceOK /\ HtmlOK /\ DirsOK(names) /\ SectionsOK /\ FilesOK
  BY <1>1 DEF BuildOK, TreeOK
<1>3. n \in 1 .. Len(parser.nodes) /\ parser.nodes \in Seq(NodeSet)
  BY <1>1, <1>2, NextNodeIs
<1>4. slug \in Texts
  BY <1>3, NodeTextIs, SlugTyped
<1>5. level \in 1 .. 6
  BY <1>1, LevelIs
<1> HIDE DEF n, level, slug
<1>6. PICK m \in 1 .. Len(sections) :
            /\ above \in Seq((0 .. 6) \X Seq(GivenName)) /\ Len(above) = m
            /\ \A k \in 1 .. m : above[k] = sections[k]
  BY <1>2, <1>5, AboveIs
<1> HIDE DEF above
<1>7. Last(above) = sections[m] /\ dir \in DOMAIN names
  BY <1>2, <1>6 DEF Last, SectionsOK
<1>71. path = NewPath(names, dir, slug, NoSuffix) /\ after = AfterName(names, dir, slug, NoSuffix)
  OBVIOUS
<1> HIDE DEF dir, path, after
<1>8. DirsOK(names') /\ (\A d : d \in DOMAIN names' <=> d \in DOMAIN names \/ d = path)
      /\ \A p, s : Located(names, p, s) => Located(names', p, s)
  <2>1. names' = With(after, path, <<>>)
    BY <1>1, <1>71
  <2> QED BY <1>2, <1>4, <1>7, <1>71, <2>1, DirMade
<1>9. path \in Seq(GivenName)
  BY <1>2, <1>4, <1>7, <1>71, PathIs
<1>10. SectionsOK'
  <2>1. <<level, path>> \in (0 .. 6) \X Seq(GivenName)
    BY <1>5, <1>9
  <2>2. /\ sections' \in Seq((0 .. 6) \X Seq(GivenName)) /\ Len(sections') = m + 1
        /\ sections'[m + 1] = <<level, path>> /\ \A k \in 1 .. m : sections'[k] = above[k]
    BY <1>1, <1>6, <2>1, AppendProperties
  <2>3. sections[1] = <<0, <<>>>> /\ \A k \in 1 .. Len(sections) :
           sections[k][2] \in DOMAIN names /\ (k > 1 => sections[k][1] \in 1 .. 6)
    BY <1>2 DEF SectionsOK
  <2>4. m \in Nat /\ 1 \in 1 .. m
        /\ \A k \in 1 .. m + 1 : k = m + 1 \/ (k \in 1 .. m /\ k \in 1 .. Len(sections))
    BY <1>6
  <2>5. \A k \in 1 .. m + 1 : sections'[k][2] \in DOMAIN names' /\ (k > 1 => sections'[k][1] \in 1 .. 6)
    <3> SUFFICES ASSUME NEW k \in 1 .. m + 1
                 PROVE  sections'[k][2] \in DOMAIN names' /\ (k > 1 => sections'[k][1] \in 1 .. 6)
      OBVIOUS
    <3>1. CASE k = m + 1
      BY <1>5, <1>8, <2>2, <3>1
    <3>2. CASE k \in 1 .. m /\ k \in 1 .. Len(sections)
      BY <1>6, <1>8, <2>2, <2>3, <3>2
    <3> QED BY <2>4, <3>1, <3>2
  <2>6. sections'[1] = <<0, <<>>>> /\ sections' # <<>>
    BY <1>6, <2>2, <2>3, <2>4
  <2> QED BY <2>2, <2>5, <2>6 DEF SectionsOK
<1>11. FilesOK'
  BY <1>1, <1>2, <1>8 DEF FilesOK
<1>12. SourceOK' /\ HtmlOK'
  BY <1>1, <1>2 DEF SourceOK, HtmlOK
<1> QED BY <1>1, <1>8, <1>10, <1>11, <1>12 DEF BuildOK, TreeOK

LEMMA WriteBlockOK == ASSUME BuildOK, WriteBlock PROVE BuildOK'
<1> DEFINE n == NextNode
           dir == Last(sections)[2]
           slug == Slug(parser.nodes, n)
           path == NewPath(names, dir, slug, ".md")
<1>1. /\ phase = "write" /\ at < Len(BlockNodes(parser.nodes))
      /\ names' = AfterName(names, dir, slug, ".md")
      /\ files' = With(files, path, Markdown(parser.nodes, n))
      /\ at' = at + 1
      /\ UNCHANGED <<kind, blocks, phase, html, open, parser, sections>>
  BY DEF WriteBlock, Writing, NewPath, AfterName, NewName
<1>2. SourceOK /\ HtmlOK /\ DirsOK(names) /\ SectionsOK /\ FilesOK
  BY <1>1 DEF BuildOK, TreeOK
<1>3. n \in 1 .. Len(parser.nodes) /\ parser.nodes \in Seq(NodeSet)
  BY <1>1, <1>2, NextNodeIs
<1>4. slug \in Texts /\ Markdown(parser.nodes, n) \in Texts
  BY <1>3, MarkdownFrom, SlugOfNode DEF From
<1> HIDE DEF n, slug
<1>5. dir \in DOMAIN names
  <2>1. sections \in Seq((0 .. 6) \X Seq(GivenName)) /\ sections # <<>>
    BY <1>2 DEF SectionsOK
  <2>2. Len(sections) \in 1 .. Len(sections) /\ Last(sections) = sections[Len(sections)]
    BY <2>1, LastOf
  <2> QED BY <1>2, <2>2 DEF SectionsOK
<1> HIDE DEF dir, path
<1>6. DirsOK(names') /\ NamesOK(names)
  BY <1>1, <1>2, <1>4, <1>5, FileNamed DEF DirsOK
<1>7. /\ DOMAIN names' = DOMAIN names
      /\ \A p, s : Located(names, p, s) => Located(names', p, s)
  BY <1>1, <1>4, <1>5, <1>6, NamesKept
<1>8. Located(names', path, ".md") /\ path \in Seq(GivenName) /\ Len(path) = Len(dir) + 1 /\ Len(dir) \in Nat
  BY <1>1, <1>2, <1>4, <1>5, PathIs DEF path
<1>9. FilesOK'
  <2>1. DOMAIN files' = DOMAIN files \cup {path} /\ files'[path] = Markdown(parser.nodes, n)
        /\ \A p \in DOMAIN files : p # path => files'[p] = files[p]
    <3> DEFINE text == Markdown(parser.nodes, n)
               more == With(files, path, text)
    <3> HIDE DEF text
    <3>1. DOMAIN more = DOMAIN files \cup {path} /\ more[path] = text
          /\ \A p \in DOMAIN files : p # path => more[p] = files[p]
      BY DEF With
    <3>2. files' = more
      BY <1>1 DEF text
    <3> HIDE DEF more
    <3> QED BY <3>1, <3>2 DEF text
  <2>2. path # <<>>
    BY <1>8
  <2>3. IsFiniteSet(DOMAIN files')
    BY <1>2, <2>1, FS_AddElement DEF FilesOK
  <2>4. ASSUME NEW p \in DOMAIN files'
        PROVE  p # <<>> /\ Located(names', p, ".md") /\ files'[p] \in Texts
    <3>1. CASE p = path
      BY <1>4, <1>8, <2>1, <2>2, <3>1
    <3>2. CASE p # path
      BY <1>2, <1>7, <2>1, <3>2 DEF FilesOK
    <3> QED BY <3>1, <3>2
  <2> QED BY <2>3, <2>4 DEF FilesOK
<1>10. SectionsOK'
  BY <1>1, <1>2, <1>7 DEF SectionsOK
<1>11. SourceOK' /\ HtmlOK'
  BY <1>1, <1>2 DEF SourceOK, HtmlOK
<1> QED BY <1>1, <1>6, <1>9, <1>10, <1>11 DEF BuildOK, TreeOK

(* The chunks leave the tree as it is.                                     *)
LEMMA TreeKept ==
  ASSUME BuildOK, phase' \in Phases,
         UNCHANGED <<kind, blocks, at, html, open, parser, sections, names, files>>,
         phase \in {"write", "cut", "published", "refused"},
         phase' \in {"write", "cut", "published", "refused"}
  PROVE  BuildOK'
<1>1. SourceOK' /\ HtmlOK'
  BY DEF BuildOK, SourceOK, HtmlOK
<1>2. TreeOK'
  BY DEF BuildOK, TreeOK, SectionsOK, FilesOK
<1> QED BY <1>1, <1>2 DEF BuildOK

LEMMA BuildStep == BuildOK /\ [Next]_vars => BuildOK'
<1> SUFFICES ASSUME BuildOK, [Next]_vars PROVE BuildOK'
  OBVIOUS
<1>1. CASE SkipBlock
  BY <1>1, SkipOK
<1>2. CASE RenderPdfBlock
  BY <1>2, PdfOK
<1>3. CASE RenderDocxBlock
  BY <1>3, DocxOK
<1>4. CASE FinishHtml
  BY <1>4, FinishOK
<1>5. CASE Parse
  BY <1>5, ParseOK
<1>6. CASE StartWriting
  BY <1>6, StartWritingOK
<1>7. CASE WriteHeading
  BY <1>7, HeadingOK
<1>8. CASE WriteBlock
  BY <1>8, WriteBlockOK
<1>9. CASE StartCutting
  <2>1. /\ phase = "write" /\ phase' \in {"published", "cut"}
        /\ UNCHANGED <<kind, blocks, at, html, open, parser, sections, names, files>>
    BY <1>9 DEF StartCutting
  <2> QED BY <2>1, TreeKept DEF Phases
<1>10. CASE Cut
  <2>1. phase = "cut" /\ phase' = phase
        /\ UNCHANGED <<kind, blocks, at, html, open, parser, sections, names, files>>
    BY <1>10 DEF Cut, buildVars
  <2> QED BY <2>1, TreeKept DEF Phases
<1>11. CASE Validate
  <2>1. /\ phase = "cut" /\ phase' \in {"published", "refused"}
        /\ UNCHANGED <<kind, blocks, at, html, open, parser, sections, names, files>>
    BY <1>11 DEF Validate
  <2> QED BY <2>1, TreeKept DEF Phases
<1>12. CASE UNCHANGED vars
  <2>1. UNCHANGED <<kind, blocks, phase, at, html, open, parser, sections, names, files>>
    BY <1>12 DEF vars, buildVars
  <2> QED BY <2>1 DEF BuildOK, SourceOK, HtmlOK, TreeOK, SectionsOK, FilesOK, Unwritten
<1> QED
  BY <1>1, <1>2, <1>3, <1>4, <1>5, <1>6, <1>7, <1>8, <1>9, <1>10, <1>11, <1>12 DEF Next

-----------------------------------------------------------------------------
(* The stream: the files in the order of a walk, joined by newlines.       *)
LEMMA FilesApart == ASSUME FilesOK PROVE Apart(DOMAIN files)
<1>1. \A p \in DOMAIN files : p \in Seq(GivenName) /\ p # <<>> /\ Located(names, p, ".md")
  BY DEF FilesOK, Located
<1>2. \A p, q \in DOMAIN files : p # q => WalkedBefore(p, q) \/ WalkedBefore(q, p)
  <2> SUFFICES ASSUME NEW p \in DOMAIN files, NEW q \in DOMAIN files, p # q
               PROVE  WalkedBefore(p, q) \/ WalkedBefore(q, p)
    OBVIOUS
  <2> QED BY <1>1, WalkedApart
<1>3. IsFiniteSet(DOMAIN files) /\ DOMAIN files \subseteq Seq(GivenName)
  BY <1>1 DEF FilesOK
<1> QED BY <1>2, <1>3 DEF Apart

LEMMA PathsIs ==
  ASSUME FilesOK
  PROVE  Walk(DOMAIN files, Paths) /\ Cardinality(DOMAIN files) \in Nat
<1>1. \E paths : Walk(DOMAIN files, paths)
  BY FilesApart, WalkExists
<1>2. \E paths \in SetToSeqs(DOMAIN files) :
         \A j, k \in DOMAIN paths : j < k => WalkedBefore(paths[j], paths[k])
  BY <1>1 DEF Walk
<1>3. IsFiniteSet(DOMAIN files)
  BY DEF FilesOK
<1> QED BY <1>2, <1>3, FS_CardinalityType DEF Walk, Paths

LEMMA SegmentsAre ==
  ASSUME FilesOK
  PROVE  /\ Segments \in Seq(Texts) /\ Len(Segments) = Cardinality(DOMAIN files)
         /\ DOMAIN Paths = 1 .. Len(Segments)
         /\ \A k \in 1 .. Len(Segments) :
               Paths[k] \in DOMAIN files /\ Segments[k] = files[Paths[k]]
<1> DEFINE n == Cardinality(DOMAIN files)
<1>1. n \in Nat /\ Paths \in [1 .. n -> DOMAIN files]
  BY PathsIs DEF Walk, SetToSeqs
<1>2. \A p \in DOMAIN files : files[p] \in Texts
  BY DEF FilesOK
<1>3. Segments = [k \in 1 .. n |-> Segments[k]] /\ \A k \in 1 .. n : Segments[k] = files[Paths[k]]
  BY <1>1 DEF Segments
<1>4. \A k \in 1 .. n : Paths[k] \in DOMAIN files /\ Segments[k] \in Texts
  BY <1>1, <1>2, <1>3
<1>5. DOMAIN Paths = 1 .. n
  BY <1>1
<1> HIDE DEF n
<1>6. Segments \in Seq(Texts) /\ Len(Segments) = n
  BY <1>1, <1>3, <1>4, SeqBy
<1> QED BY <1>3, <1>4, <1>5, <1>6 DEF n

(* The pieces of a stream, and the stream up to a segment.                 *)
Gap(k) == IF k = 1 THEN <<>> ELSE <<Newline>>
Pieces(segments) == [k \in DOMAIN segments |-> Gap(k) \o segments[k]]
Upto(segments, k) == Flat(Pieces(segments), k)

LEMMA PiecesAre ==
  ASSUME NEW segments \in Seq(Texts)
  PROVE  /\ Pieces(segments) \in Seq(Seq(Characters)) /\ Len(Pieces(segments)) = Len(segments)
         /\ \A k \in 1 .. Len(segments) :
               /\ Gap(k) \in Seq(Characters) /\ segments[k] \in Seq(Characters)
               /\ Pieces(segments)[k] = Gap(k) \o segments[k]
<1>1. Visible \subseteq Characters /\ Newline \in Characters
  BY DEF Visible, Characters, Newline
<1>2. Len(segments) \in Nat /\ DOMAIN segments = 1 .. Len(segments)
      /\ \A k \in 1 .. Len(segments) : segments[k] \in Seq(Visible)
  BY DEF Texts
<1>3. \A s \in Seq(Visible) : s \in Seq(Characters)
  BY <1>1
<1>4. <<>> \in Seq(Characters) /\ <<Newline>> \in Seq(Characters)
  BY <1>1, FewElements
<1>5. \A k \in 1 .. Len(segments) : Gap(k) \in Seq(Characters) /\ segments[k] \in Seq(Characters)
  BY <1>2, <1>3, <1>4 DEF Gap
<1>6. \A k \in 1 .. Len(segments) : Gap(k) \o segments[k] \in Seq(Characters)
  BY <1>5, ConcatProperties
<1> DEFINE s == Pieces(segments)
<1>7. s = [k \in 1 .. Len(segments) |-> s[k]]
      /\ \A k \in 1 .. Len(segments) : s[k] = Gap(k) \o segments[k]
  BY <1>2 DEF Pieces
<1> HIDE DEF s
<1> DEFINE n == Len(segments)
<1>70. n \in Nat /\ s = [k \in 1 .. n |-> s[k]]
  BY <1>2, <1>7
<1>71. \A k \in 1 .. n : s[k] \in Seq(Characters)
  BY <1>6, <1>7
<1> HIDE DEF n
<1>72. s \in Seq(Seq(Characters)) /\ Len(s) = n
  BY <1>70, <1>71, SeqBy
<1>8. s \in Seq(Seq(Characters)) /\ Len(s) = Len(segments)
  BY <1>72 DEF n
<1> QED BY <1>5, <1>7, <1>8 DEF s

LEMMA StreamIs ==
  ASSUME NEW segments \in Seq(Texts)
  PROVE  /\ Upto(segments, 0) = <<>> /\ Upto(segments, Len(segments)) = Joined(segments)
         /\ Joined(segments) \in Seq(Characters)
         /\ \A k \in 0 .. Len(segments) : Upto(segments, k) \in Seq(Characters)
         /\ \A k \in 0 .. (Len(segments) - 1) :
               Upto(segments, k + 1) = Upto(segments, k) \o (Gap(k + 1) \o segments[k + 1])
<1> DEFINE s == Pieces(segments)
<1>1. /\ s \in Seq(Seq(Characters)) /\ Len(s) = Len(segments) /\ Len(segments) \in Nat
      /\ \A k \in 1 .. Len(segments) : s[k] = Gap(k) \o segments[k]
  BY PiecesAre
<1>2. Joined(segments) = FlattenSeq(s)
  BY DEF Joined, Pieces, Gap
<1> HIDE DEF s
<1>3. /\ Flat(s, 0) = <<>> /\ Flat(s, Len(s)) = FlattenSeq(s)
      /\ \A k \in 0 .. Len(s) : Flat(s, k) \in Seq(Characters)
      /\ \A k \in 0 .. (Len(s) - 1) : Flat(s, k + 1) = Flat(s, k) \o s[k + 1]
  BY <1>1, FlatSteps
<1>4. \A k \in 0 .. (Len(segments) - 1) : k + 1 \in 1 .. Len(segments)
  BY <1>1
<1>5. Len(segments) \in 0 .. Len(segments)
  BY <1>1
<1> QED BY <1>1, <1>2, <1>3, <1>4, <1>5 DEF Upto, s

(* The stream up to segment k is what SegmentEnd measures.                 *)
LEMMA UptoIs ==
  ASSUME NEW segments \in Seq(Texts), NEW k \in 0 .. Len(segments)
  PROVE  Joined(SubSeq(segments, 1, k)) = Upto(segments, k)
<1> DEFINE t == SubSeq(segments, 1, k)
           s == Pieces(segments)
<1>0. Len(segments) \in Nat /\ DOMAIN segments = 1 .. Len(segments)
      /\ \A i \in 1 .. Len(segments) : segments[i] \in Texts
  OBVIOUS
<1>1. k \in Nat /\ \A i \in 1 .. k : i \in 1 .. Len(segments) /\ segments[i] \in Texts
  BY <1>0
<1>2. t \in Seq(Texts) /\ Len(t) = k /\ \A i \in 1 .. k : t[i] = segments[i]
  BY <1>1, SubSeqProperties
<1> HIDE DEF t
<1>3. Pieces(t) \in Seq(Seq(Characters)) /\ Len(Pieces(t)) = k
      /\ \A i \in 1 .. k : Pieces(t)[i] = Gap(i) \o t[i]
  BY <1>2, PiecesAre
<1>4. s \in Seq(Seq(Characters)) /\ Len(s) = Len(segments)
      /\ \A i \in 1 .. Len(segments) : s[i] = Gap(i) \o segments[i]
  BY PiecesAre
<1> HIDE DEF s
<1>5. \A i \in 1 .. k : s[i] \in Seq(Characters)
  BY <1>1, <1>4
<1>6. /\ SubSeq(s, 1, k) \in Seq(Seq(Characters)) /\ Len(SubSeq(s, 1, k)) = k
      /\ \A i \in 1 .. k : SubSeq(s, 1, k)[i] = s[i]
  BY <1>1, <1>5, SubSeqProperties
<1>7. \A i \in 1 .. k : Pieces(t)[i] = SubSeq(s, 1, k)[i]
  BY <1>1, <1>2, <1>3, <1>4, <1>6
<1>8. Pieces(t) = SubSeq(s, 1, k)
  BY <1>3, <1>6, <1>7, SeqEqual
<1>9. Joined(t) = FlattenSeq(Pieces(t))
  BY DEF Joined, Pieces, Gap
<1> QED BY <1>8, <1>9 DEF t, s, Upto, Flat

(* Where the segments end, and what stands in the stream.                  *)
EndOf(segments, k) == Len(Upto(segments, k))
GapLen(k) == IF k = 1 THEN 0 ELSE 1

LEMMA EndsAre ==
  ASSUME NEW segments \in Seq(Texts)
  PROVE  /\ EndOf(segments, 0) = 0 /\ EndOf(segments, Len(segments)) = Len(Joined(segments))
         /\ \A k \in 0 .. Len(segments) : EndOf(segments, k) \in Nat
         /\ \A k \in 1 .. Len(segments) :
               /\ Len(segments[k]) \in Nat
               /\ EndOf(segments, k) = EndOf(segments, k - 1) + GapLen(k) + Len(segments[k])
<1>0. Len(segments) \in Nat /\ \A i \in 1 .. Len(segments) : segments[i] \in Texts
  OBVIOUS
<1>1. /\ Upto(segments, 0) = <<>> /\ Upto(segments, Len(segments)) = Joined(segments)
      /\ \A k \in 0 .. Len(segments) : Upto(segments, k) \in Seq(Characters)
      /\ \A k \in 0 .. (Len(segments) - 1) :
            Upto(segments, k + 1) = Upto(segments, k) \o (Gap(k + 1) \o segments[k + 1])
  BY StreamIs
<1>2. EndOf(segments, 0) = 0 /\ EndOf(segments, Len(segments)) = Len(Joined(segments))
  BY <1>1 DEF EndOf
<1>3. \A k \in 0 .. Len(segments) : EndOf(segments, k) \in Nat
  BY <1>1 DEF EndOf
<1>4. ASSUME NEW k \in 1 .. Len(segments)
      PROVE  /\ Len(segments[k]) \in Nat
             /\ EndOf(segments, k) = EndOf(segments, k - 1) + GapLen(k) + Len(segments[k])
  <2> DEFINE a == Upto(segments, k - 1)
             g == Gap(k)
             t == segments[k]
  <2>1. k - 1 \in 0 .. (Len(segments) - 1) /\ k - 1 \in 0 .. Len(segments) /\ (k - 1) + 1 = k
    BY <1>0
  <2>2. Upto(segments, k) = a \o (g \o t) /\ a \in Seq(Characters)
    BY <1>1, <2>1
  <2>3. g \in Seq(Characters) /\ t \in Seq(Characters)
    BY PiecesAre
  <2>4. Len(g) = GapLen(k)
    BY DEF Gap, GapLen
  <2> HIDE DEF a, g, t
  <2>5. g \o t \in Seq(Characters) /\ Len(g \o t) = Len(g) + Len(t)
    BY <2>3, ConcatProperties
  <2>6. Len(a \o (g \o t)) = Len(a) + (Len(g) + Len(t))
    BY <2>2, <2>5, ConcatProperties
  <2>7. Len(a) \in Nat /\ Len(g) \in Nat /\ Len(t) \in Nat
    BY <2>2, <2>3
  <2>8. Len(a) = EndOf(segments, k - 1) /\ EndOf(segments, k) = Len(a \o (g \o t))
    BY <2>2 DEF EndOf, a
  <2>9. EndOf(segments, k) = Len(a) + Len(g) + Len(t)
    BY <2>6, <2>7, <2>8
  <2> QED BY <2>4, <2>7, <2>8, <2>9 DEF t
<1> QED BY <1>2, <1>3, <1>4

(* Nothing that comes later changes the stream up to a segment.            *)
LEMMA UptoStays ==
  ASSUME NEW segments \in Seq(Texts), NEW k \in 0 .. Len(segments)
  PROVE  /\ EndOf(segments, k) <= Len(Joined(segments))
         /\ \A c \in 1 .. EndOf(segments, k) : Joined(segments)[c] = Upto(segments, k)[c]
<1> DEFINE n == Len(segments)
           U(m) == Upto(segments, m)
           E(m) == EndOf(segments, m)
           Stays(m) == E(k) <= E(m) /\ \A c \in 1 .. E(k) : U(m)[c] = U(k)[c]
           G == {d \in Nat : d <= n - k => Stays(k + d)}
<1>0. n \in Nat /\ k \in Nat /\ k <= n
  OBVIOUS
<1>1. \A m \in 0 .. n : U(m) \in Seq(Characters) /\ E(m) \in Nat /\ E(m) = Len(U(m))
  BY StreamIs, EndsAre DEF EndOf
<1>2. 0 \in G
  <2>1. k + 0 = k
    BY <1>0
  <2>2. Stays(k)
    BY <1>1
  <2> QED BY <2>1, <2>2
<1>3. ASSUME NEW d \in Nat, d \in G PROVE d + 1 \in G
  <2> SUFFICES ASSUME d + 1 <= n - k PROVE Stays(k + (d + 1))
    OBVIOUS
  <2> DEFINE m == k + d
             t == Gap(m + 1) \o segments[m + 1]
  <2>1. m \in 0 .. n /\ m + 1 \in 0 .. n /\ m \in 0 .. (n - 1) /\ k + (d + 1) = m + 1 /\ d <= n - k
        /\ m + 1 \in 1 .. n
    BY <1>0
  <2>2. Stays(m)
    BY <1>3, <2>1
  <2>3. U(m + 1) = U(m) \o t
    BY <2>1, StreamIs
  <2>4. t \in Seq(Characters)
    <3>1. Gap(m + 1) \in Seq(Characters) /\ segments[m + 1] \in Seq(Characters)
      BY <2>1, PiecesAre
    <3> QED BY <3>1, ConcatProperties
  <2>5. k + (d + 1) = m + 1
    BY <2>1
  <2> HIDE DEF m, t
  <2> DEFINE a == U(m)
             b == U(m + 1)
             e == E(k)
  <2>6. a \in Seq(Characters) /\ E(m) = Len(a) /\ E(m + 1) = Len(b) /\ e \in Nat
        /\ e <= Len(a) /\ b = a \o t
        /\ \A c \in 1 .. e : a[c] = U(k)[c]
    BY <1>0, <1>1, <2>1, <2>2, <2>3
  <2> DEFINE u == U(k)
  <2>7. E(m + 1) = Len(b) /\ u = U(k) /\ b = U(m + 1) /\ e = E(k)
    BY <2>6
  <2> HIDE DEF a, b, e, u
  <2>8. Len(b) = Len(a) + Len(t) /\ \A c \in 1 .. Len(a) + Len(t) :
             b[c] = IF c <= Len(a) THEN a[c] ELSE t[c - Len(a)]
    BY <2>4, <2>6, ConcatProperties
  <2>9. Len(a) \in Nat /\ Len(t) \in Nat
    BY <2>4, <2>6
  <2>10. e <= Len(b) /\ \A c \in 1 .. e : c \in 1 .. Len(a) + Len(t) /\ c <= Len(a)
    BY <2>6, <2>8, <2>9
  <2>11. \A c \in 1 .. e : b[c] = a[c] /\ a[c] = u[c]
    BY <2>6, <2>8, <2>10 DEF u
  <2>12. Stays(m + 1)
    BY <2>7, <2>10, <2>11
  <2> QED BY <2>5, <2>12
<1>4. \A d \in Nat : d \in G
  <2> HIDE DEF G
  <2> QED BY <1>2, <1>3, EveryNumber
<1>5. Stays(n)
  <2>1. n - k \in Nat /\ k + (n - k) = n /\ n - k <= n - k
    BY <1>0
  <2>2. n - k \in G
    BY <1>4, <2>1
  <2> QED BY <2>1, <2>2
<1>6. U(n) = Joined(segments) /\ E(n) = Len(Joined(segments))
  BY StreamIs, EndsAre
<1> QED BY <1>5, <1>6

(* A newline between two segments; elsewhere the characters of segments.   *)
LEMMA NewlineBetween ==
  ASSUME NEW segments \in Seq(Texts), NEW k \in 2 .. Len(segments)
  PROVE  /\ EndOf(segments, k - 1) + 1 \in 1 .. Len(Joined(segments))
         /\ Joined(segments)[EndOf(segments, k - 1) + 1] = Newline
<1> DEFINE a == Upto(segments, k - 1)
           t == segments[k]
           e == EndOf(segments, k - 1)
<1>0. Len(segments) \in Nat /\ k \in 1 .. Len(segments) /\ k - 1 \in 0 .. Len(segments) /\ k # 1
      /\ k - 1 \in 0 .. (Len(segments) - 1) /\ (k - 1) + 1 = k /\ k \in 0 .. Len(segments)
  OBVIOUS
<1>1. a \in Seq(Characters) /\ Len(a) = e /\ e \in Nat /\ Upto(segments, k) = a \o (Gap(k) \o t)
  <2>1. a \in Seq(Characters)
    BY <1>0, StreamIs
  <2>2. Upto(segments, (k - 1) + 1) = a \o (Gap((k - 1) + 1) \o segments[(k - 1) + 1])
    BY <1>0, StreamIs
  <2>3. Upto(segments, k) = a \o (Gap(k) \o t)
    BY <1>0, <2>2
  <2> QED BY <2>1, <2>3 DEF EndOf
<1>2. Gap(k) = <<Newline>> /\ t \in Seq(Characters) /\ Gap(k) \in Seq(Characters)
  BY <1>0, PiecesAre DEF Gap
<1>3. Len(t) \in Nat /\ EndOf(segments, k) = e + 1 + Len(t)
  BY <1>0, EndsAre DEF GapLen
<1>4. EndOf(segments, k) <= Len(Joined(segments)) /\ Len(Joined(segments)) \in Nat
      /\ \A c \in 1 .. EndOf(segments, k) : Joined(segments)[c] = Upto(segments, k)[c]
  BY <1>0, UptoStays, StreamIs
<1> DEFINE g == Gap(k) \o t
<1> HIDE DEF a, t, e
<1>5. g \in Seq(Characters) /\ Len(g) = 1 + Len(t) /\ g[1] = Newline
  <2>1. Len(Gap(k)) = 1 /\ Gap(k)[1] = Newline
    BY <1>2
  <2>2. g \in Seq(Characters) /\ Len(g) = Len(Gap(k)) + Len(t)
        /\ \A i \in 1 .. Len(Gap(k)) + Len(t) :
             g[i] = IF i <= Len(Gap(k)) THEN Gap(k)[i] ELSE t[i - Len(Gap(k))]
    BY <1>2, ConcatProperties
  <2>3. 1 \in 1 .. Len(Gap(k)) + Len(t) /\ 1 <= Len(Gap(k))
    BY <1>3, <2>1
  <2>4. g[1] = Gap(k)[1]
    BY <2>2, <2>3
  <2>5. Len(g) = 1 + Len(t)
    BY <2>1, <2>2
  <2> QED BY <2>1, <2>2, <2>4, <2>5
<1> HIDE DEF g
<1>6. (a \o g)[e + 1] = g[1]
  <2>1. \A i \in 1 .. Len(a) + Len(g) : (a \o g)[i] = IF i <= Len(a) THEN a[i] ELSE g[i - Len(a)]
    <3>1. a \in Seq(Characters) /\ g \in Seq(Characters)
      BY <1>1, <1>5
    <3> QED BY <3>1, ConcatProperties
  <2>2. e + 1 \in 1 .. Len(a) + Len(g) /\ ~(e + 1 <= Len(a)) /\ (e + 1) - Len(a) = 1
    BY <1>1, <1>3, <1>5
  <2> QED BY <2>1, <2>2
<1>7. e + 1 \in 1 .. EndOf(segments, k) /\ e + 1 \in 1 .. Len(Joined(segments))
  BY <1>1, <1>3, <1>4
<1>8. Joined(segments)[e + 1] = Newline
  BY <1>1, <1>4, <1>5, <1>6, <1>7 DEF g
<1> QED BY <1>7, <1>8 DEF e

-----------------------------------------------------------------------------
(* Between two turns of the loop the next window starts in the text, where *)
(* the last one says.  Without the last two conjuncts a step could not     *)
(* tell that its window brings new tokens, nor that the loop only ends at  *)
(* the end of the text.                                                    *)
WindowTypes ==
    /\ length \in Nat /\ start \in Nat /\ cut \in BOOLEAN
    /\ spans \in Seq(Nat \X Nat)

LastWindow ==
    spans # <<>> /\ ~cut =>
       /\ start = spans[Len(spans)][2] - Overlap
       /\ spans[Len(spans)][2] < length
       /\ spans[Len(spans)][2] - spans[Len(spans)][1] = ChunkSize

FirstWindow == spans = <<>> => start = 0

WindowInv == WindowTypes /\ LastWindow /\ FirstWindow /\ ChunksCoverText

(* The window that a step cuts: it lies in the text, is full unless it     *)
(* reaches the end, and brings tokens that the one before it did not have. *)
LEMMA WindowLies ==
    ASSUME WindowInv, ~cut
    PROVE  /\ WindowEnd \in Nat /\ WindowEnd <= length
           /\ WindowEnd - start <= ChunkSize
           /\ WindowEnd # length => WindowEnd - start = ChunkSize /\ WindowEnd < length
           /\ spans # <<>> => /\ start = spans[Len(spans)][2] - Overlap
                              /\ WindowEnd > spans[Len(spans)][2]
  <1>1. ChunkSize \in Nat /\ Overlap \in Nat /\ Overlap < ChunkSize
    BY WindowAssumption
  <1>2. WindowTypes /\ LastWindow
    BY DEF WindowInv
  <1>3. CASE spans = <<>>
    BY <1>1, <1>2, <1>3 DEF WindowTypes, WindowEnd
  <1>4. CASE spans # <<>>
    <2>1. spans[Len(spans)] \in Nat \X Nat
      BY <1>2, <1>4 DEF WindowTypes
    <2>2. spans[Len(spans)][2] \in Nat
      BY <2>1
    <2> QED BY <1>1, <1>2, <1>4, <2>2 DEF WindowTypes, LastWindow, WindowEnd
  <1> QED BY <1>3, <1>4

(* The chunks keep covering the text when a window is added.               *)
LEMMA WindowAdded ==
    ASSUME WindowInv, CutWindow
    PROVE  WindowTypes' /\ ChunksCoverText'
  <1> DEFINE n == Len(spans)
  <1>1. /\ ~cut /\ spans' = Append(spans, <<start, WindowEnd>>) /\ length' = length
        /\ WindowTypes /\ LastWindow /\ FirstWindow /\ ChunksCoverText
    BY DEF WindowInv, CutWindow
  <1>2. ChunkSize \in Nat /\ Overlap \in Nat /\ Overlap < ChunkSize
    BY WindowAssumption
  <1>3. /\ WindowEnd \in Nat /\ WindowEnd <= length
        /\ WindowEnd - start <= ChunkSize
        /\ spans # <<>> => /\ start = spans[n][2] - Overlap
                           /\ WindowEnd > spans[n][2]
    BY <1>1, WindowLies
  <1>4. WindowTypes'
    <2>1. spans' \in Seq(Nat \X Nat)
      BY <1>1, <1>3 DEF WindowTypes
    <2>2. CASE WindowEnd = length
      BY <1>1, <2>1, <2>2 DEF WindowTypes, CutWindow
    <2>3. CASE WindowEnd # length
      <3>1. start' = start + (ChunkSize - Overlap) /\ cut' = cut
        BY <2>3 DEF CutWindow
      <3> QED BY <1>1, <1>2, <2>1, <3>1 DEF WindowTypes
    <2> QED BY <2>2, <2>3
  <1>5. /\ n \in Nat /\ Len(spans') = n + 1
        /\ \A i \in 1 .. n : spans'[i] = spans[i] /\ spans[i] \in Nat \X Nat
        /\ spans'[n + 1] = <<start, WindowEnd>>
        /\ DOMAIN spans = 1 .. n /\ DOMAIN spans' = 1 .. n + 1
    BY <1>1, <1>3 DEF WindowTypes
  <1>6. ASSUME NEW i \in DOMAIN spans'
        PROVE  /\ spans'[i][2] - spans'[i][1] <= ChunkSize
               /\ spans'[i][2] <= length
               /\ i < Len(spans') => spans'[i][2] - spans'[i][1] = ChunkSize
               /\ i = 1 => spans'[i][1] = 0
               /\ i > 1 => /\ spans'[i][1] = spans'[i - 1][2] - Overlap
                           /\ spans'[i][2] > spans'[i - 1][2]
    <2>1. CASE i \in 1 .. n
      <3>1. i < n => spans[i][2] - spans[i][1] = ChunkSize
        BY <1>1, <1>5, <2>1 DEF ChunksCoverText
      <3>2. i = n => spans[i][2] - spans[i][1] = ChunkSize
        BY <1>1, <1>5, <2>1 DEF LastWindow, WindowTypes
      <3>3. i > 1 => i - 1 \in 1 .. n
        BY <1>5, <2>1
      <3> QED BY <1>1, <1>5, <2>1, <3>1, <3>2, <3>3 DEF ChunksCoverText
    <2>2. CASE i = n + 1
      <3>1. CASE n = 0
        <4>1. spans = <<>>
          BY <1>1, <3>1 DEF WindowTypes
        <4> QED BY <1>1, <1>3, <1>5, <2>2, <3>1, <4>1 DEF FirstWindow
      <3>2. CASE n # 0
        <4>1. spans # <<>> /\ n \in 1 .. n /\ i - 1 = n /\ spans'[n] = spans[n]
          BY <1>5, <2>2, <3>2
        <4> QED BY <1>3, <1>5, <2>2, <4>1
      <3> QED BY <3>1, <3>2
    <2> QED BY <1>5, <2>1, <2>2
  <1>7. cut' => spans' # <<>> /\ spans'[Len(spans')][2] = length
    <2>1. cut' => WindowEnd = length
      BY <1>1 DEF CutWindow
    <2> QED BY <1>1, <1>5, <2>1
  <1> QED BY <1>1, <1>4, <1>6, <1>7 DEF ChunksCoverText

LEMMA WindowStep == WindowInv /\ [CutWindow]_windowVars => WindowInv'
  <1> SUFFICES ASSUME WindowInv, [CutWindow]_windowVars PROVE WindowInv'
    OBVIOUS
  <1>1. CASE CutWindow
    <2>1. WindowTypes' /\ ChunksCoverText'
      BY <1>1, WindowAdded
    <2>2. /\ ~cut /\ spans' = Append(spans, <<start, WindowEnd>>) /\ length' = length
          /\ WindowTypes
      BY <1>1 DEF WindowInv, CutWindow
    <2>3. spans' # <<>> /\ spans'[Len(spans')] = <<start, WindowEnd>>
      BY <2>2 DEF WindowTypes
    <2>4. ASSUME ~cut' PROVE WindowEnd # length /\ start' = start + (ChunkSize - Overlap)
      BY <1>1, <2>4 DEF CutWindow
    <2>5. WindowEnd # length =>
             WindowEnd \in Nat /\ WindowEnd - start = ChunkSize /\ WindowEnd < length
      BY <2>2, WindowLies
    <2>6. LastWindow'
      <3>1. SUFFICES ASSUME ~cut'
                     PROVE  /\ start' = spans'[Len(spans')][2] - Overlap
                            /\ spans'[Len(spans')][2] < length'
                            /\ spans'[Len(spans')][2] - spans'[Len(spans')][1] = ChunkSize
        BY DEF LastWindow
      <3>2. WindowEnd \in Nat /\ WindowEnd - start = ChunkSize /\ WindowEnd < length
        BY <2>4, <2>5, <3>1
      <3>3. start' = start + (ChunkSize - Overlap) /\ start \in Nat
        BY <2>2, <2>4, <3>1 DEF WindowTypes
      <3>4. start' = WindowEnd - Overlap
        BY <3>2, <3>3, WindowAssumption
      <3> QED BY <2>2, <2>3, <3>2, <3>4
    <2>7. FirstWindow'
      BY <2>3 DEF FirstWindow
    <2> QED BY <2>1, <2>6, <2>7 DEF WindowInv
  <1>2. CASE UNCHANGED windowVars
    BY <1>2 DEF windowVars, WindowInv, WindowTypes, LastWindow, FirstWindow, ChunksCoverText
  <1> QED BY <1>1, <1>2

(* No token of a text is left out of its chunks, whatever the text's       *)
(* length and the sizes configured (build_index, chunk_text).              *)
THEOREM ChunksCover == WindowSpec => []ChunksCoverText
  <1>1. WindowInit => WindowInv
    <2> SUFFICES ASSUME WindowInit PROVE WindowInv
      OBVIOUS
    <2>1. spans = <<>> /\ start = 0 /\ ~cut
      BY DEF WindowInit
    <2>2. WindowTypes
      <3>1. <<>> \in Seq(Nat \X Nat)
        OBVIOUS
      <3>2. length \in Nat /\ start \in Nat
        BY DEF WindowInit
      <3>3. cut \in BOOLEAN
        BY DEF WindowInit
      <3> QED BY <2>1, <3>1, <3>2, <3>3, Zenon DEF WindowTypes
    <2>3. ChunksCoverText
      <3>1. DOMAIN spans = {}
        BY <2>1
      <3> QED BY <2>1, <3>1 DEF ChunksCoverText
    <2> QED BY <2>1, <2>2, <2>3 DEF WindowInv, LastWindow, FirstWindow
  <1>2. WindowInv => ChunksCoverText
    BY DEF WindowInv
  <1> QED BY <1>1, <1>2, WindowStep, PTL DEF WindowSpec

-----------------------------------------------------------------------------
(* The windows of a build: none is cut before the tree is written.         *)
Uncut == length = 0 /\ start = 0 /\ spans = <<>> /\ cut = FALSE

WindowsOK == WindowInv /\ (phase \in {"render", "parse", "write"} => Uncut)

LEMMA UncutOK == Uncut => WindowInv
<1> SUFFICES ASSUME Uncut PROVE WindowInv
  OBVIOUS
<1>1. length = 0 /\ start = 0 /\ spans = <<>> /\ ~cut
  BY DEF Uncut
<1>2. cut \in BOOLEAN
  BY DEF Uncut
<1>3. <<>> \in Seq(Nat \X Nat) /\ DOMAIN spans = {} /\ 0 \in Nat
  BY <1>1
<1>4. WindowTypes
  BY <1>1, <1>2, <1>3, Zenon DEF WindowTypes
<1>5. ChunksCoverText
  BY <1>1, <1>3 DEF ChunksCoverText
<1> QED BY <1>1, <1>4, <1>5 DEF WindowInv, LastWindow, FirstWindow

LEMMA WindowsKept ==
  ASSUME WindowsOK, UNCHANGED windowVars,
         phase' \in {"render", "parse", "write"} => phase \in {"render", "parse", "write"}
  PROVE  WindowsOK'
<1>1. length' = length /\ start' = start /\ spans' = spans /\ cut' = cut
  BY DEF windowVars
<1>2. WindowInv'
  BY WindowStep DEF WindowsOK
<1> QED BY <1>1, <1>2 DEF WindowsOK, Uncut

LEMMA WindowsStep == BuildOK /\ WindowsOK /\ [Next]_vars => WindowsOK'
<1> SUFFICES ASSUME BuildOK, WindowsOK, [Next]_vars PROVE WindowsOK'
  OBVIOUS
<1>1. CASE SkipBlock \/ RenderPdfBlock \/ RenderDocxBlock \/ FinishHtml \/ Parse \/ StartWriting
           \/ WriteHeading \/ WriteBlock
  <2>1. UNCHANGED windowVars /\ phase \in {"render", "parse", "write"}
    BY <1>1 DEF SkipBlock, RenderPdfBlock, RenderDocxBlock, Rendering, FinishHtml, Parse,
                StartWriting, WriteHeading, WriteBlock, Writing
  <2> QED BY <2>1, WindowsKept
<1>2. CASE StartCutting
  <2>1. /\ phase' \notin {"render", "parse", "write"} /\ phase = "write"
        /\ length' = Len(Tokens(Joined(Segments))) /\ UNCHANGED <<start, spans, cut>>
    BY <1>2 DEF StartCutting
  <2>2. Uncut
    BY <2>1 DEF WindowsOK
  <2>3. Len(Tokens(Joined(Segments))) \in Nat
    <3>1. Joined(Segments) \in Seq(Characters)
      BY <2>1, SegmentsAre, StreamIs DEF BuildOK, TreeOK
    <3> DEFINE text == Joined(Segments)
    <3> HIDE DEF text
    <3>2. text \in Seq(Characters) /\ Len(text) \in Nat
      BY <3>1 DEF text
    <3>3. Tokens(text) \in Seq(Nat)
      BY <3>2, InOrderIs DEF Tokens
    <3> QED BY <3>3 DEF text
  <2>4. length' \in Nat /\ start' = 0 /\ spans' = <<>> /\ ~cut' /\ cut' \in BOOLEAN
    BY <2>1, <2>2, <2>3 DEF Uncut
  <2>5. <<>> \in Seq(Nat \X Nat) /\ DOMAIN spans' = {} /\ 0 \in Nat
    BY <2>4
  <2>6. WindowTypes'
    BY <2>4, <2>5, Zenon DEF WindowTypes
  <2>7. ChunksCoverText'
    BY <2>4, <2>5 DEF ChunksCoverText
  <2>8. WindowInv'
    BY <2>4, <2>6, <2>7 DEF WindowInv, LastWindow, FirstWindow
  <2> QED BY <2>1, <2>8 DEF WindowsOK
<1>3. CASE Cut
  <2>1. phase = "cut" /\ phase' = phase /\ CutWindow
    BY <1>3 DEF Cut, buildVars
  <2>2. WindowInv'
    BY <2>1, WindowStep DEF WindowsOK
  <2> QED BY <2>1, <2>2 DEF WindowsOK
<1>4. CASE Validate
  <2>1. UNCHANGED windowVars /\ phase' \notin {"render", "parse", "write"}
    BY <1>4 DEF Validate
  <2> QED BY <2>1, WindowsKept
<1>5. CASE UNCHANGED vars
  <2>1. UNCHANGED windowVars /\ phase' = phase
    BY <1>5 DEF vars, buildVars
  <2> QED BY <2>1, WindowsKept
<1> QED BY <1>1, <1>2, <1>3, <1>4, <1>5 DEF Next

LEMMA BuildInit == Init => BuildOK /\ WindowsOK
<1> SUFFICES ASSUME Init PROVE BuildOK /\ WindowsOK
  OBVIOUS
<1>1. Uncut
  BY DEF Init, Uncut
<1> QED BY <1>1, InitOK, UncutOK DEF WindowsOK

LEMMA TypesFollow == BuildOK /\ WindowsOK => TypeOK
<1> SUFFICES ASSUME BuildOK, WindowsOK PROVE TypeOK
  OBVIOUS
<1>1. SourceOK /\ HtmlOK
  BY DEF BuildOK
<1>2. kind \in {"pdf", "docx"} /\ at \in Nat /\ phase \in Phases /\ open \in Seq(1 .. 9)
  BY <1>1 DEF SourceOK, HtmlOK
<1>3. Range(parser.stack) \subseteq DOMAIN parser.nodes
  <2>1. ParserOK(parser)
    BY <1>1 DEF HtmlOK
  <2> QED BY <2>1, ParserFields DEF Range, ParserOK
<1>4. Visible \subseteq Characters
  BY DEF Visible
<1>5. \A t \in Texts : t \in Seq(Characters)
  BY <1>4 DEF Texts
<1>6. GivenName \subseteq Name
  <2>1. Base \subseteq [number : Nat \ {0}, slug : Seq(Characters), suffix : {NoSuffix, ".md"}]
    BY <1>5 DEF Base
  <2> QED BY <2>1 DEF GivenName, Name
<1>7. \A p \in Seq(GivenName) : p \in Seq(Name)
  BY <1>6
<1>8. CASE phase \in {"render", "parse"}
  <2>1. DOMAIN sections = {} /\ DOMAIN names = {} /\ DOMAIN files = {}
    BY <1>8 DEF BuildOK, Unwritten
  <2>2. /\ \A k \in DOMAIN sections : sections[k] \in (0 .. 6) \X Seq(Name)
        /\ DOMAIN names \subseteq Seq(Name) /\ DOMAIN files \subseteq Seq(Name)
        /\ \A path \in DOMAIN files : files[path] \in Seq(Characters)
    BY <2>1
  <2>3. length \in Nat /\ start \in Nat /\ cut \in BOOLEAN
    BY DEF WindowsOK, WindowInv, WindowTypes
  <2> QED BY <1>2, <1>3, <2>2, <2>3, Zenon DEF TypeOK, Phases
<1>9. CASE phase \notin {"render", "parse"}
  <2>1. DirsOK(names) /\ SectionsOK /\ FilesOK
    BY <1>9 DEF BuildOK, TreeOK
  <2>2. \A k \in DOMAIN sections : sections[k] \in (0 .. 6) \X Seq(Name)
    <3>1. \A k \in DOMAIN sections : sections[k] \in (0 .. 6) \X Seq(GivenName)
      BY <2>1 DEF SectionsOK
    <3>2. \A x \in (0 .. 6) \X Seq(GivenName) : x \in (0 .. 6) \X Seq(Name)
      BY <1>7
    <3> QED BY <3>1, <3>2
  <2>3. DOMAIN names \subseteq Seq(Name)
    BY <1>7, <2>1 DEF DirsOK, NamesOK
  <2>4. DOMAIN files \subseteq Seq(Name)
    BY <1>7, <2>1 DEF FilesOK, Located
  <2>5. \A path \in DOMAIN files : files[path] \in Seq(Characters)
    BY <1>5, <2>1 DEF FilesOK
  <2>6. length \in Nat /\ start \in Nat /\ cut \in BOOLEAN
    BY DEF WindowsOK, WindowInv, WindowTypes
  <2> QED BY <1>2, <1>3, <2>2, <2>3, <2>4, <2>5, <2>6, Zenon DEF TypeOK, Phases
<1> QED BY <1>8, <1>9

(* Every file that can be made of the blocks, in every phase: what is      *)
(* rendered, parsed and written has its type; and no name is ever given    *)
(* twice in a directory, so that no name needs numbered_name's copy number *)
(* and nothing written replaces what was written before.                   *)
THEOREM BuildTypes == Spec => []TypeOK
<1>1. Init => BuildOK /\ WindowsOK
  BY BuildInit
<1>2. BuildOK /\ WindowsOK /\ [Next]_vars => BuildOK' /\ WindowsOK'
  BY BuildStep, WindowsStep
<1>3. BuildOK /\ WindowsOK => TypeOK
  BY TypesFollow
<1> QED BY <1>1, <1>2, <1>3, PTL DEF Spec

(* The chunks of a build cover its stream, whatever the file and the sizes *)
(* configured: no token of an uploaded file is left out of the index       *)
(* (build_index, chunk_text).                                              *)
THEOREM BuildChunksCover == Spec => []ChunksCoverText
<1>1. Init => BuildOK /\ WindowsOK
  BY BuildInit
<1>2. BuildOK /\ WindowsOK /\ [Next]_vars => BuildOK' /\ WindowsOK'
  BY BuildStep, WindowsStep
<1>3. WindowsOK => ChunksCoverText
  BY DEF WindowsOK, WindowInv
<1> QED BY <1>1, <1>2, <1>3, PTL DEF Spec

-----------------------------------------------------------------------------
(* Citations.  The tokens of a text are its characters, with or without    *)
(* the newlines.                                                           *)
Spoken(text, k) == NewlineTokens \/ text[k] # Newline

LEMMA TokensAre ==
  ASSUME NEW text \in Seq(Characters)
  PROVE  /\ Tokens(text) \in Seq(Nat)
         /\ \A i \in 1 .. Len(Tokens(text)) :
               Tokens(text)[i] \in 1 .. Len(text) /\ Spoken(text, Tokens(text)[i])
         /\ \A i, j \in 1 .. Len(Tokens(text)) : i < j => Tokens(text)[i] < Tokens(text)[j]
         /\ \A k \in 1 .. Len(text) : text[k] # Newline => k \in Range(Tokens(text))
<1> DEFINE S == {k \in DOMAIN text : NewlineTokens \/ text[k] # Newline}
           x == InOrder(S, Len(text))
<1>1. Len(text) \in Nat /\ DOMAIN text = 1 .. Len(text)
  OBVIOUS
<1>2. \A k : k \in S <=> k \in 1 .. Len(text) /\ Spoken(text, k)
  BY <1>1 DEF Spoken
<1> HIDE DEF S
<1>3. /\ x \in Seq(Nat) /\ \A m : m \in Range(x) <=> m \in S /\ m \in 1 .. Len(text)
      /\ \A i, j \in 1 .. Len(x) : i < j => x[i] < x[j]
  BY <1>1, InOrderIs
<1>4. Tokens(text) = x
  BY DEF Tokens, S
<1> HIDE DEF x
<1>5. \A i \in 1 .. Len(x) : x[i] \in Range(x)
  BY <1>3 DEF Range
<1>6. \A k \in 1 .. Len(text) : text[k] # Newline => Spoken(text, k)
  BY DEF Spoken
<1> QED BY <1>2, <1>3, <1>4, <1>5, <1>6

LEMMA RangeIs ==
  ASSUME NEW text \in Seq(Characters), NEW span \in Nat \X Nat,
         span[1] < span[2], span[2] <= Len(Tokens(text))
  PROVE  /\ CharRange(text, span)[1] \in Nat /\ CharRange(text, span)[2] \in 1 .. Len(text)
         /\ CharRange(text, span)[1] < CharRange(text, span)[2]
         /\ Spoken(text, CharRange(text, span)[2])
<1> DEFINE x == Tokens(text)
           a == span[1] + 1
           b == span[2]
<1>1. span[1] \in Nat /\ span[2] \in Nat /\ span[1] # span[2] /\ Len(text) \in Nat
  OBVIOUS
<1>2. /\ x \in Seq(Nat)
      /\ \A i \in 1 .. Len(x) : x[i] \in 1 .. Len(text) /\ Spoken(text, x[i])
      /\ \A i, j \in 1 .. Len(x) : i < j => x[i] < x[j]
  BY TokensAre
<1>3. CharRange(text, span) = <<x[a] - 1, x[b]>>
  BY <1>1 DEF CharRange
<1> HIDE DEF x
<1>4. b <= Len(x)
  BY DEF x
<1>5. a \in 1 .. Len(x) /\ b \in 1 .. Len(x) /\ a <= b /\ a \in Nat /\ b \in Nat
  BY <1>1, <1>2, <1>4
<1> HIDE DEF a, b
<1>6. x[a] \in 1 .. Len(text) /\ x[b] \in 1 .. Len(text) /\ Spoken(text, x[b])
  BY <1>2, <1>5
<1>7. x[a] <= x[b]
  <2>1. CASE a = b
    BY <1>1, <1>6, <2>1
  <2>2. CASE a < b
    BY <1>1, <1>2, <1>5, <1>6, <2>2
  <2> QED BY <1>5, <2>1, <2>2
<1>8. x[a] \in Nat /\ x[b] \in Nat /\ x[a] - 1 \in Nat /\ x[a] - 1 < x[b]
  BY <1>1, <1>6, <1>7
<1>9. CharRange(text, span)[1] = x[a] - 1 /\ CharRange(text, span)[2] = x[b]
  BY <1>3
<1> QED BY <1>6, <1>8, <1>9

(* build_index's cursor is where the segments end.                         *)
CursorFunction(segments, f) ==
  f = [k \in 0 .. Len(segments) |->
         IF k = 0 THEN 0
         ELSE f[k - 1] + Len(segments[k]) + (IF f[k - 1] = 0 THEN 0 ELSE 1)]

EndFunction(segments) == [k \in 0 .. Len(segments) |-> EndOf(segments, k)]

FirstHasText(segments) == segments \in Seq(Texts) /\ segments # <<>> /\ segments[1] # <<>>

LEMMA EndsRise ==
  ASSUME NEW segments, FirstHasText(segments)
  PROVE  /\ Len(segments) \in Nat /\ \A k \in 1 .. Len(segments) : EndOf(segments, k) \in Nat \ {0}
         /\ \A k \in 1 .. Len(segments) :
               /\ Len(segments[k]) \in Nat /\ EndOf(segments, k - 1) \in Nat
               /\ k - 1 \in 0 .. Len(segments) /\ EndOf(segments, 0) = 0
               /\ EndOf(segments, k)
                    = EndOf(segments, k - 1) + Len(segments[k])
                        + (IF EndOf(segments, k - 1) = 0 THEN 0 ELSE 1)
               /\ EndOf(segments, k - 1) = 0 <=> k = 1
<1> DEFINE n == Len(segments)
           E(k) == EndOf(segments, k)
           G == {k \in Nat : k \in 1 .. n => E(k) # 0}
<1>1. segments \in Seq(Texts) /\ n \in Nat /\ segments # <<>> /\ segments[1] # <<>> /\ n # 0
  BY DEF FirstHasText
<1>2. /\ E(0) = 0 /\ \A k \in 0 .. n : E(k) \in Nat
      /\ \A k \in 1 .. n : Len(segments[k]) \in Nat /\ E(k) = E(k - 1) + GapLen(k) + Len(segments[k])
  BY <1>1, EndsAre
<1>3. Len(segments[1]) # 0
  <2>1. segments[1] \in Seq(Visible)
    BY <1>1 DEF Texts
  <2> QED BY <1>1, <2>1
<1>4. \A k \in 1 .. n : E(k) # 0
  <2> SUFFICES ASSUME NEW k \in 1 .. n, E(k) = 0 PROVE FALSE
    OBVIOUS
  <2>1. k - 1 \in 0 .. n /\ E(k - 1) \in Nat /\ Len(segments[k]) \in Nat
        /\ E(k) = E(k - 1) + GapLen(k) + Len(segments[k])
    BY <1>1, <1>2
  <2>2. CASE k = 1
    <3>1. GapLen(k) = 0
      BY <2>2 DEF GapLen
    <3> QED BY <1>3, <2>1, <2>2, <3>1
  <2>3. CASE k # 1
    <3>1. GapLen(k) = 1
      BY <2>3 DEF GapLen
    <3> QED BY <2>1, <3>1
  <2> QED BY <2>2, <2>3
<1>5. ASSUME NEW k \in 1 .. n
      PROVE  /\ k - 1 \in 0 .. n
             /\ E(k - 1) = 0 <=> k = 1
             /\ E(k) = E(k - 1) + Len(segments[k]) + (IF E(k - 1) = 0 THEN 0 ELSE 1)
  <2>1. k - 1 \in 0 .. n /\ E(k - 1) \in Nat /\ Len(segments[k]) \in Nat
        /\ E(k) = E(k - 1) + GapLen(k) + Len(segments[k])
    BY <1>1, <1>2
  <2>2. E(k - 1) = 0 <=> k = 1
    <3>1. k = 1 => k - 1 = 0
      OBVIOUS
    <3>2. k # 1 => k - 1 \in 1 .. n
      BY <1>1
    <3> QED BY <1>2, <1>4, <3>1, <3>2
  <2>3. GapLen(k) = IF E(k - 1) = 0 THEN 0 ELSE 1
    BY <2>2 DEF GapLen
  <2> DEFINE g == GapLen(k)
  <2>4. g \in Nat
    BY DEF GapLen
  <2>5. g = IF E(k - 1) = 0 THEN 0 ELSE 1
    BY <2>3
  <2> HIDE DEF g
  <2>6. E(k) = E(k - 1) + Len(segments[k]) + g
    <3>1. E(k) = E(k - 1) + g + Len(segments[k])
      BY <2>1 DEF g
    <3> QED BY <2>1, <2>4, <3>1
  <2> QED BY <2>1, <2>2, <2>5, <2>6
<1>6. \A k \in 1 .. n : k \in 0 .. n /\ k - 1 \in 0 .. n
  BY <1>1
<1> QED BY <1>1, <1>2, <1>4, <1>5, <1>6

LEMMA CursorIs ==
  ASSUME NEW segments, FirstHasText(segments)
  PROVE  \A k \in 0 .. Len(segments) : Cursor(segments)[k] = EndOf(segments, k)
<1> DEFINE n == Len(segments)
           E(k) == EndOf(segments, k)
           F == CHOOSE f : f = [k \in 0 .. Len(segments) |->
                                  IF k = 0 THEN 0
                                  ELSE f[k - 1] + Len(segments[k]) + (IF f[k - 1] = 0 THEN 0 ELSE 1)]
<1>1. /\ n \in Nat /\ E(0) = 0
      /\ \A k \in 1 .. n : /\ k - 1 \in 0 .. n
                           /\ E(k) = E(k - 1) + Len(segments[k]) + (IF E(k - 1) = 0 THEN 0 ELSE 1)
  <2>1. segments \in Seq(Texts)
    BY DEF FirstHasText
  <2> QED BY <2>1, EndsRise, EndsAre
<1>2. \E f : CursorFunction(segments, f)
  <2> DEFINE h == EndFunction(segments)
  <2>1. DOMAIN h = 0 .. n /\ h = [k \in 0 .. n |-> h[k]] /\ \A k \in 0 .. n : h[k] = E(k)
    BY DEF EndFunction
  <2> HIDE DEF h
  <2>2. \A k \in 0 .. n : h[k] = IF k = 0 THEN 0
                                 ELSE h[k - 1] + Len(segments[k]) + (IF h[k - 1] = 0 THEN 0 ELSE 1)
    <3> SUFFICES ASSUME NEW k \in 0 .. n
                 PROVE  h[k] = IF k = 0 THEN 0
                               ELSE h[k - 1] + Len(segments[k]) + (IF h[k - 1] = 0 THEN 0 ELSE 1)
      OBVIOUS
    <3>1. CASE k = 0
      BY <1>1, <2>1, <3>1
    <3>2. CASE k # 0
      <4>1. k \in 1 .. n
        BY <1>1, <3>2
      <4>2. h[k] = E(k) /\ h[k - 1] = E(k - 1)
        BY <1>1, <2>1, <4>1
      <4> QED BY <1>1, <3>2, <4>1, <4>2
    <3> QED BY <3>1, <3>2
  <2>3. CursorFunction(segments, h)
    BY <2>1, <2>2 DEF CursorFunction
  <2> QED BY <2>3
<1>3. CursorFunction(segments, F)
  BY <1>2 DEF CursorFunction
<1>4. Cursor(segments) = F
  BY DEF Cursor
<1> HIDE DEF F
<1>5. /\ F[0] = 0
      /\ \A k \in 1 .. n : F[k] = F[k - 1] + Len(segments[k]) + (IF F[k - 1] = 0 THEN 0 ELSE 1)
  BY <1>1, <1>3 DEF CursorFunction
<1> DEFINE G == {k \in Nat : F[k] = E(k)}
<1>6. 0 \in G
  BY <1>1, <1>5
<1>7. ASSUME NEW k \in 0 .. (n - 1), k \in G PROVE k + 1 \in G
  <2>1. k + 1 \in 1 .. n /\ (k + 1) - 1 = k /\ k \in Nat /\ F[k] = E(k) /\ k + 1 \in Nat
    BY <1>1, <1>7
  <2>2. F[k + 1] = F[k] + Len(segments[k + 1]) + (IF F[k] = 0 THEN 0 ELSE 1)
    BY <1>5, <2>1
  <2>3. E(k + 1) = E(k) + Len(segments[k + 1]) + (IF E(k) = 0 THEN 0 ELSE 1)
    BY <1>1, <2>1
  <2> QED BY <2>1, <2>2, <2>3
<1>8. \A k \in 0 .. n : k \in G
  <2> HIDE DEF G
  <2> QED BY <1>1, <1>6, <1>7, UpTo
<1> QED BY <1>4, <1>8

LEMMA CoveredAre ==
  ASSUME NEW segments, FirstHasText(segments), NEW span
  PROVE  \A k : k \in CoveredFiles(segments, span) <=>
                  /\ k \in 1 .. Len(segments)
                  /\ EndOf(segments, k - 1) < CharRange(Joined(segments), span)[2]
                  /\ EndOf(segments, k) > CharRange(Joined(segments), span)[1]
<1>1. DOMAIN segments = 1 .. Len(segments) /\ Len(segments) \in Nat
  BY DEF FirstHasText
<1>2. \A k \in 1 .. Len(segments) : k \in 0 .. Len(segments) /\ k - 1 \in 0 .. Len(segments)
  BY <1>1
<1>3. \A k \in 1 .. Len(segments) : /\ Cursor(segments)[k] = EndOf(segments, k)
                                    /\ Cursor(segments)[k - 1] = EndOf(segments, k - 1)
  BY <1>2, CursorIs
<1> QED BY <1>1, <1>3 DEF CoveredFiles

(* A span of tokens is covered by a file.                                  *)
LEMMA SomeCovered ==
  ASSUME NEW segments, FirstHasText(segments), NEW span \in Nat \X Nat, span[1] < span[2],
         span[2] <= Len(Tokens(Joined(segments)))
  PROVE  CoveredFiles(segments, span) # {}
<1> DEFINE n == Len(segments)
           E(k) == EndOf(segments, k)
           r1 == CharRange(Joined(segments), span)[1]
           r2 == CharRange(Joined(segments), span)[2]
           K == {k \in Nat : k \in 1 .. n /\ E(k) > r1}
<1>1. segments \in Seq(Texts) /\ n \in Nat /\ segments # <<>> /\ n # 0
  BY DEF FirstHasText
<1>2. Joined(segments) \in Seq(Characters) /\ Len(Joined(segments)) \in Nat
  <2>1. Joined(segments) \in Seq(Characters)
    BY <1>1, StreamIs
  <2> QED BY <2>1
<1>3. r1 \in Nat /\ r2 \in 1 .. Len(Joined(segments)) /\ r1 < r2
  BY <1>2, RangeIs
<1>4. E(0) = 0 /\ E(n) = Len(Joined(segments)) /\ \A k \in 0 .. n : E(k) \in Nat
  BY <1>1, EndsAre
<1> HIDE DEF r1, r2
<1>5. n \in K
  BY <1>1, <1>2, <1>3, <1>4
<1>6. PICK k \in K : \A j \in K : k <= j
  <2>1. K \in SUBSET Nat /\ K # {}
    BY <1>5
  <2> HIDE DEF K
  <2> QED BY <2>1, Least
<1>7. k \in 1 .. n /\ E(k) > r1 /\ k - 1 \in 0 .. n /\ k \in Nat
  BY <1>1, <1>6
<1>8. ~(E(k - 1) > r1)
  <2> SUFFICES ASSUME E(k - 1) > r1 PROVE FALSE
    OBVIOUS
  <2>1. CASE k = 1
    <3>1. k - 1 = 0
      BY <2>1
    <3> QED BY <1>3, <1>4, <3>1
  <2>2. CASE k # 1
    <3>1. k - 1 \in 1 .. n /\ k - 1 \in Nat /\ ~(k <= k - 1)
      BY <1>1, <1>7, <2>2
    <3>2. k - 1 \in K
      BY <3>1
    <3> HIDE DEF K
    <3> QED BY <1>6, <3>1, <3>2
  <2> QED BY <2>1, <2>2
<1>9. E(k - 1) < r2
  <2>1. E(k - 1) \in Nat /\ r2 \in Nat
    BY <1>2, <1>3, <1>4, <1>7
  <2> QED BY <1>3, <1>8, <2>1
<1>10. k \in CoveredFiles(segments, span)
  BY <1>7, <1>9, CoveredAre DEF r1, r2
<1> QED BY <1>10

(* Where a segment lies, as the property says it.                          *)
Exact(segments, span) ==
  LET range == CharRange(Joined(segments), span)
      from(k) == EndOf(segments, k) - Len(segments[k])
      held == {k \in DOMAIN segments :
                 Max({range[1], from(k)}) < Min({range[2], EndOf(segments, k)})}
  IN /\ held \subseteq CoveredFiles(segments, span)
     /\ \A k \in CoveredFiles(segments, span) \ held :
           \/ segments[k] = <<>>
           \/ NewlineTokens /\ Joined(segments)[range[2]] = Newline /\ from(k) = range[2]

LEMMA OfTwo ==
  ASSUME NEW a \in Nat, NEW b \in Nat
  PROVE  /\ Max({a, b}) = IF a <= b THEN b ELSE a
         /\ Min({a, b}) = IF a <= b THEN a ELSE b
<1>1. {a, b} \in SUBSET Nat /\ {a, b} # {}
  OBVIOUS
<1>2. Min({a, b}) \in {a, b} /\ \A y \in {a, b} : Min({a, b}) <= y
  BY <1>1, LeastIs
<1>3. a + b \in Nat /\ \A y \in {a, b} : y <= a + b
  OBVIOUS
<1>4. Max({a, b}) \in {a, b} /\ \A y \in {a, b} : y <= Max({a, b})
  BY <1>1, <1>3, Greatest
<1>5. Min({a, b}) <= a /\ Min({a, b}) <= b /\ (Min({a, b}) = a \/ Min({a, b}) = b)
  BY <1>2
<1>6. a <= Max({a, b}) /\ b <= Max({a, b}) /\ (Max({a, b}) = a \/ Max({a, b}) = b)
  BY <1>4
<1>7. Max({a, b}) = IF a <= b THEN b ELSE a
  BY <1>6
<1>8. Min({a, b}) = IF a <= b THEN a ELSE b
  BY <1>5
<1> QED BY <1>7, <1>8

LEMMA ExactIs ==
  ASSUME NEW segments, FirstHasText(segments), NEW span \in Nat \X Nat, span[1] < span[2],
         span[2] <= Len(Tokens(Joined(segments)))
  PROVE  Exact(segments, span)
<1> DEFINE n == Len(segments)
           E(k) == EndOf(segments, k)
           text == Joined(segments)
           range == CharRange(text, span)
           r1 == range[1]
           r2 == range[2]
           from(k) == EndOf(segments, k) - Len(segments[k])
           held == {k \in DOMAIN segments : Max({r1, from(k)}) < Min({r2, E(k)})}
<1>1. segments \in Seq(Texts) /\ n \in Nat /\ DOMAIN segments = 1 .. n
  BY DEF FirstHasText
<1>2. text \in Seq(Characters)
  BY <1>1, StreamIs
<1>3. r1 \in Nat /\ r2 \in 1 .. Len(text) /\ r1 < r2 /\ Spoken(text, r2) /\ Len(text) \in Nat
  BY <1>2, RangeIs
<1>4. \A k : k \in CoveredFiles(segments, span) <=> k \in 1 .. n /\ E(k - 1) < r2 /\ E(k) > r1
  BY CoveredAre
<1>5. Exact(segments, span) <=>
         /\ held \subseteq CoveredFiles(segments, span)
         /\ \A k \in CoveredFiles(segments, span) \ held :
               segments[k] = <<>> \/ (NewlineTokens /\ text[r2] = Newline /\ from(k) = r2)
  BY DEF Exact
<1> HIDE DEF r1, r2, range, text
<1>6. ASSUME NEW k \in 1 .. n
      PROVE  /\ E(k) \in Nat /\ E(k - 1) \in Nat /\ Len(segments[k]) \in Nat
             /\ from(k) \in Nat
             /\ k = 1 => E(k - 1) = 0 /\ from(k) = 0
             /\ k # 1 => from(k) = E(k - 1) + 1 /\ text[E(k - 1) + 1] = Newline
             /\ from(k) + Len(segments[k]) = E(k)
  <2>1. /\ k - 1 \in 0 .. n /\ k \in 0 .. n
        /\ k # 1 => k \in 2 .. n
        /\ k = 1 => k - 1 = 0
    BY <1>1
  <2>2. /\ E(0) = 0 /\ E(k) \in Nat /\ E(k - 1) \in Nat /\ Len(segments[k]) \in Nat
        /\ E(k) = E(k - 1) + GapLen(k) + Len(segments[k])
    BY <1>1, <2>1, EndsAre
  <2>3. GapLen(k) = IF k = 1 THEN 0 ELSE 1
    BY DEF GapLen
  <2>4. k # 1 => text[E(k - 1) + 1] = Newline
    BY <1>1, <2>1, NewlineBetween DEF text
  <2> DEFINE g == GapLen(k)
             f == from(k)
             l == Len(segments[k])
  <2>5. f = E(k) - l /\ E(k) = E(k - 1) + g + l /\ E(k) \in Nat /\ E(k - 1) \in Nat /\ l \in Nat /\ g \in Nat
    BY <2>2, <2>3
  <2> HIDE DEF g, f, l, E
  <2>6. f = E(k - 1) + g /\ f + l = E(k) /\ f \in Nat
    BY <2>5
  <2>7. k = 1 => E(k - 1) = 0
    BY <2>1, <2>2
  <2>8. g = IF k = 1 THEN 0 ELSE 1
    BY <2>3 DEF g
  <2>9. (k = 1 => f = 0) /\ (k # 1 => f = E(k - 1) + 1)
    BY <2>5, <2>6, <2>7, <2>8
  <2> QED BY <2>4, <2>5, <2>6, <2>7, <2>9 DEF f, l
<1>7. r2 \in Nat
  BY <1>3
<1>8. ASSUME NEW k \in 1 .. n
      PROVE  k \in held <=> /\ r1 < E(k) /\ from(k) < r2 /\ from(k) < E(k)
  <2> DEFINE f == from(k)
             e == E(k)
  <2>1. f \in Nat /\ e \in Nat /\ r1 \in Nat /\ r2 \in Nat /\ r1 < r2
    BY <1>3, <1>6, <1>7
  <2>2. k \in held <=> Max({r1, f}) < Min({r2, e})
    BY <1>1
  <2> HIDE DEF f, e, held
  <2>3. Max({r1, f}) = IF r1 <= f THEN f ELSE r1
    BY <2>1, OfTwo
  <2>4. Min({r2, e}) = IF r2 <= e THEN r2 ELSE e
    BY <2>1, OfTwo
  <2>5. Max({r1, f}) < Min({r2, e}) <=> r1 < e /\ f < r2 /\ f < e
    BY <2>1, <2>3, <2>4
  <2> QED BY <2>2, <2>5 DEF f, e
<1>9. \A k \in held : k \in 1 .. n
  BY <1>1
<1> HIDE DEF held, from, E
<1>10. ASSUME NEW k \in held PROVE k \in CoveredFiles(segments, span)
  <2>1. k \in 1 .. n
    BY <1>9
  <2>2. r1 < E(k) /\ from(k) < r2
    BY <1>8, <2>1
  <2>3. E(k - 1) <= from(k)
    BY <1>6, <2>1
  <2>4. E(k - 1) < r2
    BY <1>6, <1>7, <2>1, <2>2, <2>3
  <2>5. E(k) > r1
    BY <1>3, <1>6, <2>1, <2>2
  <2> QED BY <1>4, <2>1, <2>4, <2>5
<1>11. ASSUME NEW k \in CoveredFiles(segments, span), k \notin held
       PROVE  segments[k] = <<>> \/ (NewlineTokens /\ text[r2] = Newline /\ from(k) = r2)
  <2>1. k \in 1 .. n /\ E(k - 1) < r2 /\ E(k) > r1
    BY <1>4
  <2>2. ~(r1 < E(k) /\ from(k) < r2 /\ from(k) < E(k))
    BY <1>8, <1>11, <2>1
  <2>3. r1 < E(k)
    BY <1>3, <1>6, <2>1
  <2>4. CASE ~(from(k) < E(k))
    <3>1. Len(segments[k]) = 0
      BY <1>6, <2>1, <2>4
    <3>2. segments[k] \in Seq(Visible)
      BY <1>1, <2>1 DEF Texts
    <3> QED BY <3>1, <3>2
  <2>5. CASE ~(from(k) < r2)
    <3>1. k # 1
      BY <1>3, <1>6, <1>7, <2>1, <2>5
    <3>2. from(k) = E(k - 1) + 1 /\ text[E(k - 1) + 1] = Newline
      BY <1>6, <2>1, <3>1
    <3>3. r2 = E(k - 1) + 1
      BY <1>6, <1>7, <2>1, <2>5, <3>2
    <3> QED BY <1>3, <3>2, <3>3 DEF Spoken
  <2> QED BY <2>2, <2>3, <2>4, <2>5
<1> QED BY <1>5, <1>10, <1>11

-----------------------------------------------------------------------------
(* The windows of a stream with tokens are not empty.                      *)
LEMMA SpansAre ==
  ASSUME WindowInv, length # 0
  PROVE  \A i \in DOMAIN spans :
            spans[i] \in Nat \X Nat /\ spans[i][1] < spans[i][2] /\ spans[i][2] <= length
<1> SUFFICES ASSUME NEW i \in DOMAIN spans
             PROVE  spans[i] \in Nat \X Nat /\ spans[i][1] < spans[i][2] /\ spans[i][2] <= length
  OBVIOUS
<1>1. WindowTypes /\ LastWindow /\ ChunksCoverText
  BY DEF WindowInv
<1>2. spans \in Seq(Nat \X Nat) /\ Len(spans) \in Nat /\ i \in 1 .. Len(spans) /\ length \in Nat
      /\ cut \in BOOLEAN
  BY <1>1 DEF WindowTypes
<1>3. spans[i] \in Nat \X Nat /\ spans[i][1] \in Nat /\ spans[i][2] \in Nat
  BY <1>2
<1>4. ChunkSize \in Nat /\ ChunkSize # 0 /\ Overlap \in Nat
  BY WindowAssumption
<1>5. /\ spans[i][2] <= length
      /\ i < Len(spans) => spans[i][2] - spans[i][1] = ChunkSize
      /\ i = 1 => spans[i][1] = 0
      /\ i > 1 => spans[i][1] = spans[i - 1][2] - Overlap /\ spans[i][2] > spans[i - 1][2]
  BY <1>1 DEF ChunksCoverText
<1>6. CASE i < Len(spans)
  BY <1>3, <1>4, <1>5, <1>6
<1>7. CASE i = Len(spans) /\ ~cut
  <2>1. spans # <<>>
    BY <1>2, <1>7
  <2>2. spans[i][2] - spans[i][1] = ChunkSize
    BY <1>1, <1>7, <2>1 DEF LastWindow
  <2> QED BY <1>3, <1>4, <1>5, <2>2
<1>8. CASE i = Len(spans) /\ cut
  <2>1. spans[i][2] = length
    BY <1>1, <1>8 DEF ChunksCoverText
  <2>2. CASE i = 1
    BY <1>2, <1>3, <1>5, <2>1, <2>2
  <2>3. CASE i # 1
    <3>1. i - 1 \in 1 .. Len(spans) /\ i > 1
      BY <1>2, <2>3
    <3>2. spans[i - 1] \in Nat \X Nat
      BY <1>2, <3>1
    <3>3. spans[i - 1][2] \in Nat
      BY <3>2
    <3> QED BY <1>3, <1>4, <1>5, <3>1, <3>3
  <2> QED BY <2>2, <2>3
<1> QED BY <1>2, <1>6, <1>7, <1>8

-----------------------------------------------------------------------------
(* The text that is cut is the files' text, and only a chunk that cites    *)
(* nothing refuses the document.                                           *)
CutsTheFiles ==
  Built => /\ length = Len(Tokens(Joined(Segments)))
           /\ phase = "refused" =>
                 \E i \in DOMAIN spans : CoveredFiles(Segments, spans[i]) = {}

CitesOK == BuildOK /\ WindowsOK /\ CutsTheFiles

LEMMA SegmentsStay == UNCHANGED files => Segments' = Segments
  BY DEF Segments, Paths

LEMMA CitesStep == CitesOK /\ [Next]_vars => CitesOK'
<1> SUFFICES ASSUME CitesOK, [Next]_vars PROVE CutsTheFiles'
  BY BuildStep, WindowsStep DEF CitesOK
<1>1. CASE SkipBlock \/ RenderPdfBlock \/ RenderDocxBlock \/ FinishHtml \/ Parse \/ StartWriting
           \/ WriteHeading \/ WriteBlock
  <2>1. phase' \in {"render", "parse", "write"}
    BY <1>1 DEF SkipBlock, RenderPdfBlock, RenderDocxBlock, Rendering, FinishHtml, Parse,
                StartWriting, WriteHeading, WriteBlock, Writing
  <2> QED BY <2>1 DEF CutsTheFiles, Built
<1>2. CASE StartCutting
  <2>1. /\ phase' # "refused" /\ length' = Len(Tokens(Joined(Segments))) /\ UNCHANGED files
    BY <1>2 DEF StartCutting
  <2> QED BY <2>1, SegmentsStay DEF CutsTheFiles
<1>3. CASE Cut
  <2>1. phase = "cut" /\ phase' = phase /\ length' = length /\ UNCHANGED files
    BY <1>3 DEF Cut, CutWindow, buildVars
  <2> QED BY <2>1, SegmentsStay DEF CitesOK, CutsTheFiles, Built
<1>4. CASE Validate
  <2>1. /\ phase = "cut" /\ length' = length /\ spans' = spans /\ UNCHANGED files
        /\ phase' = "refused" => \E i \in DOMAIN spans : CoveredFiles(Segments, spans[i]) = {}
    BY <1>4 DEF Validate, windowVars
  <2> QED BY <2>1, SegmentsStay DEF CitesOK, CutsTheFiles, Built
<1>5. CASE UNCHANGED vars
  <2>1. phase' = phase /\ length' = length /\ spans' = spans /\ UNCHANGED files
    BY <1>5 DEF vars, buildVars, windowVars
  <2> QED BY <2>1, SegmentsStay DEF CitesOK, CutsTheFiles, Built
<1> QED BY <1>1, <1>2, <1>3, <1>4, <1>5 DEF Next

LEMMA TextHasTokens ==
  ASSUME NEW segments, FirstHasText(segments)
  PROVE  Len(Tokens(Joined(segments))) # 0
<1> DEFINE text == Joined(segments)
<1>1. segments \in Seq(Texts) /\ Len(segments) \in Nat /\ 1 \in 1 .. Len(segments)
      /\ 1 - 1 = 0 /\ 1 \in 0 .. Len(segments) /\ 0 \in 0 .. (Len(segments) - 1) /\ 0 + 1 = 1
  BY DEF FirstHasText
<1>2. text \in Seq(Characters)
  BY <1>1, StreamIs
<1>3. Upto(segments, 0) = <<>> /\ Upto(segments, 1) = Upto(segments, 0) \o (Gap(1) \o segments[1])
  BY <1>1, StreamIs
<1>4. Gap(1) = <<>> /\ segments[1] \in Seq(Characters)
  BY <1>1, PiecesAre DEF Gap
<1>5. Upto(segments, 1) = segments[1]
  BY <1>3, <1>4, ConcatEmptySeq
<1>6. segments[1] \in Seq(Visible) /\ segments[1] # <<>>
  BY <1>1 DEF FirstHasText, Texts
<1>7. EndOf(segments, 1) = Len(segments[1]) /\ Len(segments[1]) \in Nat /\ 1 \in 1 .. Len(segments[1])
  BY <1>5, <1>6 DEF EndOf
<1>8. /\ EndOf(segments, 1) <= Len(text)
      /\ \A c \in 1 .. EndOf(segments, 1) : text[c] = Upto(segments, 1)[c]
  BY <1>1, UptoStays
<1> HIDE DEF text
<1>9. Len(text) \in Nat
  BY <1>2
<1>10. 1 \in 1 .. Len(text) /\ text[1] = segments[1][1]
  BY <1>5, <1>7, <1>8, <1>9
<1>11. segments[1][1] # Newline
  BY <1>6, <1>7, VisibleIs
<1>12. 1 \in Range(Tokens(text)) /\ Tokens(text) \in Seq(Nat)
  BY <1>2, <1>10, <1>11, TokensAre
<1>13. Tokens(text) # <<>>
  BY <1>12 DEF Range
<1> QED BY <1>12, <1>13 DEF text

LEMMA CitesFollow == CitesOK => CitationsAreExact
<1> SUFFICES ASSUME CitesOK, Built, Segments # <<>>, Segments[1] # <<>>
             PROVE  /\ phase # "refused"
                    /\ \A i \in DOMAIN spans :
                          LET cited == CoveredFiles(Segments, spans[i])
                          IN /\ Holds(spans[i]) \subseteq cited
                             /\ \A k \in cited \ Holds(spans[i]) :
                                   Segments[k] = <<>> \/ BeginsBehind(spans[i], k)
  BY DEF CitationsAreExact
<1>1. FilesOK /\ WindowInv /\ length = Len(Tokens(Joined(Segments)))
      /\ (phase = "refused" => \E i \in DOMAIN spans : CoveredFiles(Segments, spans[i]) = {})
  BY DEF CitesOK, BuildOK, TreeOK, WindowsOK, CutsTheFiles, Built
<1>2. FirstHasText(Segments)
  BY <1>1, SegmentsAre DEF FirstHasText
<1>3. length # 0
  BY <1>1, <1>2, TextHasTokens
<1>4. \A i \in DOMAIN spans :
         spans[i] \in Nat \X Nat /\ spans[i][1] < spans[i][2] /\ spans[i][2] <= length
  BY <1>1, <1>3, SpansAre
<1>5. phase # "refused"
  BY <1>1, <1>2, <1>4, SomeCovered
<1>6. \A k \in DOMAIN Segments : SegmentEnd(k) = EndOf(Segments, k)
                                 /\ SegmentStart(k) = EndOf(Segments, k) - Len(Segments[k])
  <2> SUFFICES ASSUME NEW k \in DOMAIN Segments
               PROVE  SegmentEnd(k) = EndOf(Segments, k)
                      /\ SegmentStart(k) = EndOf(Segments, k) - Len(Segments[k])
    OBVIOUS
  <2>1. Segments \in Seq(Texts)
    BY <1>2 DEF FirstHasText
  <2>2. k \in 0 .. Len(Segments)
    BY <2>1
  <2>3. Joined(SubSeq(Segments, 1, k)) = Upto(Segments, k)
    BY <2>1, <2>2, UptoIs
  <2> QED BY <2>3 DEF SegmentEnd, SegmentStart, EndOf
<1>7. ASSUME NEW i \in DOMAIN spans
      PROVE  /\ Holds(spans[i]) \subseteq CoveredFiles(Segments, spans[i])
             /\ \A k \in CoveredFiles(Segments, spans[i]) \ Holds(spans[i]) :
                   Segments[k] = <<>> \/ BeginsBehind(spans[i], k)
  <2>1. Exact(Segments, spans[i])
    BY <1>1, <1>2, <1>4, ExactIs
  <2> DEFINE range == CharRange(Joined(Segments), spans[i])
             held == {k \in DOMAIN Segments :
                        Max({range[1], EndOf(Segments, k) - Len(Segments[k])})
                          < Min({range[2], EndOf(Segments, k)})}
  <2>2. /\ held \subseteq CoveredFiles(Segments, spans[i])
        /\ \A k \in CoveredFiles(Segments, spans[i]) \ held :
              \/ Segments[k] = <<>>
              \/ /\ NewlineTokens /\ Joined(Segments)[range[2]] = Newline
                 /\ EndOf(Segments, k) - Len(Segments[k]) = range[2]
    BY <2>1 DEF Exact
  <2>3. Holds(spans[i]) = held
    BY <1>6 DEF Holds
  <2>4. \A k \in CoveredFiles(Segments, spans[i]) : k \in DOMAIN Segments
    BY DEF CoveredFiles
  <2> HIDE DEF held
  <2>5. ASSUME NEW k \in CoveredFiles(Segments, spans[i]), k \notin held, Segments[k] # <<>>
        PROVE  BeginsBehind(spans[i], k)
    <3>1. SegmentStart(k) = EndOf(Segments, k) - Len(Segments[k])
      BY <1>6, <2>4, <2>5
    <3> QED BY <2>2, <2>5, <3>1 DEF BeginsBehind
  <2> QED BY <2>2, <2>3, <2>5
<1> QED BY <1>5, <1>7

(* In every document whose first file has a text, whatever the windows and *)
(* the files, and whether or not the tokenizer counts newlines: each chunk *)
(* cites the files it has text of and, beside them, only files without any *)
(* text and the file behind the newline that the chunk ends in             *)
(* (build_index compares character ranges over the joined files and counts *)
(* the newline to the file behind it); and no such document is refused by  *)
(* _validate_prepared for a chunk that cites nothing.                      *)
THEOREM CitationsExact == Spec => []CitationsAreExact
<1>1. Init => CitesOK
  <2>1. Init => ~Built
    BY DEF Init, Built
  <2> QED BY <2>1, BuildInit DEF CitesOK, CutsTheFiles
<1> QED BY <1>1, CitesStep, CitesFollow, PTL DEF Spec
==============================================================================
