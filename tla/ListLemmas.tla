----------------------------- MODULE ListLemmas -----------------------------
(***************************************************************************)
(* Lists without duplicates, as m_executors and the chain of a queue are:  *)
(* what they hold after an element is erased, appended or taken off.       *)
(* Lists put together, as the buffers of messages are: where the parts of  *)
(* a concatenation or of FlattenSeq begin and end.                         *)
(***************************************************************************)
EXTENDS Naturals, SequencesExt, TLAPS, WellFoundedInduction

\* Two names of the elements of a list.
LEMMA RangeIsSet == ASSUME NEW s PROVE Range(s) = ToSet(s)
BY DEF Range, ToSet

\* The empty list.
LEMMA EmptyList == Range(<<>>) = {} /\ IsInjective(<<>>) /\ Len(<<>>) = 0
BY DEF Range, IsInjective

\* Lists of the same length with the same elements are the same.
LEMMA SameList ==
    ASSUME NEW S, NEW s \in Seq(S), NEW r \in Seq(S), Len(s) = Len(r),
           \A i \in 1..Len(s): s[i] = r[i]
    PROVE  s = r
<1>1. s = [i \in 1..Len(s) |-> s[i]] /\ r = [i \in 1..Len(s) |-> r[i]]
  OBVIOUS
<1>2. [i \in 1..Len(s) |-> s[i]] = [i \in 1..Len(s) |-> r[i]]
  OBVIOUS
<1> QED
  BY <1>1, <1>2, Zenon

\* The elements that stay when the scan erases one.
LEMMA RemoveAtElements ==
    ASSUME NEW S, NEW s \in Seq(S), NEW i \in 1..Len(s)
    PROVE  /\ RemoveAt(s, i) \in Seq(S)
           /\ Len(RemoveAt(s, i)) = Len(s) - 1
           /\ \A j \in 1..(Len(s) - 1): RemoveAt(s, i)[j] = IF j < i THEN s[j] ELSE s[j + 1]
<1> DEFINE l == SubSeq(s, 1, i - 1)
           r == SubSeq(s, i + 1, Len(s))
<1>1. Len(s) \in Nat
  OBVIOUS
<1>2. l \in Seq(S) /\ Len(l) = i - 1 /\ \A j \in 1..(i - 1): l[j] = s[j]
  BY <1>1
<1>3. r \in Seq(S) /\ Len(r) = Len(s) - i /\ \A j \in 1..(Len(s) - i): r[j] = s[i + j]
  BY <1>1
<1>4. RemoveAt(s, i) = l \o r
  BY DEF RemoveAt
<1> HIDE DEF l, r
<1>5. RemoveAt(s, i) \in Seq(S) /\ Len(RemoveAt(s, i)) = Len(s) - 1
  BY <1>1, <1>2, <1>3, <1>4
<1>6. ASSUME NEW j \in 1..(Len(s) - 1)
      PROVE  (l \o r)[j] = IF j < i THEN s[j] ELSE s[j + 1]
  <2>1. CASE j < i
    BY <1>1, <1>2, <1>3, <2>1
  <2>2. CASE ~(j < i)
    <3>1. (l \o r)[j] = r[j - Len(l)]
      BY <1>1, <1>2, <1>3, <2>2
    <3> QED
      BY <1>1, <1>2, <1>3, <2>2, <3>1
  <2> QED
    BY <2>1, <2>2
<1> QED
  BY <1>4, <1>5, <1>6

\* Erasing position i of a list without duplicates takes away just that element.
LEMMA RemoveAtSet ==
    ASSUME NEW S, NEW s \in Seq(S), IsInjective(s), NEW i \in 1..Len(s)
    PROVE  /\ RemoveAt(s, i) \in Seq(S)
           /\ IsInjective(RemoveAt(s, i))
           /\ ToSet(RemoveAt(s, i)) = ToSet(s) \ {s[i]}
<1> DEFINE r == RemoveAt(s, i)
<1>1. /\ r \in Seq(S) /\ Len(r) = Len(s) - 1
      /\ \A j \in 1..(Len(s) - 1): r[j] = IF j < i THEN s[j] ELSE s[j + 1]
  BY RemoveAtElements
<1> HIDE DEF r
<1>2. DOMAIN r = 1..(Len(s) - 1) /\ DOMAIN s = 1..Len(s) /\ Len(s) \in Nat
  BY <1>1
<1> DEFINE k(j) == IF j < i THEN j ELSE j + 1
<1>6. ASSUME NEW j \in DOMAIN r PROVE k(j) \in DOMAIN s /\ k(j) # i /\ r[j] = s[k(j)]
  BY <1>1, <1>2
<1>7. ASSUME NEW j \in DOMAIN r, NEW h \in DOMAIN r, k(j) = k(h) PROVE j = h
  BY <1>2, <1>7
<1> HIDE DEF k
<1>3. IsInjective(r)
  BY <1>6, <1>7 DEF IsInjective
<1>4. ASSUME NEW x \in ToSet(r) PROVE x \in ToSet(s) \ {s[i]}
  <2>1. PICK j \in DOMAIN r: x = r[j]
    BY DEF ToSet
  <2>2. x = s[k(j)] /\ k(j) \in DOMAIN s /\ k(j) # i /\ i \in DOMAIN s
    BY <1>2, <1>6, <2>1
  <2>3. s[k(j)] # s[i]
    BY <2>2 DEF IsInjective
  <2> QED
    BY <2>2, <2>3 DEF ToSet
<1>5. ASSUME NEW x \in ToSet(s) \ {s[i]} PROVE x \in ToSet(r)
  <2>1. PICK j \in 1..Len(s): x = s[j] /\ j # i
    BY <1>2 DEF ToSet
  <2>2. CASE j < i
    <3>1. j \in 1..(Len(s) - 1) /\ r[j] = x
      BY <1>1, <1>2, <2>1, <2>2
    <3> QED
      BY <1>2, <3>1 DEF ToSet
  <2>3. CASE j > i
    <3>1. j - 1 \in 1..(Len(s) - 1) /\ r[j - 1] = x
      BY <1>1, <1>2, <2>1, <2>3
    <3> QED
      BY <1>2, <3>1 DEF ToSet
  <2> QED
    BY <1>2, <2>1, <2>2, <2>3
<1> QED
  BY <1>1, <1>3, <1>4, <1>5 DEF r

\* A new element at the end of a list without duplicates.
LEMMA AppendSet ==
    ASSUME NEW S, NEW s \in Seq(S), IsInjective(s), NEW e \in S, e \notin ToSet(s)
    PROVE  /\ Append(s, e) \in Seq(S)
           /\ IsInjective(Append(s, e))
           /\ ToSet(Append(s, e)) = ToSet(s) \cup {e}
<1> DEFINE r == Append(s, e)
<1>1. /\ r \in Seq(S) /\ Len(r) = Len(s) + 1 /\ r[Len(s) + 1] = e
      /\ \A j \in 1..Len(s): r[j] = s[j]
  OBVIOUS
<1> HIDE DEF r
<1>2. DOMAIN r = 1..(Len(s) + 1) /\ DOMAIN s = 1..Len(s) /\ Len(s) \in Nat
  BY <1>1
<1>3. IsInjective(r)
  BY <1>1, <1>2 DEF IsInjective, ToSet
<1>4. ToSet(r) = ToSet(s) \cup {e}
  BY <1>1, <1>2 DEF ToSet
<1> QED
  BY <1>1, <1>3, <1>4 DEF r

\* The elements behind the first.
LEMMA TailElements ==
    ASSUME NEW S, NEW s \in Seq(S), s # <<>>
    PROVE  /\ Tail(s) \in Seq(S) /\ Len(Tail(s)) = Len(s) - 1
           /\ Len(s) \in Nat \ {0} /\ Head(s) = s[1]
           /\ \A j \in 1..(Len(s) - 1): Tail(s)[j] = s[j + 1]
OBVIOUS

\* A list without duplicates after its first element.
LEMMA TailSet ==
    ASSUME NEW S, NEW s \in Seq(S), IsInjective(s), s # <<>>
    PROVE  /\ Head(s) \in ToSet(s)
           /\ Tail(s) \in Seq(S)
           /\ IsInjective(Tail(s))
           /\ ToSet(Tail(s)) = ToSet(s) \ {Head(s)}
<1> DEFINE r == Tail(s)
<1>1. /\ r \in Seq(S) /\ Len(r) = Len(s) - 1 /\ Len(s) > 0 /\ Head(s) = s[1]
      /\ \A j \in 1..(Len(s) - 1): r[j] = s[j + 1]
  OBVIOUS
<1> HIDE DEF r
<1>2. DOMAIN r = 1..(Len(s) - 1) /\ DOMAIN s = 1..Len(s) /\ Len(s) \in Nat
  BY <1>1
<1>3. IsInjective(r)
  BY <1>1, <1>2 DEF IsInjective
<1>4. ASSUME NEW x \in ToSet(s) \ {Head(s)} PROVE x \in ToSet(r)
  <2>1. PICK j \in 1..Len(s): x = s[j] /\ j # 1
    BY <1>1, <1>2 DEF ToSet
  <2>2. j - 1 \in DOMAIN r /\ r[j - 1] = x
    BY <1>1, <1>2, <2>1
  <2> QED
    BY <2>2 DEF ToSet
<1>5. ASSUME NEW x \in ToSet(r) PROVE x \in ToSet(s) \ {Head(s)}
  BY <1>1, <1>2 DEF IsInjective, ToSet
<1>6. Head(s) \in ToSet(s)
  BY <1>1, <1>2 DEF ToSet
<1> QED
  BY <1>1, <1>3, <1>4, <1>5, <1>6 DEF r
-----------------------------------------------------------------------------
(* FlattenSeq, by induction: a least counterexample cannot exist.          *)

\* A set of numbers has a least one.
LEMMA MinNat ==
    ASSUME NEW S, S \subseteq Nat, S # {}
    PROVE  Min(S) \in S /\ \A y \in S: Min(S) <= y
<1> DEFINE R == OpToRel(<, Nat)
<1>1. PICK x \in S: \A y \in S: ~(<<y, x>> \in R)
  <2>1. IsWellFoundedOn(R, Nat)
    BY NatLessThanWellFounded
  <2> HIDE DEF R
  <2> QED
    BY <2>1, WFMin
<1>2. \A y \in S: ~(y < x)
  BY <1>1 DEF OpToRel
<1>3. \A y \in S: x <= y
  BY <1>2
<1> QED
  BY <1>3 DEF Min

LEMMA LeastNat ==
    ASSUME NEW S, S \subseteq Nat, S # {}
    PROVE  \E m \in S: \A y \in S: m <= y
BY MinNat

\* Where the elements of two lists are in their concatenation.
LEMMA ConcatElements ==
    ASSUME NEW S, NEW s \in Seq(S), NEW r \in Seq(S)
    PROVE  /\ s \o r \in Seq(S) /\ Len(s \o r) = Len(s) + Len(r)
           /\ \A x \in 1..Len(s): (s \o r)[x] = s[x]
           /\ \A x \in 1..Len(r): (s \o r)[Len(s) + x] = r[x]
OBVIOUS

\* f lists what FlattenSeq makes of the first lists of ss.
IsFlattening(f, ss, n) ==
    \A i \in 1..n: f[i] = IF i = 1 THEN ss[i] ELSE f[i - 1] \o ss[i]

\* There is such a function.
LEMMA FlatteningExists ==
    ASSUME NEW S, NEW ss \in Seq(Seq(S)), NEW n \in 1..Len(ss)
    PROVE  \E f \in [1..n -> Seq(S)]: IsFlattening(f, ss, n)
<1> DEFINE Good(m) == \E f \in [1..m -> Seq(S)]: IsFlattening(f, ss, m)
           Bad == {m \in 1..Len(ss): ~Good(m)}
<1> SUFFICES ASSUME Bad # {} PROVE FALSE
  OBVIOUS
<1>1. PICK m \in Bad: \A y \in Bad: m <= y
  <2>1. Bad \subseteq Nat
    OBVIOUS
  <2> HIDE DEF Bad
  <2> QED
    BY <2>1, LeastNat
<1> HIDE DEF Good
<1>2. m \in 1..Len(ss) /\ ~Good(m) /\ Len(ss) \in Nat
  OBVIOUS
<1>3. CASE m = 1
  <2>1. ss[1] \in Seq(S)
    BY <1>2
  <2>2. [i \in 1..1 |-> ss[1]] \in [1..1 -> Seq(S)]
    BY <2>1
  <2>3. IsFlattening([i \in 1..1 |-> ss[1]], ss, 1)
    BY DEF IsFlattening
  <2> QED
    BY <1>2, <1>3, <2>2, <2>3 DEF Good
<1>4. CASE m > 1
  <2>1. m - 1 \in 1..Len(ss) /\ m - 1 \notin Bad
    BY <1>1, <1>2, <1>4
  <2>2. PICK f \in [1..(m - 1) -> Seq(S)]: IsFlattening(f, ss, m - 1)
    <3>1. Good(m - 1)
      BY <2>1
    <3> QED
      BY <3>1 DEF Good
  <2> DEFINE g == [i \in 1..m |-> IF i = m THEN f[m - 1] \o ss[m] ELSE f[i]]
  <2> HIDE DEF Bad
  <2>3. g \in [1..m -> Seq(S)]
    <3>1. ss[m] \in Seq(S) /\ f[m - 1] \in Seq(S) /\ \A i \in 1..m: i # m => i \in 1..(m - 1)
      BY <1>2, <1>4
    <3>2. f[m - 1] \o ss[m] \in Seq(S)
      BY <3>1
    <3> QED
      BY <3>1, <3>2
  <2>4. IsFlattening(g, ss, m)
    <3>1. ASSUME NEW i \in 1..m, i # m PROVE g[i] = IF i = 1 THEN ss[i] ELSE g[i - 1] \o ss[i]
      <4>1. i \in 1..(m - 1) /\ g[i] = f[i] /\ (i # 1 => i - 1 \in 1..m /\ i - 1 # m)
        BY <1>2, <3>1
      <4>2. i # 1 => g[i - 1] = f[i - 1]
        BY <4>1
      <4> QED
        BY <2>2, <4>1, <4>2 DEF IsFlattening
    <3>2. g[m] = f[m - 1] \o ss[m] /\ g[m - 1] = f[m - 1] /\ m # 1
      <4>1. m \in 1..m /\ m - 1 \in 1..m /\ m - 1 # m /\ m # 1
        BY <1>2, <1>4
      <4> QED
        BY <4>1, Zenon
    <3>3. g[m] = IF m = 1 THEN ss[m] ELSE g[m - 1] \o ss[m]
      BY <3>2
    <3> HIDE DEF g
    <3> QED
      BY <3>1, <3>3 DEF IsFlattening
  <2> QED
    BY <1>2, <2>3, <2>4 DEF Good
<1> QED
  BY <1>2, <1>3, <1>4

\* And only one.
LEMMA FlatteningUnique ==
    ASSUME NEW S, NEW ss \in Seq(Seq(S)), NEW n \in Nat, NEW f, NEW g,
           IsFlattening(f, ss, n), IsFlattening(g, ss, n)
    PROVE  \A i \in 1..n: f[i] = g[i]
<1> DEFINE Bad == {i \in 1..n: f[i] # g[i]}
<1> SUFFICES ASSUME Bad # {} PROVE FALSE
  OBVIOUS
<1>1. PICK m \in Bad: \A y \in Bad: m <= y
  <2>1. Bad \subseteq Nat
    OBVIOUS
  <2> HIDE DEF Bad
  <2> QED
    BY <2>1, LeastNat
<1>2. m \in 1..n /\ f[m] # g[m]
  BY <1>1
<1>3. m # 1
  BY <1>2 DEF IsFlattening
<1>4. f[m - 1] = g[m - 1]
  BY <1>1, <1>2, <1>3
<1> HIDE DEF Bad
<1> QED
  BY <1>2, <1>3, <1>4 DEF IsFlattening

\* FlattenSeq is its last value.
LEMMA FlattenIs ==
    ASSUME NEW S, NEW ss \in Seq(Seq(S)), ss # <<>>
    PROVE  \E f \in [1..Len(ss) -> Seq(S)]: IsFlattening(f, ss, Len(ss)) /\ FlattenSeq(ss) = f[Len(ss)]
<1> DEFINE n == Len(ss)
           F == CHOOSE f: f = [i \in 1..n |-> IF i = 1 THEN ss[i] ELSE f[i - 1] \o ss[i]]
<1>0. n \in Nat \ {0} /\ n \in 1..n
  OBVIOUS
<1>1. PICK f \in [1..n -> Seq(S)]: IsFlattening(f, ss, n)
  BY <1>0, FlatteningExists
<1>2. f = [i \in 1..n |-> IF i = 1 THEN ss[i] ELSE f[i - 1] \o ss[i]]
  BY <1>1 DEF IsFlattening
<1>3. F = [i \in 1..n |-> IF i = 1 THEN ss[i] ELSE F[i - 1] \o ss[i]]
  BY <1>2, Zenon
<1>4. FlattenSeq(ss) = F[n]
  BY <1>0, Zenon DEF FlattenSeq
<1> HIDE DEF F
<1>5. IsFlattening(F, ss, n)
  BY <1>3, Zenon DEF IsFlattening
<1>6. \A i \in 1..n: F[i] = f[i]
  BY <1>0, <1>1, <1>5, FlatteningUnique
<1> QED
  BY <1>0, <1>1, <1>4, <1>6

\* One list more.
LEMMA FlattenAppend ==
    ASSUME NEW S, NEW p \in Seq(Seq(S)), NEW q \in Seq(Seq(S)), Len(q) = Len(p) + 1,
           \A i \in 1..Len(p): q[i] = p[i]
    PROVE  FlattenSeq(p) \in Seq(S) /\ FlattenSeq(q) = FlattenSeq(p) \o q[Len(q)]
<1>k. PICK k \in Nat: k = Len(p)
  OBVIOUS
<1>0. k \in Nat /\ Len(q) \in 1..Len(q) /\ Len(q) \in Nat /\ q # <<>> /\ q[Len(q)] \in Seq(S)
  BY <1>k
<1>1. PICK g \in [1..Len(q) -> Seq(S)]: IsFlattening(g, q, Len(q)) /\ FlattenSeq(q) = g[Len(q)]
  BY <1>0, FlattenIs
<1>2. CASE p = <<>>
  <2>1. FlattenSeq(p) = <<>> /\ Len(q) = 1
    BY <1>2 DEF FlattenSeq
  <2>2. g[Len(q)] = q[Len(q)]
    BY <1>0, <1>1, <2>1 DEF IsFlattening
  <2>3. <<>> \o q[Len(q)] = q[Len(q)] /\ <<>> \in Seq(S)
    BY <1>0
  <2> QED
    BY <1>1, <2>1, <2>2, <2>3
<1>3. CASE p # <<>>
  <2>0. k \in 1..k /\ Len(q) # 1 /\ Len(q) - 1 = k
    BY <1>k, <1>0, <1>3
  <2>1. PICK f \in [1..k -> Seq(S)]: IsFlattening(f, p, k) /\ FlattenSeq(p) = f[k]
    BY <1>k, <1>3, FlattenIs
  <2>2. IsFlattening(g, p, k)
    <3>1. \A i \in 1..k: i \in 1..Len(q) /\ q[i] = p[i]
      BY <1>k, <1>0
    <3> QED
      BY <1>1, <3>1 DEF IsFlattening
  <2>3. f[k] = g[k]
    <3>1. \A i \in 1..k: f[i] = g[i]
      <4>1. \A u, v: IsFlattening(u, p, k) /\ IsFlattening(v, p, k) => \A i \in 1..k: u[i] = v[i]
        BY <1>k, FlatteningUnique
      <4>2. IsFlattening(f, p, k)
        BY <2>1
      <4> QED
        BY <2>2, <4>1, <4>2, Zenon
    <3> QED
      BY <2>0, <3>1
  <2>4. g[Len(q)] = g[k] \o q[Len(q)]
    BY <1>0, <1>1, <2>0 DEF IsFlattening
  <2>5. f[k] \in Seq(S)
    BY <2>0, <2>1
  <2> QED
    BY <1>1, <2>1, <2>3, <2>4, <2>5
<1> QED
  BY <1>2, <1>3

LEMMA FlattenStep ==
    ASSUME NEW S, NEW ss \in Seq(Seq(S)), NEW k \in 0..(Len(ss) - 1)
    PROVE  /\ FlattenSeq([i \in 1..k |-> ss[i]]) \in Seq(S)
           /\ FlattenSeq([i \in 1..(k + 1) |-> ss[i]]) =
                FlattenSeq([i \in 1..k |-> ss[i]]) \o ss[k + 1]
           /\ ss[k + 1] \in Seq(S)
<1> DEFINE p == [i \in 1..k |-> ss[i]]
           q == [i \in 1..(k + 1) |-> ss[i]]
<1>0. Len(ss) \in Nat /\ k + 1 \in 1..Len(ss) /\ \A i \in 1..Len(ss): ss[i] \in Seq(S)
  OBVIOUS
<1>1. p \in Seq(Seq(S)) /\ Len(p) = k
  BY <1>0
<1>2. q \in Seq(Seq(S)) /\ Len(q) = k + 1 /\ q[k + 1] = ss[k + 1]
  BY <1>0
<1>3. \A i \in 1..k: q[i] = p[i]
  BY <1>0
<1> HIDE DEF p, q
<1>4. FlattenSeq(p) \in Seq(S) /\ FlattenSeq(q) = FlattenSeq(p) \o q[Len(q)]
  BY <1>1, <1>2, <1>3, FlattenAppend
<1> QED
  BY <1>0, <1>1, <1>2, <1>4 DEF p, q

\* Where the k-th list is.
LEMMA FlattenPart ==
    ASSUME NEW S, NEW ss \in Seq(Seq(S)), NEW k \in 0..(Len(ss) - 1), NEW n \in (k + 1)..Len(ss)
    PROVE  LET before == FlattenSeq([i \in 1..k |-> ss[i]])
               all == FlattenSeq([i \in 1..n |-> ss[i]])
           IN  /\ all \in Seq(S)
               /\ Len(before) + Len(ss[k + 1]) <= Len(all)
               /\ \A x \in 1..Len(ss[k + 1]): all[Len(before) + x] = ss[k + 1][x]
<1> DEFINE F(m) == FlattenSeq([i \in 1..m |-> ss[i]])
           Good(m) == /\ F(m) \in Seq(S)
                      /\ Len(F(k)) + Len(ss[k + 1]) <= Len(F(m))
                      /\ \A x \in 1..Len(ss[k + 1]): F(m)[Len(F(k)) + x] = ss[k + 1][x]
           Bad == {m \in (k + 1)..Len(ss): ~Good(m)}
<1> SUFFICES ASSUME Bad # {} PROVE FALSE
  OBVIOUS
<1>1. PICK m \in Bad: \A y \in Bad: m <= y
  <2>1. Bad \subseteq Nat
    OBVIOUS
  <2> HIDE DEF Bad
  <2> QED
    BY <2>1, LeastNat
<1> HIDE DEF Good
<1>2. m \in (k + 1)..Len(ss) /\ ~Good(m) /\ Len(ss) \in Nat
  OBVIOUS
<1>3. F(m) = F(m - 1) \o ss[m] /\ F(m - 1) \in Seq(S) /\ ss[m] \in Seq(S)
  <2>1. m - 1 \in 0..(Len(ss) - 1) /\ (m - 1) + 1 = m
    BY <1>2
  <2>2. ss[m] \in Seq(S)
    BY <1>2
  <2> QED
    BY <2>1, <2>2, FlattenStep
<1>4. CASE m = k + 1
  <2>1. m - 1 = k /\ F(m) = F(k) \o ss[m] /\ F(k) \in Seq(S)
    <3>1. m - 1 = k
      BY <1>4
    <3> HIDE DEF F
    <3> QED
      BY <1>3, <3>1
  <2> HIDE DEF Bad, F
  <2>2. /\ F(m) \in Seq(S) /\ Len(F(m)) = Len(F(k)) + Len(ss[m])
        /\ \A x \in 1..Len(ss[m]): F(m)[Len(F(k)) + x] = ss[m][x]
    <3>1. PICK a \in Seq(S), b \in Seq(S): a = F(k) /\ b = ss[m]
      BY <1>3, <2>1
    <3>2. F(m) = a \o b
      BY <2>1, <3>1
    <3> QED
      BY <3>1, <3>2, ConcatElements
  <2> QED
    BY <1>2, <1>4, <2>1, <2>2 DEF Good
<1>5. CASE m > k + 1
  <2>1. m - 1 \in (k + 1)..Len(ss) /\ m - 1 \notin Bad
    BY <1>1, <1>2, <1>5
  <2>2. Good(m - 1)
    BY <2>1
  <2>3. F(k) \in Seq(S) /\ ss[k + 1] \in Seq(S)
    BY FlattenStep
  <2> HIDE DEF Bad, F
  <2>4. PICK a \in Seq(S), b \in Seq(S), c \in Seq(S), d \in Seq(S), e \in Seq(S):
             a = F(k) /\ b = ss[k + 1] /\ c = F(m - 1) /\ d = ss[m] /\ e = F(m) /\ e = c \o d
    <3>1. F(m) \in Seq(S)
      BY <1>3
    <3> QED
      BY <1>3, <2>3, <3>1
  <2>5. Len(a) + Len(b) <= Len(c) /\ \A x \in 1..Len(b): c[Len(a) + x] = b[x]
    BY <2>2, <2>4 DEF Good
  <2>6. Len(e) = Len(c) + Len(d) /\ \A x \in 1..Len(c): e[x] = c[x]
    BY <2>4, ConcatElements
  <2>7. \A x \in 1..Len(b): Len(a) + x \in 1..Len(c)
    BY <2>5
  <2>8. Len(a) + Len(b) <= Len(e) /\ \A x \in 1..Len(b): e[Len(a) + x] = b[x]
    <3>1. Len(a) \in Nat /\ Len(b) \in Nat /\ Len(c) \in Nat /\ Len(d) \in Nat
      BY <2>4
    <3>2. Len(a) + Len(b) <= Len(c) /\ Len(e) = Len(c) + Len(d)
      BY <2>5, <2>6
    <3>3. Len(a) + Len(b) <= Len(e)
      BY <3>1, <3>2
    <3>4. \A x \in 1..Len(b): e[Len(a) + x] = b[x]
      BY <2>5, <2>6, <2>7, Zenon
    <3> QED
      BY <3>3, <3>4
  <2> QED
    BY <1>2, <2>4, <2>8 DEF Good
<1> QED
  BY <1>2, <1>4, <1>5
=============================================================================
