-------------------------- MODULE AggregateProofs --------------------------
(***************************************************************************)
(* What is proved of Aggregate, for any answers of the sources and any      *)
(* order in which they come: the loop of dedup keeps, at each entry, what   *)
(* is declared of the entries so far (AggregateInv), the sort loses nothing *)
(* (SortedIs), and the lists of hosts are those the requests told of        *)
(* (ListingTells, NameComNamesAre, Route53NamesAre).                        *)
(***************************************************************************)
EXTENDS Aggregate, FiniteSetTheorems, FunctionTheorems, NaturalsInduction, WellFoundedInduction, TLAPS

(* A set of natural numbers that is not empty has a least element. *)
LEMMA LeastOf ==
    ASSUME NEW S, S \subseteq Nat, S # {}
    PROVE  /\ Min(S) \in S
           /\ \A y \in S : Min(S) <= y
<1>1. \E x \in S : \A y \in S : ~ (<<y, x>> \in OpToRel(<, Nat))
  <2> DEFINE R == OpToRel(<, Nat)
  <2>1. IsWellFoundedOn(R, Nat)
    BY NatLessThanWellFounded
  <2> HIDE DEF R
  <2>2. \E x \in S : \A y \in S : ~ (<<y, x>> \in R)
    BY <2>1, WFMin
  <2> QED
    BY <2>2 DEF R
<1>2. \E x \in S : \A y \in S : x <= y
  <2>1. PICK x \in S : \A y \in S : ~ (<<y, x>> \in OpToRel(<, Nat))
    BY <1>1
  <2>2. \A y \in S : ~ (y < x)
    BY <2>1 DEF OpToRel
  <2> QED
    BY <2>2
<1> QED
  BY <1>2 DEF Min

\* The least position stays the least when others join.
LEMMA LeastAdd ==
    ASSUME NEW n \in Nat, NEW S, S \subseteq 1 .. n
    PROVE  Min(S \cup {n + 1}) = IF S = {} THEN n + 1 ELSE Min(S)
<1>1. S \subseteq Nat /\ S \cup {n + 1} \subseteq Nat /\ S \cup {n + 1} # {}
  OBVIOUS
<1>2. /\ Min(S \cup {n + 1}) \in S \cup {n + 1}
      /\ \A y \in S \cup {n + 1} : Min(S \cup {n + 1}) <= y
  BY <1>1, LeastOf
<1>3. S # {} => Min(S) \in S /\ \A y \in S : Min(S) <= y
  BY <1>1, LeastOf
<1>4. \A y \in S : y <= n /\ y \in Nat
  OBVIOUS
<1>5. CASE S = {}
  BY <1>2, <1>5
<1>6. CASE S # {}
  <2> DEFINE a == Min(S \cup {n + 1})
             b == Min(S)
  <2>1. b \in S /\ b \in S \cup {n + 1} /\ b <= n /\ b \in Nat
    BY <1>3, <1>4, <1>6
  <2>2. a <= b /\ a \in Nat
    BY <1>1, <1>2, <2>1
  <2>3. a \in S
    BY <1>2, <2>1, <2>2
  <2>4. b <= a
    BY <1>3, <1>6, <2>3
  <2> HIDE DEF a, b
  <2>5. a = b
    BY <2>1, <2>2, <2>4
  <2> QED
    BY <1>6, <2>5 DEF a, b
<1> QED
  BY <1>5, <1>6

-----------------------------------------------------------------------------

\* The concatenation of the first n of the lists s.
FlatTo(s, n) == CHOOSE f : f = [i \in 1 .. n |-> IF i = 1 THEN s[i] ELSE f[i - 1] \o s[i]]

LEMMA FlatToDef ==
    ASSUME NEW s, NEW n \in Nat
    PROVE  FlatTo(s, n) = [i \in 1 .. n |->
             IF i = 1 THEN s[i] ELSE FlatTo(s, n)[i - 1] \o s[i]]
<1> DEFINE Good(f, m) == f = [i \in 1 .. m |-> IF i = 1 THEN s[i] ELSE f[i - 1] \o s[i]]
           Bad == {m \in Nat : ~\E f : Good(f, m)}
<1>1. Bad = {}
  <2> SUFFICES ASSUME Bad # {} PROVE FALSE
    OBVIOUS
  <2>1. PICK m \in Nat : m \in Bad /\ \A k \in Bad : m <= k
    <3>1. Bad \subseteq Nat
      OBVIOUS
    <3> HIDE DEF Bad
    <3> QED
      BY <3>1, LeastOf
  <2>2. m # 0
    <3>1. Good([i \in {} |-> 0], 0)
      OBVIOUS
    <3> QED
      BY <2>1, <3>1
  <2>3. m - 1 \in Nat /\ m - 1 \notin Bad
    <3> HIDE DEF Bad
    <3> QED
      BY <2>1, <2>2
  <2>4. PICK f : Good(f, m - 1)
    BY <2>3
  <2> DEFINE g == [i \in 1 .. m |-> IF i = m THEN (IF m = 1 THEN s[m] ELSE f[m - 1] \o s[m])
                                             ELSE f[i]]
  <2>5. Good(g, m)
    <3> SUFFICES ASSUME NEW i \in 1 .. m
                 PROVE  g[i] = IF i = 1 THEN s[i] ELSE g[i - 1] \o s[i]
      BY Zenon
    <3>1. CASE i = m
      BY <2>2, <3>1
    <3>2. CASE i # m
      <4>1. i \in 1 .. (m - 1) /\ g[i] = f[i] /\ (i # 1 => g[i - 1] = f[i - 1])
        BY <2>2, <3>2
      <4>2. f[i] = IF i = 1 THEN s[i] ELSE f[i - 1] \o s[i]
        BY <2>4, <4>1
      <4> QED
        BY <4>1, <4>2
    <3> QED
      BY <3>1, <3>2
  <2> QED
    BY <2>1, <2>5
<1>2. \E f : Good(f, n)
  BY <1>1
<1> QED
  BY <1>2 DEF FlatTo

LEMMA FlattenIs ==
    ASSUME NEW s
    PROVE  FlattenSeq(s) = IF Len(s) = 0 THEN s ELSE FlatTo(s, Len(s))[Len(s)]
BY DEF FlattenSeq, FlatTo

\* The members of a concatenation are those of its parts.
LEMMA MembersOfTwo ==
    ASSUME NEW S, NEW s \in Seq(S), NEW t \in Seq(S)
    PROVE  s \o t \in Seq(S) /\ ToSet(s \o t) = ToSet(s) \cup ToSet(t)
<1>1. /\ s \o t \in Seq(S) /\ Len(s) \in Nat /\ Len(t) \in Nat
      /\ DOMAIN s = 1 .. Len(s) /\ DOMAIN t = 1 .. Len(t)
      /\ DOMAIN (s \o t) = 1 .. (Len(s) + Len(t))
      /\ \A k \in 1 .. (Len(s) + Len(t)) :
           (s \o t)[k] = IF k <= Len(s) THEN s[k] ELSE t[k - Len(s)]
  OBVIOUS
<1>2. ASSUME NEW k \in 1 .. Len(t)
      PROVE  Len(s) + k \in 1 .. (Len(s) + Len(t)) /\ (s \o t)[Len(s) + k] = t[k]
  BY <1>1
<1>3. ASSUME NEW k \in 1 .. Len(s)
      PROVE  k \in 1 .. (Len(s) + Len(t)) /\ (s \o t)[k] = s[k]
  BY <1>1
<1>4. ASSUME NEW k \in 1 .. (Len(s) + Len(t))
      PROVE  (s \o t)[k] \in ToSet(s) \cup ToSet(t)
  <2>1. CASE k <= Len(s)
    BY <1>1, <2>1 DEF ToSet
  <2>2. CASE ~(k <= Len(s))
    <3>1. k - Len(s) \in 1 .. Len(t)
      BY <1>1, <2>2
    <3> QED
      BY <1>1, <2>2, <3>1 DEF ToSet
  <2> QED
    BY <2>1, <2>2
<1> DEFINE u == s \o t
           n == Len(s) + Len(t)
<1> HIDE DEF u, n
<1>5. DOMAIN u = 1 .. n
  BY <1>1 DEF u, n
<1>6. ToSet(s) \subseteq ToSet(u)
  <2>1. \A k \in DOMAIN s : k \in DOMAIN u /\ u[k] = s[k]
    BY <1>1, <1>3, <1>5 DEF u, n
  <2> QED
    BY <2>1 DEF ToSet
<1>7. ToSet(t) \subseteq ToSet(u)
  <2>1. \A k \in DOMAIN t : Len(s) + k \in DOMAIN u /\ u[Len(s) + k] = t[k]
    BY <1>1, <1>2, <1>5 DEF u, n
  <2> QED
    BY <2>1 DEF ToSet
<1>8. ToSet(u) \subseteq ToSet(s) \cup ToSet(t)
  <2>1. \A k \in DOMAIN u : u[k] \in ToSet(s) \cup ToSet(t)
    BY <1>4, <1>5 DEF u, n
  <2> HIDE DEF ToSet
  <2>2. ToSet(u) = {u[k] : k \in DOMAIN u}
    BY DEF ToSet
  <2> QED
    BY <2>1, <2>2
<1> QED
  BY <1>1, <1>6, <1>7, <1>8 DEF u

\* The members of a list of lists.
LEMMA MembersOfAll ==
    ASSUME NEW S, NEW s \in Seq(Seq(S))
    PROVE  FlattenSeq(s) \in Seq(S) /\ ToSet(FlattenSeq(s)) = UNION {ToSet(s[i]) : i \in DOMAIN s}
<1> DEFINE n == Len(s)
           f == FlatTo(s, n)
           Good(m) == f[m] \in Seq(S) /\ ToSet(f[m]) = UNION {ToSet(s[i]) : i \in 1 .. m}
           Bad == {m \in 1 .. n : ~Good(m)}
<1>1. n \in Nat /\ DOMAIN s = 1 .. n /\ \A i \in 1 .. n : s[i] \in Seq(S)
  OBVIOUS
<1>2. \A i \in 1 .. n : f[i] = IF i = 1 THEN s[i] ELSE f[i - 1] \o s[i]
  <2>1. f = [i \in 1 .. n |-> IF i = 1 THEN s[i] ELSE f[i - 1] \o s[i]]
    BY <1>1, FlatToDef
  <2> HIDE DEF f, n
  <2> QED
    BY <2>1
<1> HIDE DEF n, f
<1>3. Bad = {}
  <2> SUFFICES ASSUME Bad # {} PROVE FALSE
    OBVIOUS
  <2>1. PICK m \in 1 .. n : ~Good(m) /\ \A k \in Bad : m <= k
    <3>1. Bad \subseteq Nat /\ Bad \subseteq 1 .. n /\ \A m \in Bad : ~Good(m)
      OBVIOUS
    <3> HIDE DEF Bad, Good
    <3> QED
      BY <3>1, LeastOf
  <2>2. CASE m = 1
    <3>1. f[m] = s[m] /\ s[m] \in Seq(S)
      <4> HIDE DEF Bad, Good
      <4> QED
        BY <1>1, <1>2, <2>2
    <3>. 1 .. m = {m}
      <4> HIDE DEF Bad, Good
      <4> QED
        BY <2>2
    <3>2. UNION {ToSet(s[i]) : i \in {m}} = ToSet(s[m])
      OBVIOUS
    <3> QED
      BY <2>1, <3>1, <3>2
  <2>3. CASE m # 1
    <3>1. m - 1 \in 1 .. n /\ ~(m <= m - 1) /\ 1 .. m = (1 .. (m - 1)) \cup {m}
      BY <1>1, <2>3
    <3>2. m - 1 \notin Bad
      <4> HIDE DEF Bad, Good
      <4> QED
        BY <2>1, <3>1
    <3>3. Good(m - 1)
      BY <3>1, <3>2
    <3>4. f[m] = f[m - 1] \o s[m] /\ s[m] \in Seq(S)
      BY <1>1, <1>2, <2>3
    <3>5. f[m] \in Seq(S) /\ ToSet(f[m]) = ToSet(f[m - 1]) \cup ToSet(s[m])
      BY <3>3, <3>4, MembersOfTwo
    <3>6. UNION {ToSet(s[i]) : i \in (1 .. (m - 1)) \cup {m}}
            = (UNION {ToSet(s[i]) : i \in 1 .. (m - 1)}) \cup ToSet(s[m])
      OBVIOUS
    <3> QED
      BY <2>1, <3>1, <3>3, <3>5, <3>6
  <2> QED
    BY <2>2, <2>3
<1>4. CASE n = 0
  <2>1. s = <<>> /\ FlattenSeq(s) = <<>>
    BY <1>1, <1>4, FlattenIs DEF n
  <2>2. ToSet(<<>>) = {} /\ DOMAIN s = {}
    BY <1>1, <1>4, <2>1 DEF ToSet
  <2>3. UNION {ToSet(s[i]) : i \in DOMAIN s} = {}
    BY <2>2
  <2>4. <<>> \in Seq(S)
    OBVIOUS
  <2> QED
    BY <2>1, <2>2, <2>3, <2>4
<1>5. CASE n # 0
  <2>1. n \in 1 .. n
    BY <1>1, <1>5
  <2>2. Good(n)
    BY <1>3, <2>1
  <2>3. FlattenSeq(s) = f[n]
    BY <1>5, FlattenIs DEF n, f
  <2> QED
    BY <1>1, <2>2, <2>3
<1> QED
  BY <1>4, <1>5

-----------------------------------------------------------------------------
(* The sort.                                                                 *)

\* An order on S that is strict and total gives each element a rank of its own.
LEMMA Ranks ==
    ASSUME NEW S, IsFiniteSet(S), NEW Below,
           \A e \in S : Below[e] = {f \in S : Precedes(f, e)},
           \A e \in S : ~Precedes(e, e),
           \A e, f, g \in S : Precedes(e, f) /\ Precedes(f, g) => Precedes(e, g),
           \A e, f \in S : e # f => Precedes(e, f) \/ Precedes(f, e)
    PROVE  /\ Cardinality(S) \in Nat
           /\ \A e \in S : Cardinality(Below[e]) \in 0 .. (Cardinality(S) - 1)
           /\ \A e, f \in S : Precedes(e, f) <=> Cardinality(Below[e]) < Cardinality(Below[f])
           /\ \A r \in 0 .. (Cardinality(S) - 1) : \E e \in S : Cardinality(Below[e]) = r
<1> DEFINE n == Cardinality(S)
           rank == [e \in S |-> Cardinality(Below[e])]
<1>1. n \in Nat
  BY FS_CardinalityType
<1>2. ASSUME NEW e \in S PROVE IsFiniteSet(Below[e]) /\ rank[e] \in 0 .. (n - 1)
  <2>1. Below[e] \subseteq S /\ e \notin Below[e]
    OBVIOUS
  <2>2. IsFiniteSet(Below[e]) /\ Cardinality(Below[e]) \in Nat
    BY <2>1, FS_Subset, FS_CardinalityType
  <2>3. Cardinality(Below[e]) < n
    <3>1. Below[e] # S
      BY <2>1
    <3>2. Cardinality(Below[e]) <= n /\ (Cardinality(Below[e]) = n => Below[e] = S)
      BY <2>1, FS_Subset
    <3> QED
      BY <1>1, <2>2, <3>1, <3>2
  <2> QED
    BY <1>1, <2>2, <2>3
<1>3. ASSUME NEW e \in S, NEW f \in S, Precedes(e, f) PROVE rank[e] < rank[f]
  <2>1. Below[e] \subseteq Below[f] /\ e \in Below[f] /\ e \notin Below[e]
    BY <1>3
  <2>2. IsFiniteSet(Below[f])
    BY <1>2
  <2>3. /\ Cardinality(Below[e]) <= Cardinality(Below[f])
        /\ Cardinality(Below[e]) = Cardinality(Below[f]) => Below[e] = Below[f]
    BY <2>1, <2>2, FS_Subset
  <2>4. Cardinality(Below[e]) # Cardinality(Below[f])
    BY <2>1, <2>3
  <2>5. rank[e] \in Int /\ rank[f] \in Int
    BY <1>1, <1>2
  <2> QED
    BY <2>3, <2>4, <2>5
<1>4. \A e, f \in S : rank[e] \in Int /\ rank[f] \in Int
  BY <1>1, <1>2
<1>5. \A e, f \in S : Precedes(e, f) <=> rank[e] < rank[f]
  <2> TAKE e, f \in S
  <2>1. Precedes(e, f) => rank[e] < rank[f]
    BY <1>3
  <2>2. Precedes(f, e) => rank[f] < rank[e]
    BY <1>3
  <2>3. e = f \/ Precedes(e, f) \/ Precedes(f, e)
    OBVIOUS
  <2>4. rank[e] \in Int /\ rank[f] \in Int
    BY <1>4
  <2> HIDE DEF rank
  <2> QED
    BY <2>1, <2>2, <2>3, <2>4
<1>6. \A r \in 0 .. (n - 1) : \E e \in S : rank[e] = r
  <2> DEFINE R == {rank[e] : e \in S}
  <2>1. R \subseteq 0 .. (n - 1)
    BY <1>2
  <2>2. \A e, f \in S : rank[e] = rank[f] => e = f
    <3> TAKE e, f \in S
    <3>1. rank[e] \in Int /\ rank[f] \in Int
      BY <1>4
    <3>2. e # f => rank[e] < rank[f] \/ rank[f] < rank[e]
      BY <1>3
    <3> HIDE DEF rank
    <3> QED
      BY <3>1, <3>2
  <2>3. rank \in Bijection(S, R)
    <3>1. rank \in [S -> R]
      OBVIOUS
    <3>2. \A r \in R : \E e \in S : rank[e] = r
      OBVIOUS
    <3> HIDE DEF rank, R
    <3> QED
      BY <2>2, <3>1, <3>2 DEF Bijection, Injection, Surjection, IsInjective
  <2>4. Cardinality(R) = n
    <3>1. ExistsBijection(S, R)
      BY <2>3, Fun_ExistsBij
    <3> QED
      BY <3>1, FS_Bijection
  <2>5. IsFiniteSet(0 .. (n - 1)) /\ Cardinality(0 .. (n - 1)) = n
    <3>1. 0 \in Int /\ n - 1 \in Int
      BY <1>1
    <3>2. IsFiniteSet(0 .. (n - 1))
          /\ Cardinality(0 .. (n - 1)) = IF 0 > n - 1 THEN 0 ELSE (n - 1) - 0 + 1
      BY <3>1, FS_Interval
    <3> QED
      BY <1>1, <3>2
  <2> HIDE DEF R
  <2>6. R = 0 .. (n - 1)
    BY <2>1, <2>4, <2>5, FS_Subset
  <2> QED
    BY <2>6 DEF R
<1> QED
  BY <1>1, <1>2, <1>5, <1>6

\* Two entries of S with the same name and port are one.
OnePerPort(S) == \A e, f \in S : e.Name = f.Name /\ e.Port = f.Port => e = f

\* discovery.go: the sort orders the entries by name and port and loses none.
LEMMA SortedIs ==
    ASSUME NEW S, IsFiniteSet(S), S \subseteq Entry, OnePerPort(S)
    PROVE  /\ Len(Sorted(S)) = Cardinality(S)
           /\ \A j, k \in DOMAIN Sorted(S) : j < k => Precedes(Sorted(S)[j], Sorted(S)[k])
           /\ ToSet(Sorted(S)) = S
<1> DEFINE Below == [e \in S |-> {f \in S : Precedes(f, e)}]
           n == Cardinality(S)
<1>1. ASSUME NEW e \in S
      PROVE  e.Name \in DOMAIN NameRank /\ NameRank[e.Name] \in Int /\ e.Port \in Int
  BY NameRankAssumption DEF Entry
<1>2. \A e \in S : ~Precedes(e, e)
  <2> TAKE e \in S
  <2> QED
    BY <1>1 DEF Precedes
<1>3. \A e, f, g \in S : Precedes(e, f) /\ Precedes(f, g) => Precedes(e, g)
  <2> TAKE e, f, g \in S
  <2>1. /\ NameRank[e.Name] \in Int /\ NameRank[f.Name] \in Int /\ NameRank[g.Name] \in Int
        /\ e.Port \in Int /\ f.Port \in Int /\ g.Port \in Int
    BY <1>1
  <2> QED
    BY <2>1 DEF Precedes
<1>4. \A e, f \in S : e # f => Precedes(e, f) \/ Precedes(f, e)
  <2> TAKE e, f \in S
  <2>1. NameRank[e.Name] \in Int /\ NameRank[f.Name] \in Int /\ e.Port \in Int /\ f.Port \in Int
    BY <1>1
  <2>2. NameRank[e.Name] = NameRank[f.Name] => e.Name = f.Name
    BY <1>1, NameRankAssumption
  <2>3. e # f => e.Name # f.Name \/ e.Port # f.Port
    BY DEF OnePerPort
  <2> QED
    BY <2>1, <2>2, <2>3 DEF Precedes
<1>5. \A e \in S : Below[e] = {f \in S : Precedes(f, e)}
  OBVIOUS
<1> HIDE DEF Below
<1>6. /\ n \in Nat
      /\ \A e \in S : Cardinality(Below[e]) \in 0 .. (n - 1)
      /\ \A e, f \in S : Precedes(e, f) <=> Cardinality(Below[e]) < Cardinality(Below[f])
      /\ \A r \in 0 .. (n - 1) : \E e \in S : Cardinality(Below[e]) = r
  BY <1>2, <1>3, <1>4, <1>5, Ranks
<1> HIDE DEF n
<1>7. DOMAIN Sorted(S) = 1 .. n /\ Len(Sorted(S)) = n
  BY <1>6 DEF Sorted, n
<1>8. ASSUME NEW k \in 1 .. n
      PROVE  Sorted(S)[k] \in S /\ Cardinality(Below[Sorted(S)[k]]) = k - 1
  <2>1. Sorted(S)[k] = CHOOSE e \in S : Cardinality({f \in S : Precedes(f, e)}) = k - 1
    BY DEF Sorted, n
  <2>2. \A e \in S : Cardinality({f \in S : Precedes(f, e)}) = Cardinality(Below[e])
    BY <1>5
  <2>3. k - 1 \in 0 .. (n - 1)
    BY <1>6
  <2>4. \E e \in S : Cardinality({f \in S : Precedes(f, e)}) = k - 1
    BY <1>6, <2>2, <2>3
  <2>5. /\ Sorted(S)[k] \in S
        /\ Cardinality({f \in S : Precedes(f, Sorted(S)[k])}) = k - 1
    BY <2>1, <2>4
  <2> QED
    BY <2>2, <2>5
<1>9. \A j, k \in DOMAIN Sorted(S) : j < k => Precedes(Sorted(S)[j], Sorted(S)[k])
  <2> SUFFICES ASSUME NEW j \in 1 .. n, NEW k \in 1 .. n, j < k
               PROVE  Precedes(Sorted(S)[j], Sorted(S)[k])
    BY <1>7
  <2>1. j - 1 < k - 1
    BY <1>6
  <2> QED
    BY <1>6, <1>8, <2>1
<1>10. ASSUME NEW e \in S PROVE e \in ToSet(Sorted(S))
  <2> DEFINE r == Cardinality(Below[e])
  <2>1. r \in 0 .. (n - 1)
    BY <1>6
  <2>2. r + 1 \in 1 .. n /\ (r + 1) - 1 = r
    BY <1>6, <2>1
  <2>3. Sorted(S)[r + 1] \in S /\ Cardinality(Below[Sorted(S)[r + 1]]) = r
    BY <1>8, <2>2
  <2>4. Sorted(S)[r + 1] = e
    <3> DEFINE f == Sorted(S)[r + 1]
    <3>1. f \in S /\ Cardinality(Below[f]) = r
      BY <2>3
    <3> HIDE DEF f
    <3>2. ~Precedes(e, f) /\ ~Precedes(f, e)
      BY <1>6, <2>1, <3>1
    <3> QED
      BY <1>4, <3>1, <3>2 DEF f
  <2> HIDE DEF r
  <2> QED
    BY <1>7, <2>2, <2>4 DEF ToSet
<1>11. ToSet(Sorted(S)) \subseteq S
  BY <1>7, <1>8 DEF ToSet
<1> QED
  BY <1>7, <1>9, <1>10, <1>11 DEF n

-----------------------------------------------------------------------------
(* The loop of dedup.                                                        *)

LEMMA EntryKey ==
    ASSUME NEW e \in Entry
    PROVE  /\ WithPort(e) \in Entry
           /\ WithPort(e).Port # 0
           /\ KeyOf(WithPort(e)) = KeyOf(e)
           /\ WithPort(e) = Domain(e.Name, KeyOf(e)[2], e.Source, e.ExpiryFallback)
<1>1. defaultPort \in Nat /\ defaultPort # 0
  BY PortAssumption
<1>2. /\ e = [Name |-> e.Name, Port |-> e.Port, Source |-> e.Source,
              ExpiryFallback |-> e.ExpiryFallback]
      /\ e.Name \in DOMAIN NameRank /\ e.Port \in Nat /\ e.Source \in Discoverers \cup GroupLabels
      /\ e.ExpiryFallback \in Nat
  BY DEF Entry
<1> DEFINE port == IF e.Port = 0 THEN defaultPort ELSE e.Port
<1>3. WithPort(e) = Domain(e.Name, port, e.Source, e.ExpiryFallback)
  BY <1>2 DEF WithPort, Domain
<1>4. port \in Nat /\ port # 0
  BY <1>1, <1>2
<1> HIDE DEF port
<1>5. WithPort(e) \in Entry /\ WithPort(e).Port = port /\ WithPort(e).Name = e.Name
  BY <1>2, <1>3, <1>4 DEF Domain, Entry
<1>6. KeyOf(e) = <<Lower(e.Name), port>>
  BY <1>5 DEF KeyOf
<1>7. WithPort(WithPort(e)) = WithPort(e)
  BY <1>4, <1>5 DEF WithPort
<1>8. KeyOf(WithPort(e)) = <<Lower(e.Name), port>>
  BY <1>5, <1>7 DEF KeyOf
<1> QED
  BY <1>3, <1>4, <1>5, <1>6, <1>8

\* The first n entries of Q, their keys, and the positions that have the key k.
Upto(Q, n) == [p \in 1 .. n |-> Q[p]]
KeysOf(Q, n) == {KeyOf(Q[p]) : p \in 1 .. n}
At(Q, n, k) == {p \in 1 .. n : KeyOf(Q[p]) = k}
DatedAt(Q, n, k) == {p \in At(Q, n, k) : Q[p].ExpiryFallback # NoDate}

LEMMA DeclaredUpto ==
    ASSUME NEW Q, NEW n \in Nat, NEW k \in KeysOf(Q, n)
    PROVE  /\ Min(At(Q, n, k)) \in At(Q, n, k)
           /\ DatedAt(Q, n, k) # {} => Min(DatedAt(Q, n, k)) \in DatedAt(Q, n, k)
           /\ Declared(Upto(Q, n), k) =
                Domain(Q[Min(At(Q, n, k))].Name, k[2], Q[Min(At(Q, n, k))].Source,
                       IF DatedAt(Q, n, k) = {} THEN NoDate
                       ELSE Q[Min(DatedAt(Q, n, k))].ExpiryFallback)
<1> DEFINE U == Upto(Q, n)
           A == At(Q, n, k)
           D == DatedAt(Q, n, k)
           of == {p \in DOMAIN U : KeyOf(U[p]) = k}
           dated == {p \in of : U[p].ExpiryFallback # NoDate}
<1>1. DOMAIN U = 1 .. n /\ \A p \in 1 .. n : U[p] = Q[p]
  BY DEF Upto
<1>2. A \subseteq 1 .. n /\ A # {} /\ D \subseteq A
  BY DEF At, DatedAt, KeysOf
<1>3. of = A
  BY <1>1 DEF At
<1>4. dated = D
  BY <1>1, <1>2, <1>3 DEF DatedAt
<1>5. Declared(U, k) = Domain(U[Min(of)].Name, k[2], U[Min(of)].Source,
                              IF dated = {} THEN NoDate ELSE U[Min(dated)].ExpiryFallback)
  BY DEF Declared
<1>6. A \subseteq Nat /\ D \subseteq Nat
  BY <1>2
<1> HIDE DEF U, A, D, of, dated
<1>7. Min(A) \in A /\ (D # {} => Min(D) \in D)
  BY <1>2, <1>6, LeastOf
<1>8. U[Min(A)] = Q[Min(A)] /\ (D # {} => U[Min(D)] = Q[Min(D)])
  BY <1>1, <1>2, <1>7
<1>9. Declared(U, k) = Domain(Q[Min(A)].Name, k[2], Q[Min(A)].Source,
                              IF D = {} THEN NoDate ELSE Q[Min(D)].ExpiryFallback)
  BY <1>3, <1>4, <1>5, <1>8
<1> QED
  BY <1>7, <1>9 DEF U, A, D

\* discovery.go: what the loop does with an entry keeps what is declared.
LEMMA DeclaredStep ==
    ASSUME NEW Q \in Seq(Entry), NEW n \in Nat, n + 1 \in DOMAIN Q, NEW k
    PROVE  LET e == Q[n + 1]
               old == Declared(Upto(Q, n), k)
               new == Declared(Upto(Q, n + 1), k)
           IN  /\ KeysOf(Q, n + 1) = KeysOf(Q, n) \cup {KeyOf(e)}
               /\ k \in KeysOf(Q, n) /\ k # KeyOf(e) => new = old
               /\ k \notin KeysOf(Q, n) /\ k = KeyOf(e) => new = WithPort(e)
               /\ k \in KeysOf(Q, n) /\ k = KeyOf(e) =>
                    new = IF old.ExpiryFallback = NoDate
                          THEN [old EXCEPT !.ExpiryFallback = e.ExpiryFallback] ELSE old
<1> DEFINE e == Q[n + 1]
           A == At(Q, n, k)
           D == DatedAt(Q, n, k)
           A1 == At(Q, n + 1, k)
           D1 == DatedAt(Q, n + 1, k)
<1>1. 1 .. (n + 1) = (1 .. n) \cup {n + 1}
  OBVIOUS
<1>2. KeysOf(Q, n + 1) = KeysOf(Q, n) \cup {KeyOf(e)}
  BY <1>1 DEF KeysOf
<1>3. e \in Entry
  OBVIOUS
<1>4. A \subseteq 1 .. n /\ D \subseteq 1 .. n /\ D \subseteq A
      /\ (k \in KeysOf(Q, n) <=> A # {})
  BY DEF At, DatedAt, KeysOf
<1>5. A1 = IF k = KeyOf(e) THEN A \cup {n + 1} ELSE A
  BY <1>1 DEF At
<1>6. D1 = IF k = KeyOf(e) /\ e.ExpiryFallback # NoDate THEN D \cup {n + 1} ELSE D
  <2> HIDE DEF A, A1
  <2>1. D1 = {p \in A1 : Q[p].ExpiryFallback # NoDate}
        /\ D = {p \in A : Q[p].ExpiryFallback # NoDate}
    BY DEF DatedAt, A, A1
  <2> QED
    BY <1>5, <2>1
<1>7. CASE k # KeyOf(e)
  <2> SUFFICES ASSUME k \in KeysOf(Q, n)
               PROVE  Declared(Upto(Q, n + 1), k) = Declared(Upto(Q, n), k)
    BY <1>2, <1>7
  <2>1. A1 = A /\ D1 = D /\ k \in KeysOf(Q, n + 1)
    BY <1>2, <1>5, <1>6, <1>7
  <2> QED
    BY <2>1, DeclaredUpto
<1>8. CASE k = KeyOf(e)
  <2>1. k \in KeysOf(Q, n + 1) /\ A1 = A \cup {n + 1}
    BY <1>2, <1>5, <1>8
  <2> DEFINE name == Q[Min(A1)].Name
             source == Q[Min(A1)].Source
             date == IF D1 = {} THEN NoDate ELSE Q[Min(D1)].ExpiryFallback
  <2>2. Declared(Upto(Q, n + 1), k) = Domain(name, k[2], source, date)
    BY <2>1, DeclaredUpto
  <2>3. Min(A1) = IF A = {} THEN n + 1 ELSE Min(A)
    BY <1>4, <2>1, LeastAdd
  <2>4. e.ExpiryFallback # NoDate => Min(D1) = IF D = {} THEN n + 1 ELSE Min(D)
    BY <1>4, <1>6, <1>8, LeastAdd
  <2>5. CASE A = {}
    <3>1. D = {} /\ name = e.Name /\ source = e.Source
      BY <1>4, <2>3, <2>5
    <3>2. date = e.ExpiryFallback
      BY <1>6, <1>8, <2>4, <3>1
    <3> HIDE DEF name, source, date
    <3>3. Declared(Upto(Q, n + 1), k) = WithPort(e)
      BY <1>3, <1>8, <2>2, <3>1, <3>2, EntryKey
    <3> QED
      BY <1>2, <1>4, <1>8, <2>5, <3>3
  <2>6. CASE A # {}
    <3> DEFINE was == IF D = {} THEN NoDate ELSE Q[Min(D)].ExpiryFallback
               old == Declared(Upto(Q, n), k)
    <3>1. k \in KeysOf(Q, n) /\ name = Q[Min(A)].Name /\ source = Q[Min(A)].Source
      BY <1>4, <2>3, <2>6
    <3>2. old = Domain(name, k[2], source, was)
      BY <3>1, DeclaredUpto
    <3>3. D # {} => was # NoDate
      BY <3>1, DeclaredUpto DEF DatedAt
    <3>4. date = IF was = NoDate THEN e.ExpiryFallback ELSE was
      <4>1. CASE e.ExpiryFallback = NoDate
        BY <1>6, <3>3, <4>1
      <4>2. CASE e.ExpiryFallback # NoDate
        BY <1>6, <1>8, <2>4, <3>3, <4>2
      <4> QED
        BY <4>1, <4>2
    <3> HIDE DEF name, source, date, was
    <3>5. old.ExpiryFallback = was
          /\ [old EXCEPT !.ExpiryFallback = e.ExpiryFallback]
               = Domain(name, k[2], source, e.ExpiryFallback)
      BY <3>2 DEF Domain
    <3>6. Declared(Upto(Q, n + 1), k)
            = IF old.ExpiryFallback = NoDate
              THEN [old EXCEPT !.ExpiryFallback = e.ExpiryFallback] ELSE old
      BY <2>2, <3>2, <3>4, <3>5
    <3> QED
      BY <1>2, <1>8, <3>1, <3>6
  <2> QED
    BY <2>5, <2>6
<1> QED
  BY <1>7, <1>8

\* What is declared of a key is an entry of that key.
LEMMA DeclaredEntry ==
    ASSUME NEW Q \in Seq(Entry), NEW n \in Nat, n <= Len(Q), NEW k \in KeysOf(Q, n)
    PROVE  /\ Declared(Upto(Q, n), k) \in Entry
           /\ Declared(Upto(Q, n), k).Port # 0
           /\ KeyOf(Declared(Upto(Q, n), k)) = k
<1> DEFINE m == Min(At(Q, n, k))
           D == DatedAt(Q, n, k)
           date == IF D = {} THEN NoDate ELSE Q[Min(D)].ExpiryFallback
           d == Declared(Upto(Q, n), k)
<1>1. \A p \in 1 .. n : Q[p] \in Entry
  <2>1. \A p \in 1 .. n : p \in 1 .. Len(Q)
    OBVIOUS
  <2> QED
    BY <2>1
<1>2. m \in 1 .. n /\ KeyOf(Q[m]) = k /\ Q[m] \in Entry
  <2>1. m \in At(Q, n, k)
    BY DeclaredUpto
  <2> HIDE DEF m
  <2>2. m \in 1 .. n /\ KeyOf(Q[m]) = k
    BY <2>1 DEF At
  <2> QED
    BY <1>1, <2>2
<1>3. date \in Nat
  <2>1. D # {} => Min(D) \in 1 .. n
    BY DeclaredUpto DEF At, DatedAt
  <2> QED
    BY <1>1, <2>1 DEF NoDate, Entry
<1>4. d = Domain(Q[m].Name, k[2], Q[m].Source, date)
  BY DeclaredUpto
<1>5. k = <<Lower(Q[m].Name), WithPort(Q[m]).Port>>
  BY <1>2 DEF KeyOf
<1>6. k[2] \in Nat /\ k[2] # 0
  BY <1>2, <1>5, EntryKey DEF Entry
<1> HIDE DEF m, date, d
<1>7. d \in Entry /\ d.Port = k[2] /\ d.Name = Q[m].Name
  BY <1>2, <1>3, <1>4, <1>6 DEF Domain, Entry
<1>8. KeyOf(d) = k
  <2>1. WithPort(d) = d
    BY <1>6, <1>7 DEF WithPort
  <2> QED
    BY <1>5, <1>7, <2>1 DEF KeyOf
<1> QED
  BY <1>6, <1>7, <1>8 DEF d

-----------------------------------------------------------------------------
(* static.go                                                                 *)

\* The entries with one of these sources that have no date, or have the name and the
\* date of one of E.
DatedFrom(E, Sources) ==
    {r \in [Name : HostName, Port : Nat, Source : Sources, ExpiryFallback : Nat] :
       r.ExpiryFallback # NoDate =>
          \E e \in E : e.Name # <<>> /\ e.Name = r.Name /\ e.ExpiryFallback = r.ExpiryFallback}

\* static.go: subdomains inherit the port and the source, not the date.
LEMMA SubdomainsHaveNoDate ==
    ASSUME NEW E, NEW Sources, NEW e \in StaticEntry, NEW source \in Sources
    PROVE  Subdomains(e, source) \in Seq(DatedFrom(E, Sources))
<1> DEFINE part(j) == LET label == e.Subdomains[j]
                      IN  IF label = <<>> THEN <<>>
                          ELSE <<Domain(label \o e.Name, e.Port, source, NoDate)>>
           parts == [j \in DOMAIN e.Subdomains |-> part(j)]
<1>1. /\ e.Subdomains \in Seq(HostName) /\ Len(e.Subdomains) \in Nat
      /\ DOMAIN e.Subdomains = 1 .. Len(e.Subdomains)
      /\ e.Name \in HostName /\ e.Port \in Nat
  BY DEF StaticEntry
<1>2. ASSUME NEW j \in DOMAIN e.Subdomains PROVE part(j) \in Seq(DatedFrom(E, Sources))
  <2>1. e.Subdomains[j] \in HostName
    BY <1>1
  <2>2. e.Subdomains[j] \o e.Name \in HostName
    BY <1>1, <2>1 DEF HostName
  <2>3. Domain(e.Subdomains[j] \o e.Name, e.Port, source, NoDate) \in DatedFrom(E, Sources)
    BY <1>1, <2>2 DEF Domain, DatedFrom, NoDate
  <2> HIDE DEF Domain
  <2> QED
    BY <2>3
<1> HIDE DEF part
<1>3. parts \in Seq(Seq(DatedFrom(E, Sources)))
  BY <1>1, <1>2
<1>4. Subdomains(e, source) = FlattenSeq(parts)
  BY DEF Subdomains, part
<1> HIDE DEF parts
<1> QED
  BY <1>3, <1>4, MembersOfAll

LEMMA ExpandDates ==
    ASSUME NEW E, NEW Sources, NEW entries \in Seq(StaticEntry), NEW source \in Sources,
           \A k \in DOMAIN entries : entries[k] \in E
    PROVE  Expand(source, entries) \in Seq(DatedFrom(E, Sources))
<1> DEFINE part(k) == LET e == entries[k]
                      IN  IF e.Name = <<>> THEN <<>>
                          ELSE <<Domain(e.Name, e.Port, source, e.ExpiryFallback)>>
                               \o Subdomains(e, source)
           parts == [k \in DOMAIN entries |-> part(k)]
<1>1. Len(entries) \in Nat /\ DOMAIN entries = 1 .. Len(entries)
  OBVIOUS
<1>2. ASSUME NEW k \in DOMAIN entries PROVE part(k) \in Seq(DatedFrom(E, Sources))
  <2> DEFINE e == entries[k]
  <2>1. e \in StaticEntry /\ e \in E
    BY <1>1
  <2>2. /\ e.Name \in HostName /\ e.Port \in Nat /\ e.ExpiryFallback \in Nat
    BY <2>1 DEF StaticEntry, HostName
  <2>3. Subdomains(e, source) \in Seq(DatedFrom(E, Sources))
    BY <2>1, SubdomainsHaveNoDate
  <2>4. part(k) = IF e.Name = <<>> THEN <<>>
                  ELSE <<Domain(e.Name, e.Port, source, e.ExpiryFallback)>> \o Subdomains(e, source)
    OBVIOUS
  <2> HIDE DEF part, e
  <2>5. CASE e.Name # <<>>
    <3>1. Domain(e.Name, e.Port, source, e.ExpiryFallback) \in DatedFrom(E, Sources)
      BY <2>1, <2>2, <2>5 DEF Domain, DatedFrom
    <3>2. <<Domain(e.Name, e.Port, source, e.ExpiryFallback)>> \in Seq(DatedFrom(E, Sources))
      BY <3>1
    <3> HIDE DEF Domain
    <3> QED
      BY <2>3, <2>4, <2>5, <3>2
  <2> QED
    BY <2>4, <2>5
<1> HIDE DEF part
<1>3. parts \in Seq(Seq(DatedFrom(E, Sources)))
  BY <1>1, <1>2
<1>4. Expand(source, entries) = FlattenSeq(parts)
  BY DEF Expand, part
<1> HIDE DEF parts
<1> QED
  BY <1>3, <1>4, MembersOfAll

\* The entries of the file: the flat ones and those of the groups.
EntriesOf(f) == ToSet(f.Domains) \cup UNION {ToSet(g.Domains) : g \in ToSet(f.Groups)}

\* The labels they get.
SourcesOf(f) == {"static"} \cup {GroupSource(g) : g \in ToSet(f.Groups)}

LEMMA StaticDates ==
    ASSUME NEW f \in StaticFile
    PROVE  StaticList(f) \in Seq(DatedFrom(EntriesOf(f), SourcesOf(f)))
<1> DEFINE E == EntriesOf(f)
           Sources == SourcesOf(f)
           parts == [k \in DOMAIN f.Groups |->
                       Expand(GroupSource(f.Groups[k]), f.Groups[k].Domains)]
<1>1. /\ f.Domains \in Seq(StaticEntry)
      /\ f.Groups \in Seq(StaticGroup)
      /\ Len(f.Groups) \in Nat /\ DOMAIN f.Groups = 1 .. Len(f.Groups)
  BY DEF StaticFile
<1>2. \A k \in DOMAIN f.Domains : f.Domains[k] \in E
  BY DEF EntriesOf, ToSet
<1>3. Expand("static", f.Domains) \in Seq(DatedFrom(E, Sources))
  <2>1. "static" \in Sources
    BY DEF SourcesOf
  <2> HIDE DEF E, Sources
  <2> QED
    BY <1>1, <1>2, <2>1, ExpandDates
<1>4. ASSUME NEW k \in DOMAIN f.Groups
      PROVE  Expand(GroupSource(f.Groups[k]), f.Groups[k].Domains) \in Seq(DatedFrom(E, Sources))
  <2> DEFINE g == f.Groups[k]
  <2>1. g \in StaticGroup /\ g \in ToSet(f.Groups)
    BY <1>1 DEF ToSet
  <2> HIDE DEF g
  <2>2. \A j \in DOMAIN g.Domains : g.Domains[j] \in ToSet(g.Domains)
    BY DEF ToSet
  <2>3. \A j \in DOMAIN g.Domains : g.Domains[j] \in E
    BY <2>1, <2>2 DEF EntriesOf
  <2>4. GroupSource(g) \in Sources /\ g.Domains \in Seq(StaticEntry)
    BY <2>1 DEF StaticGroup, SourcesOf
  <2> HIDE DEF E, Sources
  <2> QED
    BY <2>3, <2>4, ExpandDates DEF g
<1>5. parts \in Seq(Seq(DatedFrom(E, Sources)))
  <2> HIDE DEF E, Sources
  <2> QED
    BY <1>1, <1>4
<1>6. StaticList(f) = Expand("static", f.Domains) \o FlattenSeq(parts)
  BY DEF StaticList
<1> HIDE DEF parts, E, Sources
<1>7. FlattenSeq(parts) \in Seq(DatedFrom(E, Sources))
  BY <1>5, MembersOfAll
<1> QED
  BY <1>3, <1>6, <1>7 DEF E, Sources

-----------------------------------------------------------------------------
(* The sources: what a list of hosts becomes.                                *)

LEMMA ToSetIs ==
    ASSUME NEW S, NEW s \in Seq(S)
    PROVE  /\ ToSet(s) \subseteq S
           /\ \A x \in ToSet(s) : \E k \in 1 .. Len(s) : s[k] = x
           /\ \A k \in 1 .. Len(s) : s[k] \in ToSet(s)
           /\ (ToSet(s) = {}) <=> (s = <<>>)
<1>1. DOMAIN s = 1 .. Len(s) /\ Len(s) \in Nat /\ \A k \in 1 .. Len(s) : s[k] \in S
  OBVIOUS
<1>2. /\ ToSet(s) \subseteq S
      /\ \A x \in ToSet(s) : \E k \in 1 .. Len(s) : s[k] = x
      /\ \A k \in 1 .. Len(s) : s[k] \in ToSet(s)
  BY <1>1 DEF ToSet
<1>3. ASSUME s # <<>> PROVE ToSet(s) # {}
  <2>1. 1 \in 1 .. Len(s)
    BY <1>1, <1>3
  <2> QED
    BY <1>2, <2>1
<1>4. ToSet(<<>>) = {}
  BY DEF ToSet
<1> QED
  BY <1>2, <1>3, <1>4

\* A list of parts, each of which is empty or has one member.
LEMMA OnlyIs ==
    ASSUME NEW S, NEW s \in Seq(S), NEW T
    PROVE  Only(s, T) \in Seq(S) /\ ToSet(Only(s, T)) = ToSet(s) \cap T
<1> DEFINE parts == [k \in DOMAIN s |-> IF s[k] \in T THEN <<s[k]>> ELSE <<>>]
<1>1. Len(s) \in Nat /\ DOMAIN s = 1 .. Len(s) /\ \A k \in DOMAIN s : s[k] \in S
  OBVIOUS
<1>2. \A k \in DOMAIN s : parts[k] = (IF s[k] \in T THEN <<s[k]>> ELSE <<>>)
                          /\ parts[k] \in Seq(S)
  BY <1>1
<1>3. DOMAIN parts = DOMAIN s /\ parts \in Seq(Seq(S))
  <2> DEFINE l == Len(s)
             c(k) == IF s[k] \in T THEN <<s[k]>> ELSE <<>>
  <2>1. l \in Nat /\ DOMAIN s = 1 .. l /\ parts = [k \in 1 .. l |-> c(k)]
    BY <1>1
  <2>2. \A k \in 1 .. l : c(k) \in Seq(S)
    BY <1>1
  <2> HIDE DEF l, c, parts
  <2> QED
    BY <2>1, <2>2
<1>4. Only(s, T) = FlattenSeq(parts)
  BY DEF Only
<1> HIDE DEF parts
<1>5. /\ Only(s, T) \in Seq(S)
      /\ ToSet(Only(s, T)) = UNION {ToSet(parts[k]) : k \in DOMAIN s}
  BY <1>3, <1>4, MembersOfAll
<1>6. \A x : ToSet(<<x>>) = {x}
  BY DEF ToSet
<1>7. ToSet(<<>>) = {}
  BY DEF ToSet
<1>8. ASSUME NEW k \in DOMAIN s PROVE ToSet(parts[k]) = {s[k]} \cap T
  <2>1. CASE s[k] \in T
    <3>1. ToSet(parts[k]) = {s[k]}
      BY <1>2, <1>6, <2>1
    <3> QED
      BY <2>1, <3>1
  <2>2. CASE s[k] \notin T
    <3>1. ToSet(parts[k]) = {}
      BY <1>2, <1>7, <2>2
    <3> QED
      BY <2>2, <3>1
  <2> QED
    BY <2>1, <2>2
<1>9. UNION {ToSet(parts[k]) : k \in DOMAIN s} = {s[k] : k \in DOMAIN s} \cap T
  BY <1>8
<1> QED
  BY <1>5, <1>9 DEF ToSet

LEMMA Normalized ==
    ASSUME NEW h \in HostName
    PROVE  /\ TrimDot(h) \in HostName
           /\ normalizeHost(h) \in HostName
           /\ Len(normalizeHost(h)) = Len(TrimDot(h))
           /\ \A k \in 1 .. Len(TrimDot(h)) : normalizeHost(h)[k] = LowerLabel[TrimDot(h)[k]]
           /\ Lower(normalizeHost(h)) = normalizeHost(h)
<1> DEFINE t == TrimDot(h)
           n == normalizeHost(h)
<1>1. t \in Seq(Label)
  <2>1. CASE h # <<>>
    <3>1. Front(h) \in Seq(Label)
      BY <2>1 DEF Front, HostName
    <3> QED
      BY <3>1 DEF TrimDot, HostName
  <2>2. CASE h = <<>>
    BY <2>2 DEF TrimDot, HostName
  <2> QED
    BY <2>1, <2>2
<1>2. n = [k \in DOMAIN t |-> LowerLabel[t[k]]]
  BY DEF normalizeHost, Lower
<1> HIDE DEF t, n
<1>3. Len(t) \in Nat /\ DOMAIN t = 1 .. Len(t) /\ \A k \in 1 .. Len(t) : t[k] \in Label
  BY <1>1
<1>4. \A k \in 1 .. Len(t) : n[k] = LowerLabel[t[k]] /\ n[k] \in Label /\ LowerLabel[n[k]] = n[k]
  BY <1>2, <1>3, LowerAssumption
<1>5. n \in Seq(Label) /\ Len(n) = Len(t) /\ DOMAIN n = 1 .. Len(t)
  BY <1>2, <1>3, <1>4
<1>6. Lower(n) = n
  <2>1. Lower(n) = [k \in 1 .. Len(t) |-> LowerLabel[n[k]]]
    BY <1>5 DEF Lower
  <2>2. n = [k \in 1 .. Len(t) |-> n[k]]
    BY <1>5
  <2> QED
    BY <1>4, <2>1, <2>2
<1> QED
  BY <1>1, <1>4, <1>5, <1>6 DEF t, n, HostName

\* The add of both sources keeps each host once, normalised, and loses none.
LEMMA AddedIs ==
    ASSUME NEW hosts \in Seq(HostName)
    PROVE  /\ Added(hosts) \in Seq(HostName)
           /\ ToSet(Added(hosts)) = {normalizeHost(h) : h \in ToSet(hosts)}
           /\ \A x \in ToSet(Added(hosts)) : Lower(x) = x
<1> DEFINE n(k) == normalizeHost(hosts[k])
           again(k) == \E j \in 1 .. (k - 1) : n(j) = n(k)
           parts == [k \in DOMAIN hosts |-> IF again(k) THEN <<>> ELSE <<n(k)>>]
<1>1. /\ Len(hosts) \in Nat /\ DOMAIN hosts = 1 .. Len(hosts)
      /\ \A k \in DOMAIN hosts : n(k) \in HostName
  BY Normalized
<1>2. Added(hosts) = FlattenSeq(parts)
  BY DEF Added
<1> HIDE DEF n
<1>3. \A k \in DOMAIN hosts : parts[k] = (IF again(k) THEN <<>> ELSE <<n(k)>>)
                              /\ parts[k] \in Seq(HostName)
  BY <1>1
<1>4. DOMAIN parts = DOMAIN hosts /\ parts \in Seq(Seq(HostName))
  BY <1>1, <1>3
<1> HIDE DEF parts
<1>5. /\ Added(hosts) \in Seq(HostName)
      /\ ToSet(Added(hosts)) = UNION {ToSet(parts[k]) : k \in DOMAIN hosts}
  BY <1>2, <1>4, MembersOfAll
<1>6. \A x : ToSet(<<x>>) = {x}
  BY DEF ToSet
<1>7. ToSet(<<>>) = {}
  BY DEF ToSet
<1>8. \A k \in DOMAIN hosts : ToSet(parts[k]) = IF again(k) THEN {} ELSE {n(k)}
  BY <1>3, <1>6, <1>7
<1>9. ASSUME NEW k \in DOMAIN hosts
      PROVE  \E m \in DOMAIN hosts : n(m) = n(k) /\ ~again(m)
  <2> DEFINE same == {j \in DOMAIN hosts : n(j) = n(k)}
             m == Min(same)
  <2>1. same \subseteq Nat /\ k \in same
    BY <1>1
  <2>2. m \in same /\ \A j \in same : m <= j
    <3> HIDE DEF same
    <3> QED
      BY <2>1, LeastOf
  <2> HIDE DEF m
  <2>3. m \in DOMAIN hosts /\ n(m) = n(k)
    BY <2>2
  <2>4. ASSUME NEW j \in 1 .. (m - 1) PROVE n(j) # n(m)
    BY <1>1, <2>2, <2>3
  <2> QED
    BY <2>3, <2>4
<1> HIDE DEF again
<1>10. ToSet(Added(hosts)) = {n(k) : k \in DOMAIN hosts}
  <2>1. \A x \in ToSet(Added(hosts)) : \E k \in DOMAIN hosts : x \in ToSet(parts[k])
    BY <1>5
  <2>2. \A x \in ToSet(Added(hosts)) : \E k \in DOMAIN hosts : x = n(k)
    BY <1>8, <2>1
  <2>3. ASSUME NEW k \in DOMAIN hosts PROVE n(k) \in ToSet(Added(hosts))
    <3>1. PICK m \in DOMAIN hosts : n(m) = n(k) /\ ~again(m)
      BY <1>9
    <3>2. n(k) \in ToSet(parts[m])
      BY <1>8, <3>1
    <3> QED
      BY <1>5, <3>2
  <2> QED
    BY <2>2, <2>3
<1>11. {normalizeHost(h) : h \in ToSet(hosts)} = {n(k) : k \in DOMAIN hosts}
  BY DEF ToSet, n
<1>12. \A h \in ToSet(hosts) : Lower(normalizeHost(h)) = normalizeHost(h)
  BY Normalized, ToSetIs
<1> QED
  BY <1>5, <1>10, <1>11, <1>12

-----------------------------------------------------------------------------
(* route53.go                                                                *)

\* What the pages before the first error list is what was heard.
LEMMA CollectedIs ==
    ASSUME NEW S, NEW pages \in Seq(PageOf(S))
    PROVE  /\ Collected(pages) \in Seq(S)
           /\ ToSet(Collected(pages)) = Heard(pages, RequestedInTurn(pages))
<1> DEFINE late(k) == \E j \in 1 .. k : pages[j].Err
           parts == [k \in DOMAIN pages |-> IF late(k) THEN <<>> ELSE pages[k].items]
           R == {q \in RequestedInTurn(pages) : ~pages[q].Err}
<1>1. /\ Len(pages) \in Nat /\ DOMAIN pages = 1 .. Len(pages)
      /\ \A k \in DOMAIN pages : pages[k].items \in Seq(S)
  <2>1. Len(pages) \in Nat /\ DOMAIN pages = 1 .. Len(pages)
        /\ \A k \in DOMAIN pages : pages[k] \in PageOf(S)
    OBVIOUS
  <2> QED
    BY <2>1 DEF PageOf
<1>2. Collected(pages) = FlattenSeq(parts)
  BY DEF Collected
<1>3. \A k \in DOMAIN pages : late(k) <=> k \notin R
  <2> SUFFICES ASSUME NEW k \in DOMAIN pages PROVE late(k) <=> k \notin R
    OBVIOUS
  <2>1. 1 .. k = (1 .. (k - 1)) \cup {k}
    BY <1>1
  <2> QED
    BY <2>1 DEF RequestedInTurn
<1> HIDE DEF late
<1>4. \A k \in DOMAIN pages : parts[k] = (IF late(k) THEN <<>> ELSE pages[k].items)
                              /\ parts[k] \in Seq(S)
  BY <1>1
<1>5. DOMAIN parts = DOMAIN pages /\ parts \in Seq(Seq(S))
  BY <1>1, <1>4
<1> HIDE DEF parts
<1>6. /\ Collected(pages) \in Seq(S)
      /\ ToSet(Collected(pages)) = UNION {ToSet(parts[k]) : k \in DOMAIN pages}
  BY <1>2, <1>5, MembersOfAll
<1>7. R \subseteq DOMAIN pages
  BY DEF RequestedInTurn
<1> HIDE DEF R
<1>8. ToSet(<<>>) = {}
  BY DEF ToSet
<1>9. \A k \in DOMAIN pages : ToSet(parts[k]) = IF k \in R THEN ToSet(pages[k].items) ELSE {}
  BY <1>3, <1>4, <1>8
<1>10. UNION {ToSet(parts[k]) : k \in DOMAIN pages} = UNION {ToSet(pages[p].items) : p \in R}
  <2> HIDE DEF ToSet
  <2> QED
    BY <1>7, <1>9
<1> QED
  BY <1>6, <1>10 DEF Heard, R

LEMMA EnumerateIs ==
    ASSUME NEW z \in HostedZone
    PROVE  /\ EnumerateRecords(z) \in Seq(HostName)
           /\ ToSet(EnumerateRecords(z)) = IF z.HasId THEN HeardFromZone(z) ELSE {}
<1> DEFINE all == Collected(z.records)
           listed == Only(all, MonitoredRecords(z))
           names == [k \in DOMAIN listed |-> listed[k].Name]
<1>1. z.records \in Seq(PageOf(RecordSet))
  BY DEF HostedZone
<1>2. /\ all \in Seq(RecordSet)
      /\ ToSet(all) = Heard(z.records, RequestedInTurn(z.records))
  BY <1>1, CollectedIs
<1>3. MonitoredRecords(z) = {r \in ToSet(all) : r.Type \in MonitoredTypes /\ isMonitorableHost(r.Name)}
  BY DEF MonitoredRecords
<1>4. listed \in Seq(RecordSet) /\ ToSet(listed) = ToSet(all) \cap MonitoredRecords(z)
  <2> HIDE DEF all
  <2> QED
    BY <1>2, OnlyIs
<1>5. {r.Name : r \in ToSet(listed)} = HeardFromZone(z)
  <2>1. ToSet(listed) = MonitoredRecords(z)
    BY <1>3, <1>4
  <2> QED
    BY <1>2, <1>3, <2>1 DEF HeardFromZone
<1>6. EnumerateRecords(z) = IF z.HasId THEN names ELSE <<>>
  BY DEF EnumerateRecords
<1> HIDE DEF all, listed
<1>7. Len(listed) \in Nat /\ DOMAIN listed = 1 .. Len(listed)
      /\ \A k \in DOMAIN listed : listed[k].Name \in HostName
  <2>1. Len(listed) \in Nat /\ DOMAIN listed = 1 .. Len(listed)
        /\ \A k \in DOMAIN listed : listed[k] \in RecordSet
    BY <1>4
  <2> QED
    BY <2>1 DEF RecordSet
<1>8. names \in Seq(HostName)
  BY <1>7
<1>9. ToSet(names) = {r.Name : r \in ToSet(listed)}
  BY DEF ToSet
<1>10. ToSet(<<>>) = {}
  BY DEF ToSet
<1>11. <<>> \in Seq(HostName)
  OBVIOUS
<1> HIDE DEF names
<1>12. CASE z.HasId
  BY <1>5, <1>6, <1>8, <1>9, <1>12
<1>13. CASE ~z.HasId
  BY <1>6, <1>10, <1>11, <1>13
<1> QED
  BY <1>12, <1>13

\* Route53 returns the hosts it was told of, normalised, but for the excluded ones.
LEMMA Route53NamesAre ==
    ASSUME NEW w \in Route53Answer
    PROVE  /\ Route53Names(w) \in Seq(HostName)
           /\ ToSet(Route53Names(w)) =
                {normalizeHost(h) : h \in {g \in HeardFromRoute53(w) :
                    normalizeHost(g) # <<>> /\ ~isExcluded(normalizeHost(g))}}
           /\ \A x \in ToSet(Route53Names(w)) : Lower(x) = x
<1> DEFINE all == Collected(w.zones)
           zones == PublicZones(w)
           part(k) == <<zones[k].Name>> \o EnumerateRecords(zones[k])
           parts == [k \in DOMAIN zones |-> part(k)]
           found == Collected(w.registered) \o FlattenSeq(parts)
           Z == {z \in Heard(w.zones, RequestedInTurn(w.zones)) :
                   ~z.PrivateZone /\ ~isExcluded(z.Name)}
           wanted == {h \in ToSet(found) : normalizeHost(h) # <<>> /\ ~isExcluded(normalizeHost(h))}
<1>1. w.registered \in Seq(PageOf(HostName)) /\ w.zones \in Seq(PageOf(HostedZone))
  BY DEF Route53Answer
<1>2. /\ Collected(w.registered) \in Seq(HostName)
      /\ ToSet(Collected(w.registered)) = Heard(w.registered, RequestedInTurn(w.registered))
  BY <1>1, CollectedIs
<1>3. all \in Seq(HostedZone) /\ ToSet(all) = Heard(w.zones, RequestedInTurn(w.zones))
  BY <1>1, CollectedIs
<1>4. zones \in Seq(HostedZone) /\ ToSet(zones) = Z
  <2> DEFINE pass == {z \in ToSet(all) : ~z.PrivateZone /\ ~isExcluded(z.Name)}
  <2>1. PublicZones(w) = Only(all, pass)
    BY DEF PublicZones
  <2>2. pass = Z /\ ToSet(all) \cap pass = pass
    BY <1>3
  <2> HIDE DEF all, pass, Z
  <2>3. Only(all, pass) \in Seq(HostedZone) /\ ToSet(Only(all, pass)) = ToSet(all) \cap pass
    BY <1>3, OnlyIs
  <2> HIDE DEF zones
  <2>4. zones = Only(all, pass)
    BY <2>1 DEF zones
  <2> QED
    BY <2>2, <2>3, <2>4
<1> HIDE DEF zones, all, Z
<1>5. Len(zones) \in Nat /\ DOMAIN zones = 1 .. Len(zones)
      /\ \A k \in DOMAIN zones : zones[k] \in HostedZone
  BY <1>4
<1>6. ASSUME NEW k \in DOMAIN zones
      PROVE  /\ part(k) \in Seq(HostName)
             /\ ToSet(part(k)) = {zones[k].Name}
                                 \cup IF zones[k].HasId THEN HeardFromZone(zones[k]) ELSE {}
  <2>1. zones[k] \in HostedZone
    BY <1>5
  <2>2. <<zones[k].Name>> \in Seq(HostName) /\ ToSet(<<zones[k].Name>>) = {zones[k].Name}
    <3>1. zones[k].Name \in HostName
      BY <2>1 DEF HostedZone
    <3> QED
      BY <3>1 DEF ToSet
  <2>3. /\ EnumerateRecords(zones[k]) \in Seq(HostName)
        /\ ToSet(EnumerateRecords(zones[k]))
             = IF zones[k].HasId THEN HeardFromZone(zones[k]) ELSE {}
    BY <2>1, EnumerateIs
  <2> DEFINE a == <<zones[k].Name>>
             b == EnumerateRecords(zones[k])
  <2>4. part(k) = a \o b
    OBVIOUS
  <2> HIDE DEF a, b, part
  <2>5. a \in Seq(HostName) /\ b \in Seq(HostName)
    BY <2>2, <2>3 DEF a, b
  <2>6. a \o b \in Seq(HostName) /\ ToSet(a \o b) = ToSet(a) \cup ToSet(b)
    BY <2>5, MembersOfTwo
  <2>7. /\ ToSet(a) = {zones[k].Name}
        /\ ToSet(b) = IF zones[k].HasId THEN HeardFromZone(zones[k]) ELSE {}
    BY <2>2, <2>3 DEF a, b
  <2> QED
    BY <2>4, <2>6, <2>7
<1> HIDE DEF part
<1>7. DOMAIN parts = DOMAIN zones /\ parts \in Seq(Seq(HostName))
      /\ \A k \in DOMAIN zones : parts[k] = part(k)
  BY <1>5, <1>6
<1> HIDE DEF parts
<1>8. /\ FlattenSeq(parts) \in Seq(HostName)
      /\ ToSet(FlattenSeq(parts)) = UNION {ToSet(part(k)) : k \in DOMAIN zones}
  <2>1. /\ FlattenSeq(parts) \in Seq(HostName)
        /\ ToSet(FlattenSeq(parts)) = UNION {ToSet(parts[k]) : k \in DOMAIN parts}
    BY <1>7, MembersOfAll
  <2>2. UNION {ToSet(parts[k]) : k \in DOMAIN parts} = UNION {ToSet(part(k)) : k \in DOMAIN zones}
    BY <1>7
  <2> QED
    BY <2>1, <2>2
<1>9. UNION {ToSet(part(k)) : k \in DOMAIN zones}
        = {z.Name : z \in Z} \cup UNION {HeardFromZone(z) : z \in {y \in Z : y.HasId}}
  <2>1. \A z : z \in Z <=> \E k \in DOMAIN zones : zones[k] = z
    BY <1>4 DEF ToSet
  <2> QED
    BY <1>6, <2>1
<1>10. found \in Seq(HostName) /\ ToSet(found) = HeardFromRoute53(w)
  <2>1. found \in Seq(HostName)
        /\ ToSet(found) = ToSet(Collected(w.registered)) \cup ToSet(FlattenSeq(parts))
    BY <1>2, <1>8, MembersOfTwo
  <2>2. HeardFromRoute53(w) =
          Heard(w.registered, RequestedInTurn(w.registered))
          \cup {z.Name : z \in Z} \cup UNION {HeardFromZone(z) : z \in {y \in Z : y.HasId}}
    BY DEF HeardFromRoute53, Z
  <2> QED
    BY <1>2, <1>8, <1>9, <2>1, <2>2
<1>11. Route53Names(w) = Added(Only(found, wanted))
  BY DEF Route53Names, zones, parts, part
<1> HIDE DEF found
<1>12. Only(found, wanted) \in Seq(HostName) /\ ToSet(Only(found, wanted)) = wanted
  <2>1. wanted \subseteq ToSet(found)
    OBVIOUS
  <2> HIDE DEF wanted
  <2>2. /\ Only(found, wanted) \in Seq(HostName)
        /\ ToSet(Only(found, wanted)) = ToSet(found) \cap wanted
    BY <1>10, OnlyIs
  <2>3. ToSet(found) \cap wanted = wanted
    BY <2>1
  <2> QED
    BY <2>2, <2>3
<1>13. wanted = {g \in HeardFromRoute53(w) : normalizeHost(g) # <<>> /\ ~isExcluded(normalizeHost(g))}
  BY <1>10
<1> HIDE DEF wanted
<1>14. /\ Route53Names(w) \in Seq(HostName)
       /\ ToSet(Route53Names(w)) = {normalizeHost(h) : h \in wanted}
       /\ \A x \in ToSet(Route53Names(w)) : Lower(x) = x
  BY <1>11, <1>12, AddedIs
<1> QED
  BY <1>13, <1>14

-----------------------------------------------------------------------------
(* namecom.go                                                                *)

\* One page of a listing, given what the later ones yield.
PageThen(pages, f, p) ==
    LET page == pages[p]
    IN  IF page.Err THEN [Err |-> TRUE, items |-> <<>>]
        ELSE IF page.NextPage <= p THEN [Err |-> FALSE, items |-> page.items]
        ELSE [Err |-> f[page.NextPage].Err, items |-> page.items \o f[page.NextPage].items]

ListFrom(pages) == CHOOSE f : f = [p \in DOMAIN pages |-> PageThen(pages, f, p)]

LEMMA ListingIs ==
    ASSUME NEW pages
    PROVE  Listing(pages) = ListFrom(pages)[1]
BY DEF Listing, ListFrom, PageThen

\* The loop of a listing ends because the pages it asks for grow.
LEMMA ListFromDef ==
    ASSUME NEW S, NEW pages \in Listings(S)
    PROVE  ListFrom(pages) = [p \in DOMAIN pages |-> PageThen(pages, ListFrom(pages), p)]
<1> DEFINE n == Len(pages)
           Good(f, m) == f = [p \in (n - m + 1) .. n |-> PageThen(pages, f, p)]
           Bad == {m \in 0 .. n : ~\E f : Good(f, m)}
<1>1. /\ n \in Nat /\ DOMAIN pages = 1 .. n
      /\ \A p \in 1 .. n : pages[p].NextPage > p => pages[p].NextPage \in 1 .. n
  BY DEF Listings
<1> HIDE DEF n
<1>2. Bad = {}
  <2> SUFFICES ASSUME Bad # {} PROVE FALSE
    OBVIOUS
  <2>1. PICK m \in 0 .. n : (~\E f : Good(f, m)) /\ \A k \in Bad : m <= k
    <3>1. Bad \subseteq Nat /\ Bad \subseteq 0 .. n /\ \A m \in Bad : ~\E f : Good(f, m)
      OBVIOUS
    <3> HIDE DEF Bad, Good
    <3> QED
      BY <3>1, LeastOf
  <2>2. m # 0
    <3>1. (n - 0 + 1) .. n = {}
      BY <1>1
    <3>2. Good([p \in {} |-> 0], 0)
      BY <3>1
    <3> HIDE DEF Good
    <3> QED
      BY <2>1, <3>2
  <2>3. m - 1 \in 0 .. n /\ m - 1 \notin Bad
    <3> HIDE DEF Bad
    <3> QED
      BY <1>1, <2>1, <2>2
  <2>4. PICK f : Good(f, m - 1)
    BY <2>3
  <2> DEFINE q == n - m + 1
             g == [p \in q .. n |-> IF p = q THEN PageThen(pages, f, p) ELSE f[p]]
  <2>5. q \in 1 .. n /\ q .. n = {q} \cup ((q + 1) .. n) /\ n - (m - 1) + 1 = q + 1
    BY <1>1, <2>1, <2>2
  <2> HIDE DEF q
  <2>6. f = [p \in (q + 1) .. n |-> PageThen(pages, f, p)]
    BY <2>4, <2>5
  <2> HIDE DEF PageThen
  <2>7. ASSUME NEW p \in q .. n PROVE g[p] = PageThen(pages, f, p)
    <3>1. CASE p = q
      BY <3>1
    <3>2. CASE p # q
      <4>1. p \in (q + 1) .. n
        BY <2>5, <3>2
      <4>2. f[p] = PageThen(pages, f, p)
        BY <2>6, <4>1
      <4> QED
        BY <3>2, <4>2
    <3> QED
      BY <3>1, <3>2
  <2>8. ASSUME NEW p \in q .. n PROVE PageThen(pages, f, p) = PageThen(pages, g, p)
    <3> DEFINE next == pages[p].NextPage
    <3>1. p \in 1 .. n
      BY <1>1, <2>5
    <3>2. next > p => next \in q .. n /\ next # q
      BY <1>1, <2>5, <3>1
    <3>3. next > p => g[next] = f[next]
      BY <3>2
    <3>4. next \in Nat
      <4>1. pages[p] \in PageOf(S)
        BY <1>1, <3>1 DEF Listings
      <4> QED
        BY <4>1 DEF PageOf
    <3> HIDE DEF g, next
    <3>5. ~(next <= p) => g[next] = f[next]
      BY <3>1, <3>3, <3>4
    <3> QED
      BY <3>5 DEF PageThen, next
  <2>9. g = [p \in q .. n |-> PageThen(pages, g, p)]
    <3>1. \A p \in q .. n : g[p] = PageThen(pages, g, p)
      BY <2>7, <2>8
    <3>2. g = [p \in q .. n |-> g[p]]
      OBVIOUS
    <3> HIDE DEF g
    <3> QED
      BY <3>1, <3>2
  <2> HIDE DEF g
  <2> QED
    BY <2>1, <2>9 DEF q
<1>3. PICK f : Good(f, n)
  <2>1. n \in 0 .. n
    BY <1>1
  <2> QED
    BY <1>2, <2>1
<1>4. n - n + 1 = 1
  BY <1>1
<1>5. f = [p \in DOMAIN pages |-> PageThen(pages, f, p)]
  BY <1>1, <1>3, <1>4
<1> QED
  BY <1>5 DEF ListFrom

\* The pages requested from p on: p, and those requested from the one it points to.
LEMMA RequestedNext ==
    ASSUME NEW S, NEW pages \in Listings(S), NEW p \in DOMAIN pages
    PROVE  LET next == pages[p].NextPage
           IN  Requested(pages, p) = {p} \cup IF ~pages[p].Err /\ next > p
                                              THEN Requested(pages, next) ELSE {}
<1> DEFINE next == pages[p].NextPage
           R == Requested(pages, p)
           N == IF ~pages[p].Err /\ next > p THEN Requested(pages, next) ELSE {}
           D == DOMAIN pages
<1>1. D = 1 .. Len(pages) /\ Len(pages) \in Nat
      /\ \A q \in D : pages[q].NextPage > q => pages[q].NextPage \in D
  BY DEF Listings
<1>2. ASSUME NEW q \in D
      PROVE  q \in Requested(pages, q) /\ Closed(pages, Requested(pages, q))
  <2>1. q \in Requested(pages, q)
    BY DEF Requested
  <2>2. ASSUME NEW r \in Requested(pages, q), ~pages[r].Err, pages[r].NextPage > r
        PROVE  pages[r].NextPage \in Requested(pages, q)
    <3>1. r \in D /\ pages[r].NextPage \in D
      BY <1>1, <2>2 DEF Requested
    <3>2. ASSUME NEW T \in SUBSET D, q \in T, Closed(pages, T)
          PROVE  pages[r].NextPage \in T
      <4>1. r \in T
        BY <3>2 DEF Requested
      <4> QED
        BY <2>2, <3>2, <4>1 DEF Closed
    <3> QED
      BY <3>1, <3>2 DEF Requested
  <2> QED
    BY <2>1, <2>2 DEF Closed
<1>3. ~pages[p].Err /\ next > p => next \in D /\ next \in R
  BY <1>1, <1>2 DEF Closed
<1>4. {p} \cup N \subseteq R
  <2>1. CASE ~pages[p].Err /\ next > p
    <3>1. R \in SUBSET D /\ next \in R /\ Closed(pages, R)
      BY <1>2, <1>3, <2>1 DEF Requested
    <3>2. Requested(pages, next) \subseteq R
      BY <3>1 DEF Requested
    <3> QED
      BY <1>2, <2>1, <3>2
  <2>2. CASE ~(~pages[p].Err /\ next > p)
    BY <1>2, <2>2
  <2> QED
    BY <2>1, <2>2
<1>5. R \subseteq {p} \cup N
  <2>1. {p} \cup N \in SUBSET D
    BY DEF Requested
  <2>2. Closed(pages, {p} \cup N)
    <3>1. CASE ~pages[p].Err /\ next > p
      <4>1. N = Requested(pages, next)
        BY <3>1
      <4>2. Closed(pages, N) /\ next \in N
        BY <1>2, <1>3, <3>1, <4>1
      <4> HIDE DEF N
      <4> QED
        BY <4>2 DEF Closed
    <3>2. CASE ~(~pages[p].Err /\ next > p)
      BY <3>2 DEF Closed
    <3> QED
      BY <3>1, <3>2
  <2> HIDE DEF N
  <2> QED
    BY <2>1, <2>2 DEF Requested
<1> QED
  BY <1>4, <1>5

\* A listing fails when one of the pages it asks for does, and yields what all tell.
LEMMA ListingTells ==
    ASSUME NEW S, NEW pages \in Listings(S)
    PROVE  LET l == Listing(pages)
               R == Requested(pages, 1)
           IN  /\ l.Err <=> ~NoneFailed(pages, R)
               /\ ~l.Err => l.items \in Seq(S) /\ ToSet(l.items) = Heard(pages, R)
<1> DEFINE n == Len(pages)
           f == ListFrom(pages)
           R(p) == Requested(pages, p)
           Good(p) == /\ f[p].Err <=> ~NoneFailed(pages, R(p))
                      /\ ~f[p].Err =>
                            f[p].items \in Seq(S) /\ ToSet(f[p].items) = Heard(pages, R(p))
           Bad == {m \in 0 .. (n - 1) : ~Good(n - m)}
<1>1. /\ n \in Nat \ {0} /\ DOMAIN pages = 1 .. n
      /\ \A p \in 1 .. n : /\ pages[p] \in PageOf(S)
                           /\ pages[p].NextPage > p => pages[p].NextPage \in 1 .. n
  BY DEF Listings
<1>2. \A p \in 1 .. n : /\ pages[p].Err \in BOOLEAN /\ pages[p].items \in Seq(S)
                        /\ pages[p].NextPage \in Nat
  BY <1>1 DEF PageOf
<1>3. \A p \in 1 .. n : f[p] = PageThen(pages, f, p)
  <2>1. f = [p \in 1 .. n |-> PageThen(pages, f, p)]
    BY <1>1, ListFromDef
  <2> HIDE DEF f, PageThen, n
  <2> QED
    BY <2>1
<1>4. \A p \in 1 .. n : R(p) = {p} \cup IF ~pages[p].Err /\ pages[p].NextPage > p
                                        THEN R(pages[p].NextPage) ELSE {}
  BY <1>1, RequestedNext
<1> HIDE DEF n, f, R
<1>5. ASSUME NEW p \in 1 .. n, pages[p].Err PROVE Good(p)
  <2>0. f[p] = [Err |-> TRUE, items |-> <<>>]
    <3>1. PageThen(pages, f, p) = [Err |-> TRUE, items |-> <<>>]
      BY <1>5 DEF PageThen
    <3> QED
      BY <1>3, <3>1
  <2>1. f[p].Err = TRUE
    BY <2>0
  <2>2. p \in R(p)
    BY <1>4
  <2> QED
    BY <1>5, <2>1, <2>2 DEF NoneFailed
<1>6. ASSUME NEW p \in 1 .. n, ~pages[p].Err, pages[p].NextPage <= p PROVE Good(p)
  <2>1. f[p] = [Err |-> FALSE, items |-> pages[p].items]
    BY <1>3, <1>6 DEF PageThen
  <2>2. R(p) = {p}
    BY <1>2, <1>4, <1>6
  <2>3. NoneFailed(pages, {p})
    BY <1>6 DEF NoneFailed
  <2>4. Heard(pages, {p}) = ToSet(pages[p].items)
    BY <1>6 DEF Heard
  <2> QED
    BY <1>2, <2>1, <2>2, <2>3, <2>4
<1>7. ASSUME NEW p \in 1 .. n, ~pages[p].Err, pages[p].NextPage > p, Good(pages[p].NextPage)
      PROVE  Good(p)
  <2> DEFINE next == pages[p].NextPage
             failed == f[next].Err
             items == pages[p].items \o f[next].items
  <2>1. next \in 1 .. n /\ ~(pages[p].NextPage <= p)
    BY <1>1, <1>2, <1>7
  <2>2. f[p].Err = failed /\ f[p].items = items
    <3>1. PageThen(pages, f, p) = [Err |-> failed, items |-> items]
      BY <1>7, <2>1 DEF PageThen
    <3>2. f[p] = [Err |-> failed, items |-> items]
      BY <1>3, <3>1
    <3> HIDE DEF failed, items
    <3> QED
      BY <3>2
  <2>3. R(p) = {p} \cup R(next)
    BY <1>4, <1>7
  <2> HIDE DEF next, failed, items
  <2>4. NoneFailed(pages, {p} \cup R(next)) <=> NoneFailed(pages, R(next))
    BY <1>7 DEF NoneFailed
  <2>5. Heard(pages, {p} \cup R(next)) = ToSet(pages[p].items) \cup Heard(pages, R(next))
    <3> HIDE DEF ToSet
    <3> QED
      BY <1>7 DEF Heard
  <2>6. /\ f[next].Err <=> ~NoneFailed(pages, R(next))
        /\ ~f[next].Err =>
              f[next].items \in Seq(S) /\ ToSet(f[next].items) = Heard(pages, R(next))
    BY <1>7 DEF next
  <2>7. f[p].Err <=> f[next].Err
    BY <2>2 DEF failed
  <2>8. ASSUME ~f[next].Err
        PROVE  /\ f[p].items \in Seq(S)
               /\ ToSet(f[p].items) = ToSet(pages[p].items) \cup ToSet(f[next].items)
    <3>1. f[p].items = pages[p].items \o f[next].items
      BY <2>2 DEF items
    <3> QED
      BY <1>2, <2>6, <2>8, <3>1, MembersOfTwo
  <2> QED
    BY <2>3, <2>4, <2>5, <2>6, <2>7, <2>8
<1>8. Bad = {}
  <2> SUFFICES ASSUME Bad # {} PROVE FALSE
    OBVIOUS
  <2>1. PICK m \in 0 .. (n - 1) : ~Good(n - m) /\ \A k \in Bad : m <= k
    <3>1. 0 .. (n - 1) \subseteq Nat
      BY <1>1
    <3>2. Bad \subseteq Nat /\ Bad \subseteq 0 .. (n - 1) /\ \A m \in Bad : ~Good(n - m)
      BY <3>1
    <3> HIDE DEF Bad, Good
    <3> QED
      BY <3>2, LeastOf
  <2> DEFINE p == n - m
  <2> HIDE DEF Good
  <2>2. p \in 1 .. n /\ ~Good(p)
    BY <1>1, <2>1
  <2>3. ~pages[p].Err /\ ~(pages[p].NextPage <= p)
    BY <1>5, <1>6, <2>2
  <2>4. pages[p].NextPage > p /\ pages[p].NextPage \in 1 .. n
    BY <1>1, <1>2, <2>2, <2>3
  <2> DEFINE k == n - pages[p].NextPage
  <2>5. k \in 0 .. (n - 1) /\ ~(m <= k) /\ n - k = pages[p].NextPage
    BY <1>1, <2>1, <2>2, <2>4
  <2>6. k \notin Bad
    <3> HIDE DEF Bad, k
    <3> QED
      BY <2>1, <2>5
  <2>7. Good(n - k)
    <3> HIDE DEF k
    <3> QED
      BY <2>5, <2>6
  <2> QED
    BY <1>7, <2>2, <2>3, <2>4, <2>5, <2>7
<1>9. Good(1)
  <2>1. n - 1 \in 0 .. (n - 1) /\ n - (n - 1) = 1
    BY <1>1
  <2> HIDE DEF Good
  <2>2. n - 1 \notin Bad
    <3> HIDE DEF Bad
    <3> QED
      BY <1>8
  <2>3. Good(n - (n - 1))
    BY <2>1, <2>2
  <2> QED
    BY <2>1, <2>3
<1> QED
  BY <1>9, ListingIs DEF f, R

\* What the source keeps of a domain: its name, and what its listing tells if it
\* came whole.
KeptOfDomain(pages, d) == {d} \cup IF Complete(pages) THEN HostsHeard(pages, d) ELSE {}
KeptOfAccount(w) == UNION {KeptOfDomain(w.records[d], d) : d \in DomainsHeard(w)}

\* The records of a domain: what its listing tells, or nothing when it fails.
LEMMA RecordsOfDomain ==
    ASSUME NEW pages \in Listings(NameComRecord), NEW d \in HostName
    PROVE  /\ ListRecords(pages, d) \in Seq(HostName)
           /\ KeptOfDomain(pages, d) = {d} \cup ToSet(ListRecords(pages, d))
<1> DEFINE l == Listing(pages)
           R == Requested(pages, 1)
           kept == {r \in ToSet(l.items) : r.Type \in MonitoredTypes}
           monitored == Only(l.items, kept)
           hosts == [k \in DOMAIN monitored |-> RecordHost(monitored[k], d)]
           heard == IF NoneFailed(pages, R) THEN Heard(pages, R) ELSE {}
<1>1. /\ l.Err <=> ~NoneFailed(pages, R)
      /\ ~l.Err => l.items \in Seq(NameComRecord) /\ ToSet(l.items) = Heard(pages, R)
  BY ListingTells
<1>2. ListRecords(pages, d) = IF l.Err THEN <<>> ELSE hosts
  BY DEF ListRecords
<1>3. KeptOfDomain(pages, d)
        = {d} \cup {RecordHost(r, d) : r \in {s \in heard : s.Type \in MonitoredTypes}}
  BY DEF KeptOfDomain, Complete, HostsHeard
<1> HIDE DEF l, R
<1>4. CASE l.Err
  <2>1. heard = {}
    BY <1>1, <1>4
  <2>2. ToSet(<<>>) = {} /\ <<>> \in Seq(HostName)
    BY DEF ToSet
  <2> HIDE DEF hosts, heard
  <2>3. KeptOfDomain(pages, d) = {d}
    BY <1>3, <2>1
  <2> QED
    BY <1>2, <1>4, <2>2, <2>3
<1>5. CASE ~l.Err
  <2>1. l.items \in Seq(NameComRecord) /\ ToSet(l.items) = heard
    BY <1>1, <1>5
  <2>2. kept = {s \in heard : s.Type \in MonitoredTypes} /\ ToSet(l.items) \cap kept = kept
    BY <2>1
  <2> HIDE DEF kept, heard
  <2>3. monitored \in Seq(NameComRecord) /\ ToSet(monitored) = kept
    <3>1. monitored \in Seq(NameComRecord) /\ ToSet(monitored) = ToSet(l.items) \cap kept
      BY <2>1, OnlyIs
    <3> QED
      BY <2>2, <3>1
  <2> HIDE DEF monitored
  <2>4. Len(monitored) \in Nat /\ DOMAIN monitored = 1 .. Len(monitored)
        /\ \A k \in DOMAIN monitored : monitored[k] \in NameComRecord
    BY <2>3
  <2>5. ASSUME NEW r \in NameComRecord PROVE RecordHost(r, d) \in HostName
    <3>1. r.Fqdn \in HostName /\ r.Host \in HostName
      BY DEF NameComRecord
    <3>2. r.Host \o d \in HostName
      BY <3>1 DEF HostName
    <3> QED
      BY <3>1, <3>2 DEF RecordHost
  <2>6. hosts \in Seq(HostName)
    BY <2>4, <2>5
  <2>7. ToSet(hosts) = {RecordHost(r, d) : r \in kept}
    <3>1. ToSet(hosts) = {RecordHost(monitored[k], d) : k \in DOMAIN monitored}
      BY DEF ToSet
    <3>2. kept = {monitored[k] : k \in DOMAIN monitored}
      BY <2>3 DEF ToSet
    <3> QED
      BY <3>1, <3>2
  <2> HIDE DEF hosts
  <2> QED
    BY <1>2, <1>3, <1>5, <2>2, <2>6, <2>7
<1> QED
  BY <1>4, <1>5

\* Name.com returns the monitorable ones of the hosts it keeps, normalised.
LEMMA NameComNamesAre ==
    ASSUME NEW w, NameComAnswer(w), ~NameComDiscover(w).Err
    PROVE  /\ NameComDiscover(w).names \in Seq(HostName)
           /\ ToSet(NameComDiscover(w).names) = Monitored(KeptOfAccount(w))
           /\ \A x \in ToSet(NameComDiscover(w).names) : Lower(x) = x
<1> DEFINE l == Listing(w.domains)
           R == Requested(w.domains, 1)
           nonempty == ToSet(l.items) \ {<<>>}
           named == Only(l.items, nonempty)
           part(k) == <<named[k]>> \o ListRecords(w.records[named[k]], named[k])
           parts == [k \in DOMAIN named |-> part(k)]
           found == FlattenSeq(parts)
           kept == {h \in ToSet(found) : isMonitorableHost(normalizeHost(h))}
           names == Added(Only(found, kept))
<1>1. ~l.Err /\ NameComDiscover(w).names = names
  <2>1. NameComDiscover(w) = IF ~w.credentials \/ l.Err THEN Failure ELSE Success(names)
    BY DEF NameComDiscover
  <2>2. Failure.Err
    BY DEF Failure
  <2>3. Success(names).names = names
    BY DEF Success
  <2> HIDE DEF names, l
  <2> QED
    BY <2>1, <2>2, <2>3
<1>2. l.items \in Seq(HostName) /\ ToSet(l.items) = Heard(w.domains, R)
  <2>1. w.domains \in Listings(HostName)
    BY DEF NameComAnswer
  <2> QED
    BY <1>1, <2>1, ListingTells
<1>3. nonempty = Heard(w.domains, R) \ {<<>>}
  BY <1>2
<1>4. ASSUME NEW d \in nonempty
      PROVE  d \in HostName /\ w.records[d] \in Listings(NameComRecord)
  <2>1. d \in HostName
    BY <1>2, ToSetIs
  <2>2. \E p \in DOMAIN w.domains : d \in ToSet(w.domains[p].items) \ {<<>>}
    BY <1>3 DEF Heard, Requested
  <2> QED
    BY <2>1, <2>2 DEF NameComAnswer
<1> HIDE DEF l, R, nonempty
<1>5. named \in Seq(HostName) /\ ToSet(named) = nonempty
  <2>1. named \in Seq(HostName) /\ ToSet(named) = ToSet(l.items) \cap nonempty
    BY <1>2, OnlyIs
  <2>2. nonempty \subseteq ToSet(l.items)
    BY DEF nonempty
  <2> QED
    BY <2>1, <2>2
<1> HIDE DEF named
<1>6. Len(named) \in Nat /\ DOMAIN named = 1 .. Len(named)
      /\ \A k \in DOMAIN named : named[k] \in nonempty
  BY <1>5, ToSetIs
<1>7. ASSUME NEW k \in DOMAIN named
      PROVE  /\ part(k) \in Seq(HostName)
             /\ ToSet(part(k)) = KeptOfDomain(w.records[named[k]], named[k])
  <2> DEFINE d == named[k]
             a == <<d>>
             b == ListRecords(w.records[d], d)
  <2>1. d \in HostName /\ w.records[d] \in Listings(NameComRecord)
    BY <1>4, <1>6
  <2>2. part(k) = a \o b
    OBVIOUS
  <2> HIDE DEF d
  <2>3. b \in Seq(HostName) /\ KeptOfDomain(w.records[d], d) = {d} \cup ToSet(b)
    BY <2>1, RecordsOfDomain
  <2>4. a \in Seq(HostName) /\ ToSet(a) = {d}
    BY <2>1 DEF ToSet
  <2> HIDE DEF a, b, part
  <2>5. a \o b \in Seq(HostName) /\ ToSet(a \o b) = ToSet(a) \cup ToSet(b)
    BY <2>3, <2>4, MembersOfTwo
  <2> QED
    BY <2>2, <2>3, <2>4, <2>5 DEF d
<1> HIDE DEF part
<1>8. DOMAIN parts = DOMAIN named /\ parts \in Seq(Seq(HostName))
      /\ \A k \in DOMAIN named : parts[k] = part(k)
  BY <1>6, <1>7
<1> HIDE DEF parts
<1>9. found \in Seq(HostName) /\ ToSet(found) = UNION {ToSet(parts[k]) : k \in DOMAIN parts}
  BY <1>8, MembersOfAll
<1>10. ToSet(found) = KeptOfAccount(w)
  <2>1. \A d : d \in nonempty <=> \E k \in DOMAIN named : named[k] = d
    BY <1>5 DEF ToSet
  <2>2. UNION {ToSet(parts[k]) : k \in DOMAIN parts}
          = UNION {KeptOfDomain(w.records[d], d) : d \in nonempty}
    BY <1>7, <1>8, <2>1
  <2>3. KeptOfAccount(w) = UNION {KeptOfDomain(w.records[d], d) : d \in nonempty}
    BY <1>3 DEF KeptOfAccount, DomainsHeard, R
  <2> QED
    BY <1>9, <2>2, <2>3
<1> HIDE DEF found
<1>11. Only(found, kept) \in Seq(HostName) /\ ToSet(Only(found, kept)) = kept
  <2>1. kept \subseteq ToSet(found)
    OBVIOUS
  <2> HIDE DEF kept
  <2>2. /\ Only(found, kept) \in Seq(HostName)
        /\ ToSet(Only(found, kept)) = ToSet(found) \cap kept
    BY <1>9, OnlyIs
  <2> QED
    BY <2>1, <2>2
<1>12. {normalizeHost(h) : h \in kept} = Monitored(KeptOfAccount(w))
  BY <1>10 DEF Monitored
<1> HIDE DEF kept
<1>13. /\ names \in Seq(HostName) /\ ToSet(names) = {normalizeHost(h) : h \in kept}
       /\ \A x \in ToSet(names) : Lower(x) = x
  BY <1>11, AddedIs
<1> QED
  BY <1>1, <1>12, <1>13

-----------------------------------------------------------------------------
(* What the sources tell are entries.                                        *)

LEMMA FoundIs ==
    ASSUME NEW source, NEW names
    PROVE  ToSet(Found(source, names)) = {Domain(n, 0, source, NoDate) : n \in ToSet(names)}
BY DEF Found, ToSet

\* Entries of which only the names are not known to have a rank.
Unranked(Sources) == [Name : HostName, Port : Nat, Source : Sources, ExpiryFallback : Nat]

\* A list of such entries with ranked names is a list of Entry.
LEMMA RankedEntries ==
    ASSUME NEW Sources, NEW s \in Seq(Unranked(Sources)),
           Sources \subseteq Discoverers \cup GroupLabels,
           \A k \in DOMAIN s : s[k].Name \in DOMAIN NameRank
    PROVE  s \in Seq(Entry)
<1> DEFINE l == Len(s)
<1>1. l \in Nat /\ DOMAIN s = 1 .. l /\ s = [k \in 1 .. l |-> s[k]]
  OBVIOUS
<1>2. ASSUME NEW k \in 1 .. l PROVE s[k] \in Entry
  <2>1. s[k] \in Unranked(Sources)
    BY <1>1
  <2>2. s[k].Name \in DOMAIN NameRank
    BY <1>1
  <2>3. s[k].Source \in Discoverers \cup GroupLabels
    BY <2>1 DEF Unranked
  <2> HIDE DEF l
  <2> QED
    BY <2>1, <2>2, <2>3 DEF Entry, Unranked
<1> HIDE DEF l
<1> QED
  BY <1>1, <1>2

\* discovery.go: every source returns a list of entries.
LEMMA ToldTyped ==
    ASSUME NEW w \in Worlds, NEW d \in Discoverers, ~Discover(w, d).Err
    PROVE  Discover(w, d).domains \in Seq(Entry)
<1> DEFINE s == Discover(w, d).domains
<1> SUFFICES s \in Seq(Entry)
  OBVIOUS
<1>1. \A k \in DOMAIN s : s[k].Name \in DOMAIN NameRank
  BY RankedAssumption
<1>2. ASSUME NEW names \in Seq(HostName), s = Found(d, names)
      PROVE  s \in Seq(Unranked({d}))
  <2> DEFINE l == Len(names)
             e(k) == Domain(names[k], 0, d, NoDate)
             U == Unranked({d})
  <2>1. l \in Nat /\ DOMAIN names = 1 .. l /\ s = [k \in 1 .. l |-> e(k)]
    BY <1>2 DEF Found
  <2>2. \A k \in 1 .. l : e(k) \in U
    BY <1>2 DEF Domain, NoDate, Unranked
  <2> HIDE DEF l, e, s, U
  <2>3. s \in Seq(U)
    BY <2>1, <2>2
  <2> QED
    BY <2>3 DEF U
<1>3. CASE d = "static"
  <2> DEFINE f == w["static"]
  <2>1. f \in StaticFile /\ s = StaticList(f)
    BY <1>3, WorldsAssumption DEF Discover
  <2>2. SourcesOf(f) \subseteq Discoverers \cup GroupLabels
    BY DEF SourcesOf, GroupLabels, Discoverers
  <2> HIDE DEF f, s
  <2>3. s \in Seq(DatedFrom(EntriesOf(f), SourcesOf(f)))
    BY <2>1, StaticDates
  <2>4. s \in Seq(Unranked(SourcesOf(f)))
    <3> DEFINE T == Unranked(SourcesOf(f))
               D == DatedFrom(EntriesOf(f), SourcesOf(f))
    <3>1. D \subseteq T
      BY DEF DatedFrom, Unranked
    <3> HIDE DEF T, D
    <3>2. s \in Seq(D)
      BY <2>3 DEF D
    <3>3. s \in Seq(T)
      BY <3>1, <3>2
    <3> QED
      BY <3>3 DEF T
  <2> QED
    BY <1>1, <2>2, <2>4, RankedEntries
<1>4. CASE d = "namecom"
  <2> DEFINE r == NameComDiscover(w["namecom"])
  <2>1. s = Found(d, r.names) /\ ~r.Err
    BY <1>4 DEF Discover
  <2>2. NameComAnswer(w["namecom"])
    BY WorldsAssumption
  <2>3. r.names \in Seq(HostName)
    BY <2>1, <2>2, NameComNamesAre
  <2> HIDE DEF r, s
  <2>4. s \in Seq(Unranked({d})) /\ {d} \subseteq Discoverers \cup GroupLabels
    BY <1>2, <2>1, <2>3
  <2> QED
    BY <1>1, <2>4, RankedEntries
<1>5. CASE d = "route53"
  <2> DEFINE r == Route53Discover(w["route53"])
  <2>1. s = Found(d, r.names) /\ ~r.Err
    BY <1>5 DEF Discover
  <2>2. w["route53"] \in Route53Answer
    BY WorldsAssumption
  <2>3. r.names = Route53Names(w["route53"])
    BY <2>1 DEF Route53Discover, Failure, Success
  <2>4. r.names \in Seq(HostName)
    BY <2>2, <2>3, Route53NamesAre
  <2> HIDE DEF r, s
  <2>5. s \in Seq(Unranked({d})) /\ {d} \subseteq Discoverers \cup GroupLabels
    BY <1>2, <2>1, <2>4
  <2> QED
    BY <1>1, <2>5, RankedEntries
<1> QED
  BY <1>3, <1>4, <1>5 DEF Discoverers

-----------------------------------------------------------------------------
(* The inductive invariant.                                                  *)

\* What the goroutines have left is what their sources tell.
AnswersInv ==
    /\ world \in Worlds
    /\ running \subseteq Discoverers
    /\ Errors \subseteq Discoverers \ running
    /\ DOMAIN perDiscoverer = Discoverers \ (running \cup Errors)
    /\ \A d \in Errors : Discover(world, d).Err
    /\ \A d \in DOMAIN perDiscoverer :
         ~Discover(world, d).Err /\ perDiscoverer[d] = Discover(world, d).domains

\* The entries that the loop has visited.
Visited == Len(Trusted(world)) - Len(queue)

\* The queue is the rest of what the sources tell, and what is kept is what is
\* declared of the entries before it.
MergeInv ==
    /\ queue \in Seq(Entry)
    /\ Len(queue) <= Len(Trusted(world))
    /\ \A j \in 1 .. Len(queue) : queue[j] = Trusted(world)[Visited + j]
    /\ DOMAIN seen = KeysOf(Trusted(world), Visited)
    /\ \A k \in DOMAIN seen : seen[k] = Declared(Upto(Trusted(world), Visited), k)

Kept == {seen[k] : k \in DOMAIN seen}

AggregateInv ==
    /\ AnswersInv
    /\ pc \in {"wait", "merge", "done"}
    /\ pc = "wait" => seen = <<>>
    /\ pc # "wait" => running = {} /\ MergeInv
    /\ pc # "done" => list = <<>>
    /\ pc = "done" => queue = <<>> /\ list = Sorted(Kept)

LEMMA TrustedTyped ==
    ASSUME NEW w \in Worlds
    PROVE  /\ Trusted(w) \in Seq(Entry)
           /\ Len(Trusted(w)) \in Nat
           /\ DOMAIN Trusted(w) = 1 .. Len(Trusted(w))
<1>1. \A d \in Discoverers : Told(w, d) \in Seq(Entry)
  <2> TAKE d \in Discoverers
  <2>1. ~Discover(w, d).Err => Discover(w, d).domains \in Seq(Entry)
    BY ToldTyped
  <2>2. <<>> \in Seq(Entry)
    OBVIOUS
  <2> QED
    BY <2>1, <2>2 DEF Told
<1>2. /\ Told(w, "static") \in Seq(Entry) /\ Told(w, "namecom") \in Seq(Entry)
      /\ Told(w, "route53") \in Seq(Entry)
  BY <1>1 DEF Discoverers
<1>3. Trusted(w) \in Seq(Entry)
  BY <1>2 DEF Trusted
<1> QED
  BY <1>3

\* discovery.go: once all goroutines are through, dedup sees what the sources tell.
LEMMA ByPriorityIs ==
    ASSUME AnswersInv, running = {}
    PROVE  ByPriority = Trusted(world)
<1> DEFINE answered(priority) ==
              LET ds == {d \in DOMAIN perDiscoverer : discovererPriority(d) = priority}
              IN  IF ds = {} THEN <<>> ELSE perDiscoverer[CHOOSE d \in ds : TRUE]
<1>1. ASSUME NEW c \in Discoverers, NEW priority,
             \A d \in Discoverers : discovererPriority(d) = priority <=> d = c
      PROVE  answered(priority) = Told(world, c)
  <2> DEFINE ds == {d \in DOMAIN perDiscoverer : discovererPriority(d) = priority}
  <2>1. DOMAIN perDiscoverer \subseteq Discoverers
    BY DEF AnswersInv
  <2>2. ds = IF c \in DOMAIN perDiscoverer THEN {c} ELSE {}
    BY <1>1, <2>1
  <2>3. answered(priority) = IF ds = {} THEN <<>> ELSE perDiscoverer[CHOOSE d \in ds : TRUE]
    OBVIOUS
  <2> HIDE DEF answered, ds
  <2>4. answered(priority) = IF c \in DOMAIN perDiscoverer THEN perDiscoverer[c] ELSE <<>>
    BY <2>2, <2>3
  <2>5. c \in DOMAIN perDiscoverer <=> ~Discover(world, c).Err
    BY DEF AnswersInv
  <2>6. c \in DOMAIN perDiscoverer => perDiscoverer[c] = Discover(world, c).domains
    BY DEF AnswersInv
  <2> QED
    BY <2>4, <2>5, <2>6 DEF Told
<1> HIDE DEF answered
<1>2. answered(0) = Told(world, "static")
  <2>1. \A d \in Discoverers : discovererPriority(d) = 0 <=> d = "static"
    BY DEF discovererPriority, Discoverers
  <2> QED
    BY <1>1, <2>1 DEF Discoverers
<1>3. answered(1) = Told(world, "namecom")
  <2>1. \A d \in Discoverers : discovererPriority(d) = 1 <=> d = "namecom"
    BY DEF discovererPriority, Discoverers
  <2> QED
    BY <1>1, <2>1 DEF Discoverers
<1>4. answered(2) = Told(world, "route53")
  <2>1. \A d \in Discoverers : discovererPriority(d) = 2 <=> d = "route53"
    BY DEF discovererPriority, Discoverers
  <2> QED
    BY <1>1, <2>1 DEF Discoverers
<1>5. ByPriority = answered(0) \o answered(1) \o answered(2)
  BY DEF ByPriority, answered
<1> QED
  BY <1>2, <1>3, <1>4, <1>5 DEF Trusted

LEMMA AggregateStart == Init => AggregateInv
<1> SUFFICES ASSUME Init PROVE AggregateInv
  OBVIOUS
<1>1. DOMAIN perDiscoverer = {}
  BY DEF Init
<1>2. AnswersInv
  BY <1>1 DEF Init, AnswersInv
<1> QED
  BY <1>2 DEF Init, AggregateInv

\* A step that leaves the answers and the loop alone keeps what is said of them.
LEMMA MergeStays ==
    ASSUME UNCHANGED <<world, queue, seen>>
    PROVE  (MergeInv <=> MergeInv') /\ Kept' = Kept
<1>1. Trusted(world)' = Trusted(world)
  OBVIOUS
<1>2. Visited' = Visited
  BY <1>1 DEF Visited
<1> QED
  BY <1>1, <1>2 DEF MergeInv, Kept

LEMMA AnswersStay ==
    ASSUME AnswersInv, UNCHANGED <<world, running, perDiscoverer, Errors>>
    PROVE  AnswersInv'
BY DEF AnswersInv

LEMMA GoroutineStep ==
    ASSUME AggregateInv, NEW d \in Discoverers, Answer(d) \/ Fail(d)
    PROVE  AggregateInv'
<1>1. d \in running /\ running' = running \ {d} /\ UNCHANGED <<world, pc, queue, seen, list>>
  BY DEF Answer, Fail
<1>2. pc = "wait"
  BY <1>1 DEF AggregateInv
<1>3. AnswersInv'
  <2>1. CASE Answer(d)
    <3>1. /\ ~Discover(world, d).Err
          /\ perDiscoverer' = Put(perDiscoverer, d, Discover(world, d).domains)
          /\ Errors' = Errors
      BY <2>1 DEF Answer
    <3>2. /\ DOMAIN perDiscoverer' = DOMAIN perDiscoverer \cup {d}
          /\ \A c \in DOMAIN perDiscoverer' :
               perDiscoverer'[c] = IF c = d THEN Discover(world, d).domains ELSE perDiscoverer[c]
      BY <3>1 DEF Put
    <3> QED
      BY <1>1, <3>1, <3>2 DEF AggregateInv, AnswersInv
  <2>2. CASE Fail(d)
    <3>1. Discover(world, d).Err /\ Errors' = Errors \cup {d} /\ perDiscoverer' = perDiscoverer
      BY <2>2 DEF Fail
    <3> QED
      BY <1>1, <3>1 DEF AggregateInv, AnswersInv
  <2> QED
    BY <2>1, <2>2
<1> QED
  BY <1>1, <1>2, <1>3 DEF AggregateInv

LEMMA WaitStep == AggregateInv /\ Wait => AggregateInv'
<1> SUFFICES ASSUME AggregateInv, Wait PROVE AggregateInv'
  OBVIOUS
<1>1. /\ pc = "wait" /\ running = {} /\ pc' = "merge" /\ queue' = ByPriority
      /\ UNCHANGED <<world, running, perDiscoverer, Errors, seen, list>>
  BY DEF Wait
<1>2. AnswersInv /\ AnswersInv' /\ seen' = <<>> /\ list' = <<>>
  BY <1>1, AnswersStay DEF AggregateInv
<1>3. queue' = Trusted(world) /\ world' = world /\ world \in Worlds
  BY <1>1, <1>2, ByPriorityIs DEF AnswersInv
<1>4. MergeInv'
  <2> DEFINE Q == Trusted(world)
  <2>1. Q \in Seq(Entry) /\ Len(Q) \in Nat /\ Trusted(world)' = Q
    BY <1>3, TrustedTyped
  <2> HIDE DEF Q
  <2>2. queue' = Q
    BY <1>3 DEF Q
  <2>3. Visited' = 0
    BY <2>1, <2>2 DEF Visited
  <2>4. KeysOf(Q, 0) = {} /\ DOMAIN seen' = {}
    BY <1>2 DEF KeysOf
  <2> QED
    BY <2>1, <2>2, <2>3, <2>4 DEF MergeInv
<1> QED
  BY <1>1, <1>2, <1>4 DEF AggregateInv

LEMMA MergeStep == AggregateInv /\ MergeEntry => AggregateInv'
<1> SUFFICES ASSUME AggregateInv, MergeEntry PROVE AggregateInv'
  OBVIOUS
<1> DEFINE Q == Trusted(world)
           n == Visited
           e == Head(queue)
           key == KeyOf(e)
<1>1. /\ pc = "merge" /\ queue # <<>>
      /\ seen' = Put(seen, key, Merged(key, e))
      /\ queue' = Tail(queue)
      /\ UNCHANGED <<world, running, perDiscoverer, Errors, pc, list>>
  BY DEF MergeEntry
<1>2. AnswersInv /\ AnswersInv' /\ MergeInv /\ world \in Worlds
  BY <1>1, AnswersStay DEF AggregateInv, AnswersInv
<1>3. Q \in Seq(Entry) /\ Len(Q) \in Nat /\ DOMAIN Q = 1 .. Len(Q) /\ Trusted(world)' = Q
  BY <1>1, <1>2, TrustedTyped
<1>4. /\ queue \in Seq(Entry) /\ Len(queue) \in Nat \ {0} /\ Len(queue) <= Len(Q)
      /\ \A j \in 1 .. Len(queue) : queue[j] = Q[n + j]
      /\ DOMAIN seen = KeysOf(Q, n)
      /\ \A k \in DOMAIN seen : seen[k] = Declared(Upto(Q, n), k)
  BY <1>1, <1>2 DEF MergeInv
<1>5. n = Len(Q) - Len(queue)
  BY DEF Visited
<1>6. Visited' = Len(Q) - Len(queue')
  BY <1>3 DEF Visited
<1> HIDE DEF Q, n
<1>7. /\ queue' \in Seq(Entry) /\ Len(queue') = Len(queue) - 1
      /\ \A j \in 1 .. Len(queue') : queue'[j] = queue[j + 1]
      /\ e = queue[1]
  BY <1>1, <1>4
<1>8. n \in Nat /\ n + 1 \in DOMAIN Q /\ Visited' = n + 1 /\ e = Q[n + 1] /\ e \in Entry
  BY <1>3, <1>4, <1>5, <1>6, <1>7
<1>9. \A j \in 1 .. Len(queue') : queue'[j] = Q[(n + 1) + j]
  <2> TAKE j \in 1 .. Len(queue')
  <2>1. j + 1 \in 1 .. Len(queue) /\ n + (j + 1) = (n + 1) + j
    BY <1>4, <1>7, <1>8
  <2> QED
    BY <1>4, <1>7, <2>1
<1> HIDE DEF e, key
<1>10. /\ KeysOf(Q, n + 1) = KeysOf(Q, n) \cup {key}
       /\ \A k \in KeysOf(Q, n) : k # key => Declared(Upto(Q, n + 1), k) = Declared(Upto(Q, n), k)
       /\ key \notin KeysOf(Q, n) => Declared(Upto(Q, n + 1), key) = WithPort(e)
       /\ key \in KeysOf(Q, n) =>
            Declared(Upto(Q, n + 1), key) =
              IF Declared(Upto(Q, n), key).ExpiryFallback = NoDate
              THEN [Declared(Upto(Q, n), key) EXCEPT !.ExpiryFallback = e.ExpiryFallback]
              ELSE Declared(Upto(Q, n), key)
  <2> DEFINE old(k) == Declared(Upto(Q, n), k)
             new(k) == Declared(Upto(Q, n + 1), k)
  <2>1. key = KeyOf(Q[n + 1]) /\ e = Q[n + 1]
    BY <1>8 DEF key
  <2>2. ASSUME NEW k
        PROVE  /\ KeysOf(Q, n + 1) = KeysOf(Q, n) \cup {KeyOf(Q[n + 1])}
               /\ k \in KeysOf(Q, n) /\ k # KeyOf(Q[n + 1]) => new(k) = old(k)
               /\ k \notin KeysOf(Q, n) /\ k = KeyOf(Q[n + 1]) => new(k) = WithPort(Q[n + 1])
               /\ k \in KeysOf(Q, n) /\ k = KeyOf(Q[n + 1]) =>
                    new(k) = IF old(k).ExpiryFallback = NoDate
                             THEN [old(k) EXCEPT !.ExpiryFallback = Q[n + 1].ExpiryFallback]
                             ELSE old(k)
    BY <1>3, <1>8, DeclaredStep
  <2> HIDE DEF old, new
  <2>3. /\ KeysOf(Q, n + 1) = KeysOf(Q, n) \cup {key}
        /\ \A k \in KeysOf(Q, n) : k # key => new(k) = old(k)
        /\ key \notin KeysOf(Q, n) => new(key) = WithPort(e)
        /\ key \in KeysOf(Q, n) =>
             new(key) = IF old(key).ExpiryFallback = NoDate
                        THEN [old(key) EXCEPT !.ExpiryFallback = e.ExpiryFallback]
                        ELSE old(key)
    BY <2>1, <2>2
  <2> QED
    BY <2>3 DEF old, new
<1>11. Merged(key, e) = Declared(Upto(Q, n + 1), key)
  <2>1. CASE key \notin DOMAIN seen
    BY <1>4, <1>10, <2>1 DEF Merged
  <2>2. CASE key \in DOMAIN seen
    <3>1. seen[key] = Declared(Upto(Q, n), key)
      BY <1>4, <2>2
    <3> QED
      BY <1>4, <1>10, <2>2, <3>1 DEF Merged
  <2> QED
    BY <2>1, <2>2
<1>12. /\ DOMAIN seen' = KeysOf(Q, n + 1)
       /\ \A k \in DOMAIN seen' : seen'[k] = Declared(Upto(Q, n + 1), k)
  <2>1. /\ DOMAIN seen' = DOMAIN seen \cup {key}
        /\ \A k \in DOMAIN seen' : seen'[k] = IF k = key THEN Merged(key, e) ELSE seen[k]
    BY <1>1 DEF Put
  <2> QED
    BY <1>4, <1>10, <1>11, <2>1
<1>13. MergeInv'
  <2>1. Trusted(world)' = Q /\ Visited' = n + 1
    BY <1>3, <1>8
  <2>2. Len(queue') <= Len(Q)
    BY <1>3, <1>4, <1>7
  <2> QED
    BY <1>7, <1>9, <1>12, <2>1, <2>2 DEF MergeInv
<1> QED
  BY <1>1, <1>2, <1>13 DEF AggregateInv

LEMMA AggregateStep == AggregateInv /\ [Next]_vars => AggregateInv'
<1> SUFFICES ASSUME AggregateInv, [Next]_vars PROVE AggregateInv'
  OBVIOUS
<1>1. ASSUME NEW d \in Discoverers, Answer(d) \/ Fail(d) PROVE AggregateInv'
  BY <1>1, GoroutineStep
<1>2. CASE Wait
  BY <1>2, WaitStep
<1>3. CASE MergeEntry
  BY <1>3, MergeStep
<1>4. CASE SortList
  <2>1. /\ pc = "merge" /\ queue = <<>> /\ pc' = "done"
        /\ list' = Sorted(Kept)
        /\ UNCHANGED <<world, running, perDiscoverer, Errors, queue, seen>>
    BY <1>4 DEF SortList, Kept
  <2>2. AnswersInv' /\ MergeInv' /\ Kept' = Kept
    BY <2>1, AnswersStay, MergeStays DEF AggregateInv
  <2>3. Sorted(Kept)' = Sorted(Kept)
    BY <2>2 DEF Sorted, Precedes
  <2> QED
    BY <2>1, <2>2, <2>3 DEF AggregateInv
<1>5. CASE UNCHANGED vars
  <2>1. UNCHANGED <<world, running, perDiscoverer, Errors, pc, queue, seen, list>>
    BY <1>5 DEF vars
  <2>2. (AnswersInv => AnswersInv') /\ (MergeInv => MergeInv') /\ Kept' = Kept
    BY <2>1, AnswersStay, MergeStays
  <2>3. Sorted(Kept)' = Sorted(Kept)
    BY <2>2 DEF Sorted, Precedes
  <2> QED
    BY <2>1, <2>2, <2>3 DEF AggregateInv
<1> QED
  BY <1>1, <1>2, <1>3, <1>4, <1>5 DEF Next, Terminated

LEMMA AggregateInvariant == Spec => []AggregateInv
BY AggregateStart, AggregateStep, PTL DEF Spec

\* What the loop keeps: typed entries, each under its key.
LEMMA KeptTyped ==
    ASSUME AggregateInv, NEW k \in DOMAIN seen
    PROVE  seen[k] \in Entry /\ seen[k].Port # 0 /\ KeyOf(seen[k]) = k
<1> DEFINE Q == Trusted(world)
<1>1. pc # "wait"
  <2>1. pc = "wait" => DOMAIN seen = {}
    BY DEF AggregateInv
  <2> QED
    BY <2>1
<1>2. MergeInv /\ world \in Worlds
  BY <1>1 DEF AggregateInv, AnswersInv
<1>3. Q \in Seq(Entry) /\ Len(Q) \in Nat
  BY <1>2, TrustedTyped
<1>4. /\ Len(queue) \in Nat /\ Len(queue) <= Len(Q)
      /\ k \in KeysOf(Q, Visited) /\ seen[k] = Declared(Upto(Q, Visited), k)
  BY <1>2 DEF MergeInv
<1>5. Visited \in Nat /\ Visited <= Len(Q)
  BY <1>3, <1>4 DEF Visited
<1> HIDE DEF Q
<1> QED
  BY <1>3, <1>4, <1>5, DeclaredEntry

\* The types: who has answered, failed or is running, and one entry per (name, port),
\* with its port.
THEOREM AggregateTypeCorrect == Spec => []TypeOK
<1>1. AggregateInv => TypeOK
  <2> SUFFICES ASSUME AggregateInv PROVE TypeOK
    OBVIOUS
  <2>1. \A k \in DOMAIN seen : seen[k] \in Entry /\ seen[k].Port # 0 /\ KeyOf(seen[k]) = k
    BY KeptTyped
  <2> QED
    BY <2>1 DEF TypeOK, AggregateInv, AnswersInv
<1> QED
  BY <1>1, AggregateInvariant, PTL

\* What the merge returns, in terms of what the sources tell.
LEMMA ResultIs ==
    ASSUME AggregateInv, pc = "done"
    PROVE  LET Q == Trusted(world)
               keys == {KeyOf(e) : e \in ToSet(Q)}
           IN  /\ Q \in Seq(Entry) /\ world \in Worlds
               /\ keys = KeysOf(Q, Len(Q))
               /\ Len(list) = Cardinality(keys)
               /\ \A j, k \in DOMAIN list : j < k => Precedes(list[j], list[k])
               /\ ToSet(list) = {Declared(Q, k) : k \in keys}
               /\ \A k \in keys : Declared(Q, k) \in Entry /\ KeyOf(Declared(Q, k)) = k
<1> DEFINE Q == Trusted(world)
           n == Len(Q)
           keys == {KeyOf(e) : e \in ToSet(Q)}
<1>1. MergeInv /\ world \in Worlds /\ queue = <<>> /\ list = Sorted(Kept)
  BY DEF AggregateInv, AnswersInv
<1>2. Q \in Seq(Entry) /\ n \in Nat /\ DOMAIN Q = 1 .. n
  BY <1>1, TrustedTyped
<1>3. Visited = n
  BY <1>1, <1>2 DEF Visited
<1>4. Upto(Q, n) = Q
  <2> HIDE DEF Q
  <2> QED
    BY <1>2 DEF Upto
<1>5. /\ DOMAIN seen = KeysOf(Q, n)
      /\ \A k \in DOMAIN seen : seen[k] = Declared(Q, k)
  BY <1>1, <1>3, <1>4 DEF MergeInv
<1> HIDE DEF Q, n
<1>6. keys = KeysOf(Q, n)
  BY <1>2 DEF KeysOf, ToSet
<1> HIDE DEF keys
<1>7. Kept = {Declared(Q, k) : k \in keys}
  BY <1>5, <1>6 DEF Kept
<1>8. \A k \in keys : Declared(Q, k) \in Entry /\ Declared(Q, k).Port # 0
                      /\ KeyOf(Declared(Q, k)) = k
  BY <1>5, <1>6, KeptTyped
<1>9. IsFiniteSet(keys)
  <2> DEFINE f == [p \in 1 .. n |-> KeyOf(Q[p])]
  <2>1. f \in Surjection(1 .. n, keys)
    BY <1>6 DEF KeysOf, Surjection
  <2>2. IsFiniteSet(1 .. n)
    BY <1>2, FS_Interval
  <2> HIDE DEF f
  <2> QED
    BY <2>1, <2>2, FS_Surjection
<1>10. IsFiniteSet(Kept) /\ Cardinality(Kept) = Cardinality(keys)
  <2> DEFINE f == [k \in keys |-> Declared(Q, k)]
  <2>1. f \in [keys -> Kept] /\ (\A e \in Kept : \E k \in keys : f[k] = e)
    BY <1>7
  <2>2. \A j, k \in keys : f[j] = f[k] => j = k
    BY <1>8
  <2> HIDE DEF f
  <2>3. f \in Bijection(keys, Kept)
    BY <2>1, <2>2 DEF Bijection, Injection, Surjection, IsInjective
  <2>4. ExistsBijection(keys, Kept)
    BY <2>3, Fun_ExistsBij
  <2> QED
    BY <1>9, <2>4, FS_Bijection
<1>11. Kept \subseteq Entry
  BY <1>7, <1>8
<1>12. OnePerPort(Kept)
  <2> SUFFICES ASSUME NEW e \in Kept, NEW f \in Kept, e.Name = f.Name, e.Port = f.Port
               PROVE  e = f
    BY DEF OnePerPort
  <2>1. PICK j \in keys : e = Declared(Q, j)
    BY <1>7
  <2>2. PICK k \in keys : f = Declared(Q, k)
    BY <1>7
  <2>3. WithPort(e) = e /\ WithPort(f) = f
    BY <1>8, <2>1, <2>2 DEF WithPort
  <2>4. KeyOf(e) = KeyOf(f)
    BY <2>3 DEF KeyOf
  <2> QED
    BY <1>8, <2>1, <2>2, <2>4
<1>13. /\ Len(list) = Cardinality(keys)
       /\ \A j, k \in DOMAIN list : j < k => Precedes(list[j], list[k])
       /\ ToSet(list) = Kept
  BY <1>1, <1>10, <1>11, <1>12, SortedIs
<1> QED
  BY <1>1, <1>2, <1>6, <1>7, <1>8, <1>13 DEF keys, n, Q

\* discovery.go: the result depends on what the sources tell and not on the order
\* in which they answer; the most trusted entry wins, and its date is the first one
\* that any entry of its key has.
THEOREM MergeIsDeclared == Spec => []AggregateAsDeclared
<1>1. AggregateInv => AggregateAsDeclared
  BY ResultIs DEF AggregateAsDeclared
<1> QED
  BY <1>1, AggregateInvariant, PTL

-----------------------------------------------------------------------------
(* Dates.                                                                    *)

LEMMA TrustedMembers ==
    ASSUME NEW w \in Worlds
    PROVE  /\ \A d \in Discoverers : Told(w, d) \in Seq(Entry)
           /\ ToSet(Trusted(w)) = ToSet(Told(w, "static")) \cup ToSet(Told(w, "namecom"))
                                  \cup ToSet(Told(w, "route53"))
<1>1. \A d \in Discoverers : Told(w, d) \in Seq(Entry)
  <2> TAKE d \in Discoverers
  <2>1. ~Discover(w, d).Err => Discover(w, d).domains \in Seq(Entry)
    BY ToldTyped
  <2>2. <<>> \in Seq(Entry)
    OBVIOUS
  <2> QED
    BY <2>1, <2>2 DEF Told
<1>2. /\ Told(w, "static") \in Seq(Entry) /\ Told(w, "namecom") \in Seq(Entry)
      /\ Told(w, "route53") \in Seq(Entry)
  BY <1>1 DEF Discoverers
<1>3. Told(w, "static") \o Told(w, "namecom") \in Seq(Entry)
      /\ ToSet(Told(w, "static") \o Told(w, "namecom"))
           = ToSet(Told(w, "static")) \cup ToSet(Told(w, "namecom"))
  BY <1>2, MembersOfTwo
<1>4. ToSet(Trusted(w)) = ToSet(Told(w, "static")) \cup ToSet(Told(w, "namecom"))
                          \cup ToSet(Told(w, "route53"))
  <2> DEFINE u == Told(w, "static") \o Told(w, "namecom")
  <2> HIDE DEF u
  <2>1. u \in Seq(Entry) /\ ToSet(u) = ToSet(Told(w, "static")) \cup ToSet(Told(w, "namecom"))
    BY <1>3 DEF u
  <2>2. ToSet(u \o Told(w, "route53")) = ToSet(u) \cup ToSet(Told(w, "route53"))
    BY <1>2, <2>1, MembersOfTwo
  <2>3. Trusted(w) = u \o Told(w, "route53")
    BY DEF Trusted, u
  <2> QED
    BY <2>1, <2>2, <2>3
<1> QED
  BY <1>1, <1>4

\* A date comes from the file: the APIs give none.
LEMMA DatesAreTold ==
    ASSUME NEW w \in Worlds, NEW e \in ToSet(Trusted(w)), e.ExpiryFallback # NoDate
    PROVE  \E s \in EntriesOf(w["static"]) :
             s.Name # <<>> /\ s.Name = e.Name /\ s.ExpiryFallback = e.ExpiryFallback
<1>4. ToSet(Trusted(w)) = ToSet(Told(w, "static")) \cup ToSet(Told(w, "namecom"))
                          \cup ToSet(Told(w, "route53"))
  BY TrustedMembers
<1>5. ASSUME NEW source, NEW names, NEW r \in ToSet(Found(source, names))
      PROVE  r.ExpiryFallback = NoDate
  BY <1>5 DEF Found, Domain, ToSet
<1>6. ToSet(<<>>) = {}
  BY DEF ToSet
<1>7. ASSUME NEW d \in {"namecom", "route53"}, NEW r \in ToSet(Told(w, d))
      PROVE  r.ExpiryFallback = NoDate
  <2>1. \E names : Discover(w, d).domains = Found(d, names)
    BY DEF Discover
  <2> QED
    BY <1>5, <1>6, <1>7, <2>1 DEF Told
<1>8. e \in ToSet(Told(w, "static"))
  BY <1>4, <1>7
<1>9. Told(w, "static") \in Seq(DatedFrom(EntriesOf(w["static"]), SourcesOf(w["static"])))
  <2>1. StaticList(w["static"]) \in Seq(DatedFrom(EntriesOf(w["static"]), SourcesOf(w["static"])))
    BY WorldsAssumption, StaticDates
  <2>2. Discover(w, "static").domains = StaticList(w["static"])
    BY DEF Discover
  <2>3. <<>> \in Seq(DatedFrom(EntriesOf(w["static"]), SourcesOf(w["static"])))
    OBVIOUS
  <2> QED
    BY <2>1, <2>2, <2>3 DEF Told
<1>10. e \in DatedFrom(EntriesOf(w["static"]), SourcesOf(w["static"]))
  BY <1>8, <1>9 DEF ToSet
<1> QED
  BY <1>10 DEF DatedFrom

\* discovery.go: a date that a source gives is kept, whichever entry of its key wins,
\* and every date of the result was written in the static file for that name.
THEOREM DatesReachTheList == Spec => []DatesAreKept
<1>1. AggregateInv => DatesAreKept
  <2> SUFFICES ASSUME AggregateInv, pc = "done"
               PROVE  /\ \A e \in ToSet(Trusted(world)) :
                           e.ExpiryFallback # NoDate =>
                             \E o \in ToSet(list) : KeyOf(o) = KeyOf(e) /\ o.ExpiryFallback # NoDate
                      /\ \A o \in ToSet(list) :
                           o.ExpiryFallback # NoDate =>
                             \E e \in EntriesOf(world["static"]) :
                               /\ e.Name # <<>> /\ Lower(e.Name) = Lower(o.Name)
                               /\ e.ExpiryFallback = o.ExpiryFallback
    BY DEF DatesAreKept, EntriesOf
  <2> DEFINE Q == Trusted(world)
             n == Len(Q)
             keys == {KeyOf(e) : e \in ToSet(Q)}
  <2>1. /\ Q \in Seq(Entry) /\ world \in Worlds
        /\ ToSet(list) = {Declared(Q, k) : k \in keys}
        /\ keys = KeysOf(Q, n)
        /\ \A k \in keys : KeyOf(Declared(Q, k)) = k
    BY ResultIs
  <2>2. n \in Nat /\ DOMAIN Q = 1 .. n /\ Upto(Q, n) = Q
    <3> HIDE DEF Q
    <3> QED
      BY <2>1 DEF Upto, n
  <2>3. ASSUME NEW k \in keys
        PROVE  LET D == DatedAt(Q, n, k)
               IN  /\ Declared(Q, k).ExpiryFallback
                        = IF D = {} THEN NoDate ELSE Q[Min(D)].ExpiryFallback
                   /\ D # {} => Min(D) \in D
    <3> HIDE DEF Q, n, keys
    <3> QED
      BY <2>1, <2>2, DeclaredUpto DEF Domain
  <2>4. ASSUME NEW e \in ToSet(Q), e.ExpiryFallback # NoDate
        PROVE  \E o \in ToSet(list) : KeyOf(o) = KeyOf(e) /\ o.ExpiryFallback # NoDate
    <3> DEFINE k == KeyOf(e)
               D == DatedAt(Q, n, k)
    <3>1. k \in keys /\ Declared(Q, k) \in ToSet(list) /\ KeyOf(Declared(Q, k)) = k
      BY <2>1
    <3> HIDE DEF Q, n, keys
    <3>2. D # {}
      BY <2>2, <2>4 DEF ToSet, DatedAt, At
    <3>3. Q[Min(D)].ExpiryFallback # NoDate
      <4>1. Min(D) \in D
        BY <2>3, <3>1, <3>2
      <4> QED
        BY <4>1 DEF DatedAt
    <3>4. Declared(Q, k).ExpiryFallback # NoDate
      <4> HIDE DEF D, k
      <4> QED
        BY <2>3, <3>1, <3>2, <3>3 DEF D
    <3> QED
      BY <3>1, <3>4
  <2>5. ASSUME NEW o \in ToSet(list), o.ExpiryFallback # NoDate
        PROVE  \E e \in EntriesOf(world["static"]) :
                  /\ e.Name # <<>> /\ Lower(e.Name) = Lower(o.Name)
                  /\ e.ExpiryFallback = o.ExpiryFallback
    <3>1. PICK k \in keys : o = Declared(Q, k)
      BY <2>1
    <3> DEFINE D == DatedAt(Q, n, k)
               e == Q[Min(D)]
    <3>2. KeyOf(o) = k
      BY <2>1, <3>1
    <3> HIDE DEF Q, n, keys
    <3>3. D # {} /\ Min(D) \in D /\ o.ExpiryFallback = e.ExpiryFallback
      BY <2>3, <2>5, <3>1
    <3>4. Min(D) \in DOMAIN Q /\ KeyOf(e) = k
      <4> HIDE DEF e
      <4> QED
        BY <2>2, <3>3 DEF DatedAt, At, e
    <3>5. e \in ToSet(Q)
      <4> HIDE DEF D
      <4> QED
        BY <3>4 DEF ToSet
    <3>6. Lower(e.Name) = Lower(o.Name)
      <4> HIDE DEF e
      <4> QED
        BY <3>2, <3>4 DEF KeyOf
    <3>7. \E s \in EntriesOf(world["static"]) :
             s.Name # <<>> /\ s.Name = e.Name /\ s.ExpiryFallback = e.ExpiryFallback
      <4> HIDE DEF e
      <4> QED
        BY <2>1, <2>5, <3>3, <3>5, DatesAreTold DEF Q
    <3> HIDE DEF e, D
    <3> QED
      BY <3>3, <3>6, <3>7
  <2> QED
    BY <2>4, <2>5
<1> QED
  BY <1>1, AggregateInvariant, PTL

-----------------------------------------------------------------------------
(* What is heard reaches the list, and what is excluded does not.            *)

\* Every key that a source tells is on the list.
LEMMA TrustedKeys ==
    ASSUME AggregateInv, pc = "done", NEW e \in ToSet(Trusted(world))
    PROVE  KeyOf(e) \in {KeyOf(o) : o \in ToSet(list)}
<1> DEFINE Q == Trusted(world)
           keys == {KeyOf(q) : q \in ToSet(Q)}
           k == KeyOf(e)
           o == Declared(Q, k)
<1>1. k \in keys /\ o \in ToSet(list) /\ KeyOf(o) = k
  BY ResultIs
<1> HIDE DEF o
<1> QED
  BY <1>1

\* The names that an API source found are on the list, with the default port.
LEMMA FoundKeys ==
    ASSUME AggregateInv, pc = "done", NEW d \in {"namecom", "route53"}, d \notin Errors,
           NEW names, Discover(world, d).domains = Found(d, names),
           NEW n \in ToSet(names), Lower(n) = n
    PROVE  <<n, defaultPort>> \in {KeyOf(e) : e \in ToSet(list)}
<1> DEFINE e == Domain(n, 0, d, NoDate)
<1>1. AnswersInv /\ running = {} /\ world \in Worlds
  BY DEF AggregateInv, AnswersInv
<1>2. d \in DOMAIN perDiscoverer /\ ~Discover(world, d).Err
  BY <1>1 DEF AnswersInv, Discoverers
<1>3. Told(world, d) = Found(d, names)
  BY <1>2 DEF Told
<1>4. e \in ToSet(Told(world, d))
  BY <1>3, FoundIs
<1>5. e \in ToSet(Trusted(world))
  BY <1>1, <1>4, TrustedMembers
<1>6. KeyOf(e) = <<n, defaultPort>>
  BY DEF KeyOf, WithPort, Domain
<1> HIDE DEF e
<1> QED
  BY <1>5, <1>6, TrustedKeys

\* namecom.go, route53.go: each request that fails costs what its own listing had to
\* tell and nothing else.
THEOREM FailuresStayLocal == Spec => []FailureStaysLocal
<1>1. AggregateInv => FailureStaysLocal
  <2> DEFINE keys == {KeyOf(e) : e \in ToSet(list)}
             Listed(hosts) == {<<h, defaultPort>> : h \in hosts} \subseteq keys
             wn == world["namecom"]
             wr == world["route53"]
             n == NameComDiscover(wn)
             found == Route53Names(wr)
             onAws == {h \in Monitored(HeardFromRoute53(wr)) : ~isExcluded(h)}
  <2> SUFFICES ASSUME AggregateInv, pc = "done"
               PROVE  /\ "namecom" \notin Errors =>
                            \A d \in DomainsHeard(wn) :
                               /\ Listed(Monitored({d}))
                               /\ Complete(wn.records[d]) =>
                                     Listed(Monitored(HostsHeard(wn.records[d], d)))
                      /\ "namecom" \in Errors /\ wn.credentials => ~Complete(wn.domains)
                      /\ "route53" \notin Errors => Listed(onAws)
                      /\ "route53" \in Errors /\ wr.config => onAws = {}
    BY DEF FailureStaysLocal
  <2>1. /\ world \in Worlds /\ running = {} /\ AnswersInv
        /\ NameComAnswer(wn) /\ wr \in Route53Answer
    BY WorldsAssumption DEF AggregateInv, AnswersInv
  <2>2. /\ Discover(world, "namecom").Err = n.Err
        /\ Discover(world, "namecom").domains = Found("namecom", n.names)
    BY DEF Discover
  <2>3. /\ Discover(world, "route53").Err = Route53Discover(wr).Err
        /\ Discover(world, "route53").domains = Found("route53", Route53Discover(wr).names)
    BY DEF Discover
  <2> HIDE DEF wn, wr, n, found, keys
  <2>4. ASSUME "namecom" \notin Errors, NEW d \in DomainsHeard(wn)
        PROVE  /\ Listed(Monitored({d}))
               /\ Complete(wn.records[d]) => Listed(Monitored(HostsHeard(wn.records[d], d)))
    <3>1. ~n.Err
      BY <2>1, <2>2, <2>4 DEF AnswersInv, Discoverers
    <3>2. /\ ToSet(n.names) = Monitored(KeptOfAccount(wn))
          /\ \A x \in ToSet(n.names) : Lower(x) = x
      BY <2>1, <3>1, NameComNamesAre DEF n
    <3>3. \A x \in ToSet(n.names) : <<x, defaultPort>> \in keys
      BY <2>2, <2>4, <3>2, FoundKeys DEF keys
    <3>4. KeptOfDomain(wn.records[d], d) \subseteq KeptOfAccount(wn)
      BY DEF KeptOfAccount
    <3>5. /\ d \in KeptOfAccount(wn)
          /\ Complete(wn.records[d]) => HostsHeard(wn.records[d], d) \subseteq KeptOfAccount(wn)
      BY <3>4 DEF KeptOfDomain
    <3>6. \A S : S \subseteq KeptOfAccount(wn) => Monitored(S) \subseteq ToSet(n.names)
      BY <3>2 DEF Monitored
    <3>7. {d} \subseteq KeptOfAccount(wn)
      BY <3>5
    <3> QED
      BY <3>3, <3>5, <3>6, <3>7
  <2>5. ASSUME "namecom" \in Errors, wn.credentials PROVE ~Complete(wn.domains)
    <3>1. n.Err
      BY <2>1, <2>2, <2>5 DEF AnswersInv
    <3>2. Listing(wn.domains).Err
      BY <2>5, <3>1 DEF n, NameComDiscover, Success
    <3>3. wn.domains \in Listings(HostName)
      BY <2>1 DEF NameComAnswer
    <3> QED
      BY <3>2, <3>3, ListingTells DEF Complete
  <2>6. /\ ToSet(found) = {normalizeHost(h) : h \in {g \in HeardFromRoute53(wr) :
                             normalizeHost(g) # <<>> /\ ~isExcluded(normalizeHost(g))}}
        /\ \A x \in ToSet(found) : Lower(x) = x
    BY <2>1, Route53NamesAre DEF found
  <2>7. onAws \subseteq ToSet(found)
    <3> SUFFICES ASSUME NEW x \in onAws PROVE x \in ToSet(found)
      OBVIOUS
    <3>1. PICK g \in HeardFromRoute53(wr) :
             x = normalizeHost(g) /\ isMonitorableHost(normalizeHost(g))
      BY DEF Monitored
    <3>2. normalizeHost(g) # <<>>
      BY <3>1 DEF isMonitorableHost
    <3>3. ~isExcluded(normalizeHost(g))
      BY <3>1
    <3> QED
      BY <2>6, <3>1, <3>2, <3>3
  <2>8. ASSUME "route53" \notin Errors PROVE Listed(onAws)
    <3>1. ~Route53Discover(wr).Err
      BY <2>1, <2>3, <2>8 DEF AnswersInv, Discoverers
    <3>2. Route53Discover(wr).names = found
      BY <3>1 DEF Route53Discover, Failure, Success, found
    <3>3. \A x \in ToSet(found) : <<x, defaultPort>> \in keys
      BY <2>3, <2>6, <2>8, <3>2, FoundKeys DEF keys
    <3> HIDE DEF onAws
    <3> QED
      BY <2>7, <3>3
  <2>9. ASSUME "route53" \in Errors, wr.config PROVE onAws = {}
    <3>1. Route53Discover(wr).Err
      BY <2>1, <2>3, <2>9 DEF AnswersInv
    <3>2. found = <<>>
      BY <2>9, <3>1 DEF Route53Discover, Failure, Success, found
    <3>3. ToSet(found) = {}
      BY <3>2 DEF ToSet
    <3> QED
      BY <2>7, <3>3
  <2> HIDE DEF Listed, onAws
  <2> QED
    BY <2>4, <2>5, <2>8, <2>9
<1> QED
  BY <1>1, AggregateInvariant, PTL

\* What a sequence ends with.
LEMMA SuffixIs ==
    ASSUME NEW S, NEW n \in Seq(S), NEW k \in DOMAIN n
    PROVE  LET o == SubSeq(n, k, Len(n))
           IN  /\ IsSuffix(o, n) /\ o \in Seq(S) /\ Len(o) \in Nat \ {0}
               /\ o[Len(o)] = n[Len(n)]
<1> DEFINE o == SubSeq(n, k, Len(n))
           ro == Reverse(o)
           rn == Reverse(n)
<1>1. /\ Len(n) \in Nat /\ DOMAIN n = 1 .. Len(n) /\ k \in 1 .. Len(n)
      /\ \A j \in 1 .. Len(n) : n[j] \in S
  OBVIOUS
<1> DEFINE m == Len(n) - k + 1
           c(j) == n[k + j - 1]
<1>2. o = [j \in 1 .. m |-> c(j)]
  BY <1>1
<1> HIDE DEF o
<1>3. m \in Nat \ {0} /\ \A j \in 1 .. m : c(j) \in S
  <2>1. \A j \in 1 .. m : k + j - 1 \in 1 .. Len(n)
    BY <1>1
  <2> QED
    BY <1>1, <2>1
<1> HIDE DEF m, c
<1>4. /\ o \in Seq(S) /\ Len(o) = Len(n) - k + 1 /\ Len(o) \in Nat \ {0}
      /\ \A j \in 1 .. Len(o) : o[j] = n[k + j - 1] /\ o[j] \in S
  <2>1. o \in Seq(S) /\ Len(o) = m /\ \A j \in 1 .. m : o[j] = c(j) /\ o[j] \in S
    BY <1>2, <1>3
  <2> QED
    BY <1>3, <2>1 DEF m, c
<1>5. o[Len(o)] = n[Len(n)]
  <2>1. Len(o) \in 1 .. Len(o) /\ k + Len(o) - 1 = Len(n)
    BY <1>1, <1>4
  <2> QED
    BY <1>4, <2>1
<1>6. /\ ro = [i \in 1 .. Len(o) |-> o[(Len(o) - i) + 1]]
      /\ rn = [i \in 1 .. Len(n) |-> n[(Len(n) - i) + 1]]
  BY DEF Reverse
<1> HIDE DEF ro, rn
<1>7. ASSUME NEW i \in 1 .. Len(o)
      PROVE  /\ (Len(o) - i) + 1 \in 1 .. Len(o) /\ i \in 1 .. Len(n)
             /\ k + ((Len(o) - i) + 1) - 1 = (Len(n) - i) + 1
  BY <1>1, <1>4
<1>8. \A i \in 1 .. Len(o) : ro[i] = rn[i] /\ ro[i] \in S
  BY <1>4, <1>6, <1>7
<1>9. ro \in Seq(S) /\ Len(ro) = Len(o)
  <2> DEFINE l == Len(o)
             d(i) == o[(Len(o) - i) + 1]
  <2>1. ro = [i \in 1 .. l |-> d(i)] /\ l \in Nat
    BY <1>4, <1>6
  <2> HIDE DEF d, l
  <2>2. \A i \in 1 .. l : d(i) \in S
    BY <1>8, <2>1 DEF l
  <2>3. ro \in Seq(S) /\ Len(ro) = l
    BY <2>1, <2>2
  <2> QED
    BY <2>3 DEF l
<1>10. rn \in Seq(S) /\ Len(rn) = Len(n)
  <2>1. \A i \in 1 .. Len(n) : (Len(n) - i) + 1 \in 1 .. Len(n)
    BY <1>1
  <2> QED
    BY <1>1, <1>6, <2>1
<1>11. Len(ro) <= Len(rn) /\ Len(ro) \in Nat
  BY <1>1, <1>4, <1>9, <1>10
<1>12. SubSeq(ro, 1, Len(ro)) = SubSeq(rn, 1, Len(ro))
  <2>1. \A i \in 1 .. Len(ro) : ro[i] = rn[i]
    BY <1>8, <1>9
  <2> QED
    BY <1>9, <1>10, <1>11, <2>1
<1> QED
  BY <1>4, <1>5, <1>11, <1>12 DEF IsSuffix, IsPrefix, ro, rn, o

\* A name whose last label is the only one that may be empty has none without its dot.
LEMMA NoEmptyLabel ==
    ASSUME NEW S, NEW h \in Seq(S), \A j \in 1 .. (Len(h) - 1) : h[j] # Root
    PROVE  \A j \in 1 .. Len(TrimDot(h)) : TrimDot(h)[j] # Root
<1> DEFINE t == TrimDot(h)
<1>1. Len(h) \in Nat
  OBVIOUS
<1>2. CASE h # <<>> /\ Last(h) = Root
  <2>1. t = SubSeq(h, 1, Len(h) - 1)
    BY <1>2 DEF TrimDot, Front
  <2>2. Len(h) # 0
    BY <1>2
  <2> HIDE DEF t
  <2>3. Len(t) = Len(h) - 1 /\ \A j \in 1 .. Len(t) : t[j] = h[j]
    <3> DEFINE m == Len(h) - 1
    <3>1. m \in Nat
      BY <1>1, <2>2
    <3>2. t = [j \in 1 .. m |-> h[1 + j - 1]]
      BY <1>1, <2>1
    <3>3. \A j \in 1 .. m : 1 + j - 1 = j /\ j \in DOMAIN h /\ h[j] \in S
      BY <1>1
    <3> HIDE DEF m
    <3>4. t = [j \in 1 .. m |-> h[j]]
      BY <3>1, <3>2, <3>3
    <3>5. t \in Seq(S) /\ Len(t) = m
      BY <3>1, <3>3, <3>4
    <3> QED
      BY <3>4, <3>5 DEF m
  <2> QED
    BY <2>3 DEF t
<1>3. CASE ~(h # <<>> /\ Last(h) = Root)
  <2>1. t = h
    BY <1>3 DEF TrimDot
  <2>2. ASSUME NEW j \in 1 .. Len(h) PROVE h[j] # Root
    <3>1. CASE j = Len(h)
      BY <1>3, <3>1 DEF Last
    <3>2. CASE j # Len(h)
      BY <1>1, <3>2
    <3> QED
      BY <3>1, <3>2
  <2> QED
    BY <2>1, <2>2
<1> QED
  BY <1>2, <1>3

\* An excluded zone that the name ends with makes the name excluded.
LEMMA SuffixIsExcluded ==
    ASSUME NEW n \in HostName, Lower(n) = n, NEW ex \in ExcludeZones, NEW k \in DOMAIN n,
           SubSeq(n, k, Len(n)) = Lower(TrimDot(ex)), Lower(TrimDot(ex)) # <<>>
    PROVE  isExcluded(n)
<1> DEFINE t == TrimDot(ex)
           o == normalizeHost(ex)
<1>1. ex \in HostName /\ \A j \in 1 .. (Len(ex) - 1) : ex[j] # Root
  BY ZonesAssumption
<1>2. /\ t \in HostName /\ Len(o) = Len(t)
      /\ \A j \in 1 .. Len(t) : o[j] = LowerLabel[t[j]]
  BY <1>1, Normalized
<1>3. \A j \in 1 .. Len(t) : t[j] # Root
  BY <1>1, NoEmptyLabel DEF HostName
<1>4. o = SubSeq(n, k, Len(n)) /\ o # <<>>
  BY DEF normalizeHost
<1>5. n \in Seq(Label) /\ n # <<>>
  BY DEF HostName
<1>6. IsSuffix(o, n) /\ Len(o) \in Nat \ {0} /\ o[Len(o)] = n[Len(n)]
  <2> HIDE DEF o
  <2> QED
    BY <1>4, <1>5, SuffixIs
<1> HIDE DEF t, o
<1>7. n[Len(n)] # Root
  <2>1. Len(o) \in 1 .. Len(t)
    BY <1>2, <1>6
  <2>2. t[Len(o)] \in Label
    BY <1>2, <2>1 DEF HostName
  <2> QED
    BY <1>2, <1>3, <1>6, <2>1, <2>2, LowerAssumption
<1>8. normalizeHost(n) = n
  <2>1. TrimDot(n) = n
    BY <1>7 DEF TrimDot, Last
  <2> QED
    BY <2>1 DEF normalizeHost
<1> QED
  BY <1>4, <1>6, <1>8 DEF isExcluded, o

\* The label "route53" is that of the API only if the operator gives it to no group.
LEMMA Route53Labels ==
    ASSUME NEW w \in Worlds, NEW e \in ToSet(Trusted(w)), e.Source = "route53",
           \A g \in ToSet(w["static"].Groups) : g.Source # "route53"
    PROVE  e.Name \in ToSet(Route53Names(w["route53"]))
<1> DEFINE f == w["static"]
           wr == w["route53"]
<1>1. e \in ToSet(Told(w, "static")) \cup ToSet(Told(w, "namecom")) \cup ToSet(Told(w, "route53"))
  BY TrustedMembers
<1>2. ToSet(<<>>) = {}
  BY DEF ToSet
<1>3. e \notin ToSet(Told(w, "static"))
  <2> SUFFICES ASSUME e \in ToSet(Told(w, "static")) PROVE FALSE
    OBVIOUS
  <2>1. e \in ToSet(StaticList(f))
    BY <1>2 DEF Told, Discover
  <2>2. f \in StaticFile
    BY WorldsAssumption
  <2>3. \A g \in ToSet(f.Groups) : GroupSource(g) # "route53"
    BY DEF GroupSource
  <2>4. "route53" \notin SourcesOf(f)
    BY <2>3 DEF SourcesOf
  <2> HIDE DEF f
  <2>5. e \in DatedFrom(EntriesOf(f), SourcesOf(f))
    BY <2>1, <2>2, StaticDates, ToSetIs
  <2> QED
    BY <2>4, <2>5 DEF DatedFrom
<1>4. e \notin ToSet(Told(w, "namecom"))
  <2> SUFFICES ASSUME e \in ToSet(Told(w, "namecom")) PROVE FALSE
    OBVIOUS
  <2>1. \E names : e \in ToSet(Found("namecom", names))
    BY <1>2 DEF Told, Discover
  <2>2. e.Source = "namecom"
    BY <2>1, FoundIs DEF Domain
  <2> QED
    BY <2>2
<1>5. e \in ToSet(Found("route53", Route53Discover(wr).names)) /\ ~Route53Discover(wr).Err
  BY <1>1, <1>2, <1>3, <1>4 DEF Told, Discover
<1> HIDE DEF wr
<1>6. Route53Discover(wr).names = Route53Names(wr)
  BY <1>5 DEF Route53Discover, Failure, Success
<1>7. \E n \in ToSet(Route53Names(wr)) : e = Domain(n, 0, "route53", NoDate)
  BY <1>5, <1>6, FoundIs
<1> QED
  BY <1>7 DEF Domain, wr

\* route53.go: nothing of an excluded zone gets into the list from AWS, whether it was
\* found in the zone, in a parent or among the registered domains, however written.
THEOREM ExcludedZonesStayOut ==
    ASSUME \A w \in Worlds : \A g \in ToSet(w["static"].Groups) : g.Source # "route53"
    PROVE  Spec => []ExcludedStaysOut
<1>1. AggregateInv => ExcludedStaysOut
  <2> SUFFICES ASSUME AggregateInv, NEW e \in ToSet(list), e.Source = "route53",
                      NEW k \in DOMAIN e.Name, NEW ex \in ExcludeZones,
                      SubSeq(e.Name, k, Len(e.Name)) = Lower(TrimDot(ex)),
                      Lower(TrimDot(ex)) # <<>>
               PROVE  FALSE
    BY DEF ExcludedStaysOut
  <2> DEFINE Q == Trusted(world)
             wr == world["route53"]
  <2>1. pc = "done"
    <3>1. ToSet(<<>>) = {}
      BY DEF ToSet
    <3> QED
      BY <3>1 DEF AggregateInv
  <2>2. \E q \in ToSet(Q) : q.Name = e.Name /\ q.Source = e.Source
    <3>1. /\ Q \in Seq(Entry) /\ KeysOf(Q, Len(Q)) = {KeyOf(q) : q \in ToSet(Q)}
          /\ ToSet(list) = {Declared(Q, key) : key \in KeysOf(Q, Len(Q))}
      BY <2>1, ResultIs
    <3>2. PICK key \in KeysOf(Q, Len(Q)) : e = Declared(Q, key)
      BY <3>1
    <3> HIDE DEF Q
    <3>3. Len(Q) \in Nat /\ DOMAIN Q = 1 .. Len(Q) /\ Upto(Q, Len(Q)) = Q
      BY <3>1 DEF Upto
    <3> DEFINE m == Min(At(Q, Len(Q), key))
    <3>4. e.Name = Q[m].Name /\ e.Source = Q[m].Source /\ m \in At(Q, Len(Q), key)
      BY <3>1, <3>2, <3>3, DeclaredUpto DEF Domain
    <3> HIDE DEF m
    <3>5. Q[m] \in ToSet(Q)
      BY <3>3, <3>4 DEF At, ToSet
    <3> QED
      BY <3>4, <3>5
  <2>3. world \in Worlds /\ wr \in Route53Answer
    BY WorldsAssumption DEF AggregateInv, AnswersInv
  <2>4. e.Name \in ToSet(Route53Names(wr))
    BY <2>2, <2>3, Route53Labels
  <2> HIDE DEF wr
  <2>5. e.Name \in HostName /\ Lower(e.Name) = e.Name /\ ~isExcluded(e.Name)
    BY <2>3, <2>4, Route53NamesAre, ToSetIs
  <2> QED
    BY <2>5, SuffixIsExcluded
<1> QED
  BY <1>1, AggregateInvariant, PTL
=============================================================================
