----------------------------- MODULE DataLemmas -----------------------------
(* Facts about the pure operators of the model: the positions of a list, the  *)
(* groups of Enrichment, the rules of AlertRules.                            *)
EXTENDS Enrichment, AlertRules, FiniteSetTheorems, FunctionTheorems, TLAPS

(* A set of natural numbers that is not empty has a least element. *)
LEMMA NatLeast ==
    ASSUME NEW S, S \subseteq Nat, S # {}
    PROVE  \E x \in S : \A y \in S : x <= y
<1>1. \E x \in S : \A y \in S : ~ (<<y, x>> \in OpToRel(<, Nat))
  <2> DEFINE R == OpToRel(<, Nat)
  <2>1. IsWellFoundedOn(R, Nat)
    BY NatLessThanWellFounded
  <2> HIDE DEF R
  <2>2. \E x \in S : \A y \in S : ~ (<<y, x>> \in R)
    BY <2>1, WFMin
  <2> QED
    BY <2>2 DEF R
<1>2. PICK x \in S : \A y \in S : ~ (<<y, x>> \in OpToRel(<, Nat))
  BY <1>1
<1>3. \A y \in S : ~ (y < x)
  BY <1>2 DEF OpToRel
<1> QED
  BY <1>3

(* enrich.go: the first member of a group is a member. *)
LEMMA FirstIn ==
    ASSUME NEW S, S \subseteq Nat, S # {}
    PROVE  First(S) \in S
BY NatLeast DEF First

(* A nonempty set of positions of a list has a greatest one. *)
LEMMA PositionGreatest ==
    ASSUME NEW n \in Nat, NEW S, S \subseteq 1 .. n, S # {}
    PROVE  \E m \in S : \A y \in S : y <= m
<1> DEFINE T == {n - x : x \in S}
<1>1. T \subseteq Nat /\ T # {}
  <2>1. \A x \in S : n - x \in Nat
    OBVIOUS
  <2> QED
    BY <2>1, Zenon
<1>2. PICK t \in T : \A u \in T : t <= u
  BY <1>1, NatLeast
<1>3. PICK m \in S : t = n - m
  OBVIOUS
<1>4. \A y \in S : y <= m
  BY <1>2, <1>3
<1> QED
  BY <1>4

(* enrich.go: the last member of a group is a member, the list being finite. *)
LEMMA LastIn ==
    ASSUME NEW n \in Nat, NEW S, S \subseteq 1 .. n, S # {}
    PROVE  Last(S) \in S
BY PositionGreatest DEF Last

(* enrich.go: the first member of a group stays the first when others join. *)
LEMMA FirstAdd ==
    ASSUME NEW n \in Nat, NEW S, S \subseteq 1 .. n, S # {}
    PROVE  First(S \cup {n + 1}) = First(S)
<1>0. S \subseteq Nat
  OBVIOUS
<1>1. PICK f \in S : \A q \in S : f <= q
  BY <1>0, NatLeast
<1>2. \A q \in S \cup {n + 1} : f <= q
  BY <1>1
<1>3. \A p \in S \cup {n + 1} : (\A q \in S : p <= q) => p = f
  BY <1>1
<1>4. First(S) = f
  BY <1>1, <1>3 DEF First
<1>5. First(S \cup {n + 1}) = f
  BY <1>2, <1>3 DEF First
<1> QED
  BY <1>4, <1>5

(* enrich.go: the last of the entries so far is the one that comes next. *)
LEMMA LastAdd ==
    ASSUME NEW n \in Nat, NEW S, S \subseteq 1 .. n
    PROVE  Last(S \cup {n + 1}) = n + 1
<1>1. \A q \in S \cup {n + 1} : q <= n + 1
  OBVIOUS
<1>2. \A p \in S \cup {n + 1} : (\A q \in S \cup {n + 1} : q <= p) => p = n + 1
  OBVIOUS
<1> QED
  BY <1>1, <1>2 DEF Last

(* The first and the last of one. *)
LEMMA FirstOfOne == ASSUME NEW n \in Nat PROVE First({n}) = n
BY DEF First

(* A finite set has a least element in any total preorder, given as a set of pairs. *)
LEMMA FiniteLeast ==
    ASSUME NEW S, IsFiniteSet(S), S # {}, NEW R,
           \A x, y \in S : <<x, y>> \in R \/ <<y, x>> \in R,
           \A x, y, z \in S : <<x, y>> \in R /\ <<y, z>> \in R => <<x, z>> \in R
    PROVE  \E x \in S : \A y \in S : <<x, y>> \in R
<1> DEFINE HasLeast(T) == \E x \in T : \A y \in T : <<x, y>> \in R
           Bad == {n \in Nat : \E T \in SUBSET S : Cardinality(T) = n /\ T # {} /\ ~HasLeast(T)}
<1>1. SUFFICES ASSUME ~HasLeast(S) PROVE FALSE
  OBVIOUS
<1>2. \A T \in SUBSET S : IsFiniteSet(T) /\ Cardinality(T) \in Nat
  BY FS_Subset, FS_CardinalityType
<1> HIDE DEF HasLeast
<1>3. Cardinality(S) \in Bad
  BY <1>1, <1>2
<1>4. Bad \subseteq Nat
  OBVIOUS
<1>5. PICK n \in Bad : \A m \in Bad : n <= m
  BY <1>3, <1>4, NatLeast
<1>6. PICK T \in SUBSET S : Cardinality(T) = n /\ T # {} /\ ~HasLeast(T)
  BY <1>5
<1>7. PICK x \in T : TRUE
  BY <1>6
<1> DEFINE U == T \ {x}
<1>8. IsFiniteSet(T) /\ n \in Nat /\ Cardinality(U) = n - 1 /\ Cardinality(U) \in Nat
  BY <1>2, <1>4, <1>6, <1>7, FS_RemoveElement
<1>9. U = {} \/ HasLeast(U)
  <2>1. Cardinality(U) \notin Bad
    BY <1>5, <1>8
  <2> QED
    BY <1>6, <1>8, <2>1
<1>10. CASE U = {}
  <2>1. \A y \in T : y = x
    BY <1>10
  <2> QED
    BY <1>6, <1>7, <2>1 DEF HasLeast
<1>11. CASE HasLeast(U)
  <2>1. PICK u \in U : \A y \in U : <<u, y>> \in R
    BY <1>11 DEF HasLeast
  <2>2. u \in S /\ x \in S /\ U \subseteq S /\ \A y \in T : y = x \/ y \in U
    BY <1>6, <1>7
  <2>3. CASE <<u, x>> \in R
    <3>1. \A y \in T : <<u, y>> \in R
      BY <2>1, <2>2, <2>3
    <3> QED
      BY <1>6, <2>1, <3>1 DEF HasLeast
  <2>4. CASE ~(<<u, x>> \in R)
    <3>1. <<x, u>> \in R /\ <<x, x>> \in R
      BY <2>2, <2>4
    <3>2. \A y \in T : <<x, y>> \in R
      BY <2>1, <2>2, <3>1
    <3> QED
      BY <1>6, <1>7, <3>2 DEF HasLeast
  <2> QED
    BY <2>3, <2>4
<1> QED
  BY <1>9, <1>10, <1>11

(* Two disjoint finite sets count together what each counts. *)
LEMMA CountOfTwo ==
    ASSUME NEW S, NEW T, IsFiniteSet(S), IsFiniteSet(T), S \cap T = {}
    PROVE  Cardinality(S \cup T) = Cardinality(S) + Cardinality(T)
<1>1. Cardinality(S \cap T) = 0
  BY FS_EmptySet
<1>2. Cardinality(S) \in Nat /\ Cardinality(T) \in Nat
  BY FS_CardinalityType
<1>3. Cardinality(S \cup T) = Cardinality(S) + Cardinality(T) - Cardinality(S \cap T)
  BY FS_Union
<1> QED
  BY <1>1, <1>2, <1>3

(* The part s of C, and the pairs of a part s and one of the numbers up to c[s]. *)
PartOf(C, part, s) == {p \in C : part[p] = s}
Numbered(S, c) == UNION {{s} \X (1 .. c[s]) : s \in S}

(* The parts of a finite set count together what it counts: part gives the part *)
(* of each element and c the size of each part.                              *)
LEMMA CountByParts ==
    ASSUME NEW C, IsFiniteSet(C), NEW S, NEW part \in [C -> S], NEW c,
           \A s \in S : c[s] = Cardinality(PartOf(C, part, s))
    PROVE  Cardinality(Numbered(S, c)) = Cardinality(C)
<1> USE DEF PartOf, Numbered
<1> DEFINE Fiber(s) == PartOf(C, part, s)
           U == Numbered(S, c)
           H == [s \in S |-> CHOOSE b \in Bijection(1 .. c[s], Fiber(s)) : TRUE]
           F == [u \in U |-> H[u[1]][u[2]]]
<1>1. ASSUME NEW s \in S PROVE H[s] \in Bijection(1 .. c[s], Fiber(s))
  <2>1. IsFiniteSet(Fiber(s)) /\ c[s] = Cardinality(Fiber(s))
    BY FS_Subset
  <2> HIDE DEF Fiber
  <2>2. Bijection(1 .. c[s], Fiber(s)) # {}
    BY <2>1, FS_CardinalityType, Fun_ExistsBij
  <2> QED
    BY <2>2
<1> HIDE DEF H
<1>2. ASSUME NEW s \in S
      PROVE  /\ \A k \in 1 .. c[s] : H[s][k] \in C /\ part[H[s][k]] = s
             /\ \A j, k \in 1 .. c[s] : H[s][j] = H[s][k] => j = k
             /\ \A p \in C : part[p] = s => \E k \in 1 .. c[s] : H[s][k] = p
  <2>1. H[s] \in [1 .. c[s] -> Fiber(s)]
    BY <1>1 DEF Bijection, Injection, IsInjective
  <2>2. \A j, k \in 1 .. c[s] : H[s][j] = H[s][k] => j = k
    BY <1>1 DEF Bijection, Injection, IsInjective
  <2>3. \A p \in Fiber(s) : \E k \in 1 .. c[s] : H[s][k] = p
    BY <1>1 DEF Bijection, Surjection
  <2> QED
    BY <2>1, <2>2, <2>3
<1>3. \A u : u \in U <=> \E s \in S : \E k \in 1 .. c[s] : u = <<s, k>>
  OBVIOUS
<1> HIDE DEF U
<1>4. \A u \in U : u[1] \in S /\ u[2] \in 1 .. c[u[1]] /\ u = <<u[1], u[2]>>
  BY <1>3
<1>5. F \in [U -> C] /\ \A u \in U : F[u] = H[u[1]][u[2]] /\ part[F[u]] = u[1]
  BY <1>2, <1>4
<1> HIDE DEF F
<1>6. ASSUME NEW u \in U, NEW w \in U, F[u] = F[w] PROVE u = w
  <2>1. u[1] = w[1]
    BY <1>5, <1>6
  <2>2. u[2] = w[2]
    BY <1>2, <1>4, <1>5, <1>6, <2>1
  <2> QED
    BY <1>4, <2>1, <2>2
<1>7. ASSUME NEW p \in C PROVE \E u \in U : F[u] = p
  <2>1. part[p] \in S
    OBVIOUS
  <2>2. PICK k \in 1 .. c[part[p]] : H[part[p]][k] = p
    BY <1>2, <2>1
  <2>3. <<part[p], k>> \in U
    BY <1>3, <2>1
  <2>4. F[<<part[p], k>>] = p
    BY <1>5, <2>2, <2>3
  <2> QED
    BY <2>3, <2>4
<1>8. F \in Bijection(U, C)
  BY <1>5, <1>6, <1>7 DEF Bijection, Injection, Surjection, IsInjective
<1>9. ExistsBijection(C, U)
  BY <1>8, Fun_ExistsBij, Fun_ExistsBijSymmetric
<1> QED
  BY <1>9, FS_Bijection DEF U

-----------------------------------------------------------------------------
(* engine.go: the days between two dates are an integer. *)
LEMMA DaysInt ==
    ASSUME NEW s \in Time, NEW t \in Time
    PROVE  daysBetween(s, t) \in Int
<1>1. \A x \in Time : LocalDay(x) \in Int
  <2> TAKE x \in Time
  <2>1. x.at \in Nat /\ x.off \in Int
    BY OffsetsAssumption DEF Time
  <2>2. \A y \in Int : y \div TicksPerDay \in Int
    BY TicksPerDayAssumption
  <2> QED
    BY <2>1, <2>2 DEF LocalDay
<1> QED
  BY <1>1 DEF daysBetween

(* The date that an alert of a kind about position pos is about, and the whole *)
(* alert, given its threshold.                                               *)
DateAt(certs, infos, kind, pos) ==
    IF kind \in CertKinds THEN certs[pos].NotAfter ELSE infos[pos].ExpiresAt

AlertAt(now, certs, infos, kind, threshold, pos) ==
    MkAlert(IF kind \in CertKinds THEN certs[pos].Domain ELSE infos[pos].Domain,
            kind, threshold, DateAt(certs, infos, kind, pos),
            IF kind = "domain_mismatch"
            THEN daysBetween(infos[pos].ExpiresAt, infos[pos].FallbackExpected)
            ELSE daysBetween(now, DateAt(certs, infos, kind, pos)),
            pos)

(* evalOne: nothing about a zero date; else it has expired, or it has thresholds. *)
LEMMA EvalOneCases ==
    ASSUME NEW now, NEW pos, NEW domain, NEW t, NEW expiring, NEW expired,
           NEW a \in evalOne(now, pos, domain, t, expiring, expired)
    PROVE  /\ ~IsZero(t)
           /\ \/ /\ Before(t, now)
                 /\ a = MkAlert(domain, expired, 0, t, daysBetween(now, t), pos)
              \/ /\ ~Before(t, now)
                 /\ \E u \in Thresholds :
                      a = MkAlert(domain, expiring, u, t, daysBetween(now, t), pos)
BY DEF evalOne

(* engine.go: an alert is its kind, its threshold and its record; none is about *)
(* a failed probe or a zero date, and it says "expired" when the date is past. *)
LEMMA EvaluateShape ==
    ASSUME NEW now, NEW certs, NEW infos, NEW a \in Evaluate(now, certs, infos)
    PROVE  /\ a.kind \in Kinds
           /\ a.threshold \in Thresholds \cup {0}
           /\ a.kind \in CertKinds => a.pos \in DOMAIN certs /\ ~certs[a.pos].Err
           /\ a.kind \in DomainKinds => a.pos \in Emitting(infos)
           /\ a = AlertAt(now, certs, infos, a.kind, a.threshold, a.pos)
           /\ a.kind # "domain_mismatch" =>
                /\ ~IsZero(DateAt(certs, infos, a.kind, a.pos))
                /\ a.kind \in {"cert_expired", "domain_expired"}
                     <=> Before(DateAt(certs, infos, a.kind, a.pos), now)
<1>1. CASE a \in CertAlerts(now, certs)
  <2>1. PICK p \in DOMAIN certs :
          /\ ~certs[p].Err
          /\ a \in evalOne(now, p, certs[p].Domain, certs[p].NotAfter,
                           "cert_expiring", "cert_expired")
    BY <1>1 DEF CertAlerts
  <2> DEFINE t == certs[p].NotAfter
  <2>2. /\ ~IsZero(t)
        /\ \/ /\ Before(t, now)
              /\ a = MkAlert(certs[p].Domain, "cert_expired", 0, t, daysBetween(now, t), p)
           \/ /\ ~Before(t, now)
              /\ \E u \in Thresholds :
                   a = MkAlert(certs[p].Domain, "cert_expiring", u, t, daysBetween(now, t), p)
    BY <2>1, EvalOneCases
  <2>3. PICK kind \in CertKinds, u \in Thresholds \cup {0} :
          /\ a = MkAlert(certs[p].Domain, kind, u, t, daysBetween(now, t), p)
          /\ kind = "cert_expired" <=> Before(t, now)
    BY <2>2 DEF CertKinds
  <2>4. a.kind = kind /\ a.threshold = u /\ a.pos = p
    BY <2>3 DEF MkAlert
  <2>5. kind \in Kinds /\ kind \notin DomainKinds
        /\ kind # "domain_mismatch" /\ kind # "domain_expired"
    BY DEF CertKinds, DomainKinds, Kinds
  <2>6. DateAt(certs, infos, kind, p) = t
    BY DEF DateAt
  <2> HIDE DEF t
  <2> QED
    BY <2>1, <2>2, <2>3, <2>4, <2>5, <2>6 DEF AlertAt
<1>2. CASE a \in ExpiryAlerts(now, infos)
  <2>1. PICK p \in Emitting(infos) :
          a \in evalOne(now, p, infos[p].Domain, infos[p].ExpiresAt,
                        "domain_expiring", "domain_expired")
    BY <1>2 DEF ExpiryAlerts
  <2> DEFINE t == infos[p].ExpiresAt
  <2>2. /\ ~IsZero(t)
        /\ \/ /\ Before(t, now)
              /\ a = MkAlert(infos[p].Domain, "domain_expired", 0, t, daysBetween(now, t), p)
           \/ /\ ~Before(t, now)
              /\ \E u \in Thresholds :
                   a = MkAlert(infos[p].Domain, "domain_expiring", u, t, daysBetween(now, t), p)
    BY <2>1, EvalOneCases
  <2>3. PICK kind \in {"domain_expiring", "domain_expired"}, u \in Thresholds \cup {0} :
          /\ a = MkAlert(infos[p].Domain, kind, u, t, daysBetween(now, t), p)
          /\ kind = "domain_expired" <=> Before(t, now)
    BY <2>2
  <2>4. a.kind = kind /\ a.threshold = u /\ a.pos = p
    BY <2>3 DEF MkAlert
  <2>5. kind \in Kinds /\ kind \notin CertKinds
        /\ kind # "domain_mismatch" /\ kind # "cert_expired"
    BY DEF CertKinds, DomainKinds, Kinds
  <2>6. DateAt(certs, infos, kind, p) = t
    BY <2>5 DEF DateAt
  <2> HIDE DEF t
  <2> QED
    BY <2>1, <2>2, <2>3, <2>4, <2>5, <2>6 DEF AlertAt
<1>3. CASE a \in MismatchAlerts(infos)
  <2>1. PICK p \in Emitting(infos) :
          a = MkAlert(infos[p].Domain, "domain_mismatch", 0, infos[p].ExpiresAt,
                      daysBetween(infos[p].ExpiresAt, infos[p].FallbackExpected), p)
    BY <1>3 DEF MismatchAlerts
  <2>2. a.kind = "domain_mismatch" /\ a.threshold = 0 /\ a.pos = p
    BY <2>1 DEF MkAlert
  <2>3. "domain_mismatch" \in Kinds /\ "domain_mismatch" \notin CertKinds
    BY DEF CertKinds, DomainKinds, Kinds
  <2>4. DateAt(certs, infos, "domain_mismatch", p) = infos[p].ExpiresAt
    BY <2>3 DEF DateAt
  <2> QED
    BY <2>1, <2>2, <2>3, <2>4 DEF AlertAt
<1> QED
  BY <1>1, <1>2, <1>3 DEF Evaluate

(* An alert about a registration is emitted by its representative, and its kind *)
(* and threshold say the rest.                                                *)
LEMMA RegistrationAlert ==
    ASSUME NEW now, NEW certs, NEW infos,
           NEW a \in Evaluate(now, certs, infos), a.kind \in DomainKinds
    PROVE  /\ a.pos \in Emitting(infos)
           /\ a.domain = infos[a.pos].Domain
           /\ LET info == infos[a.pos]
              IN  a = MkAlert(info.Domain, a.kind, a.threshold, info.ExpiresAt,
                              IF a.kind = "domain_mismatch"
                              THEN daysBetween(info.ExpiresAt, info.FallbackExpected)
                              ELSE daysBetween(now, info.ExpiresAt),
                              a.pos)
<1>1. a \notin CertAlerts(now, certs)
  BY DEF CertAlerts, evalOne, MkAlert, DomainKinds
<1>2. CASE a \in ExpiryAlerts(now, infos)
  <2>1. PICK p \in Emitting(infos) :
          a \in evalOne(now, p, infos[p].Domain, infos[p].ExpiresAt,
                        "domain_expiring", "domain_expired")
    BY <1>2 DEF ExpiryAlerts
  <2>2. PICK kind \in {"domain_expiring", "domain_expired"}, t \in Thresholds \cup {0} :
          a = MkAlert(infos[p].Domain, kind, t, infos[p].ExpiresAt,
                      daysBetween(now, infos[p].ExpiresAt), p)
    BY <2>1 DEF evalOne
  <2>3. a.kind = kind /\ a.threshold = t /\ a.pos = p /\ a.domain = infos[p].Domain
    BY <2>2 DEF MkAlert
  <2>4. a.kind # "domain_mismatch"
    BY <2>3
  <2> QED
    BY <2>2, <2>3, <2>4
<1>3. CASE a \in MismatchAlerts(infos)
  <2>1. PICK p \in Emitting(infos) :
          a = MkAlert(infos[p].Domain, "domain_mismatch", 0, infos[p].ExpiresAt,
                      daysBetween(infos[p].ExpiresAt, infos[p].FallbackExpected), p)
    BY <1>3 DEF MismatchAlerts
  <2>2. /\ a.kind = "domain_mismatch" /\ a.threshold = 0
        /\ a.pos = p /\ a.domain = infos[p].Domain
    BY <2>1 DEF MkAlert
  <2> QED
    BY <2>1, <2>2
<1> QED
  BY <1>1, <1>2, <1>3 DEF Evaluate

(* Of the entries of one registration, one emits.                            *)
LEMMA EmittingRepresents ==
    ASSUME NEW found, NEW lookups, NEW p \in Emitting(Enrich(found, lookups))
    PROVE  /\ p = Representative(found, Apex(found, p))
           /\ Enrich(found, lookups)[p].Domain = found[p].Name
<1>1. p \in DOMAIN found /\ Enrich(found, lookups)[p].IsApex
  BY DEF Emitting, Enrich
<1>2. Enrich(found, lookups)[p] =
        MemberInfo(found, p, Representative(found, Apex(found, p)),
                   GroupFallback(found, Apex(found, p)), lookups[Apex(found, p)])
  BY <1>1 DEF Enrich
<1>3. \A rep, fallback, answer :
        /\ MemberInfo(found, p, rep, fallback, answer).IsApex <=> p = rep
        /\ MemberInfo(found, p, rep, fallback, answer).Domain = found[p].Name
  BY DEF MemberInfo
<1> QED
  BY <1>1, <1>2, <1>3
=============================================================================
