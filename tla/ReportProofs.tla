--------------------------- MODULE ReportProofs ---------------------------
(***************************************************************************)
(* What is proved of EnrichGroups and of Report, for every list and every   *)
(* order of the lookups.                                                    *)
(*                                                                         *)
(* The one-pass grouping of rdap.Enrich computes the result Enrichment      *)
(* declares: a group is always the group of the entries seen so far         *)
(* (GroupsInv), and a lookup writes what is declared for its group          *)
(* (ResultsInv).                                                            *)
(*                                                                         *)
(* The mail and the sheet tell the truth about the alerts and agree with    *)
(* each other: a report stays the one composed of the results it was made   *)
(* of (ReportInv), and the rest is about what it is made of.                *)
(***************************************************************************)
EXTENDS Report, DataLemmas, SequenceTheorems

\* The first n entries of list L.
Upto(L, n) == [p \in 1 .. n |-> L[p]]

LEMMA MembersUpto ==
    ASSUME NEW L, NEW n \in Nat, NEW x
    PROVE  /\ Members(Upto(L, n), x) = {p \in 1 .. n : Apex(L, p) = x}
           /\ ApexMembers(Upto(L, n), x) = {p \in 1 .. n : Apex(L, p) = x /\ L[p].Name = x}
<1>1. Members(Upto(L, n), x) = {p \in 1 .. n : Apex(L, p) = x}
  BY DEF Members, Upto, Apex
<1> QED
  BY <1>1 DEF ApexMembers, Upto

\* enrich.go: an entry joins the group of its registrable domain and no other.
LEMMA MembersGrow ==
    ASSUME NEW L, NEW n \in Nat, NEW m, m = n + 1, NEW x, Apex(L, m) = x
    PROVE  Members(Upto(L, m), x) = Members(Upto(L, n), x) \cup {m}
<1>1. 1 .. m = (1 .. n) \cup {m}
  OBVIOUS
<1>2. Members(Upto(L, m), x) = {p \in 1 .. m : Apex(L, p) = x}
  BY MembersUpto
<1>3. Members(Upto(L, n), x) = {p \in 1 .. n : Apex(L, p) = x}
  BY MembersUpto
<1> QED
  BY <1>1, <1>2, <1>3

\* enrich.go: the entry of the domain itself is one of those with its name.
LEMMA ApexMembersGrow ==
    ASSUME NEW L, NEW n \in Nat, NEW m, m = n + 1, NEW x
    PROVE  /\ ApexMembers(Upto(L, n), x) \subseteq Members(Upto(L, n), x)
           /\ Apex(L, m) = x /\ L[m].Name = x =>
                ApexMembers(Upto(L, m), x) = ApexMembers(Upto(L, n), x) \cup {m}
           /\ L[m].Name # x => ApexMembers(Upto(L, m), x) = ApexMembers(Upto(L, n), x)
<1>1. 1 .. m = (1 .. n) \cup {m}
  OBVIOUS
<1>2. ApexMembers(Upto(L, m), x) = {p \in 1 .. m : Apex(L, p) = x /\ L[p].Name = x}
  BY MembersUpto
<1>3. ApexMembers(Upto(L, n), x) = {p \in 1 .. n : Apex(L, p) = x /\ L[p].Name = x}
  BY MembersUpto
<1>4. ApexMembers(Upto(L, n), x) \subseteq Members(Upto(L, n), x)
  BY <1>3, MembersUpto
<1> QED
  BY <1>1, <1>2, <1>3, <1>4

\* The entries with a date are some of them.
LEMMA WithFallbackIn ==
    ASSUME NEW L, NEW n \in Nat, NEW S, S \subseteq 1 .. n
    PROVE  WithFallback(L, S) \subseteq 1 .. n /\ WithFallback(L, S) \subseteq Nat
<1>1. WithFallback(L, S) \subseteq S
  BY DEF WithFallback
<1>2. S \subseteq Nat
  OBVIOUS
<1> QED
  BY <1>1, <1>2

\* GroupFallback on the members M of a group and the entries A of its apex.
FallbackOf(L, A, M) ==
    IF WithFallback(L, A) # {} THEN L[Last(WithFallback(L, A))].ExpiryFallback
    ELSE IF WithFallback(L, M) # {} THEN L[First(WithFallback(L, M))].ExpiryFallback
    ELSE ZeroTime

LEMMA FallbackOfGroup ==
    ASSUME NEW L, NEW n \in Nat, NEW x
    PROVE  GroupFallback(Upto(L, n), x) =
             FallbackOf(L, ApexMembers(Upto(L, n), x), Members(Upto(L, n), x))
<1> DEFINE A == ApexMembers(Upto(L, n), x)
           M == Members(Upto(L, n), x)
<1>1. A \subseteq 1 .. n /\ M \subseteq 1 .. n
  BY MembersUpto
<1>2. \A p \in 1 .. n : Upto(L, n)[p] = L[p]
  BY DEF Upto
<1> HIDE DEF A, M
<1>3. WithFallback(Upto(L, n), A) = WithFallback(L, A)
  BY <1>1, <1>2 DEF WithFallback
<1>4. WithFallback(Upto(L, n), M) = WithFallback(L, M)
  BY <1>1, <1>2 DEF WithFallback
<1>5. WithFallback(L, A) # {} => Last(WithFallback(L, A)) \in 1 .. n
  BY <1>1, WithFallbackIn, LastIn
<1>6. WithFallback(L, M) # {} => First(WithFallback(L, M)) \in 1 .. n
  BY <1>1, WithFallbackIn, FirstIn
<1>7. GroupFallback(Upto(L, n), x) =
        IF WithFallback(L, A) # {} THEN Upto(L, n)[Last(WithFallback(L, A))].ExpiryFallback
        ELSE IF WithFallback(L, M) # {}
        THEN Upto(L, n)[First(WithFallback(L, M))].ExpiryFallback
        ELSE ZeroTime
  BY <1>3, <1>4 DEF GroupFallback, A, M
<1> QED
  BY <1>2, <1>5, <1>6, <1>7 DEF FallbackOf, A, M

\* enrich.go: the date of a group is not zero exactly when a member has one.
LEMMA FallbackZero ==
    ASSUME NEW L, NEW n \in Nat, NEW A, NEW M, A \subseteq M, M \subseteq 1 .. n
    PROVE  IsZero(FallbackOf(L, A, M)) <=> WithFallback(L, M) = {}
<1>1. /\ WithFallback(L, A) \subseteq WithFallback(L, M)
      /\ WithFallback(L, A) \subseteq 1 .. n
      /\ WithFallback(L, M) \subseteq Nat
  <2>1. WithFallback(L, A) \subseteq WithFallback(L, M)
    BY DEF WithFallback
  <2>2. A \subseteq 1 .. n
    OBVIOUS
  <2> QED
    BY <2>1, <2>2, WithFallbackIn
<1>2. \A p \in WithFallback(L, M) : ~IsZero(L[p].ExpiryFallback)
  BY DEF WithFallback
<1>3. CASE WithFallback(L, A) # {}
  <2>1. Last(WithFallback(L, A)) \in WithFallback(L, M)
    BY <1>1, <1>3, LastIn
  <2> QED
    BY <1>2, <1>3, <2>1 DEF FallbackOf
<1>4. CASE WithFallback(L, A) = {} /\ WithFallback(L, M) # {}
  <2>1. First(WithFallback(L, M)) \in WithFallback(L, M)
    BY <1>1, <1>4, FirstIn
  <2> QED
    BY <1>2, <1>4, <2>1 DEF FallbackOf
<1>5. CASE WithFallback(L, M) = {}
  BY <1>1, <1>5 DEF FallbackOf, IsZero, ZeroTime
<1> QED
  BY <1>3, <1>4, <1>5

\* The date of the group once entry m has joined, as its apex or not.
FallbackGrows(L, m, A, M) ==
    /\ FallbackOf(L, A \cup {m}, M \cup {m}) =
         IF ~IsZero(L[m].ExpiryFallback) THEN L[m].ExpiryFallback ELSE FallbackOf(L, A, M)
    /\ FallbackOf(L, A, M \cup {m}) =
         IF IsZero(FallbackOf(L, A, M)) THEN L[m].ExpiryFallback ELSE FallbackOf(L, A, M)

\* enrich.go: the pass needs no more of the earlier entries than the date so far.
LEMMA FallbackJoin ==
    ASSUME NEW L, NEW m \in Nat \ {0}, NEW M \in SUBSET (1 .. m - 1), NEW A \in SUBSET M,
           IsZero(L[m].ExpiryFallback) => L[m].ExpiryFallback = ZeroTime
    PROVE  FallbackGrows(L, m, A, M)
<1> DEFINE n == m - 1
           WA == WithFallback(L, A)
           WM == WithFallback(L, M)
<1>0. n \in Nat /\ m = n + 1
  OBVIOUS
<1>1. WA \subseteq WM /\ WA \subseteq 1 .. n /\ WM \subseteq 1 .. n
  <2>1. WA \subseteq WM
    BY DEF WithFallback
  <2> QED
    BY <1>0, <2>1, WithFallbackIn
<1>2. IsZero(FallbackOf(L, A, M)) <=> WM = {}
  BY <1>0, FallbackZero
<1>3. CASE IsZero(L[m].ExpiryFallback)
  <2>1. WithFallback(L, A \cup {m}) = WA /\ WithFallback(L, M \cup {m}) = WM
    BY <1>3 DEF WithFallback
  <2>2. /\ FallbackOf(L, A \cup {m}, M \cup {m}) = FallbackOf(L, A, M)
        /\ FallbackOf(L, A, M \cup {m}) = FallbackOf(L, A, M)
    BY <2>1 DEF FallbackOf
  <2>3. IsZero(FallbackOf(L, A, M)) => FallbackOf(L, A, M) = ZeroTime
    BY <1>1, <1>2 DEF FallbackOf
  <2> QED
    BY <1>3, <2>2, <2>3 DEF FallbackGrows
<1>4. CASE ~IsZero(L[m].ExpiryFallback)
  <2>1. /\ WithFallback(L, A \cup {m}) = WA \cup {m}
        /\ WithFallback(L, M \cup {m}) = WM \cup {m}
    BY <1>4 DEF WithFallback
  <2>2. Last(WA \cup {m}) = m
    BY <1>0, <1>1, LastAdd
  <2>3. FallbackOf(L, A \cup {m}, M \cup {m}) = L[m].ExpiryFallback
    BY <2>1, <2>2 DEF FallbackOf
  <2>4. FallbackOf(L, A, M \cup {m}) =
          IF WA # {} THEN L[Last(WA)].ExpiryFallback
          ELSE L[First(WM \cup {m})].ExpiryFallback
    BY <2>1 DEF FallbackOf
  <2>5. CASE WM = {}
    <3>1. First(WM \cup {m}) = m
      BY <2>5, FirstOfOne
    <3> QED
      BY <1>1, <1>2, <1>4, <2>3, <2>4, <2>5, <3>1 DEF FallbackGrows
  <2>6. CASE WM # {}
    <3>1. First(WM \cup {m}) = First(WM)
      BY <1>0, <1>1, <2>6, FirstAdd
    <3>2. FallbackOf(L, A, M) = IF WA # {} THEN L[Last(WA)].ExpiryFallback
                                ELSE L[First(WM)].ExpiryFallback
      BY <2>6 DEF FallbackOf
    <3> QED
      BY <1>2, <1>4, <2>3, <2>4, <2>6, <3>1, <3>2 DEF FallbackGrows
  <2> QED
    BY <2>5, <2>6
<1> QED
  BY <1>3, <1>4

\* enrich.go: what the pass does to the group an entry joins.
LEMMA JoinStep ==
    ASSUME NEW L, NEW g, i \in Nat \ {0},
           IsZero(L[i].ExpiryFallback) => L[i].ExpiryFallback = ZeroTime,
           \/ IsGroup(g, Upto(L, i - 1), Apex(L, i))
           \/ g = NewGroup /\ Members(Upto(L, i - 1), Apex(L, i)) = {}
    PROVE  IsGroup(Joined(g, L[i], Apex(L, i)), Upto(L, i), Apex(L, i))
<1> DEFINE x == Apex(L, i)
           n == i - 1
           A == ApexMembers(Upto(L, n), x)
           M == Members(Upto(L, n), x)
           h == Joined(g, L[i], x)
<1>1. n \in Nat /\ n + 1 = i
  OBVIOUS
<1>2. /\ M \subseteq 1 .. n /\ A \subseteq M
      /\ Members(Upto(L, i), x) = M \cup {i}
      /\ ApexMembers(Upto(L, i), x) = A \cup IF L[i].Name = x THEN {i} ELSE {}
  <2> HIDE DEF n, x
  <2>1. n \in Nat /\ i = n + 1 /\ Apex(L, i) = x
    BY <1>1 DEF x
  <2>2. Members(Upto(L, n), x) \subseteq 1 .. n
    BY <2>1, MembersUpto
  <2>3. Members(Upto(L, i), x) = Members(Upto(L, n), x) \cup {i}
    BY <2>1, MembersGrow
  <2>4. ApexMembers(Upto(L, n), x) \subseteq Members(Upto(L, n), x)
    BY <2>1, ApexMembersGrow
  <2>5. L[i].Name = x => ApexMembers(Upto(L, i), x) = ApexMembers(Upto(L, n), x) \cup {i}
    BY <2>1, ApexMembersGrow
  <2>6. L[i].Name # x => ApexMembers(Upto(L, i), x) = ApexMembers(Upto(L, n), x)
    BY <2>1, ApexMembersGrow
  <2> QED
    BY <2>2, <2>3, <2>4, <2>5, <2>6
<1>3. /\ g.members \in Seq(Nat)
      /\ {g.members[k] : k \in DOMAIN g.members} = M
      /\ g.members # <<>> => g.members[1] = First(M)
      /\ g.members = <<>> => M = {}
      /\ g.apexMemberIdx = IF A = {} THEN NoMember ELSE Last(A)
      /\ g.fallback = FallbackOf(L, A, M)
  <2>1. CASE IsGroup(g, Upto(L, n), x)
    BY <1>1, <2>1, FallbackOfGroup DEF IsGroup
  <2>2. CASE g = NewGroup /\ M = {}
    <3>1. A = {}
      BY <1>2, <2>2
    <3>2. FallbackOf(L, A, M) = ZeroTime
      BY <2>2, <3>1 DEF FallbackOf, WithFallback
    <3>3. g.members = <<>> /\ g.apexMemberIdx = NoMember /\ g.fallback = ZeroTime
      BY <2>2 DEF NewGroup
    <3> QED
      BY <2>2, <3>1, <3>2, <3>3
  <2> QED
    BY <2>1, <2>2
<1>4. /\ h.members = Append(g.members, i)
      /\ h.apexMemberIdx = IF L[i].Name = x THEN i ELSE g.apexMemberIdx
      /\ h.fallback = IF L[i].Name = x /\ ~IsZero(L[i].ExpiryFallback)
                      THEN L[i].ExpiryFallback
                      ELSE IF L[i].Name # x /\ IsZero(g.fallback) THEN L[i].ExpiryFallback
                      ELSE g.fallback
  BY DEF Joined
<1>5. h.fallback = GroupFallback(Upto(L, i), x)
  <2>1. GroupFallback(Upto(L, i), x) =
          FallbackOf(L, A \cup IF L[i].Name = x THEN {i} ELSE {}, M \cup {i})
    BY <1>2, FallbackOfGroup
  <2> HIDE DEF x, n, A, M, h
  <2>2. FallbackGrows(L, i, A, M)
    BY <1>1, <1>2, FallbackJoin
  <2> QED
    BY <1>3, <1>4, <2>1, <2>2 DEF FallbackGrows
<1> HIDE DEF x, n, A, M, h
<1>6. h.apexMemberIdx = IF ApexMembers(Upto(L, i), x) = {} THEN NoMember
                        ELSE Last(ApexMembers(Upto(L, i), x))
  <2>1. Last(A \cup {i}) = i
    BY <1>1, <1>2, LastAdd
  <2> QED
    BY <1>2, <1>3, <1>4, <2>1
<1>7. /\ h.members \in Seq(Nat) /\ h.members # <<>>
      /\ {h.members[k] : k \in DOMAIN h.members} = M \cup {i}
      /\ h.members[1] = First(M \cup {i})
  <2>1. /\ h.members \in Seq(Nat) /\ h.members # <<>>
        /\ Len(h.members) = Len(g.members) + 1 /\ Len(g.members) \in Nat
        /\ \A k \in 1 .. Len(g.members) : h.members[k] = g.members[k]
        /\ h.members[Len(g.members) + 1] = i
        /\ DOMAIN h.members = 1 .. Len(g.members) + 1
        /\ DOMAIN g.members = 1 .. Len(g.members)
    <3> DEFINE s == g.members
               t == h.members
    <3>1. s \in Seq(Nat) /\ i \in Nat /\ t = Append(s, i)
      BY <1>3, <1>4
    <3> HIDE DEF s, t
    <3>2. Len(s) \in Nat /\ DOMAIN s = 1 .. Len(s)
      BY <3>1
    <3>3. t \in Seq(Nat) /\ Len(t) = Len(s) + 1 /\ t # <<>>
      BY <3>1
    <3>4. t[Len(s) + 1] = i /\ \A k \in 1 .. Len(s) : t[k] = s[k]
      BY <3>1
    <3>5. DOMAIN t = 1 .. Len(s) + 1
      BY <3>2, <3>3
    <3> QED
      BY <3>2, <3>3, <3>4, <3>5 DEF s, t
  <2>2. {h.members[k] : k \in DOMAIN h.members} =
          {g.members[k] : k \in DOMAIN g.members} \cup {i}
    <3> DEFINE len == Len(g.members)
    <3>1. 1 .. len + 1 = (1 .. len) \cup {len + 1}
      BY <2>1
    <3>2. \A k \in 1 .. len : h.members[k] = g.members[k]
      BY <2>1
    <3>3. h.members[len + 1] = i
      BY <2>1
    <3>4. DOMAIN h.members = 1 .. len + 1 /\ DOMAIN g.members = 1 .. len
      BY <2>1
    <3> HIDE DEF len
    <3> QED
      BY <3>1, <3>2, <3>3, <3>4
  <2>3. CASE g.members = <<>>
    BY <1>1, <1>3, <2>1, <2>3, FirstOfOne
  <2>4. CASE g.members # <<>>
    <3>1. Len(g.members) \in Nat \ {0}
      BY <1>3, <2>1, <2>4
    <3>2. 1 \in DOMAIN g.members /\ h.members[1] = g.members[1]
      BY <2>1, <3>1
    <3>3. M # {} /\ h.members[1] = First(M)
      BY <1>3, <2>4, <3>2
    <3>4. First(M \cup {i}) = First(M)
      BY <1>1, <1>2, <3>3, FirstAdd
    <3> QED
      BY <1>3, <2>1, <2>2, <3>3, <3>4
  <2> QED
    BY <1>3, <2>1, <2>2, <2>3, <2>4
<1>8. IsGroup(h, Upto(L, i), x)
  BY <1>2, <1>5, <1>6, <1>7 DEF IsGroup
<1> QED
  BY <1>8 DEF h, x

\* enrich.go: the other groups are what they were.
LEMMA OtherStep ==
    ASSUME NEW L, NEW g, NEW x, i \in Nat \ {0}, x # Apex(L, i),
           IsGroup(g, Upto(L, i - 1), x)
    PROVE  IsGroup(g, Upto(L, i), x)
<1> DEFINE n == i - 1
<1>1. n \in Nat /\ n + 1 = i
  OBVIOUS
<1>2. /\ Members(Upto(L, i), x) = Members(Upto(L, n), x)
      /\ ApexMembers(Upto(L, i), x) = ApexMembers(Upto(L, n), x)
  <2>1. \A p : p \in 1 .. i <=> p \in 1 .. n \/ p = i
    OBVIOUS
  <2>2. /\ Members(Upto(L, i), x) = {p \in 1 .. i : Apex(L, p) = x}
        /\ Members(Upto(L, n), x) = {p \in 1 .. n : Apex(L, p) = x}
        /\ ApexMembers(Upto(L, i), x) = {p \in 1 .. i : Apex(L, p) = x /\ L[p].Name = x}
        /\ ApexMembers(Upto(L, n), x) = {p \in 1 .. n : Apex(L, p) = x /\ L[p].Name = x}
    BY <1>1, MembersUpto
  <2> HIDE DEF n
  <2>3. {p \in 1 .. i : Apex(L, p) = x} = {p \in 1 .. n : Apex(L, p) = x}
    BY <2>1
  <2>4. {p \in 1 .. i : Apex(L, p) = x /\ L[p].Name = x} =
          {p \in 1 .. n : Apex(L, p) = x /\ L[p].Name = x}
    BY <2>1
  <2> QED
    BY <2>2, <2>3, <2>4
<1>3. GroupFallback(Upto(L, i), x) = GroupFallback(Upto(L, n), x)
  BY <1>1, <1>2, FallbackOfGroup
<1> QED
  BY <1>2, <1>3 DEF IsGroup

IInv ==
    /\ domains \in Inputs
    /\ TypeOK
    /\ GroupsInv
    /\ ResultsInv

LEMMA InputList ==
    ASSUME NEW L \in Inputs
    PROVE  /\ Len(L) \in Nat /\ DOMAIN L = 1 .. Len(L) /\ L = [p \in 1 .. Len(L) |-> L[p]]
           /\ \A p \in DOMAIN L : L[p].ExpiryFallback \in Time
           /\ \A p \in DOMAIN L : IsZero(L[p].ExpiryFallback) => L[p].ExpiryFallback = ZeroTime
<1>1. PICK S : L \in Seq(S)
  BY InputsAssumption
<1>2. Len(L) \in Nat /\ DOMAIN L = 1 .. Len(L) /\ L = [p \in 1 .. Len(L) |-> L[p]]
  BY <1>1
<1> QED
  BY <1>2, InputsAssumption

LEMMA GroupsInit == Init => IInv
<1> SUFFICES ASSUME Init PROVE IInv
  OBVIOUS
<1> USE DEF Init
<1>1. DOMAIN groups = {} /\ DOMAIN lookups = {} /\ DOMAIN out = {}
  OBVIOUS
<1>2. Len(domains) \in Nat /\ domains \in Inputs
  BY InputList
<1>3. TypeOK
  BY <1>1, <1>2 DEF TypeOK
<1>4. GroupsInv
  BY <1>1 DEF GroupsInv
<1>5. out = [p \in {q \in DOMAIN domains : Apex(domains, q) \in DOMAIN lookups} |->
               Enrich(domains, lookups)[p]]
  <2>1. {q \in DOMAIN domains : Apex(domains, q) \in DOMAIN lookups} = {}
    BY <1>1
  <2>2. out = [p \in {} |-> Enrich(domains, lookups)[p]]
    OBVIOUS
  <2> QED
    BY <2>1, <2>2
<1> QED
  BY <1>2, <1>3, <1>4, <1>5 DEF IInv, ResultsInv

LEMMA AddStep == IInv /\ AddDomain => IInv'
<1> SUFFICES ASSUME IInv, AddDomain PROVE IInv'
  OBVIOUS
<1> DEFINE x == Apex(domains, i)
           g == IF x \in DOMAIN groups THEN groups[x] ELSE NewGroup
<1>1. /\ i \in Nat \ {0} /\ i \in 1 .. Len(domains) /\ Len(domains) \in Nat
      /\ domains \in Inputs /\ i \in DOMAIN domains /\ i - 1 \in Nat
      /\ IsZero(domains[i].ExpiryFallback) => domains[i].ExpiryFallback = ZeroTime
  BY InputList DEF IInv, AddDomain
<1>2. /\ groups' = Put(groups, x, Joined(g, domains[i], x))
      /\ i' = i + 1
      /\ domains' = domains /\ lookups' = lookups /\ out' = out
  BY DEF AddDomain
<1>3. Seen = Upto(domains, i - 1) /\ Seen' = Upto(domains, i)
  BY <1>1, <1>2 DEF Seen, Upto
<1>4. DOMAIN groups = {Apex(domains, p) : p \in 1 .. (i - 1)}
  BY DEF IInv, TypeOK
<1>5. IsGroup(Joined(g, domains[i], x), Seen', x)
  <2>1. CASE x \in DOMAIN groups
    <3>1. IsGroup(g, Upto(domains, i - 1), x)
      BY <1>3, <2>1 DEF IInv, GroupsInv
    <3> QED
      BY <1>1, <1>3, <3>1, JoinStep
  <2>2. CASE x \notin DOMAIN groups
    <3>1. Members(Upto(domains, i - 1), x) = {}
      <4>1. \A p \in 1 .. (i - 1) : Apex(domains, p) # x
        BY <1>4, <2>2
      <4> QED
        BY <4>1 DEF Members, Upto, Apex
    <3>2. g = NewGroup
      BY <2>2
    <3> QED
      BY <1>1, <1>3, <3>1, <3>2, JoinStep
  <2> QED
    BY <2>1, <2>2
<1>6. \A y \in DOMAIN groups : y # x => IsGroup(groups[y], Seen', y)
  <2> SUFFICES ASSUME NEW y \in DOMAIN groups, y # x
               PROVE  IsGroup(groups[y], Seen', y)
    OBVIOUS
  <2>1. IsGroup(groups[y], Upto(domains, i - 1), y)
    BY <1>3 DEF IInv, GroupsInv
  <2> QED
    BY <1>1, <1>3, <2>1, OtherStep
<1> HIDE DEF g
<1>7. GroupsInv'
  <2> SUFFICES ASSUME NEW y \in DOMAIN groups' PROVE IsGroup(groups'[y], Seen', y)
    BY DEF GroupsInv
  <2> QED
    <3>1. CASE y = x
      BY <1>2, <1>5, <3>1 DEF Put
    <3>2. CASE y # x
      BY <1>2, <1>6, <3>2 DEF Put
    <3> QED
      BY <3>1, <3>2
<1>8. ResultsInv'
  <2>1. lookups = <<>>
    BY <1>1 DEF IInv, ResultsInv
  <2> QED
    BY <1>2, <2>1 DEF IInv, ResultsInv
<1>9. TypeOK'
  <2>1. 1 .. (i + 1 - 1) = (1 .. (i - 1)) \cup {i}
    BY <1>1
  <2>2. DOMAIN groups' = {Apex(domains, p) : p \in 1 .. (i + 1 - 1)}
    <3>1. DOMAIN groups' = DOMAIN groups \cup {x}
      BY <1>2 DEF Put
    <3> QED
      BY <1>4, <2>1, <3>1
  <2> QED
    BY <1>1, <1>2, <2>2 DEF IInv, TypeOK
<1> QED
  BY <1>1, <1>2, <1>7, <1>8, <1>9 DEF IInv

LEMMA LookupStep ==
    ASSUME IInv, i \notin DOMAIN domains, NEW x \in DOMAIN groups, ProcessGroup(x)
    PROVE  IInv'
<1> DEFINE g == groups[x]
<1>1. PICK answer \in LookupResults :
        /\ lookups' = Put(lookups, x, answer)
        /\ out' = [p \in DOMAIN out \cup {g.members[k] : k \in DOMAIN g.members} |->
                     IF p \in DOMAIN out THEN out[p]
                     ELSE MemberInfo(domains, p, ApexIdx(g), g.fallback, answer)]
  BY DEF ProcessGroup
<1>2. /\ x \notin DOMAIN lookups
      /\ domains' = domains /\ i' = i /\ groups' = groups
  BY DEF ProcessGroup
<1>3. /\ Len(domains) \in Nat /\ DOMAIN domains = 1 .. Len(domains)
      /\ domains = [p \in 1 .. Len(domains) |-> domains[p]] /\ domains \in Inputs
      /\ i = Len(domains) + 1
  BY InputList DEF IInv, TypeOK
<1>4. Seen = domains
  BY <1>3 DEF Seen
<1>5. IsGroup(g, domains, x)
  BY <1>4 DEF IInv, GroupsInv
<1>6. {g.members[k] : k \in DOMAIN g.members} = Members(domains, x)
      /\ g.fallback = GroupFallback(domains, x)
  BY <1>5 DEF IsGroup
<1>7. ApexIdx(g) = Representative(domains, x)
  <2>1. ApexMembers(domains, x) \subseteq 1 .. Len(domains)
    BY <1>3 DEF ApexMembers, Members
  <2>2. ApexMembers(domains, x) # {} => Last(ApexMembers(domains, x)) # NoMember
    BY <1>3, <2>1, LastIn DEF NoMember
  <2> QED
    BY <1>5, <2>2 DEF IsGroup, ApexIdx, Representative
<1> HIDE DEF g
<1>8. DOMAIN lookups' = DOMAIN lookups \cup {x} /\ lookups'[x] = answer
      /\ \A y \in DOMAIN lookups : lookups'[y] = lookups[y]
  BY <1>1, <1>2 DEF Put
<1>9. /\ DOMAIN out = {q \in DOMAIN domains : Apex(domains, q) \in DOMAIN lookups}
      /\ \A p \in DOMAIN out : out[p] = Enrich(domains, lookups)[p]
  BY DEF IInv, ResultsInv
<1>10. \A p \in DOMAIN domains :
         Apex(domains, p) \in DOMAIN lookups =>
           Enrich(domains, lookups')[p] = Enrich(domains, lookups)[p]
  BY <1>8 DEF Enrich
<1>11. \A p \in Members(domains, x) :
         Enrich(domains, lookups')[p] =
           MemberInfo(domains, p, Representative(domains, x), GroupFallback(domains, x), answer)
  BY <1>8 DEF Enrich, Members
<1>12. DOMAIN out \cup Members(domains, x) =
         {q \in DOMAIN domains : Apex(domains, q) \in DOMAIN lookups'}
  BY <1>8, <1>9 DEF Members
<1>13. out' = [p \in {q \in DOMAIN domains : Apex(domains, q) \in DOMAIN lookups'} |->
                 Enrich(domains, lookups')[p]]
  <2>1. out' = [p \in DOMAIN out \cup Members(domains, x) |->
                  IF p \in DOMAIN out THEN out[p]
                  ELSE MemberInfo(domains, p, Representative(domains, x),
                                  GroupFallback(domains, x), answer)]
    BY <1>1, <1>6, <1>7
  <2>2. \A p \in DOMAIN out \cup Members(domains, x) :
          (IF p \in DOMAIN out THEN out[p]
           ELSE MemberInfo(domains, p, Representative(domains, x),
                           GroupFallback(domains, x), answer))
          = Enrich(domains, lookups')[p]
    BY <1>9, <1>10, <1>11
  <2>3. out' = [p \in DOMAIN out \cup Members(domains, x) |-> Enrich(domains, lookups')[p]]
    BY <2>1, <2>2
  <2> QED
    BY <1>12, <2>3
<1>14. ResultsInv'
  BY <1>2, <1>13 DEF ResultsInv
<1>15. GroupsInv'
  BY <1>2 DEF IInv, GroupsInv, Seen
<1>16. TypeOK'
  <2>1. DOMAIN out' \subseteq DOMAIN domains
    BY <1>13
  <2> QED
    BY <1>2, <1>8, <2>1 DEF IInv, TypeOK
<1> QED
  BY <1>2, <1>3, <1>14, <1>15, <1>16 DEF IInv

LEMMA EnrichInvariant == Spec => []IInv
<1>1. IInv /\ [Next]_vars => IInv'
  <2> SUFFICES ASSUME IInv, [Next]_vars PROVE IInv'
    OBVIOUS
  <2>1. CASE AddDomain
    BY <2>1, AddStep
  <2>2. CASE i \notin DOMAIN domains /\ \E x \in DOMAIN groups : ProcessGroup(x)
    BY <2>2, LookupStep
  <2>3. CASE UNCHANGED vars
    BY <2>3 DEF vars, IInv, TypeOK, GroupsInv, ResultsInv, Seen
  <2> QED
    BY <2>1, <2>2, <2>3 DEF Next, Terminated
<1> QED
  BY <1>1, GroupsInit, PTL DEF Spec

LEMMA DeclaredWhenDone == IInv => EnrichAsDeclared
<1> SUFFICES ASSUME IInv, Done PROVE out = Enrich(domains, lookups)
  BY DEF EnrichAsDeclared
<1>1. Len(domains) \in Nat /\ DOMAIN domains = 1 .. Len(domains) /\ i - 1 = Len(domains)
  BY InputList DEF IInv, TypeOK, Done
<1>2. \A q \in DOMAIN domains : Apex(domains, q) \in DOMAIN lookups
  BY <1>1 DEF IInv, TypeOK, Done
<1>3. {q \in DOMAIN domains : Apex(domains, q) \in DOMAIN lookups} = DOMAIN domains
  BY <1>2
<1>4. out = [p \in DOMAIN domains |-> Enrich(domains, lookups)[p]]
  BY <1>3 DEF IInv, ResultsInv
<1> QED
  BY <1>4 DEF Enrich

\* For every list and every order of the lookups, the pass and the groups return
\* what Enrichment declares.
THEOREM GroupingIsCorrect == Spec => []EnrichAsDeclared
BY DeclaredWhenDone, EnrichInvariant, PTL

\* A date is no days from itself.
LEMMA SameDate ==
    ASSUME NEW t \in Time
    PROVE  absDayDiff(t, t) = 0
<1>1. t.at \in Nat
  BY DEF Time
<1>2. UTCDay(t) \in Int
  BY <1>1, TicksPerDayAssumption DEF UTCDay
<1> QED
  BY <1>2 DEF absDayDiff

\* enrich.go: the date of a group is zero or one that a member gives, and it is
\* zero only when none gives one.
LEMMA GroupDate ==
    ASSUME NEW L \in Inputs, NEW x
    PROVE  /\ GroupFallback(L, x) \in Time
           /\ IsZero(GroupFallback(L, x)) =>
                \A q \in Members(L, x) : IsZero(L[q].ExpiryFallback)
<1> DEFINE n == Len(L)
           A == ApexMembers(L, x)
           M == Members(L, x)
<1>1. /\ n \in Nat /\ DOMAIN L = 1 .. n /\ Upto(L, n) = L
      /\ \A p \in DOMAIN L : L[p].ExpiryFallback \in Time
  BY InputList DEF Upto
<1>2. A \subseteq M /\ M \subseteq 1 .. n /\ A \subseteq 1 .. n
  BY <1>1 DEF ApexMembers, Members
<1>3. GroupFallback(L, x) = FallbackOf(L, A, M)
  BY <1>1, FallbackOfGroup
<1> HIDE DEF n, A, M
<1>4. IsZero(FallbackOf(L, A, M)) <=> WithFallback(L, M) = {}
  BY <1>1, <1>2, FallbackZero
<1>5. WithFallback(L, A) # {} => Last(WithFallback(L, A)) \in DOMAIN L
  BY <1>1, <1>2, WithFallbackIn, LastIn
<1>6. WithFallback(L, M) # {} => First(WithFallback(L, M)) \in DOMAIN L
  BY <1>1, <1>2, WithFallbackIn, FirstIn
<1>7. ZeroTime \in Time
  BY OffsetsAssumption DEF ZeroTime, Time
<1>8. FallbackOf(L, A, M) \in Time
  BY <1>1, <1>5, <1>6, <1>7 DEF FallbackOf
<1>9. WithFallback(L, M) = {} => \A q \in M : IsZero(L[q].ExpiryFallback)
  BY DEF WithFallback
<1> QED
  BY <1>3, <1>4, <1>8, <1>9 DEF M

\* Whatever RDAP answers, its date is the one used; the YAML date stands in for a
\* failure only, and is then not reported as a mismatch; and an error remains only
\* when no entry of the registration has a date.
THEOREM YAMLOnlyStandsIn ==
    ASSUME MismatchToleranceDays >= 0
    PROVE  Spec => []RDAPWins
<1>1. IInv /\ EnrichAsDeclared => RDAPWins
  <2> SUFFICES ASSUME IInv, EnrichAsDeclared, Done, NEW p \in DOMAIN out
               PROVE  LET answer == lookups[Apex(domains, p)]
                      IN  /\ ~answer.Err => out[p].ExpiresAt = answer.ExpiresAt
                          /\ answer.Err => IsZero(out[p].FallbackExpected)
                          /\ out[p].Err => \A q \in Members(domains, Apex(domains, p)) :
                                              IsZero(domains[q].ExpiryFallback)
    BY DEF RDAPWins
  <2> DEFINE x == Apex(domains, p)
             answer == lookups[x]
             date == GroupFallback(domains, x)
             used == Substituted(answer, date)
  <2>1. /\ out[p].Err = used.Err
        /\ out[p].ExpiresAt = used.ExpiresAt
        /\ out[p].FallbackExpected = IF p = Representative(domains, x) /\ Mismatch(used, date)
                                     THEN date ELSE ZeroTime
    <3>1. out = Enrich(domains, lookups)
      BY DEF EnrichAsDeclared
    <3>2. out[p] = MemberInfo(domains, p, Representative(domains, x), date, answer)
      BY <3>1 DEF Enrich
    <3> QED
      BY <3>2 DEF MemberInfo
  <2>2. /\ date \in Time
        /\ IsZero(date) => \A q \in Members(domains, x) : IsZero(domains[q].ExpiryFallback)
    BY GroupDate DEF IInv
  <2> HIDE DEF x, answer, date, used
  <2>3. ~answer.Err => used = answer
    BY DEF used, Substituted
  <2>4. answer.Err /\ ~IsZero(date) => used = [Err |-> FALSE, ExpiresAt |-> date]
    BY DEF used, Substituted
  <2>5. answer.Err => IsZero(out[p].FallbackExpected)
    <3>1. IsZero(ZeroTime)
      BY DEF IsZero, ZeroTime
    <3>2. answer.Err /\ ~IsZero(date) => ~Mismatch(used, date)
      BY <2>2, <2>4, SameDate, ToleranceAssumption DEF Mismatch
    <3>3. IsZero(date) => ~Mismatch(used, date)
      BY DEF Mismatch
    <3> QED
      BY <2>1, <3>1, <3>2, <3>3
  <2>6. ~IsZero(date) => ~out[p].Err
    <3>1. CASE answer.Err /\ ~IsZero(date)
      BY <2>1, <2>4, <3>1
    <3>2. CASE ~answer.Err
      BY <2>1, <2>3, <3>2
    <3> QED
      BY <3>1, <3>2
  <2>7. ~answer.Err => out[p].ExpiresAt = answer.ExpiresAt
    BY <2>1, <2>3
  <2>8. out[p].Err => \A q \in Members(domains, x) : IsZero(domains[q].ExpiryFallback)
    BY <2>2, <2>6
  <2> QED
    BY <2>5, <2>7, <2>8 DEF answer, x
<1> QED
  BY <1>1, EnrichInvariant, GroupingIsCorrect, PTL

-----------------------------------------------------------------------------
(* The report of a run, as a function of what the run found.                 *)

Composed ==
    LET found == Evaluate(now, certs, out)
    IN  [alerts |-> found,
         sheet |-> MarshalXLSX(BuildSnapshot(found)),
         mail |-> RenderHTML(found, BuildSummary(found))]

LEMMA ComposedStays ==
    ASSUME domains' = domains, certs' = certs, out' = out
    PROVE  Composed' = Composed
BY DEF Composed, MarshalXLSX, BuildSnapshot, RenderHTML, BuildSummary, Stat, classify, isApex,
       AlertedNames, SameName, SameWritten, Written, Row, bucketAndDedup, SameLine, emailStatus, buildSubject

CertsOK ==
    /\ DOMAIN certs = DOMAIN domains
    /\ \A p \in DOMAIN domains :
         /\ certs[p].Domain = domains[p].Name
         /\ certs[p].Err \in BOOLEAN
         /\ certs[p].NotAfter \in Time

AnswersOK == \A x \in DOMAIN lookups : lookups[x] \in LookupResults

\* The inductive invariant: the checks start when Enrich is done, and the report is
\* the one composed of what they and Enrich found.
ReportInv ==
    /\ IInv
    /\ AnswersOK
    /\ certs # Nothing => Done /\ CertsOK
    /\ report # Nothing => certs # Nothing /\ report = Composed

LEMMA ReportStart == ReportInit => ReportInv
<1> SUFFICES ASSUME ReportInit PROVE ReportInv
  OBVIOUS
<1>1. IInv
  BY GroupsInit DEF ReportInit
<1>2. AnswersOK
  BY DEF ReportInit, Init, AnswersOK
<1> QED
  BY <1>1, <1>2 DEF ReportInv, ReportInit

LEMMA ReportStep == ReportInv /\ [ReportNext]_reportVars => ReportInv'
<1> SUFFICES ASSUME ReportInv, [ReportNext]_reportVars PROVE ReportInv'
  OBVIOUS
<1> USE DEF ReportInv
<1>1. CASE AddDomain /\ UNCHANGED <<certs, report>>
  <2>1. IInv'
    BY <1>1, AddStep
  <2>2. certs = Nothing /\ report = Nothing
    BY <1>1 DEF AddDomain, Done
  <2>3. AnswersOK'
    BY <1>1 DEF AddDomain, AnswersOK
  <2> QED
    BY <1>1, <2>1, <2>2, <2>3
<1>2. CASE /\ i \notin DOMAIN domains
           /\ \E x \in DOMAIN groups : ProcessGroup(x)
           /\ UNCHANGED <<certs, report>>
  <2>1. PICK x \in DOMAIN groups : ProcessGroup(x)
    BY <1>2
  <2>2. IInv'
    BY <1>2, <2>1, LookupStep
  <2>3. certs = Nothing /\ report = Nothing
    BY <2>1 DEF ProcessGroup, Done
  <2>4. PICK answer \in LookupResults : lookups' = Put(lookups, x, answer)
    BY <2>1 DEF ProcessGroup
  <2>5. AnswersOK'
    BY <2>4 DEF AnswersOK, Put
  <2> QED
    BY <1>2, <2>2, <2>3, <2>5
<1>3. ASSUME UNCHANGED vars PROVE IInv' /\ AnswersOK' /\ (Done => Done')
  BY <1>3 DEF vars, IInv, TypeOK, GroupsInv, ResultsInv, Seen, AnswersOK, Done
<1>4. CASE CheckAll
  <2>1. Done /\ report = Nothing /\ report' = report /\ UNCHANGED vars
    BY <1>4 DEF CheckAll
  <2>2. PICK r \in [DOMAIN domains -> CertResults] :
          certs' = [p \in DOMAIN domains |->
                     [Domain |-> domains[p].Name, Err |-> r[p].Err, NotAfter |-> r[p].NotAfter]]
    BY <1>4 DEF CheckAll
  <2>3. \A p \in DOMAIN domains : r[p].Err \in BOOLEAN /\ r[p].NotAfter \in Time
    BY ReportAssumption
  <2>4. domains' = domains
    BY <2>1 DEF vars
  <2>5. CertsOK'
    BY <2>2, <2>3, <2>4 DEF CertsOK
  <2> QED
    BY <1>3, <2>1, <2>5
<1>5. CASE Compose
  <2>1. certs # Nothing /\ certs' = certs /\ UNCHANGED vars /\ report' = Composed
    BY <1>5 DEF Compose, Composed
  <2>2. Composed' = Composed
    BY <2>1, ComposedStays DEF vars
  <2>3. CertsOK'
    BY <2>1 DEF CertsOK, vars
  <2> QED
    BY <1>3, <2>1, <2>2, <2>3
<1>6. CASE UNCHANGED reportVars
  <2>1. certs' = certs /\ UNCHANGED vars /\ report' = report
    BY <1>6 DEF reportVars
  <2>2. Composed' = Composed
    BY <2>1, ComposedStays DEF vars
  <2>3. CertsOK' <=> CertsOK
    BY <2>1 DEF CertsOK, vars
  <2> QED
    BY <1>3, <2>1, <2>2, <2>3
<1> QED
  BY <1>1, <1>2, <1>4, <1>5, <1>6 DEF ReportNext

LEMMA ReportInvariant == ReportSpec => []ReportInv
BY ReportStart, ReportStep, PTL DEF ReportSpec

-----------------------------------------------------------------------------
(* What a report is made of.                                                 *)

\* The results of Enrich are typed and about the listed names.
LEMMA InfosTyped ==
    ASSUME IInv, AnswersOK, Done
    PROVE  /\ DOMAIN out = DOMAIN domains
           /\ \A p \in DOMAIN domains :
                out[p].Domain = domains[p].Name /\ out[p].ExpiresAt \in Time
<1>1. out = Enrich(domains, lookups)
  BY DeclaredWhenDone DEF EnrichAsDeclared
<1>2. DOMAIN out = DOMAIN domains
  BY <1>1 DEF Enrich
<1>3. SUFFICES ASSUME NEW p \in DOMAIN domains
               PROVE  out[p].Domain = domains[p].Name /\ out[p].ExpiresAt \in Time
  BY <1>2
<1> DEFINE x == Apex(domains, p)
           date == GroupFallback(domains, x)
<1>4. out[p] = MemberInfo(domains, p, Representative(domains, x), date, lookups[x])
  BY <1>1 DEF Enrich
<1>5. x \in DOMAIN lookups
  <2>1. i - 1 = Len(domains) /\ DOMAIN domains = 1 .. Len(domains)
    BY InputList DEF IInv, TypeOK, Done
  <2> QED
    BY <2>1 DEF IInv, TypeOK, Done
<1>6. lookups[x].ExpiresAt \in Time
  BY <1>5, ReportAssumption DEF AnswersOK
<1>7. date \in Time
  BY GroupDate DEF IInv
<1> HIDE DEF x, date
<1>8. Substituted(lookups[x], date).ExpiresAt \in Time
  BY <1>6, <1>7 DEF Substituted
<1> QED
  BY <1>4, <1>8 DEF MemberInfo

\* A reader of a report reads the results of the run it was composed of.
LEMMA ReportOf ==
    ASSUME ReportInv, report # Nothing
    PROVE  /\ Len(domains) \in Nat /\ DOMAIN domains = 1 .. Len(domains)
           /\ CertsOK
           /\ DOMAIN out = DOMAIN domains
           /\ \A p \in DOMAIN domains :
                out[p].Domain = domains[p].Name /\ out[p].ExpiresAt \in Time
           /\ report.alerts = Evaluate(now, certs, out)
           /\ report.sheet = MarshalXLSX(BuildSnapshot(report.alerts))
           /\ report.mail = RenderHTML(report.alerts, BuildSummary(report.alerts))
<1>1. Done /\ CertsOK /\ IInv /\ AnswersOK /\ report = Composed
  BY DEF ReportInv
<1>2. Len(domains) \in Nat /\ DOMAIN domains = 1 .. Len(domains)
  BY <1>1, InputList DEF IInv
<1>3. /\ DOMAIN out = DOMAIN domains
      /\ \A p \in DOMAIN domains :
           out[p].Domain = domains[p].Name /\ out[p].ExpiresAt \in Time
  BY <1>1, InfosTyped
<1> QED
  BY <1>1, <1>2, <1>3 DEF Composed

\* engine.go: an alert is about a listed name, and its kind, its threshold and its
\* position say the rest.
LEMMA AlertOf ==
    ASSUME ReportInv, report # Nothing, NEW a \in report.alerts
    PROVE  /\ a.pos \in DOMAIN domains /\ a.pos \in Nat
           /\ a.kind \in Kinds
           /\ a.threshold \in Thresholds \cup {0} /\ a.threshold \in Int
           /\ a = AlertAt(now, certs, out, a.kind, a.threshold, a.pos)
           /\ a.expiresAt = DateAt(certs, out, a.kind, a.pos)
           /\ a.expiresAt \in Time
           /\ ~IsMismatch(a) =>
                /\ a.daysLeft = daysBetween(now, a.expiresAt)
                /\ ~IsZero(a.expiresAt)
                /\ IsExpired(a) <=> Before(a.expiresAt, now)
<1>1. a \in Evaluate(now, certs, out)
  BY ReportOf
<1>2. /\ a.kind \in Kinds
      /\ a.threshold \in Thresholds \cup {0}
      /\ a.kind \in CertKinds => a.pos \in DOMAIN certs
      /\ a.kind \in DomainKinds => a.pos \in Emitting(out)
      /\ a = AlertAt(now, certs, out, a.kind, a.threshold, a.pos)
      /\ a.kind # "domain_mismatch" =>
           /\ ~IsZero(DateAt(certs, out, a.kind, a.pos))
           /\ a.kind \in {"cert_expired", "domain_expired"}
                <=> Before(DateAt(certs, out, a.kind, a.pos), now)
  BY <1>1, EvaluateShape
<1>3. a.pos \in DOMAIN domains /\ a.pos \in Nat
  BY <1>2, ReportOf DEF Kinds, Emitting, CertsOK
<1>4. a.threshold \in Int
  <2>1. Thresholds \cup {0} \subseteq Int
    BY ThresholdsAssumption
  <2>2. a.threshold \in Thresholds \cup {0}
    BY <1>2
  <2> QED
    BY <2>1, <2>2
<1>5. DateAt(certs, out, a.kind, a.pos) \in Time
  BY <1>3, ReportOf DEF DateAt, CertsOK
<1>6. /\ AlertAt(now, certs, out, a.kind, a.threshold, a.pos).expiresAt
           = DateAt(certs, out, a.kind, a.pos)
      /\ a.kind # "domain_mismatch" =>
           AlertAt(now, certs, out, a.kind, a.threshold, a.pos).daysLeft
             = daysBetween(now, DateAt(certs, out, a.kind, a.pos))
  BY DEF AlertAt, MkAlert
<1>7. /\ a.expiresAt = DateAt(certs, out, a.kind, a.pos)
      /\ a.kind # "domain_mismatch" =>
           a.daysLeft = daysBetween(now, DateAt(certs, out, a.kind, a.pos))
  BY <1>2, <1>6
<1> QED
  BY <1>2, <1>3, <1>4, <1>5, <1>7 DEF IsMismatch, IsExpired

\* A run has finitely many alerts.
LEMMA FiniteAlerts ==
    ASSUME ReportInv, report # Nothing
    PROVE  IsFiniteSet(report.alerts)
<1> DEFINE T == (Kinds \X (Thresholds \cup {0})) \X DOMAIN domains
           f == [a \in report.alerts |-> <<<<a.kind, a.threshold>>, a.pos>>]
<1>1. IsFiniteSet(T)
  <2>1. Kinds = {"cert_expiring"} \cup {"cert_expired"} \cup {"domain_expiring"}
                \cup {"domain_expired"} \cup {"domain_mismatch"}
    BY DEF Kinds, CertKinds, DomainKinds
  <2>2. IsFiniteSet(Kinds)
    BY <2>1, FS_Singleton, FS_Union
  <2>3. IsFiniteSet(Thresholds \cup {0})
    BY ReportAssumption, FS_AddElement
  <2>4. IsFiniteSet(Kinds \X (Thresholds \cup {0}))
    BY <2>2, <2>3, FS_Product
  <2>5. IsFiniteSet(DOMAIN domains)
    <3>1. DOMAIN domains = 1 .. Len(domains) /\ Len(domains) \in Int /\ 1 \in Int
      BY ReportOf
    <3> QED
      BY <3>1, FS_Interval
  <2> QED
    BY <2>4, <2>5, FS_Product
<1>2. f \in [report.alerts -> T]
  <2>1. \A a \in report.alerts :
          a.kind \in Kinds /\ a.threshold \in Thresholds \cup {0} /\ a.pos \in DOMAIN domains
    BY AlertOf
  <2> QED
    BY <2>1
<1>3. ASSUME NEW a \in report.alerts, NEW b \in report.alerts, f[a] = f[b] PROVE a = b
  <2>1. a.kind = b.kind /\ a.threshold = b.threshold /\ a.pos = b.pos
    BY <1>3
  <2>2. /\ a = AlertAt(now, certs, out, a.kind, a.threshold, a.pos)
        /\ b = AlertAt(now, certs, out, b.kind, b.threshold, b.pos)
    BY AlertOf
  <2> QED
    BY <2>1, <2>2
<1> HIDE DEF f, T
<1>4. f \in Injection(report.alerts, T)
  BY <1>2, <1>3 DEF Injection, IsInjective
<1> QED
  BY <1>1, <1>4, FS_Injection

-----------------------------------------------------------------------------
(* The mail.                                                                 *)

Soon(a) == ~IsExpired(a) /\ ~IsMismatch(a)

\* html.go: of the alerts of a name and kind that expire, the most urgent has a line.
LEMMA MostUrgentLine ==
    ASSUME ReportInv, report # Nothing, NEW a \in report.alerts, Soon(a)
    PROVE  \E line \in bucketAndDedup(report.alerts).expiring :
             SameLine(line, a) /\ line.threshold <= a.threshold
<1> DEFINE S == {b \in report.alerts : Soon(b) /\ SameLine(b, a)}
           R == {r \in S \X S : \/ r[1].threshold < r[2].threshold
                                \/ r[1].threshold = r[2].threshold /\ r[1].pos <= r[2].pos}
<1>1. IsFiniteSet(S)
  BY FiniteAlerts, FS_Subset
<1>2. a \in S
  BY DEF SameLine
<1>3. \A b \in S : b.threshold \in Int /\ b.pos \in Nat
  BY AlertOf
<1>4. \A x, y \in S :
        <<x, y>> \in R <=>
          (x.threshold < y.threshold \/ (x.threshold = y.threshold /\ x.pos <= y.pos))
  OBVIOUS
<1>5. (\A x, y \in S : <<x, y>> \in R \/ <<y, x>> \in R)
      /\ (\A x, y, z \in S : <<x, y>> \in R /\ <<y, z>> \in R => <<x, z>> \in R)
  <2> HIDE DEF S, R
  <2>1. \A x, y \in S : <<x, y>> \in R \/ <<y, x>> \in R
    <3> TAKE x, y \in S
    <3>1. x.threshold \in Int /\ y.threshold \in Int /\ x.pos \in Nat /\ y.pos \in Nat
      BY <1>3
    <3> QED
      BY <1>4, <3>1
  <2>2. \A x, y, z \in S : <<x, y>> \in R /\ <<y, z>> \in R => <<x, z>> \in R
    <3> TAKE x, y, z \in S
    <3>1. /\ x.threshold \in Int /\ y.threshold \in Int /\ z.threshold \in Int
          /\ x.pos \in Nat /\ y.pos \in Nat /\ z.pos \in Nat
      BY <1>3
    <3> QED
      BY <1>4, <3>1
  <2> QED
    BY <2>1, <2>2
<1> HIDE DEF R
<1>6. PICK line \in S : \A b \in S : <<line, b>> \in R
  <2> HIDE DEF S
  <2>1. S # {}
    BY <1>2
  <2> QED
    BY <1>1, <1>5, <2>1, FiniteLeast
<1>7. \A b \in report.alerts :
        Soon(b) /\ SameLine(line, b) =>
          (line.threshold < b.threshold
           \/ (line.threshold = b.threshold /\ line.pos <= b.pos))
  BY <1>4, <1>6 DEF SameLine
<1>8. line \in bucketAndDedup(report.alerts).expiring
  BY <1>6, <1>7 DEF bucketAndDedup, Soon
<1>9. SameLine(line, a) /\ line.threshold <= a.threshold
  <2>1. line.threshold \in Int /\ a.threshold \in Int /\ <<line, a>> \in R
    BY <1>2, <1>3, <1>6
  <2>2. line.threshold < a.threshold \/ line.threshold = a.threshold
    <3> HIDE DEF S
    <3> QED
      BY <1>2, <1>4, <1>6, <2>1
  <2> QED
    BY <1>6, <2>1, <2>2
<1> QED
  BY <1>8, <1>9

LEMMA Sections ==
    ASSUME ReportInv, report # Nothing
    PROVE  LET s == report.mail.sections
           IN  /\ s.expired = {a \in report.alerts : IsExpired(a)}
               /\ s.mismatch = {a \in report.alerts : IsMismatch(a)}
               /\ s.expiring \subseteq {a \in report.alerts : Soon(a)}
               /\ s.expiring = bucketAndDedup(report.alerts).expiring
               /\ Lines = s.expired \cup s.expiring \cup s.mismatch
<1>1. report.mail.sections = bucketAndDedup(report.alerts)
  BY ReportOf DEF RenderHTML
<1> QED
  BY <1>1 DEF bucketAndDedup, Lines, Soon

\* README: the mail shows "the full picture".  Every alert has a line for its name
\* and kind that is at least as urgent, with its date when the name has one port.
THEOREM MailIsComplete == ReportSpec => []MailShowsEveryAlert
<1>1. ReportInv => MailShowsEveryAlert
  <2> SUFFICES ASSUME ReportInv, report # Nothing
               PROVE  /\ Lines \subseteq report.alerts
                      /\ \A a \in report.alerts : \E line \in Lines :
                           /\ SameLine(line, a)
                           /\ line.threshold <= a.threshold
                           /\ SameWritten(a.pos) = {a.pos} => line.expiresAt = a.expiresAt
    BY DEF MailShowsEveryAlert
  <2>1. Lines \subseteq report.alerts
    BY Sections
  <2>2. ASSUME NEW a \in report.alerts
        PROVE  \E line \in Lines : SameLine(line, a) /\ line.threshold <= a.threshold
    <3>1. CASE Soon(a)
      <4>1. PICK line \in bucketAndDedup(report.alerts).expiring :
              SameLine(line, a) /\ line.threshold <= a.threshold
        BY <3>1, MostUrgentLine
      <4>2. line \in Lines
        BY Sections
      <4> QED
        BY <4>1, <4>2
    <3>2. CASE ~Soon(a)
      <4>1. a \in Lines
        BY <3>2, Sections DEF Soon
      <4>2. SameLine(a, a) /\ a.threshold <= a.threshold
        BY AlertOf DEF SameLine
      <4> QED
        BY <4>1, <4>2
    <3> QED
      BY <3>1, <3>2
  <2>3. ASSUME NEW a \in report.alerts, NEW line \in report.alerts, SameLine(line, a),
               SameWritten(a.pos) = {a.pos}
        PROVE  line.expiresAt = a.expiresAt
    <3>1. line.pos \in SameWritten(a.pos)
      BY <2>3, AlertOf DEF SameWritten, SameLine
    <3>2. line.pos = a.pos /\ line.kind = a.kind
      BY <2>3, <3>1 DEF SameLine
    <3> QED
      BY <3>2, AlertOf
  <2> QED
    BY <2>1, <2>2, <2>3
<1> QED
  BY <1>1, ReportInvariant, PTL

\* README: the banner and the subject tell the worst state of the run.
THEOREM BannerTellsTheWorst == ReportSpec => []BannerIsWorst
<1>1. ReportInv => BannerIsWorst
  <2> SUFFICES ASSUME ReportInv, report # Nothing PROVE BannerIsWorst
    BY DEF BannerIsWorst
  <2> DEFINE s == report.mail.sections
             kinds == {a.kind : a \in report.alerts}
             expired == {"cert_expired", "domain_expired"}
             soon == {"cert_expiring", "domain_expiring"}
  <2>1. \A a \in report.alerts :
          /\ IsExpired(a) <=> a.kind \in expired
          /\ Soon(a) <=> a.kind \in soon
          /\ IsExpired(a) \/ Soon(a) \/ IsMismatch(a)
    <3>1. \A a \in report.alerts : a.kind \in Kinds
      BY AlertOf
    <3> QED
      BY <3>1 DEF IsExpired, Soon, IsMismatch, Kinds, CertKinds, DomainKinds
  <2>2. s.expired # {} <=> kinds \cap expired # {}
    BY <2>1, Sections
  <2>3. s.expiring # {} <=> kinds \cap soon # {}
    <3>1. s.expiring # {} <=> \E a \in report.alerts : Soon(a)
      BY Sections, MostUrgentLine
    <3> QED
      BY <2>1, <3>1
  <2>4. s.expired = {} /\ s.expiring = {} /\ s.mismatch = {} <=> kinds = {}
    <3>1. s.expired = {} /\ s.mismatch = {} <=>
            \A a \in report.alerts : ~IsExpired(a) /\ ~IsMismatch(a)
      BY Sections
    <3>2. s.expiring = {} <=> \A a \in report.alerts : ~Soon(a)
      BY Sections, MostUrgentLine
    <3>3. kinds = {} <=> report.alerts = {}
      OBVIOUS
    <3> QED
      BY <2>1, <3>1, <3>2, <3>3
  <2>5. IsFiniteSet(s.expiring)
    <3>1. s.expiring \subseteq report.alerts
      BY Sections
    <3> QED
      BY <3>1, FiniteAlerts, FS_Subset
  <2>6. Cardinality(s.expiring) = 0 <=> s.expiring = {}
    BY <2>5, FS_EmptySet
  <2>7. PICK summary :
          /\ report.mail.level = emailStatus(s)
          /\ report.mail.subject = buildSubject(s, summary)
    BY ReportOf DEF RenderHTML
  <2> HIDE DEF s, kinds, expired, soon
  <2>8. /\ emailStatus(s) = "critical" <=> s.expired # {}
        /\ emailStatus(s) \in {"critical", "warning"} <=> s.expired # {} \/ s.expiring # {}
        /\ emailStatus(s) = "ok" <=> s.expired = {} /\ s.expiring = {} /\ s.mismatch = {}
    BY DEF emailStatus
  <2>9. /\ "vencidos" \in DOMAIN buildSubject(s, summary) <=> s.expired # {}
        /\ "proximos" \in DOMAIN buildSubject(s, summary) =>
             buildSubject(s, summary).proximos = Cardinality(s.expiring)
    BY DEF buildSubject, emailStatus
  <2> QED
    BY <2>2, <2>3, <2>4, <2>6, <2>7, <2>8, <2>9 DEF BannerIsWorst, kinds, expired, soon
<1> QED
  BY <1>1, ReportInvariant, PTL

-----------------------------------------------------------------------------
(* The sheet.                                                                *)

\* Between two instants there are as many dates as whole days, or one more.
LEMMA DatesAndDays ==
    ASSUME NEW x \in Nat, NEW y \in Nat, x <= y
    PROVE  /\ (y \div TicksPerDay) - (x \div TicksPerDay) - ((y - x) \div TicksPerDay) \in {0, 1}
           /\ (y - x) \div TicksPerDay >= 0
<1> DEFINE T == TicksPerDay
           a == y \div T
           b == x \div T
           c == (y - x) \div T
<1>1. T \in Nat \ {0}
  BY TicksPerDayAssumption
<1> HIDE DEF T
<1>2. a \in Int /\ b \in Int /\ c \in Int
  BY <1>1
<1>3. \A q \in Nat : q \div T \in Nat
  BY <1>1
<1>4. c >= 0
  BY <1>3
<1>5. x \div T + (y - x) \div T <= y \div T
  BY <1>1
<1>6. y \div T <= x \div T + (y - x) \div T + 1
  BY <1>1
<1>7. a - b - c \in 0 .. 1
  <2> HIDE DEF a, b, c
  <2>1. b + c <= a /\ a <= b + c + 1
    BY <1>5, <1>6 DEF a, b, c
  <2> QED
    BY <1>2, <2>1
<1> QED
  BY <1>4, <1>7 DEF T

\* The cells of a row, where the name has one port.
LEMMA RowOf ==
    ASSUME ReportInv, report # Nothing, NEW p \in DOMAIN report.sheet
    PROVE  /\ p \in DOMAIN domains
           /\ report.sheet[p].alerts = {a \in report.alerts : Written(a.pos) = Written(p)}
           /\ SameWritten(p) = {p} =>
                /\ ~IsZero(certs[p].NotAfter) =>
                     report.sheet[p].cert_days_left = {daysLeftInt(certs[p].NotAfter)}
                /\ ~IsZero(out[p].ExpiresAt) =>
                     report.sheet[p].domain_days_left = {daysLeftInt(out[p].ExpiresAt)}
<1> DEFINE entry == BuildSnapshot(report.alerts)[p]
<1>1. p \in DOMAIN domains /\ report.sheet[p] = Row(entry)
  BY ReportOf DEF MarshalXLSX, BuildSnapshot
<1>2. /\ entry.Alerts = {a \in report.alerts : Written(a.pos) = Written(p)}
      /\ entry.Cert = certs[Last(SameWritten(p))]
      /\ entry.Domain = out[Last(SameWritten(p))]
  BY <1>1 DEF BuildSnapshot
<1>3. p \in Nat
  BY <1>1, ReportOf
<1>4. Last({p}) = p
  BY <1>3 DEF Last
<1> HIDE DEF entry
<1>5. /\ Row(entry).alerts = entry.Alerts
      /\ ~IsZero(entry.Cert.NotAfter) =>
           Row(entry).cert_days_left = {daysLeftInt(entry.Cert.NotAfter)}
      /\ ~IsZero(entry.Domain.ExpiresAt) =>
           Row(entry).domain_days_left = {daysLeftInt(entry.Domain.ExpiresAt)}
  BY DEF Row
<1> QED
  BY <1>1, <1>2, <1>4, <1>5

\* An alert and the row it is on count the days to one date, the one in dates and
\* the other in whole days: never a day apart, and the alert shows the more.
LEMMA CellAndAlert ==
    ASSUME Offsets = {0}, NEW t \in Time
    PROVE  LET n == daysLeftInt(t)
               d == daysBetween(now, t)
           IN  IF Before(t, now) THEN n - d \in {0, 1} /\ n <= 0
                                 ELSE d - n \in {0, 1} /\ n >= 0
<1> DEFINE T == TicksPerDay
           u == t.at
           v == now.at
<1>1. u \in Nat /\ v \in Nat /\ t.off = 0 /\ now.off = 0
  BY ReportAssumption DEF Time
<1>2. daysBetween(now, t) = (u \div T) - (v \div T)
  <2>1. t.at + t.off = u /\ now.at + now.off = v
    BY <1>1
  <2> QED
    BY <2>1 DEF daysBetween, LocalDay
<1>3. T \in Nat \ {0}
  BY TicksPerDayAssumption
<1>4. (u \div T) \in Int /\ (v \div T) \in Int
      /\ ((u - v) \div T) \in Int /\ ((v - u) \div T) \in Int
  BY <1>1, <1>3
<1>5. CASE Before(t, now)
  <2>1. u <= v
    BY <1>1, <1>5 DEF Before
  <2>2. /\ (v \div T) - (u \div T) - ((v - u) \div T) \in {0, 1}
        /\ (v - u) \div T >= 0
    BY <1>1, <2>1, DatesAndDays
  <2>3. daysLeftInt(t) = -((v - u) \div T)
    BY <1>5 DEF daysLeftInt
  <2> HIDE DEF T, u, v
  <2> QED
    BY <1>2, <1>4, <1>5, <2>2, <2>3
<1>6. CASE ~Before(t, now)
  <2>1. v <= u
    BY <1>1, <1>6 DEF Before
  <2>2. /\ (u \div T) - (v \div T) - ((u - v) \div T) \in {0, 1}
        /\ (u - v) \div T >= 0
    BY <1>1, <2>1, DatesAndDays
  <2>3. daysLeftInt(t) = (u - v) \div T
    BY <1>6 DEF daysLeftInt
  <2> HIDE DEF T, u, v
  <2> QED
    BY <1>2, <1>4, <1>6, <2>2, <2>3
<1> QED
  BY <1>5, <1>6

\* engine.go and xlsx.go: the days of an alert and the days of its row agree, where
\* every date is written in UTC.
THEOREM SheetAgreesWithAlerts ==
    ASSUME Offsets = {0}
    PROVE  ReportSpec => []DaysLeftAgree
<1>1. ReportInv => DaysLeftAgree
  <2> SUFFICES ASSUME ReportInv, report # Nothing,
                      NEW p \in DOMAIN report.sheet, SameWritten(p) = {p},
                      NEW a \in report.sheet[p].alerts, ~IsMismatch(a)
               PROVE  LET cell == IF a.kind \in CertKinds
                                  THEN report.sheet[p].cert_days_left
                                  ELSE report.sheet[p].domain_days_left
                      IN  \E n \in cell :
                            IF IsExpired(a) THEN n - a.daysLeft \in {0, 1} /\ n <= 0
                                            ELSE a.daysLeft - n \in {0, 1} /\ n >= 0
    BY DEF DaysLeftAgree
  <2>1. a \in report.alerts /\ Written(a.pos) = Written(p)
    BY RowOf
  <2>2. a.pos = p
    <3>1. a.pos \in SameWritten(p)
      BY <2>1, AlertOf DEF SameWritten
    <3> QED
      BY <3>1
  <2>3. /\ a.expiresAt = DateAt(certs, out, a.kind, p) /\ a.expiresAt \in Time
        /\ a.daysLeft = daysBetween(now, a.expiresAt)
        /\ ~IsZero(a.expiresAt)
        /\ IsExpired(a) <=> Before(a.expiresAt, now)
    BY <2>1, <2>2, AlertOf
  <2> DEFINE n == daysLeftInt(a.expiresAt)
             cell == IF a.kind \in CertKinds THEN report.sheet[p].cert_days_left
                                             ELSE report.sheet[p].domain_days_left
  <2>4. n \in cell
    BY <2>3, RowOf DEF DateAt
  <2>5. IF IsExpired(a) THEN n - a.daysLeft \in {0, 1} /\ n <= 0
                        ELSE a.daysLeft - n \in {0, 1} /\ n >= 0
    BY <2>3, CellAndAlert
  <2> QED
    BY <2>4, <2>5
<1> QED
  BY <1>1, ReportInvariant, PTL

-----------------------------------------------------------------------------
(* One name speaks for each registration.                                    *)

\* enrich.go: when an entry has a date, the date of the group is one of those.
LEMMA GroupDateGiven ==
    ASSUME NEW L \in Inputs, NEW x, WithFallback(L, Members(L, x)) # {}
    PROVE  /\ GroupFallback(L, x) \in
                {L[p].ExpiryFallback : p \in WithFallback(L, Members(L, x))}
           /\ ~IsZero(GroupFallback(L, x))
<1> DEFINE n == Len(L)
           A == ApexMembers(L, x)
           M == Members(L, x)
<1>1. n \in Nat /\ DOMAIN L = 1 .. n
  BY InputList
<1>2. A \subseteq M /\ M \subseteq 1 .. n
  BY <1>1 DEF ApexMembers, Members
<1>3. GroupFallback(L, x) =
        IF WithFallback(L, A) # {} THEN L[Last(WithFallback(L, A))].ExpiryFallback
        ELSE L[First(WithFallback(L, M))].ExpiryFallback
  BY DEF GroupFallback
<1> HIDE DEF n, A, M
<1>4. WithFallback(L, A) \subseteq WithFallback(L, M)
  BY <1>2 DEF WithFallback
<1>5. WithFallback(L, M) \subseteq 1 .. n /\ WithFallback(L, M) \subseteq Nat
  BY <1>1, <1>2, WithFallbackIn
<1>6. WithFallback(L, A) # {} => Last(WithFallback(L, A)) \in WithFallback(L, M)
  BY <1>1, <1>4, <1>5, LastIn
<1>7. First(WithFallback(L, M)) \in WithFallback(L, M)
  BY <1>5, FirstIn DEF M
<1>8. PICK p \in WithFallback(L, M) : GroupFallback(L, x) = L[p].ExpiryFallback
  BY <1>3, <1>6, <1>7
<1>9. ~IsZero(L[p].ExpiryFallback)
  BY <1>8 DEF WithFallback
<1> QED
  BY <1>8, <1>9 DEF M

\* enrich.go: the representative of a registration is one of its names, whether the
\* domain itself is listed or not.
LEMMA RepresentativeIn ==
    ASSUME NEW L \in Inputs, NEW x \in Apexes(L)
    PROVE  Representative(L, x) \in Members(L, x)
<1>1. Len(L) \in Nat /\ DOMAIN L = 1 .. Len(L)
  BY InputList
<1>2. /\ Members(L, x) \subseteq 1 .. Len(L) /\ Members(L, x) \subseteq Nat
      /\ Members(L, x) # {}
      /\ ApexMembers(L, x) \subseteq Members(L, x)
      /\ ApexMembers(L, x) \subseteq 1 .. Len(L)
  BY <1>1 DEF Members, ApexMembers, Apexes
<1>3. First(Members(L, x)) \in Members(L, x)
  BY <1>2, FirstIn
<1>4. ApexMembers(L, x) # {} => Last(ApexMembers(L, x)) \in ApexMembers(L, x)
  BY <1>1, <1>2, LastIn
<1> QED
  BY <1>2, <1>3, <1>4 DEF Representative

\* enrich.go: the representative of a group emits, with the answer of the group.
LEMMA InfoOfRepresentative ==
    ASSUME NEW L, NEW p, NEW fallback, NEW answer
    PROVE  LET info == MemberInfo(L, p, p, fallback, answer)
               used == Substituted(answer, fallback)
           IN  info.IsApex /\ info.Err = used.Err /\ info.ExpiresAt = used.ExpiresAt
<1> DEFINE info == MemberInfo(L, p, p, fallback, answer)
           used == Substituted(answer, fallback)
<1>1. info = [Domain |-> L[p].Name, Err |-> used.Err, ExpiresAt |-> used.ExpiresAt,
              IsApex |-> TRUE,
              FallbackExpected |-> IF Mismatch(used, fallback) THEN fallback ELSE ZeroTime]
  BY DEF MemberInfo
<1> HIDE DEF info, used
<1>2. info.IsApex
  BY <1>1
<1>3. info.Err = used.Err /\ info.ExpiresAt = used.ExpiresAt
  BY <1>1
<1> QED
  BY <1>2, <1>3 DEF info, used

\* engine.go: a date that has to be announced has an alert of its record.
LEMMA DueIsAnnounced ==
    ASSUME NEW infos, NEW found, NEW p \in Emitting(infos), IsDue(infos[p].ExpiresAt)
    PROVE  \E a \in Evaluate(now, found, infos) :
             /\ a.kind \in {"domain_expiring", "domain_expired"}
             /\ a.pos = p
             /\ a.expiresAt = infos[p].ExpiresAt
<1> DEFINE t == infos[p].ExpiresAt
           E == evalOne(now, p, infos[p].Domain, t, "domain_expiring", "domain_expired")
<1>1. E \subseteq Evaluate(now, found, infos)
  BY DEF Evaluate, ExpiryAlerts
<1>2. ~IsZero(t) /\ (Before(t, now) \/ \E u \in Thresholds : daysBetween(now, t) <= u)
  BY DEF IsDue
<1>3. CASE Before(t, now)
  <2> DEFINE a == MkAlert(infos[p].Domain, "domain_expired", 0, t, daysBetween(now, t), p)
  <2>1. a \in E
    BY <1>2, <1>3 DEF evalOne
  <2>2. a.kind = "domain_expired" /\ a.pos = p /\ a.expiresAt = t
    BY DEF MkAlert
  <2> HIDE DEF a, E, t
  <2> QED
    BY <1>1, <2>1, <2>2 DEF t
<1>4. CASE ~Before(t, now)
  <2>1. PICK u \in Thresholds : daysBetween(now, t) <= u
    BY <1>2, <1>4
  <2> DEFINE a == MkAlert(infos[p].Domain, "domain_expiring", u, t, daysBetween(now, t), p)
  <2>2. a \in E
    BY <1>2, <1>4, <2>1 DEF evalOne
  <2>3. a.kind = "domain_expiring" /\ a.pos = p /\ a.expiresAt = t
    BY DEF MkAlert
  <2> HIDE DEF a, E, t
  <2> QED
    BY <1>1, <2>2, <2>3 DEF t
<1> QED
  BY <1>3, <1>4

\* A registration that is due is announced, under exactly one of its names, for every
\* list of any length, with the domain itself on it or not.
THEOREM OneNameSpeaks == ReportSpec => []RegistrationIsWatched
<1>1. ReportInv => RegistrationIsWatched
  <2> SUFFICES ASSUME ReportInv, report # Nothing, NEW x \in Apexes(domains),
                      DatesInForce(x) # {}, \A t \in DatesInForce(x) : IsDue(t)
               PROVE  LET raised == {a \in report.alerts :
                                       /\ a.kind \in {"domain_expiring", "domain_expired"}
                                       /\ a.pos \in Members(domains, x)
                                       /\ a.expiresAt \in DatesInForce(x)}
                      IN  \E p \in Members(domains, x) : {a.pos : a \in raised} = {p}
    BY DEF RegistrationIsWatched
  <2> DEFINE r == Representative(domains, x)
             date == GroupFallback(domains, x)
             used == Substituted(lookups[x], date)
             raised == {a \in report.alerts :
                          /\ a.kind \in {"domain_expiring", "domain_expired"}
                          /\ a.pos \in Members(domains, x)
                          /\ a.expiresAt \in DatesInForce(x)}
  <2>1. /\ domains \in Inputs
        /\ out = Enrich(domains, lookups)
        /\ report.alerts = Evaluate(now, certs, out)
    BY ReportOf, DeclaredWhenDone DEF ReportInv, IInv, EnrichAsDeclared
  <2>2. r \in Members(domains, x)
    BY <2>1, RepresentativeIn
  <2>3. r \in DOMAIN domains /\ Apex(domains, r) = x
    BY <2>2 DEF Members
  <2>4. /\ out[r].IsApex
        /\ out[r].Err = used.Err
        /\ out[r].ExpiresAt = used.ExpiresAt
    <3>1. out[r] = MemberInfo(domains, r, r, date, lookups[x])
      BY <2>1, <2>3 DEF Enrich
    <3> HIDE DEF r, date
    <3> QED
      BY <3>1, InfoOfRepresentative DEF used
  <2>5. ~used.Err /\ used.ExpiresAt \in DatesInForce(x)
    <3>1. CASE ~lookups[x].Err
      BY <3>1 DEF Substituted, DatesInForce
    <3>2. CASE lookups[x].Err
      <4>1. DatesInForce(x) =
              {domains[p].ExpiryFallback : p \in WithFallback(domains, Members(domains, x))}
        BY <3>2 DEF DatesInForce
      <4>2. date \in DatesInForce(x) /\ ~IsZero(date)
        BY <2>1, <4>1, GroupDateGiven
      <4> HIDE DEF date
      <4> QED
        BY <3>2, <4>2 DEF Substituted
    <3> QED
      BY <3>1, <3>2
  <2> HIDE DEF r, date, used
  <2>6. r \in Emitting(out)
    <3>1. DOMAIN out = DOMAIN domains
      BY <2>1 DEF Enrich
    <3> QED
      BY <2>3, <2>4, <2>5, <3>1 DEF Emitting
  <2>7. PICK a \in report.alerts : /\ a.kind \in {"domain_expiring", "domain_expired"}
                                   /\ a.pos = r
                                   /\ a.expiresAt = out[r].ExpiresAt
    BY <2>1, <2>4, <2>5, <2>6, DueIsAnnounced
  <2>8. a \in raised
    BY <2>2, <2>4, <2>5, <2>7
  <2>9. ASSUME NEW b \in raised PROVE b.pos = r
    <3>1. b \in Evaluate(now, certs, out) /\ b.kind \in DomainKinds
          /\ b.pos \in Members(domains, x)
      BY <2>1 DEF DomainKinds
    <3>2. b.pos \in Emitting(Enrich(domains, lookups))
      BY <2>1, <3>1, RegistrationAlert
    <3>3. b.pos = Representative(domains, Apex(domains, b.pos))
      BY <3>2, EmittingRepresents
    <3> QED
      BY <3>1, <3>3 DEF Members, r
  <2> HIDE DEF raised
  <2>10. {b.pos : b \in raised} = {r}
    BY <2>7, <2>8, <2>9
  <2> QED
    BY <2>2, <2>10 DEF raised
<1> QED
  BY <1>1, ReportInvariant, PTL

-----------------------------------------------------------------------------
(* The counts.                                                               *)

Fields == {"Total", "Apex", "Subdomain", "Healthy", "Alerted", "NoCertData"}

\* The entries that a count is of.
Counted(f, found) ==
    {p \in DOMAIN domains :
       CASE f = "Total" -> TRUE
         [] f = "Apex" -> isApex(p)
         [] f = "Subdomain" -> ~isApex(p)
         [] f = "Healthy" -> classify(p, found) = "healthy"
         [] f = "Alerted" -> classify(p, found) = "alerted"
         [] OTHER -> classify(p, found) = "nocert"}

\* summary.go: the counts of the entries P are those of all entries, kept to P.
LEMMA StatCounts ==
    ASSUME NEW P, P \subseteq DOMAIN domains, NEW found
    PROVE  /\ Stat(P, found) = [f \in Fields |-> Stat(P, found)[f]]
           /\ \A f \in Fields :
                Stat(P, found)[f] = Cardinality({p \in Counted(f, found) : p \in P})
<1> DEFINE in(bucket) == {p \in P : classify(p, found) = bucket}
           apexes == {p \in P : isApex(p)}
           N(f) == Cardinality({p \in Counted(f, found) : p \in P})
<1>1. /\ {p \in Counted("Total", found) : p \in P} = P
      /\ {p \in Counted("Apex", found) : p \in P} = apexes
      /\ {p \in Counted("Subdomain", found) : p \in P} = P \ apexes
      /\ {p \in Counted("Healthy", found) : p \in P} = in("healthy")
      /\ {p \in Counted("Alerted", found) : p \in P} = in("alerted")
      /\ {p \in Counted("NoCertData", found) : p \in P} = in("nocert")
  BY DEF Counted
<1>2. Stat(P, found) =
        [Total |-> Cardinality(P), Apex |-> Cardinality(apexes),
         Subdomain |-> Cardinality(P \ apexes), Healthy |-> Cardinality(in("healthy")),
         Alerted |-> Cardinality(in("alerted")), NoCertData |-> Cardinality(in("nocert"))]
  BY DEF Stat
<1> HIDE DEF in, apexes
<1>3. Stat(P, found) =
        [Total |-> N("Total"), Apex |-> N("Apex"), Subdomain |-> N("Subdomain"),
         Healthy |-> N("Healthy"), Alerted |-> N("Alerted"), NoCertData |-> N("NoCertData")]
  BY <1>1, <1>2
<1> HIDE DEF N
<1>4. \A f \in Fields : Stat(P, found)[f] = N(f)
  BY <1>3 DEF Fields
<1>5. Stat(P, found) = [f \in Fields |-> Stat(P, found)[f]]
  BY <1>3 DEF Fields
<1> QED
  BY <1>4, <1>5 DEF N

\* html.go: the table of sources adds up to the counts of all entries.
LEMMA SourcesAddUp ==
    ASSUME IsFiniteSet(DOMAIN domains), NEW found
    PROVE  sourceTable(BuildSummary(found).BySource) = BuildSummary(found).All
<1> DEFINE D == DOMAIN domains
           S == {SourceOf[Written(p)] : p \in D}
           from(s) == {p \in D : SourceOf[Written(p)] = s}
           by == BuildSummary(found).BySource
<1>1. /\ DOMAIN by = S
      /\ \A s \in S : by[s] = Stat(from(s), found)
      /\ BuildSummary(found).All = Stat(D, found)
  BY DEF BuildSummary
<1> HIDE DEF by
<1>2. ASSUME NEW f \in Fields
      PROVE  Cardinality(UNION {{s} \X (1 .. by[s][f]) : s \in S}) = Stat(D, found)[f]
  <2> DEFINE C == Counted(f, found)
             part == [p \in C |-> SourceOf[Written(p)]]
             c == [s \in S |-> by[s][f]]
  <2>1. C \subseteq D /\ IsFiniteSet(C)
    BY FS_Subset DEF Counted
  <2> HIDE DEF C
  <2>2. part \in [C -> S]
    BY <2>1
  <2>3. ASSUME NEW s \in S PROVE c[s] = Cardinality({p \in C : part[p] = s})
    <3>1. from(s) \subseteq D /\ by[s] = Stat(from(s), found) /\ c[s] = by[s][f]
      BY <1>1
    <3>2. {p \in C : p \in from(s)} = {p \in C : part[p] = s}
      BY <2>1
    <3> HIDE DEF c, from, part
    <3>3. Stat(from(s), found)[f] = Cardinality({p \in C : p \in from(s)})
      BY <3>1, StatCounts DEF C
    <3> QED
      BY <3>1, <3>2, <3>3
  <2>4. UNION {{s} \X (1 .. by[s][f]) : s \in S} = Numbered(S, c)
    BY DEF Numbered
  <2> HIDE DEF part, c
  <2>5. Cardinality(Numbered(S, c)) = Cardinality(C)
    <3>1. \A s \in S : c[s] = Cardinality(PartOf(C, part, s))
      BY <2>3 DEF PartOf
    <3> HIDE DEF S
    <3> QED
      BY <2>1, <2>2, <3>1, CountByParts
  <2>6. {p \in C : p \in D} = C
    BY <2>1
  <2>7. Stat(D, found)[f] = Cardinality({p \in C : p \in D})
    BY StatCounts DEF C
  <2> QED
    BY <2>4, <2>5, <2>6, <2>7
<1>3. sourceTable(by) = [f \in Fields |-> Cardinality(UNION {{s} \X (1 .. by[s][f]) : s \in S})]
  BY <1>1 DEF sourceTable, Fields
<1>4. Stat(D, found) = [f \in Fields |-> Stat(D, found)[f]]
  BY StatCounts
<1> HIDE DEF D, S
<1>5. sourceTable(by) = Stat(D, found)
  BY <1>2, <1>3, <1>4
<1> QED
  BY <1>1, <1>5 DEF by

\* summary.go: what the mail counts, and what its table adds up to.
LEMMA Kpis ==
    ASSUME ReportInv, report # Nothing
    PROVE  /\ IsFiniteSet(DOMAIN domains)
           /\ report.mail.totals = report.mail.kpis
           /\ \A f \in Fields :
                report.mail.kpis[f] = Cardinality(Counted(f, report.alerts))
<1> DEFINE found == report.alerts
<1>1. IsFiniteSet(DOMAIN domains)
  <2>1. DOMAIN domains = 1 .. Len(domains) /\ Len(domains) \in Int /\ 1 \in Int
    BY ReportOf
  <2> QED
    BY <2>1, FS_Interval
<1>2. /\ report.mail.kpis = BuildSummary(found).All
      /\ report.mail.totals = sourceTable(BuildSummary(found).BySource)
  BY ReportOf DEF RenderHTML
<1> HIDE DEF found
<1>3. report.mail.totals = report.mail.kpis
  BY <1>1, <1>2, SourcesAddUp
<1>4. report.mail.kpis = Stat(DOMAIN domains, found)
  BY <1>2 DEF BuildSummary
<1>5. ASSUME NEW f \in Fields
      PROVE  Stat(DOMAIN domains, found)[f] = Cardinality(Counted(f, found))
  <2>1. {p \in Counted(f, found) : p \in DOMAIN domains} = Counted(f, found)
    BY DEF Counted
  <2>2. Stat(DOMAIN domains, found)[f]
          = Cardinality({p \in Counted(f, found) : p \in DOMAIN domains})
    BY StatCounts
  <2> QED
    BY <2>1, <2>2
<1> QED
  BY <1>1, <1>3, <1>4, <1>5 DEF found

\* summary.go and snapshot.go: a row with an alert is an entry that is counted as
\* alerted, and the other way round where a name is written in one way.
LEMMA RowIsCounted ==
    ASSUME ReportInv, report # Nothing, NEW p \in DOMAIN report.sheet
    PROVE  LET row == report.sheet[p]
               bucket == classify(p, report.alerts)
           IN  /\ row.alerts # {} => bucket = "alerted"
               /\ SameName(p) = SameWritten(p) =>
                    /\ bucket = "alerted" => row.alerts # {}
                    /\ bucket = "nocert" <=> row.alerts = {} /\ row.cert_error
<1> DEFINE row == report.sheet[p]
           bucket == classify(p, report.alerts)
           named == domains[p].Name \in AlertedNames(report.alerts)
<1>1. /\ p \in DOMAIN domains
      /\ row.alerts = {a \in report.alerts : Written(a.pos) = Written(p)}
  BY RowOf
<1>2. row.cert_error = certs[Last(SameWritten(p))].Err
  <2>1. row = Row(BuildSnapshot(report.alerts)[p])
    BY <1>1, ReportOf DEF MarshalXLSX, BuildSnapshot
  <2>2. BuildSnapshot(report.alerts)[p].Cert = certs[Last(SameWritten(p))]
    BY <1>1 DEF BuildSnapshot
  <2>3. row.cert_error = BuildSnapshot(report.alerts)[p].Cert.Err
    <3> DEFINE entry == BuildSnapshot(report.alerts)[p]
    <3> HIDE DEF entry, row
    <3>1. row = Row(entry)
      BY <2>1 DEF entry
    <3>2. Row(entry).cert_error = entry.Cert.Err
      BY DEF Row
    <3> QED
      BY <3>1, <3>2 DEF entry
  <2> QED
    BY <2>2, <2>3
<1>3. certs[Last(SameWritten(p))].Err \in BOOLEAN
  <2>1. p \in SameWritten(p) /\ SameWritten(p) \subseteq DOMAIN domains
    BY <1>1 DEF SameWritten
  <2>2. Last(SameWritten(p)) \in DOMAIN domains
    <3>1. SameWritten(p) \subseteq 1 .. Len(domains) /\ Len(domains) \in Nat
      BY <2>1, ReportOf
    <3> QED
      BY <2>1, <3>1, LastIn
  <2> QED
    BY <2>2, ReportOf DEF CertsOK
<1>4. row.alerts # {} => named
  <2> SUFFICES ASSUME NEW a \in row.alerts PROVE named
    OBVIOUS
  <2>1. a \in report.alerts /\ Written(a.pos) = Written(p)
    BY <1>1
  <2>2. a.pos \in DOMAIN domains
    BY <2>1, AlertOf
  <2>3. domains \in Inputs
    BY DEF ReportInv, IInv
  <2>4. domains[a.pos].Name = domains[p].Name
    BY <1>1, <2>1, <2>2, <2>3, ReportAssumption DEF Written
  <2> QED
    BY <2>1, <2>4 DEF AlertedNames
<1>5. SameName(p) = SameWritten(p) /\ named => row.alerts # {}
  <2> SUFFICES ASSUME SameName(p) = SameWritten(p), named PROVE row.alerts # {}
    OBVIOUS
  <2>1. PICK a \in report.alerts : domains[a.pos].Name = domains[p].Name
    BY DEF AlertedNames
  <2>2. a.pos \in SameName(p)
    BY <2>1, AlertOf DEF SameName
  <2>3. Written(a.pos) = Written(p)
    BY <2>2 DEF SameWritten
  <2> QED
    BY <1>1, <2>1, <2>3
<1>6. /\ bucket = "alerted" <=> named
      /\ bucket = "nocert" <=> ~named /\ certs[Last(SameName(p))].Err
  BY DEF classify
<1> HIDE DEF row, bucket, named
<1>7. row.alerts # {} => bucket = "alerted"
  BY <1>4, <1>6
<1>8. SameName(p) = SameWritten(p) =>
        /\ bucket = "alerted" => row.alerts # {}
        /\ bucket = "nocert" <=> row.alerts = {} /\ row.cert_error
  BY <1>2, <1>3, <1>4, <1>5, <1>6
<1> QED
  BY <1>7, <1>8 DEF row, bucket

\* summary.go: an entry is counted as healthy, as alerted or as without data, once.
LEMMA BucketsAddUp ==
    ASSUME ReportInv, report # Nothing
    PROVE  report.mail.kpis.Healthy + report.mail.kpis.Alerted + report.mail.kpis.NoCertData
             = report.mail.kpis.Total
<1> DEFINE N(f) == Counted(f, report.alerts)
           h == N("Healthy")
           a == N("Alerted")
           n == N("NoCertData")
<1>1. /\ N("Total") = DOMAIN domains /\ N("Total") = (h \cup a) \cup n
      /\ h \cap a = {} /\ (h \cup a) \cap n = {}
      /\ h \subseteq DOMAIN domains /\ a \subseteq DOMAIN domains /\ n \subseteq DOMAIN domains
  <2>1. \A p : classify(p, report.alerts) \in {"alerted", "nocert", "healthy"}
    BY DEF classify
  <2> QED
    BY <2>1 DEF Counted
<1>2. /\ report.mail.kpis.Healthy = Cardinality(h) /\ report.mail.kpis.Alerted = Cardinality(a)
      /\ report.mail.kpis.NoCertData = Cardinality(n)
      /\ report.mail.kpis.Total = Cardinality(N("Total"))
  BY Kpis DEF Fields
<1> HIDE DEF h, a, n, N
<1>3. IsFiniteSet(h) /\ IsFiniteSet(a) /\ IsFiniteSet(n) /\ IsFiniteSet(h \cup a)
  BY <1>1, Kpis, FS_Subset, FS_Union
<1>4. Cardinality(h \cup a) = Cardinality(h) + Cardinality(a)
  BY <1>1, <1>3, CountOfTwo
<1>5. Cardinality((h \cup a) \cup n) = Cardinality(h \cup a) + Cardinality(n)
  BY <1>1, <1>3, CountOfTwo
<1> QED
  BY <1>1, <1>2, <1>4, <1>5

\* summary.go, snapshot.go and html.go: the counts of the mail are those of the
\* sheet attached to it, and its table of sources adds up to them.
THEOREM CountsMatchSheet == ReportSpec => []KPIsMatchAttachment
<1>1. ReportInv => KPIsMatchAttachment
  <2> SUFFICES ASSUME ReportInv, report # Nothing PROVE KPIsMatchAttachment
    BY DEF KPIsMatchAttachment
  <2> DEFINE rows == report.sheet
             kpis == report.mail.kpis
             alerted == {p \in DOMAIN rows : rows[p].alerts # {}}
             nocert == {p \in DOMAIN rows \ alerted : rows[p].cert_error}
             A == Counted("Alerted", report.alerts)
             N == Counted("NoCertData", report.alerts)
  <2>1. DOMAIN rows = DOMAIN domains
    BY ReportOf DEF MarshalXLSX, BuildSnapshot
  <2>2. kpis.Alerted = Cardinality(A) /\ kpis.NoCertData = Cardinality(N)
    BY Kpis DEF Fields
  <2>3. /\ \A p : p \in A <=> p \in DOMAIN rows /\ classify(p, report.alerts) = "alerted"
        /\ \A p : p \in N <=> p \in DOMAIN rows /\ classify(p, report.alerts) = "nocert"
    BY <2>1 DEF Counted
  <2> HIDE DEF A, N
  <2>4. Cardinality(alerted) <= kpis.Alerted
    <3>1. alerted \subseteq A
      BY <2>3, RowIsCounted
    <3>2. IsFiniteSet(A)
      <4>1. A \subseteq DOMAIN domains
        BY <2>1, <2>3
      <4> QED
        BY <4>1, Kpis, FS_Subset
    <3> QED
      BY <2>2, <3>1, <3>2, FS_Subset
  <2>5. ASSUME \A p \in DOMAIN rows : SameName(p) = SameWritten(p)
        PROVE  alerted = A /\ nocert = N
    <3>1. alerted = A
      BY <2>3, <2>5, RowIsCounted
    <3>2. \A p \in DOMAIN rows : p \in nocert <=> p \in N
      BY <2>3, <2>5, RowIsCounted
    <3> QED
      BY <2>3, <3>1, <3>2
  <2> QED
    BY <2>2, <2>4, <2>5, Kpis, BucketsAddUp DEF KPIsMatchAttachment
<1> QED
  BY <1>1, ReportInvariant, PTL
=============================================================================
