----------------------------- MODULE Enrichment -----------------------------
(***************************************************************************)
(* internal/rdap/enrich.go as a function: what Enrich returns for a list   *)
(* of domains, given the answer of the one lookup made for each            *)
(* registrable domain.  EnrichGroups models how the code computes it.        *)
(*                                                                         *)
(* A list of domains is a function from a finite set of positions, in      *)
(* slice order, to [Name, ExpiryFallback].  Names are case-folded.         *)
(***************************************************************************)
EXTENDS Dates

CONSTANTS
    RegistrableDomain,       \* publicsuffix: name -> its registrable domain
    MismatchToleranceDays    \* config "rdap.mismatch_tolerance_days"

ASSUME ToleranceAssumption == MismatchToleranceDays \in Int

Apex(domains, p) == RegistrableDomain[domains[p].Name]
Apexes(domains) == {Apex(domains, p) : p \in DOMAIN domains}
Members(domains, x) == {p \in DOMAIN domains : Apex(domains, p) = x}
ApexMembers(domains, x) == {p \in Members(domains, x) : domains[p].Name = x}
WithFallback(domains, S) == {p \in S : ~IsZero(domains[p].ExpiryFallback)}

First(S) == CHOOSE p \in S : \A q \in S : p <= q
Last(S) == CHOOSE p \in S : \A q \in S : q <= p

\* Mutant of Representative: the first member, the apex or not.
RepresentativeFirst(domains, x) == First(Members(domains, x))

\* The member that emits the alerts of the registration: the apex itself (the
\* last entry that names it), else the first entry of the group.
Representative(domains, x) ==
    IF ApexMembers(domains, x) # {} THEN Last(ApexMembers(domains, x))
                                    ELSE First(Members(domains, x))

\* The YAML date of the group: the apex's own wins over one on a subdomain.
GroupFallback(domains, x) ==
    LET onApex == WithFallback(domains, ApexMembers(domains, x))
        onAny  == WithFallback(domains, Members(domains, x))
    IN  IF onApex # {} THEN domains[Last(onApex)].ExpiryFallback
        ELSE IF onAny # {} THEN domains[First(onAny)].ExpiryFallback
        ELSE ZeroTime

absDayDiff(a, b) ==
    LET d == UTCDay(b) - UTCDay(a) IN IF d < 0 THEN -d ELSE d

\* Mutant of Substituted: the YAML date wins when there is one.
SubstitutedAlways(lookup, fallback) ==
    IF ~IsZero(fallback) THEN [Err |-> FALSE, ExpiresAt |-> fallback] ELSE lookup

\* RDAP's answer, or the YAML date when RDAP failed and there is one.
Substituted(lookup, fallback) ==
    IF lookup.Err /\ ~IsZero(fallback)
    THEN [Err |-> FALSE, ExpiresAt |-> fallback]
    ELSE lookup

Mismatch(answer, fallback) ==
    /\ ~answer.Err
    /\ ~IsZero(fallback)
    /\ absDayDiff(answer.ExpiresAt, fallback) > MismatchToleranceDays

\* Mutant of MemberInfo: the info keeps the name that was looked up.
MemberInfoOfApex(domains, p, rep, fallback, lookup) ==
    LET answer == Substituted(lookup, fallback)
    IN  [Domain |-> Apex(domains, p),
         Err |-> answer.Err,
         ExpiresAt |-> answer.ExpiresAt,
         IsApex |-> p = rep,
         FallbackExpected |-> ZeroTime]

\* Mutant of MemberInfo: only an entry for the domain itself emits.
MemberInfoApexOnly(domains, p, rep, fallback, lookup) ==
    LET answer == Substituted(lookup, fallback)
    IN  [Domain |-> domains[p].Name,
         Err |-> answer.Err,
         ExpiresAt |-> answer.ExpiresAt,
         IsApex |-> p = rep /\ domains[p].Name = Apex(domains, p),
         FallbackExpected |->
            IF p = rep /\ Mismatch(answer, fallback) THEN fallback ELSE ZeroTime]

\* What processGroup writes at member p, given the group it was handed.
MemberInfo(domains, p, rep, fallback, lookup) ==
    LET answer == Substituted(lookup, fallback)
    IN  [Domain |-> domains[p].Name,
         Err |-> answer.Err,
         ExpiresAt |-> answer.ExpiresAt,
         IsApex |-> p = rep,
         FallbackExpected |->
            IF p = rep /\ Mismatch(answer, fallback) THEN fallback ELSE ZeroTime]

Enrich(domains, lookups) ==
    [p \in DOMAIN domains |->
       LET x == Apex(domains, p)
       IN  MemberInfo(domains, p, Representative(domains, x),
                      GroupFallback(domains, x), lookups[x])]
=============================================================================
