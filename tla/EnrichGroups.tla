---------------------------- MODULE EnrichGroups ----------------------------
(***************************************************************************)
(* How rdap.Enrich computes its result: one pass over the domain list that *)
(* builds the groups, then processGroup once per group, in any order (the  *)
(* pool that runs them is WorkerPool).  Enrichment says what must come out. *)
(***************************************************************************)
EXTENDS Enrichment, Sequences

CONSTANTS
    Inputs,          \* domain lists: functions 1..n -> [Name, ExpiryFallback]
    LookupResults    \* what the lookup of an apex may answer

ASSUME InputsAssumption ==
    \A L \in Inputs :
        /\ L \in Seq({L[p] : p \in DOMAIN L})
        /\ \A p \in DOMAIN L : L[p].ExpiryFallback \in Time
        /\ \A p \in DOMAIN L : IsZero(L[p].ExpiryFallback) => L[p].ExpiryFallback = ZeroTime

VARIABLES
    domains,   \* the input
    i,         \* the next position of the pass
    groups,    \* byApex: apex -> [members, apexMemberIdx, fallback]
    lookups,   \* history: the answer of each lookup made
    out        \* the results written so far: position -> info

vars == <<domains, i, groups, lookups, out>>

NoMember == -1

Init ==
    /\ domains \in Inputs
    /\ i = 1
    /\ groups = <<>>
    /\ lookups = <<>>
    /\ out = <<>>

\* f with x mapped to y, x being in its domain or not.
Put(f, x, y) == [z \in DOMAIN f \cup {x} |-> IF z = x THEN y ELSE f[z]]

NewGroup == [members |-> <<>>, apexMemberIdx |-> NoMember, fallback |-> ZeroTime]

\* Mutant of Joined: the first date of the group is kept, the apex's or not.
JoinedFirstDate(g, d, apex) ==
    [members |-> Append(g.members, i),
     apexMemberIdx |-> IF d.Name = apex THEN i ELSE g.apexMemberIdx,
     fallback |-> IF IsZero(g.fallback) THEN d.ExpiryFallback ELSE g.fallback]

\* Mutant of Joined: a later entry of the group resets the apex.
JoinedReset(g, d, apex) ==
    [members |-> Append(g.members, i),
     apexMemberIdx |-> IF d.Name = apex THEN i ELSE NoMember,
     fallback |-> IF d.Name = apex /\ ~IsZero(d.ExpiryFallback) THEN d.ExpiryFallback
                  ELSE IF d.Name # apex /\ IsZero(g.fallback) THEN d.ExpiryFallback
                  ELSE g.fallback]

\* Group g after domain d joins it.
Joined(g, d, apex) ==
    [members |-> Append(g.members, i),
     apexMemberIdx |-> IF d.Name = apex THEN i ELSE g.apexMemberIdx,
     fallback |-> IF d.Name = apex /\ ~IsZero(d.ExpiryFallback) THEN d.ExpiryFallback
                  ELSE IF d.Name # apex /\ IsZero(g.fallback) THEN d.ExpiryFallback
                  ELSE g.fallback]

\* Mutant of AddDomain: every name is a group of its own.
AddByName ==
    /\ i \in DOMAIN domains
    /\ LET x == domains[i].Name
           g == IF x \in DOMAIN groups THEN groups[x] ELSE NewGroup
       IN  groups' = Put(groups, x, Joined(g, domains[i], x))
    /\ i' = i + 1
    /\ UNCHANGED <<domains, lookups, out>>

AddDomain ==
    /\ i \in DOMAIN domains
    /\ LET x == Apex(domains, i)
           g == IF x \in DOMAIN groups THEN groups[x] ELSE NewGroup
       IN  groups' = Put(groups, x, Joined(g, domains[i], x))
    /\ i' = i + 1
    /\ UNCHANGED <<domains, lookups, out>>

\* The member that emits: the apex if it is listed, else the first member.
ApexIdx(g) == IF g.apexMemberIdx = NoMember THEN g.members[1] ELSE g.apexMemberIdx

ProcessGroup(x) ==
    LET g == groups[x]
    IN  /\ x \notin DOMAIN lookups
        /\ \E answer \in LookupResults :
             /\ lookups' = Put(lookups, x, answer)
             /\ out' = [p \in DOMAIN out \cup {g.members[k] : k \in DOMAIN g.members} |->
                          IF p \in DOMAIN out THEN out[p]
                          ELSE MemberInfo(domains, p, ApexIdx(g), g.fallback, answer)]
        /\ UNCHANGED <<domains, i, groups>>

Done == i \notin DOMAIN domains /\ DOMAIN lookups = DOMAIN groups

Terminated == Done /\ UNCHANGED vars

Next ==
    \/ AddDomain
    \/ i \notin DOMAIN domains /\ \E x \in DOMAIN groups : ProcessGroup(x)
    \/ Terminated

Spec == Init /\ [][Next]_vars

-----------------------------------------------------------------------------

TypeOK ==
    /\ i \in 1 .. Len(domains) + 1
    /\ DOMAIN groups = {Apex(domains, p) : p \in 1 .. (i - 1)}
    /\ DOMAIN lookups \subseteq DOMAIN groups
    /\ DOMAIN out \subseteq DOMAIN domains

\* The pass and the groups compute the declared result, whatever the order of
\* the list, the entries that share a name and the order of the lookups.
EnrichAsDeclared == Done => out = Enrich(domains, lookups)

\* types.go: the YAML value never wins over a successful RDAP lookup; it stands
\* in for a failed one, and then cannot be reported as disagreeing with itself.
RDAPWins ==
    Done => \A p \in DOMAIN out :
              LET answer == lookups[Apex(domains, p)]
              IN  /\ ~answer.Err => out[p].ExpiresAt = answer.ExpiresAt
                  /\ answer.Err => IsZero(out[p].FallbackExpected)
                  /\ out[p].Err => \A q \in Members(domains, Apex(domains, p)) :
                                      IsZero(domains[q].ExpiryFallback)

-----------------------------------------------------------------------------
(* The inductive invariants behind the properties.                           *)

\* The entries the pass has seen.
Seen == [p \in 1 .. (i - 1) |-> domains[p]]

\* Group g is that of the entries of list L with apex x.
IsGroup(g, L, x) ==
    /\ g.members \in Seq(Nat) /\ g.members # <<>>
    /\ {g.members[k] : k \in DOMAIN g.members} = Members(L, x)
    /\ g.members[1] = First(Members(L, x))
    /\ g.apexMemberIdx = IF ApexMembers(L, x) = {} THEN NoMember ELSE Last(ApexMembers(L, x))
    /\ g.fallback = GroupFallback(L, x)

GroupsInv == \A x \in DOMAIN groups : IsGroup(groups[x], Seen, x)

\* The lookups start after the pass; each has written its group and nothing else.
ResultsInv ==
    /\ i \in DOMAIN domains => lookups = <<>>
    /\ out = [p \in {q \in DOMAIN domains : Apex(domains, q) \in DOMAIN lookups} |->
                Enrich(domains, lookups)[p]]
=============================================================================
