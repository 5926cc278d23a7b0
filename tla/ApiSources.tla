----------------------------- MODULE ApiSources -----------------------------
(***************************************************************************)
(* internal/discovery/namecom.go and route53.go: what each Discover        *)
(* returns, as a function of the answers to the requests it makes.  Any of *)
(* them may fail.                                                          *)
(*                                                                         *)
(* A host name is the sequence of its labels; the one after a trailing dot *)
(* is Root.  A listing is a sequence of pages [Err, items, NextPage]; the    *)
(* AWS paginators follow their own tokens, so NextPage is Name.com's only. *)
(***************************************************************************)
EXTENDS Integers, Sequences, SequencesExt

CONSTANTS
    LowerLabel,      \* strings.ToLower on the labels
    Underscored,     \* labels that begin with "_"
    Escaped,         \* labels with a backslash, as AWS writes odd characters
    ExcludeZones     \* config "route53.exclude_zones"

Root == ""         \* the label after a trailing dot
Label == DOMAIN LowerLabel
HostName == Seq(Label)

ASSUME LowerAssumption ==
    \A l \in Label :
       /\ LowerLabel[l] \in Label /\ LowerLabel[LowerLabel[l]] = LowerLabel[l]
       /\ LowerLabel[l] = Root <=> l = Root
ASSUME ZonesAssumption ==
    \A ex \in ExcludeZones : ex \in HostName /\ \A k \in 1 .. (Len(ex) - 1) : ex[k] # Root

\* strings.ToLower on a name.
Lower(name) == [k \in DOMAIN name |-> LowerLabel[name[k]]]

TrimDot(name) == IF name # <<>> /\ Last(name) = Root THEN Front(name) ELSE name

normalizeHost(name) == Lower(TrimDot(name))

\* Not a wildcard (AWS writes its star as \052) nor a name made for DNS only.
isMonitorableHost(name) ==
    /\ name # <<>>
    /\ ~(name[1] = "*" /\ Len(name) > 1)
    /\ \A k \in DOMAIN name : name[k] \notin Escaped \cup Underscored

\* Mutant of isExcluded: only the zone itself is.
isExcludedExact(host) == \E ex \in ExcludeZones : normalizeHost(host) = normalizeHost(ex)

\* The host is an excluded zone or lies in one.
isExcluded(host) ==
    \E ex \in ExcludeZones :
        normalizeHost(ex) # <<>> /\ IsSuffix(normalizeHost(ex), normalizeHost(host))

\* The members of a list that are in S.
Only(s, S) == FlattenSeq([k \in DOMAIN s |-> IF s[k] \in S THEN <<s[k]>> ELSE <<>>])

MonitoredTypes == {"A", "AAAA", "CNAME"}

\* The hosts, normalised, without repetitions, in the order they were added.
Added(hosts) ==
    FlattenSeq([k \in DOMAIN hosts |->
        IF \E j \in 1 .. (k - 1) : normalizeHost(hosts[j]) = normalizeHost(hosts[k])
        THEN <<>> ELSE <<normalizeHost(hosts[k])>>])

PageOf(S) == [Err : BOOLEAN, items : Seq(S), NextPage : Nat]

Failure == [Err |-> TRUE, names |-> <<>>]
Success(names) == [Err |-> FALSE, names |-> names]

-----------------------------------------------------------------------------
(* namecom.go.  The answers are [credentials, domains, records]: the listing *)
(* of the account, and one of each of its domains.                           *)

\* Listings: the first page is there, and so is any page that another points on to.
Listings(S) ==
    {pages \in Seq(PageOf(S)) \ {<<>>} :
       \A p \in DOMAIN pages : pages[p].NextPage > p => pages[p].NextPage \in DOMAIN pages}

NameComRecord == [Type : STRING, Fqdn : HostName, Host : HostName]

NameComAnswer(w) ==
    /\ w.domains \in Listings(HostName)
    /\ \A p \in DOMAIN w.domains : \A d \in ToSet(w.domains[p].items) \ {<<>>} :
         w.records[d] \in Listings(NameComRecord)

\* The pages from the first on, while NextPage grows; one that fails loses all.
Listing(pages) ==
    LET from[p \in DOMAIN pages] ==
            LET page == pages[p]
            IN  IF page.Err THEN [Err |-> TRUE, items |-> <<>>]
                ELSE IF page.NextPage <= p THEN [Err |-> FALSE, items |-> page.items]
                ELSE [Err |-> from[page.NextPage].Err,
                      items |-> page.items \o from[page.NextPage].items]
    IN  from[1]

RecordHost(r, domain) ==
    IF r.Fqdn # <<>> THEN r.Fqdn
    ELSE IF r.Host \in {<<>>, <<"@">>} THEN domain
    ELSE r.Host \o domain

\* Best effort: a listing that fails costs the records of its domain only.
ListRecords(pages, domain) ==
    LET l == Listing(pages)
        monitored == Only(l.items, {r \in ToSet(l.items) : r.Type \in MonitoredTypes})
    IN  IF l.Err THEN <<>>
        ELSE [k \in DOMAIN monitored |-> RecordHost(monitored[k], domain)]

\* Mutant of NameComDiscover: the first listing of records that fails ends the loop.
NameComDiscoverBreaks(w) ==
    LET l == Listing(w.domains)
        named == Only(l.items, ToSet(l.items) \ {<<>>})
        found == FlattenSeq([k \in DOMAIN named |->
                    IF \E j \in 1 .. k : Listing(w.records[named[j]]).Err THEN <<>>
                    ELSE <<named[k]>> \o ListRecords(w.records[named[k]], named[k])])
    IN  IF ~w.credentials \/ l.Err THEN Failure
        ELSE Success(Added(Only(found,
                 {h \in ToSet(found) : isMonitorableHost(normalizeHost(h))})))

NameComDiscover(w) ==
    LET l == Listing(w.domains)
        named == Only(l.items, ToSet(l.items) \ {<<>>})
        found == FlattenSeq([k \in DOMAIN named |->
                    <<named[k]>> \o ListRecords(w.records[named[k]], named[k])])
    IN  IF ~w.credentials \/ l.Err THEN Failure
        ELSE Success(Added(Only(found,
                 {h \in ToSet(found) : isMonitorableHost(normalizeHost(h))})))

-----------------------------------------------------------------------------
(* route53.go.  The answers are [config, registered, zones]; a zone is       *)
(* [Name, PrivateZone, HasId, records], a record [Type, Name].               *)

RecordSet == [Type : STRING, Name : HostName]
HostedZone ==
    [Name : HostName, PrivateZone : BOOLEAN, HasId : BOOLEAN, records : Seq(PageOf(RecordSet))]
Route53Answer ==
    [config : BOOLEAN, registered : Seq(PageOf(HostName)), zones : Seq(PageOf(HostedZone))]

HasError(pages) == \E k \in DOMAIN pages : pages[k].Err

\* What the pages before the first error list.
Collected(pages) ==
    FlattenSeq([k \in DOMAIN pages |->
        IF \E j \in 1 .. k : pages[j].Err THEN <<>> ELSE pages[k].items])

\* The zones whose records are asked for.
PublicZones(w) ==
    LET zones == Collected(w.zones)
    IN  Only(zones, {z \in ToSet(zones) : ~z.PrivateZone /\ ~isExcluded(z.Name)})

MonitoredRecords(z) ==
    {r \in ToSet(Collected(z.records)) : r.Type \in MonitoredTypes /\ isMonitorableHost(r.Name)}

\* Mutant of EnumerateRecords: an error loses the pages before it.
EnumerateAll(z) ==
    LET listed == Only(Collected(z.records), MonitoredRecords(z))
    IN  IF z.HasId /\ ~HasError(z.records) THEN [k \in DOMAIN listed |-> listed[k].Name]
        ELSE <<>>

EnumerateRecords(z) ==
    LET listed == Only(Collected(z.records), MonitoredRecords(z))
    IN  IF z.HasId THEN [k \in DOMAIN listed |-> listed[k].Name] ELSE <<>>

\* What add lets in of the hosts the two collectors find.
Route53Names(w) ==
    LET zones == PublicZones(w)
        found == Collected(w.registered)
                 \o FlattenSeq([k \in DOMAIN zones |->
                       <<zones[k].Name>> \o EnumerateRecords(zones[k])])
    IN  Added(Only(found, {h \in ToSet(found) : normalizeHost(h) # <<>>
                                               /\ ~isExcluded(normalizeHost(h))}))

ZoneError(w) ==
    HasError(w.zones)
    \/ \E z \in ToSet(PublicZones(w)) : z.HasId /\ HasError(z.records)

\* An error only when both APIs failed and nothing was found.
Route53Discover(w) ==
    IF \/ ~w.config
       \/ HasError(w.registered) /\ ZoneError(w) /\ Route53Names(w) = <<>>
    THEN Failure ELSE Success(Route53Names(w))
=============================================================================
