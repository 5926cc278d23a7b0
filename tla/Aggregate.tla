----------------------------- MODULE Aggregate -----------------------------
(***************************************************************************)
(* internal/discovery: Aggregate runs every discoverer in a goroutine of   *)
(* its own, waits for all of them, and merges what the ones that answered  *)
(* returned into one list, an entry per (lowercased name, port).           *)
(*                                                                         *)
(* An entry is [Name, Port, Source, ExpiryFallback]; port 0 is "omitted"   *)
(* and date 0 is nil.                                                      *)
(***************************************************************************)
EXTENDS ApiSources

CONSTANTS
    NameRank,        \* the place of each name in the order of strings
    defaultPort,     \* config "tls.default_port"
    Worlds           \* what the sources may answer, as functions of the discoverer

NoDate == 0
Discoverers == {"static", "namecom", "route53"}

ASSUME PortAssumption == defaultPort \in Nat \ {0}
ASSUME NameRankAssumption ==
    /\ \A m \in DOMAIN NameRank : NameRank[m] \in Int
    /\ \A m, n \in DOMAIN NameRank : NameRank[m] = NameRank[n] => m = n

StaticEntry ==
    [Name : HostName, Port : Nat, ExpiryFallback : Nat, Subdomains : Seq(HostName)]
StaticGroup == [Source : STRING, Domains : Seq(StaticEntry)]
StaticFile == [Err : BOOLEAN, Domains : Seq(StaticEntry), Groups : Seq(StaticGroup)]

ASSUME WorldsAssumption ==
    \A w \in Worlds :
       /\ DOMAIN w = Discoverers
       /\ w["static"] \in StaticFile
       /\ NameComAnswer(w["namecom"])
       /\ w["route53"] \in Route53Answer

VARIABLES
    world,           \* the answers of this run
    running,         \* goroutines that have not called wg.Done()
    perDiscoverer,   \* name -> list, of those that answered
    Errors,          \* those that failed
    pc,              \* the caller: "wait", "merge" or "done"
    queue,           \* entries the loops of dedup have still to visit
    seen,            \* key -> entry kept
    list             \* the result

vars == <<world, running, perDiscoverer, Errors, pc, queue, seen, list>>

-----------------------------------------------------------------------------
(* static.go.  The file is [Err, Domains, Groups].                           *)

Domain(name, port, source, date) ==
    [Name |-> name, Port |-> port, Source |-> source, ExpiryFallback |-> date]

\* Mutant of Subdomains: they inherit the date of the apex.
SubdomainsWithDate(e, source) ==
    FlattenSeq([j \in DOMAIN e.Subdomains |->
        LET label == e.Subdomains[j]
        IN  IF label = <<>> THEN <<>>
            ELSE <<Domain(label \o e.Name, e.Port, source, e.ExpiryFallback)>>])

\* The subdomains of an entry: its port and source, no date.
Subdomains(e, source) ==
    FlattenSeq([j \in DOMAIN e.Subdomains |->
        LET label == e.Subdomains[j]
        IN  IF label = <<>> THEN <<>>
            ELSE <<Domain(label \o e.Name, e.Port, source, NoDate)>>])

Expand(source, entries) ==
    FlattenSeq([k \in DOMAIN entries |->
        LET e == entries[k]
        IN  IF e.Name = <<>> THEN <<>>
            ELSE <<Domain(e.Name, e.Port, source, e.ExpiryFallback)>> \o Subdomains(e, source)])

GroupSource(g) == IF g.Source = "" THEN "static" ELSE g.Source

StaticList(f) ==
    Expand("static", f.Domains)
    \o FlattenSeq([k \in DOMAIN f.Groups |->
                     Expand(GroupSource(f.Groups[k]), f.Groups[k].Domains)])

Found(source, names) == [k \in DOMAIN names |-> Domain(names[k], 0, source, NoDate)]

\* What the Discover of d returns, given the answers w.
Discover(w, d) ==
    CASE d = "static" -> [Err |-> w[d].Err, domains |-> StaticList(w[d])]
      [] d = "namecom" -> LET r == NameComDiscover(w[d])
                          IN  [Err |-> r.Err, domains |-> Found(d, r.names)]
      [] OTHER -> LET r == Route53Discover(w[d])
                  IN  [Err |-> r.Err, domains |-> Found(d, r.names)]

GroupLabels == {GroupSource(g) : g \in UNION {ToSet(w["static"].Groups) : w \in Worlds}}

Entry == [Name : DOMAIN NameRank, Port : Nat, Source : Discoverers \cup GroupLabels,
          ExpiryFallback : Nat]

\* NameRank knows the names that are found.
ASSUME RankedAssumption ==
    \A w \in Worlds, d \in Discoverers :
       LET domains == Discover(w, d).domains
       IN  \A k \in DOMAIN domains : domains[k].Name \in DOMAIN NameRank

-----------------------------------------------------------------------------
(* discovery.go                                                              *)

discovererPriority(d) ==
    CASE d = "static" -> 0 [] d = "namecom" -> 1 [] OTHER -> 2

WithPort(e) == IF e.Port = 0 THEN [e EXCEPT !.Port = defaultPort] ELSE e
KeyOf(e) == <<Lower(e.Name), WithPort(e).Port>>

Put(f, x, y) == [z \in DOMAIN f \cup {x} |-> IF z = x THEN y ELSE f[z]]

Init ==
    /\ world \in Worlds
    /\ running = Discoverers
    /\ perDiscoverer = <<>>
    /\ Errors = {}
    /\ pc = "wait"
    /\ queue = <<>>
    /\ seen = <<>>
    /\ list = <<>>

\* A goroutine, holding the mutex, stores what its discoverer returned.
Answer(d) ==
    /\ d \in running
    /\ ~Discover(world, d).Err
    /\ perDiscoverer' = Put(perDiscoverer, d, Discover(world, d).domains)
    /\ running' = running \ {d}
    /\ UNCHANGED <<world, Errors, pc, queue, seen, list>>

Fail(d) ==
    /\ d \in running
    /\ Discover(world, d).Err
    /\ Errors' = Errors \cup {d}
    /\ running' = running \ {d}
    /\ UNCHANGED <<world, perDiscoverer, pc, queue, seen, list>>

\* The entries of the discoverers that answered, most trusted source first.
ByPriority ==
    LET answered(priority) ==
            LET ds == {d \in DOMAIN perDiscoverer : discovererPriority(d) = priority}
            IN  IF ds = {} THEN <<>> ELSE perDiscoverer[CHOOSE d \in ds : TRUE]
    IN  answered(0) \o answered(1) \o answered(2)

\* Mutant of Wait: the merge starts with the first discoverer that is through.
WaitForOne ==
    /\ pc = "wait"
    /\ running # Discoverers
    /\ pc' = "merge"
    /\ queue' = ByPriority
    /\ UNCHANGED <<world, running, perDiscoverer, Errors, seen, list>>

\* wg.Wait() returns.
Wait ==
    /\ pc = "wait"
    /\ running = {}
    /\ pc' = "merge"
    /\ queue' = ByPriority
    /\ UNCHANGED <<world, running, perDiscoverer, Errors, seen, list>>

\* Mutant of Merged: a duplicate is dropped with its date.
MergedFirstOnly(key, e) ==
    IF key \in DOMAIN seen THEN seen[key] ELSE WithPort(e)

\* What is kept for the key of e: the first entry, with the first date given.
Merged(key, e) ==
    IF key \notin DOMAIN seen THEN WithPort(e)
    ELSE LET existing == seen[key]
         IN  IF existing.ExpiryFallback = NoDate
             THEN [existing EXCEPT !.ExpiryFallback = e.ExpiryFallback]
             ELSE existing

\* Mutant of MergeEntry: the key is taken before the default port is applied.
MergeRawPort ==
    /\ pc = "merge" /\ queue # <<>>
    /\ LET e == Head(queue)
           key == <<Lower(e.Name), e.Port>>
       IN  seen' = Put(seen, key, Merged(key, e))
    /\ queue' = Tail(queue)
    /\ UNCHANGED <<world, running, perDiscoverer, Errors, pc, list>>

MergeEntry ==
    /\ pc = "merge" /\ queue # <<>>
    /\ LET e == Head(queue) IN seen' = Put(seen, KeyOf(e), Merged(KeyOf(e), e))
    /\ queue' = Tail(queue)
    /\ UNCHANGED <<world, running, perDiscoverer, Errors, pc, list>>

\* The order of the result: by name as written, then by port.
Precedes(e, f) ==
    \/ NameRank[e.Name] < NameRank[f.Name]
    \/ NameRank[e.Name] = NameRank[f.Name] /\ e.Port < f.Port

\* The entries S in this order: each stands after those that precede it.
Sorted(S) ==
    [k \in 1 .. Cardinality(S) |->
       CHOOSE e \in S : Cardinality({f \in S : Precedes(f, e)}) = k - 1]

SortList ==
    /\ pc = "merge" /\ queue = <<>>
    /\ list' = Sorted({seen[k] : k \in DOMAIN seen})
    /\ pc' = "done"
    /\ UNCHANGED <<world, running, perDiscoverer, Errors, queue, seen>>

Terminated == pc = "done" /\ UNCHANGED vars

Next ==
    \/ \E d \in Discoverers : Answer(d) \/ Fail(d)
    \/ Wait \/ MergeEntry \/ SortList
    \/ Terminated

Spec == Init /\ [][Next]_vars

-----------------------------------------------------------------------------

TypeOK ==
    /\ running \subseteq Discoverers
    /\ DOMAIN perDiscoverer = Discoverers \ (running \cup Errors)
    /\ Errors \subseteq Discoverers \ running
    /\ pc \in {"wait", "merge", "done"}
    /\ \A k \in DOMAIN seen : seen[k] \in Entry /\ seen[k].Port # 0 /\ KeyOf(seen[k]) = k

\* What the source d tells, and what all tell, the most trusted first.
Told(w, d) == IF Discover(w, d).Err THEN <<>> ELSE Discover(w, d).domains
Trusted(w) == Told(w, "static") \o Told(w, "namecom") \o Told(w, "route53")

\* What a list of entries says of a key: the name and the source of the first one,
\* and the date of the first that has one.
Declared(Q, key) ==
    LET of == {p \in DOMAIN Q : KeyOf(Q[p]) = key}
        dated == {p \in of : Q[p].ExpiryFallback # NoDate}
    IN  Domain(Q[Min(of)].Name, key[2], Q[Min(of)].Source,
               IF dated = {} THEN NoDate ELSE Q[Min(dated)].ExpiryFallback)

\* The result is a function of what the sources tell, not of the order they answered
\* in: for each (name, port), in whatever case its name was written, the name and
\* the source of the most trusted entry, and the date of the most trusted entry
\* that has one, once and in the order of the list.
AggregateAsDeclared ==
    pc = "done" =>
        LET keys == {KeyOf(e) : e \in ToSet(Trusted(world))}
        IN  /\ Len(list) = Cardinality(keys)
            /\ \A j, k \in DOMAIN list : j < k => Precedes(list[j], list[k])
            /\ ToSet(list) = {Declared(Trusted(world), k) : k \in keys}

\* discovery.go: a date that any source gives is kept, whichever entry wins; and
\* a date is on the name it was written for, so that a registration that has two
\* dates (its apex and a subdomain listed on its own) was given two.
DatesAreKept ==
    pc = "done" =>
        /\ \A e \in ToSet(Trusted(world)) :
             e.ExpiryFallback # NoDate =>
                \E o \in ToSet(list) : KeyOf(o) = KeyOf(e) /\ o.ExpiryFallback # NoDate
        /\ \A o \in ToSet(list) :
             o.ExpiryFallback # NoDate =>
                \E e \in ToSet(world["static"].Domains)
                         \cup UNION {ToSet(g.Domains) : g \in ToSet(world["static"].Groups)} :
                   /\ e.Name # <<>> /\ Lower(e.Name) = Lower(o.Name)
                   /\ e.ExpiryFallback = o.ExpiryFallback

\* The pages of a listing that are requested from page p on: those that the ones
\* that came point on to (Name.com), or the next one until one fails (AWS).
Closed(pages, S) ==
    \A q \in S : ~pages[q].Err /\ pages[q].NextPage > q => pages[q].NextPage \in S
Requested(pages, p) ==
    {q \in DOMAIN pages :
       \A S \in SUBSET DOMAIN pages : p \in S /\ Closed(pages, S) => q \in S}
RequestedInTurn(pages) == {p \in DOMAIN pages : \A q \in 1 .. (p - 1) : ~pages[q].Err}

\* What the pages R tell, and whether all came.
Heard(pages, R) == UNION {ToSet(pages[p].items) : p \in {q \in R : ~pages[q].Err}}
NoneFailed(pages, R) == \A p \in R : ~pages[p].Err

Complete(pages) == NoneFailed(pages, Requested(pages, 1))

\* The domains of Name.com's account, and the hosts of the records of one of them,
\* as the pages that came tell of them.
DomainsHeard(w) == Heard(w.domains, Requested(w.domains, 1)) \ {<<>>}
HostsHeard(pages, d) ==
    {RecordHost(r, d) : r \in {s \in Heard(pages, Requested(pages, 1)) :
                                  s.Type \in MonitoredTypes}}

HeardFromZone(z) ==
    {r.Name : r \in {s \in Heard(z.records, RequestedInTurn(z.records)) :
                        s.Type \in MonitoredTypes /\ isMonitorableHost(s.Name)}}
HeardFromRoute53(w) ==
    LET zones == {z \in Heard(w.zones, RequestedInTurn(w.zones)) :
                    ~z.PrivateZone /\ ~isExcluded(z.Name)}
    IN  Heard(w.registered, RequestedInTurn(w.registered))
        \cup {z.Name : z \in zones}
        \cup UNION {HeardFromZone(z) : z \in {y \in zones : y.HasId}}

Monitored(names) ==
    {normalizeHost(h) : h \in {g \in names : isMonitorableHost(normalizeHost(g))}}

\* Discovery is best effort (namecom.go: "a failure on one zone shouldn't kill the
\* rest"): whatever requests fail, each failure costs what its own listing had to
\* tell and nothing else, whichever source answers first.  Every domain of the
\* account is monitored, with the hosts of its records if their listing came whole
\* (of one that was cut, the pages that came are lost too); and the source fails
\* only when the listing of the account does.  What any page or zone of AWS told is
\* monitored, on the default port, and that source fails only when it was told of
\* nothing.
FailureStaysLocal ==
    pc = "done" =>
        LET account == world["namecom"]
            aws == world["route53"]
            onAws == {h \in Monitored(HeardFromRoute53(aws)) : ~isExcluded(h)}
            Listed(hosts) == {<<h, defaultPort>> : h \in hosts} \subseteq {KeyOf(e) : e \in ToSet(list)}
        IN  /\ "namecom" \notin Errors =>
                  \A d \in DomainsHeard(account) :
                     /\ Listed(Monitored({d}))
                     /\ Complete(account.records[d]) =>
                           Listed(Monitored(HostsHeard(account.records[d], d)))
            /\ "namecom" \in Errors /\ account.credentials => ~Complete(account.domains)
            /\ "route53" \notin Errors => Listed(onAws)
            /\ "route53" \in Errors /\ aws.config => onAws = {}

\* route53.go: an excluded zone is skipped "AND any record under it found in a
\* parent", or registered, however it is written.
ExcludedStaysOut ==
    LET out == {Lower(TrimDot(ex)) : ex \in ExcludeZones} \ {<<>>}
    IN  \A e \in ToSet(list) :
          e.Source = "route53" =>
              \A k \in DOMAIN e.Name : SubSeq(e.Name, k, Len(e.Name)) \notin out
=============================================================================
