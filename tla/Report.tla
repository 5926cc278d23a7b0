------------------------------- MODULE Report -------------------------------
(***************************************************************************)
(* What a run tells its reader of the results of Enrich and CheckAll: the  *)
(* alerts, the counts (notify/summary.go), the snapshot and its sheet      *)
(* (inventory), the mail (notify/html.go and render.go).                   *)
(*                                                                         *)
(* A position of the list is a (name, port).  Name is the lowercased name  *)
(* and Written the name in the case of its source: some of the joins are   *)
(* on the one, some on the other.                                          *)
(***************************************************************************)
EXTENDS EnrichGroups, AlertRules, FiniteSets

CONSTANTS
    SourceOf,        \* the source of each name, as written
    Unclassified,    \* names publicsuffix knows no suffix of
    CertResults,     \* what a TLS check may return: [Err, NotAfter]
    now

ASSUME ReportAssumption ==
    /\ now \in Time
    /\ IsFiniteSet(Thresholds)
    /\ LookupResults \subseteq [Err : BOOLEAN, ExpiresAt : Time]
    /\ CertResults \subseteq [Err : BOOLEAN, NotAfter : Time]
    /\ \A L \in Inputs : \A p, q \in DOMAIN L :
         L[p].Written = L[q].Written => L[p].Name = L[q].Name

VARIABLES
    certs,     \* position -> result of the TLS check
    report     \* [alerts, summary, snapshot, mail]

reportVars == <<vars, certs, report>>

Nothing == <<>>

ReportInit == Init /\ certs = Nothing /\ report = Nothing

Written(p) == domains[p].Written
SameName(p) == {q \in DOMAIN domains : domains[q].Name = domains[p].Name}
SameWritten(p) == {q \in DOMAIN domains : Written(q) = Written(p)}

-----------------------------------------------------------------------------
(* notify/summary.go.  The maps are filled in list order: the last one stays. *)

AlertedNames(alerts) == {domains[a.pos].Name : a \in alerts}

\* Mutant of classify: the result of the check comes before the alerts.
classifyCertFirst(p, alerts) ==
    IF certs[Last(SameName(p))].Err THEN "nocert"
    ELSE IF domains[p].Name \in AlertedNames(alerts) THEN "alerted"
    ELSE "healthy"

classify(p, alerts) ==
    IF domains[p].Name \in AlertedNames(alerts) THEN "alerted"
    ELSE IF certs[Last(SameName(p))].Err THEN "nocert"
    ELSE "healthy"

isApex(p) ==
    domains[p].Name \notin Unclassified /\ Apex(domains, p) = domains[p].Name

\* The counts of the entries at positions P.
Stat(P, alerts) ==
    LET in(bucket) == Cardinality({p \in P : classify(p, alerts) = bucket})
        apexes == {p \in P : isApex(p)}
    IN  [Total |-> Cardinality(P), Apex |-> Cardinality(apexes),
         Subdomain |-> Cardinality(P \ apexes), Healthy |-> in("healthy"),
         Alerted |-> in("alerted"), NoCertData |-> in("nocert")]

BuildSummary(alerts) ==
    LET from(source) == {p \in DOMAIN domains : SourceOf[Written(p)] = source}
    IN  [All |-> Stat(DOMAIN domains, alerts),
         BySource |-> [source \in {SourceOf[Written(p)] : p \in DOMAIN domains} |->
                         Stat(from(source), alerts)]]

-----------------------------------------------------------------------------
(* inventory: the snapshot, joined by the name as written, and its sheet.      *)

BuildSnapshot(alerts) ==
    [p \in DOMAIN domains |->
       [Cert |-> certs[Last(SameWritten(p))],
        Domain |-> out[Last(SameWritten(p))],
        Alerts |-> {a \in alerts : Written(a.pos) = Written(p)}]]

\* Mutant of daysLeftInt: the quotient is rounded down.
daysLeftFloor(until) == (until.at - now.at) \div TicksPerDay

\* Elapsed days, and int() drops the fraction of a negative one too.
daysLeftInt(until) ==
    IF Before(until, now) THEN -((now.at - until.at) \div TicksPerDay)
    ELSE (until.at - now.at) \div TicksPerDay

\* A row of the sheet: empty cells for a zero date.
Row(entry) ==
    LET cell(t) == IF IsZero(t) THEN {} ELSE {daysLeftInt(t)}
    IN  [cert_days_left |-> cell(entry.Cert.NotAfter), cert_error |-> entry.Cert.Err,
         domain_days_left |-> cell(entry.Domain.ExpiresAt), domain_error |-> entry.Domain.Err,
         alerts |-> entry.Alerts]

MarshalXLSX(snapshot) == [p \in DOMAIN snapshot |-> Row(snapshot[p])]

-----------------------------------------------------------------------------
(* notify/html.go and render.go                                              *)

IsExpired(a) == a.kind \in {"cert_expired", "domain_expired"}
IsMismatch(a) == a.kind = "domain_mismatch"

SameLine(a, b) == Written(a.pos) = Written(b.pos) /\ a.kind = b.kind

\* Mutant of bucketAndDedup: the last threshold met is the one kept.
bucketLast(alerts) ==
    LET soon == {a \in alerts : ~IsExpired(a) /\ ~IsMismatch(a)}
    IN  [expired |-> {a \in alerts : IsExpired(a)},
         mismatch |-> {a \in alerts : IsMismatch(a)},
         expiring |-> {a \in soon : \A b \in soon :
                         SameLine(a, b) => a.threshold >= b.threshold}]

\* The sections.  Of the alerts that expire, one per name and kind: the smallest
\* threshold, and the first port that reached it.
bucketAndDedup(alerts) ==
    LET soon == {a \in alerts : ~IsExpired(a) /\ ~IsMismatch(a)}
        before(a, b) == \/ a.threshold < b.threshold
                        \/ a.threshold = b.threshold /\ a.pos <= b.pos
    IN  [expired |-> {a \in alerts : IsExpired(a)},
         mismatch |-> {a \in alerts : IsMismatch(a)},
         expiring |-> {a \in soon : \A b \in soon : SameLine(a, b) => before(a, b)}]

\* Mutant of emailStatus: the order of the cases.
emailStatusSoonFirst(s) ==
    CASE s.expiring # {} -> "warning"
      [] s.expiring = {} /\ s.expired # {} -> "critical"
      [] s.expiring = {} /\ s.expired = {} /\ s.mismatch # {} -> "info"
      [] OTHER -> "ok"

emailStatus(s) ==
    CASE s.expired # {} -> "critical"
      [] s.expired = {} /\ s.expiring # {} -> "warning"
      [] s.expired = {} /\ s.expiring = {} /\ s.mismatch # {} -> "info"
      [] OTHER -> "ok"

\* The numbers in the subject.
buildSubject(s, summary) ==
    CASE emailStatus(s) = "critical" ->
             [vencidos |-> Cardinality(s.expired), proximos |-> Cardinality(s.expiring)]
      [] emailStatus(s) = "warning" -> [proximos |-> Cardinality(s.expiring)]
      [] emailStatus(s) = "info" -> [inconsistencias |-> Cardinality(s.mismatch)]
      [] OTHER -> [sanos |-> summary.All.Healthy, total |-> summary.All.Total]

\* The last row of the table of sources: the sum of each column, as the number of
\* pairs of a source and one of its entries (a sum that needs no recursion).
sourceTable(bySource) ==
    [f \in {"Total", "Apex", "Subdomain", "Healthy", "Alerted", "NoCertData"} |->
       Cardinality(UNION {{s} \X (1 .. bySource[s][f]) : s \in DOMAIN bySource})]

\* Both parts of the mail, HTML and plain text, are made of the same values.
RenderHTML(alerts, summary) ==
    LET s == bucketAndDedup(alerts)
    IN  [level |-> emailStatus(s), subject |-> buildSubject(s, summary), sections |-> s,
         kpis |-> summary.All, totals |-> sourceTable(summary.BySource)]

-----------------------------------------------------------------------------

\* The pool that runs the checks is WorkerPool.
CheckAll ==
    /\ Done /\ certs = Nothing
    /\ \E r \in [DOMAIN domains -> CertResults] :
         certs' = [p \in DOMAIN domains |->
                     [Domain |-> domains[p].Name, Err |-> r[p].Err, NotAfter |-> r[p].NotAfter]]
    /\ UNCHANGED <<vars, report>>

Compose ==
    /\ certs # Nothing /\ report = Nothing
    /\ LET alerts == Evaluate(now, certs, out)
           summary == BuildSummary(alerts)
       IN  report' = [alerts |-> alerts,
                      sheet |-> MarshalXLSX(BuildSnapshot(alerts)),
                      mail |-> RenderHTML(alerts, summary)]
    /\ UNCHANGED <<vars, certs>>

ReportNext ==
    \/ AddDomain /\ UNCHANGED <<certs, report>>
    \/ /\ i \notin DOMAIN domains
       /\ \E x \in DOMAIN groups : ProcessGroup(x)
       /\ UNCHANGED <<certs, report>>
    \/ CheckAll
    \/ Compose
    \/ report # Nothing /\ UNCHANGED reportVars

ReportSpec == ReportInit /\ [][ReportNext]_reportVars

-----------------------------------------------------------------------------

Lines == UNION {report.mail.sections[s] : s \in {"expired", "expiring", "mismatch"}}

\* A date that a run has to announce.
IsDue(t) ==
    ~IsZero(t) /\ (Before(t, now) \/ \E u \in Thresholds : daysBetween(now, t) <= u)

\* The dates a registration may be judged by: the answer of RDAP, or after a failure
\* one that an entry of the registration has in the YAML.
DatesInForce(x) ==
    IF ~lookups[x].Err THEN {lookups[x].ExpiresAt}
    ELSE {domains[p].ExpiryFallback : p \in WithFallback(domains, Members(domains, x))}

\* types.go, enrich.go: one FQDN of a registration speaks for it, whether or not the
\* domain itself is listed (a discoverer that fails may leave only subdomains), and
\* a failed lookup silences it only when no entry has a date.  A registration whose
\* date has to be announced is announced under exactly one of its names.
RegistrationIsWatched ==
    report # Nothing =>
        \A x \in Apexes(domains) :
            LET raised == {a \in report.alerts :
                             /\ a.kind \in {"domain_expiring", "domain_expired"}
                             /\ a.pos \in Members(domains, x)
                             /\ a.expiresAt \in DatesInForce(x)}
            IN  /\ DatesInForce(x) # {}
                /\ \A t \in DatesInForce(x) : IsDue(t)
                => \E p \in Members(domains, x) : {a.pos : a \in raised} = {p}

\* The mail shows "the full picture" (README): every alert has a line, for its
\* name and kind, at least as urgent as it is; with one port per name, the line
\* has the date of the alert.  Nothing else is shown.
MailShowsEveryAlert ==
    report # Nothing =>
        /\ Lines \subseteq report.alerts
        /\ \A a \in report.alerts : \E line \in Lines :
             /\ SameLine(line, a)
             /\ line.threshold <= a.threshold
             /\ SameWritten(a.pos) = {a.pos} => line.expiresAt = a.expiresAt

\* README: the banner tells the worst state, and the subject with it: nothing
\* that has expired is behind a banner or a subject that does not say so.
BannerIsWorst ==
    report # Nothing =>
        LET mail == report.mail
            kinds == {a.kind : a \in report.alerts}
            expired == {"cert_expired", "domain_expired"}
            soon == {"cert_expiring", "domain_expiring"}
        IN  /\ mail.level = "critical" <=> kinds \cap expired # {}
            /\ mail.level \in {"critical", "warning"} <=> kinds \cap (expired \cup soon) # {}
            /\ mail.level = "ok" <=> kinds = {}
            /\ "vencidos" \in DOMAIN mail.subject <=> kinds \cap expired # {}
            /\ "proximos" \in DOMAIN mail.subject =>
                   (mail.subject.proximos = 0 <=> kinds \cap soon = {})

\* The mail and the sheet attached to it are joined in two ways (lowercased names,
\* names as written) and must tell the same: the counts of the mail are those of
\* the rows, unless a name is written in two ways, and the table of sources adds
\* up to them.
KPIsMatchAttachment ==
    report # Nothing =>
        LET rows == report.sheet
            kpis == report.mail.kpis
            alerted == {p \in DOMAIN rows : rows[p].alerts # {}}
            nocert == {p \in DOMAIN rows \ alerted : rows[p].cert_error}
        IN  /\ report.mail.totals = kpis
            /\ kpis.Healthy + kpis.Alerted + kpis.NoCertData = kpis.Total
            /\ Cardinality(alerted) <= kpis.Alerted
            /\ (\A p \in DOMAIN rows : SameName(p) = SameWritten(p)) =>
                   /\ kpis.Alerted = Cardinality(alerted)
                   /\ kpis.NoCertData = Cardinality(nocert)

\* The sheet counts elapsed days (xlsx.go: daysLeftInt) and the alerts dates
\* (engine.go: daysBetween).  On one row they are never a full day apart, and it
\* is the alert that shows the more days, of either sign.
DaysLeftAgree ==
    report # Nothing =>
        \A p \in DOMAIN report.sheet :
          SameWritten(p) = {p} =>
            \A a \in report.sheet[p].alerts :
              ~IsMismatch(a) =>
                LET cell == IF a.kind \in CertKinds THEN report.sheet[p].cert_days_left
                                                    ELSE report.sheet[p].domain_days_left
                IN  \E n \in cell :
                      IF IsExpired(a) THEN n - a.daysLeft \in {0, 1} /\ n <= 0
                                      ELSE a.daysLeft - n \in {0, 1} /\ n >= 0

\* summary.go: Healthy counts the entries with "no error AND no alert".
HealthyMeansNoError ==
    report # Nothing =>
        report.mail.kpis.Healthy <=
            Cardinality({p \in DOMAIN report.sheet :
                           /\ ~report.sheet[p].cert_error
                           /\ ~report.sheet[p].domain_error
                           /\ report.sheet[p].alerts = {}})
=============================================================================
