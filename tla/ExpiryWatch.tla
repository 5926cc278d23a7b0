---------------------------- MODULE ExpiryWatch ----------------------------
(***************************************************************************)
(* The alert rules against a running clock: one certificate and one        *)
(* registration, renewed or rolled back at any moment, evaluated by a cron *)
(* job that runs once a day at a fixed time, except on days it is skipped. *)
(***************************************************************************)
EXTENDS AlertRules

CONSTANTS
    LastTick,        \* bound of the clock
    CertDates,       \* expiry dates the certificate may have (UTC: x509)
    RegistryDates    \* expiry dates RDAP may answer (RFC 3339: any offset)

ASSUME WatchAssumption ==
    /\ LastTick \in Nat /\ LastTick >= TicksPerDay
    /\ CertDates \subseteq Time /\ RegistryDates \subseteq Time

VARIABLES
    now,
    runTick,         \* the time of day of the cron job
    due,             \* the job still has to run at this instant
    cert, registry,  \* the dates in the world
    lastRun,         \* when the last run read the clock
    seen,            \* what it saw: the zero time where the probe failed
    alerts           \* what it evaluated

vars == <<now, runTick, due, cert, registry, lastRun, seen, alerts>>

Site == "corp.com"

CertSeen(date) == [Domain |-> Site, Err |-> IsZero(date), NotAfter |-> date]
InfoSeen(date) ==
    [Domain |-> Site, Err |-> IsZero(date), ExpiresAt |-> date, IsApex |-> TRUE,
     FallbackExpected |-> ZeroTime]

Init ==
    /\ now = TicksPerDay
    /\ runTick \in 0 .. (TicksPerDay - 1)
    /\ due = (runTick = 0)
    /\ cert \in CertDates
    /\ registry \in RegistryDates
    /\ lastRun = 0
    /\ seen = [cert |-> ZeroTime, registry |-> ZeroTime]
    /\ alerts = {}

Tick ==
    /\ now < LastTick
    /\ ~due
    /\ now' = now + 1
    /\ due' = (now' % TicksPerDay = runTick)
    /\ UNCHANGED <<runTick, cert, registry, lastRun, seen, alerts>>

Renew ==
    /\ cert' \in CertDates
    /\ registry' \in RegistryDates
    /\ <<cert, registry>>' # <<cert, registry>>
    /\ UNCHANGED <<now, runTick, due, lastRun, seen, alerts>>

\* A run: each probe sees the current date or fails.
Run ==
    /\ due
    /\ due' = FALSE
    /\ seen' \in [cert : {cert, ZeroTime}, registry : {registry, ZeroTime}]
    /\ alerts' = Evaluate(UTC(now), <<CertSeen(seen'.cert)>>, <<InfoSeen(seen'.registry)>>)
    /\ lastRun' = now
    /\ UNCHANGED <<now, runTick, cert, registry>>

\* The run of this day does not happen: an older one still has the lock, the
\* build fails, the process is killed, the host is down.
Miss ==
    /\ due
    /\ due' = FALSE
    /\ UNCHANGED <<now, runTick, cert, registry, lastRun, seen, alerts>>

Next == Tick \/ Renew \/ Run \/ Miss

Spec == Init /\ [][Next]_vars

-----------------------------------------------------------------------------

TypeOK ==
    /\ now \in 0 .. LastTick
    /\ runTick \in 0 .. (TicksPerDay - 1)
    /\ due \in BOOLEAN
    /\ cert \in CertDates
    /\ registry \in RegistryDates
    /\ lastRun \in 0 .. now
    /\ seen \in [cert : CertDates \cup {ZeroTime},
                 registry : RegistryDates \cup {ZeroTime}]
    /\ \A a \in alerts : a.kind \in Kinds /\ a.threshold \in Thresholds \cup {0}

\* The date a run saw that its alerts of this kind are about.
DateFor(kind, run) == IF kind \in CertKinds THEN run.cert ELSE run.registry

ExpiringKinds == {"cert_expiring", "domain_expiring"}
ExpiredKinds == {"cert_expired", "domain_expired"}
Expired(kind) == IF kind \in CertKinds THEN "cert_expired" ELSE "domain_expired"

\* While a date stands, time only adds to its alerts: a threshold once reached
\* is reported by every later run that sees the date, whichever runs were missed
\* in between, until the expired alert takes over for good (what the dedup relies
\* on: an alert that came and went would be suppressed as already sent when it
\* matters).
UrgencyNeverDrops ==
    [][\A a \in alerts :
         (lastRun' # lastRun /\ a.expiresAt = DateFor(a.kind, seen'))
           => \E b \in alerts' :
                /\ <<b.kind, b.threshold>> \in {<<a.kind, a.threshold>>, <<Expired(a.kind), 0>>}
                /\ b.expiresAt = a.expiresAt]_vars

\* How many days later than in UTC a date may be in its own zone.
DaysAhead(date) == IF date.off > 0 THEN 1 ELSE 0

\* Nobody is told that a date has expired without having been warned: when the
\* run before still saw it ahead, that run reported it for every threshold of as
\* many days as went by since, which is one unless runs were missed, and of one
\* more if the date is written in a zone ahead of UTC.
WarnedBeforeExpired ==
    [][\A b \in alerts' :
         (/\ b.kind \in ExpiredKinds
          /\ b.expiresAt = DateFor(b.kind, seen)
          /\ lastRun <= b.expiresAt.at)
            => LET elapsed == UTCDay(UTC(lastRun')) - UTCDay(UTC(lastRun))
               IN  \A t \in {u \in Thresholds : u >= elapsed + DaysAhead(b.expiresAt)} :
                      \E a \in alerts :
                         /\ a.threshold = t
                         /\ a.kind \in ExpiringKinds /\ Expired(a.kind) = b.kind]_vars

\* What engine.go says of itself ("using UTC date boundaries"), and does not do
\* for a date that RDAP wrote with an offset.
DaysAreUTCDates ==
    \A a \in alerts : a.daysLeft = UTCDay(a.expiresAt) - UTCDay(UTC(lastRun))
=============================================================================
