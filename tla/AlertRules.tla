----------------------------- MODULE AlertRules -----------------------------
(***************************************************************************)
(* internal/alert/engine.go: the pure function from "now", the certificate *)
(* results and the registry results to the alerts of a run.                *)
(*                                                                         *)
(* A slice of results is a function from positions to records; the slice   *)
(* of alerts is a set whose members remember in pos which result they came *)
(* from.  Of the order of the alerts only this matters to the rest of the  *)
(* program: two alerts with the same key are stored in slice order.        *)
(***************************************************************************)
EXTENDS Dates

CONSTANT Thresholds     \* config "thresholds"

ASSUME ThresholdsAssumption == Thresholds \subseteq Int

CertKinds == {"cert_expiring", "cert_expired"}
DomainKinds == {"domain_expiring", "domain_expired", "domain_mismatch"}
Kinds == CertKinds \cup DomainKinds

\* The days are counted between the dates each value shows in its own zone.
daysBetween(now, future) == LocalDay(future) - LocalDay(now)

MkAlert(domain, kind, threshold, expiresAt, daysLeft, pos) ==
    [domain |-> domain, kind |-> kind, threshold |-> threshold,
     expiresAt |-> expiresAt, daysLeft |-> daysLeft, pos |-> pos]

\* Mutants of evalOne.
evalOneStrict(now, pos, domain, expiresAt, expiring, expired) ==
    LET days == daysBetween(now, expiresAt)
    IN  IF IsZero(expiresAt) THEN {}
        ELSE IF Before(expiresAt, now)
        THEN {MkAlert(domain, expired, 0, expiresAt, days, pos)}
        ELSE {MkAlert(domain, expiring, t, expiresAt, days, pos) :
                t \in {u \in Thresholds : days < u}}

evalOneExact(now, pos, domain, expiresAt, expiring, expired) ==
    LET days == daysBetween(now, expiresAt)
    IN  IF IsZero(expiresAt) THEN {}
        ELSE IF Before(expiresAt, now)
        THEN {MkAlert(domain, expired, 0, expiresAt, days, pos)}
        ELSE {MkAlert(domain, expiring, t, expiresAt, days, pos) :
                t \in {u \in Thresholds : days = u}}

evalOneDays(now, pos, domain, expiresAt, expiring, expired) ==
    LET days == daysBetween(now, expiresAt)
    IN  IF IsZero(expiresAt) THEN {}
        ELSE IF Before(expiresAt, now)
        THEN {MkAlert(domain, expired, days, expiresAt, 0, pos)}
        ELSE {MkAlert(domain, expiring, t, expiresAt, days, pos) :
                t \in {u \in Thresholds : days <= u}}

\* One record with a date: expired, or one alert per threshold reached.
evalOne(now, pos, domain, expiresAt, expiring, expired) ==
    LET days == daysBetween(now, expiresAt)
    IN  IF IsZero(expiresAt) THEN {}
        ELSE IF Before(expiresAt, now)
        THEN {MkAlert(domain, expired, 0, expiresAt, days, pos)}
        ELSE {MkAlert(domain, expiring, t, expiresAt, days, pos) :
                t \in {u \in Thresholds : days <= u}}

CertAlerts(now, certs) ==
    UNION {evalOne(now, p, certs[p].Domain, certs[p].NotAfter,
                   "cert_expiring", "cert_expired") :
             p \in {q \in DOMAIN certs : ~certs[q].Err}}

\* Mutant of Emitting: every FQDN of a registration emits.
EmittingAll(infos) == {p \in DOMAIN infos : ~infos[p].Err}

\* Only the representative of a registration emits alerts.
Emitting(infos) == {p \in DOMAIN infos : ~infos[p].Err /\ infos[p].IsApex}

ExpiryAlerts(now, infos) ==
    UNION {evalOne(now, p, infos[p].Domain, infos[p].ExpiresAt,
                   "domain_expiring", "domain_expired") : p \in Emitting(infos)}

MismatchAlerts(infos) ==
    {MkAlert(infos[p].Domain, "domain_mismatch", 0, infos[p].ExpiresAt,
             daysBetween(infos[p].ExpiresAt, infos[p].FallbackExpected), p) :
       p \in {q \in Emitting(infos) : ~IsZero(infos[q].FallbackExpected)}}

Evaluate(now, certs, infos) ==
    CertAlerts(now, certs) \cup ExpiryAlerts(now, infos) \cup MismatchAlerts(infos)
=============================================================================
