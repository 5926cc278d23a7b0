------------------------- MODULE ExpiryWatchProofs -------------------------
(***************************************************************************)
(* Theorems about ExpiryWatch.  The alerts of a run are a function of the  *)
(* instant and of the two dates the run saw; what changes from one run to  *)
(* the next with the same date is the count of days alone, and it never    *)
(* grows.                                                                  *)
(***************************************************************************)
EXTENDS ExpiryWatch, TLAPS

(* Whole days of a longer time are not fewer.                                *)
LEMMA DaysGrow ==
    ASSUME NEW x \in Int, NEW y \in Int, x <= y
    PROVE  x \div TicksPerDay <= y \div TicksPerDay
BY TicksPerDayAssumption

(* Less than a day later is the same date or the next.                       *)
LEMMA WithinADay ==
    ASSUME NEW x \in Int, NEW y \in Int, x < y + TicksPerDay
    PROVE  x \div TicksPerDay <= (y \div TicksPerDay) + 1
BY TicksPerDayAssumption

LEMMA TimeTyped ==
    ASSUME NEW t \in Time
    PROVE  /\ t.at \in Nat /\ t.off \in Int /\ t.at + t.off \in Int
           /\ LocalDay(t) \in Int
<1>1. t.at \in Nat /\ t.off \in Int
  BY OffsetsAssumption DEF Time
<1>2. \A y \in Int : y \div TicksPerDay \in Int
  BY TicksPerDayAssumption
<1> QED
  BY <1>1, <1>2 DEF LocalDay

LEMMA UTCTyped ==
    ASSUME NEW n \in Nat
    PROVE  /\ UTC(n) \in Time /\ UTC(n).at = n
           /\ LocalDay(UTC(n)) = n \div TicksPerDay
<1>1. UTC(n) = [at |-> n, off |-> 0] /\ 0 \in Offsets
  BY OffsetsAssumption DEF UTC
<1>2. n + 0 = n
  OBVIOUS
<1> QED
  BY <1>1, <1>2 DEF Time, LocalDay

(* engine.go: the same date is never more days away at a later instant.       *)
LEMMA DaysDrop ==
    ASSUME NEW m \in Nat, NEW n \in Nat, m <= n, NEW t \in Time
    PROVE  /\ daysBetween(UTC(m), t) \in Int /\ daysBetween(UTC(n), t) \in Int
           /\ daysBetween(UTC(n), t) <= daysBetween(UTC(m), t)
<1>1. LocalDay(t) \in Int /\ LocalDay(UTC(m)) \in Int /\ LocalDay(UTC(n)) \in Int
  BY TimeTyped, UTCTyped
<1>2. LocalDay(UTC(m)) <= LocalDay(UTC(n))
  BY UTCTyped, DaysGrow
<1> QED
  BY <1>1, <1>2 DEF daysBetween

-----------------------------------------------------------------------------
(* What a run evaluates.                                                     *)

(* The alerts of an instant about one date of the site.                      *)
Expected(m, t, expiring, expired) ==
    evalOne(UTC(m), 1, Site, t, expiring, expired)

(* evalOne: none for the zero date, else one that it has expired, or one per  *)
(* threshold that the days left have reached.                                *)
LEMMA ExpectedAlerts ==
    ASSUME NEW m \in Nat, NEW t \in Time, NEW expiring, NEW expired
    PROVE  \A a :
             a \in Expected(m, t, expiring, expired) <=>
               /\ t.at # 0
               /\ \/ t.at < m /\ a = MkAlert(Site, expired, 0, t, daysBetween(UTC(m), t), 1)
                  \/ /\ m <= t.at
                     /\ \E u \in Thresholds :
                          /\ daysBetween(UTC(m), t) <= u
                          /\ a = MkAlert(Site, expiring, u, t, daysBetween(UTC(m), t), 1)
<1> DEFINE days == daysBetween(UTC(m), t)
<1>1. UTC(m).at = m /\ t.at \in Nat
  BY UTCTyped, TimeTyped
<1>2. Expected(m, t, expiring, expired) =
        IF t.at = 0 THEN {}
        ELSE IF t.at < m THEN {MkAlert(Site, expired, 0, t, days, 1)}
        ELSE {MkAlert(Site, expiring, u, t, days, 1) : u \in {v \in Thresholds : days <= v}}
  BY <1>1 DEF Expected, evalOne, IsZero, Before
<1> HIDE DEF days
<1>3. CASE t.at = 0
  BY <1>2, <1>3
<1>4. CASE t.at # 0 /\ t.at < m
  BY <1>1, <1>2, <1>4 DEF days
<1>5. CASE t.at # 0 /\ ~(t.at < m)
  BY <1>1, <1>2, <1>5 DEF days
<1> QED
  BY <1>3, <1>4, <1>5

(* Evaluate on what the two probes of the site saw.                          *)
LEMMA RunAlerts ==
    ASSUME NEW m \in Nat, NEW c \in Time, NEW r \in Time
    PROVE  Evaluate(UTC(m), <<CertSeen(c)>>, <<InfoSeen(r)>>) =
             Expected(m, c, "cert_expiring", "cert_expired")
             \cup Expected(m, r, "domain_expiring", "domain_expired")
<1>1. CertAlerts(UTC(m), <<CertSeen(c)>>) = Expected(m, c, "cert_expiring", "cert_expired")
  <2>1. CASE IsZero(c)
    <3>1. {q \in DOMAIN <<CertSeen(c)>> : ~<<CertSeen(c)>>[q].Err} = {}
      BY <2>1 DEF CertSeen
    <3> QED
      BY <2>1, <3>1 DEF CertAlerts, Expected, evalOne
  <2>2. CASE ~IsZero(c)
    <3>1. {q \in DOMAIN <<CertSeen(c)>> : ~<<CertSeen(c)>>[q].Err} = {1}
      BY <2>2 DEF CertSeen
    <3>2. <<CertSeen(c)>>[1].Domain = Site /\ <<CertSeen(c)>>[1].NotAfter = c
      BY DEF CertSeen
    <3> QED
      BY <3>1, <3>2 DEF CertAlerts, Expected
  <2> QED
    BY <2>1, <2>2
<1>2. ExpiryAlerts(UTC(m), <<InfoSeen(r)>>) = Expected(m, r, "domain_expiring", "domain_expired")
  <2>1. CASE IsZero(r)
    <3>1. Emitting(<<InfoSeen(r)>>) = {}
      BY <2>1 DEF InfoSeen, Emitting
    <3> QED
      BY <2>1, <3>1 DEF ExpiryAlerts, Expected, evalOne
  <2>2. CASE ~IsZero(r)
    <3>1. Emitting(<<InfoSeen(r)>>) = {1}
      BY <2>2 DEF InfoSeen, Emitting
    <3>2. <<InfoSeen(r)>>[1].Domain = Site /\ <<InfoSeen(r)>>[1].ExpiresAt = r
      BY DEF InfoSeen
    <3> QED
      BY <3>1, <3>2 DEF ExpiryAlerts, Expected
  <2> QED
    BY <2>1, <2>2
<1>3. MismatchAlerts(<<InfoSeen(r)>>) = {}
  <2>1. \A q \in Emitting(<<InfoSeen(r)>>) : IsZero(<<InfoSeen(r)>>[q].FallbackExpected)
    BY DEF Emitting, InfoSeen, IsZero, ZeroTime
  <2> QED
    BY <2>1 DEF MismatchAlerts
<1> QED
  BY <1>1, <1>2, <1>3 DEF Evaluate

-----------------------------------------------------------------------------
(* The inductive invariant: the alerts are those of the last run.            *)

LastRunAlerts ==
    alerts = Expected(lastRun, seen.cert, "cert_expiring", "cert_expired")
             \cup Expected(lastRun, seen.registry, "domain_expiring", "domain_expired")

WatchInv ==
    /\ now \in 0 .. LastTick
    /\ runTick \in 0 .. (TicksPerDay - 1)
    /\ due \in BOOLEAN
    /\ cert \in CertDates
    /\ registry \in RegistryDates
    /\ lastRun \in 0 .. now
    /\ seen \in [cert : CertDates \cup {ZeroTime}, registry : RegistryDates \cup {ZeroTime}]
    /\ LastRunAlerts

LEMMA SeenTimes ==
    ASSUME seen \in [cert : CertDates \cup {ZeroTime}, registry : RegistryDates \cup {ZeroTime}]
    PROVE  seen.cert \in Time /\ seen.registry \in Time
<1>1. ZeroTime \in Time
  BY OffsetsAssumption DEF ZeroTime, Time
<1> QED
  BY <1>1, WatchAssumption

LEMMA WatchInit == Init => WatchInv
<1> SUFFICES ASSUME Init PROVE WatchInv
  OBVIOUS
<1>1. /\ now \in 0 .. LastTick
      /\ runTick \in 0 .. (TicksPerDay - 1)
      /\ due \in BOOLEAN
      /\ cert \in CertDates
      /\ registry \in RegistryDates
      /\ lastRun \in 0 .. now
      /\ seen \in [cert : CertDates \cup {ZeroTime}, registry : RegistryDates \cup {ZeroTime}]
  BY TicksPerDayAssumption, WatchAssumption DEF Init
<1>2. \A expiring, expired : Expected(lastRun, ZeroTime, expiring, expired) = {}
  BY DEF Expected, evalOne, IsZero, ZeroTime
<1>3. LastRunAlerts
  BY <1>2 DEF Init, LastRunAlerts
<1> QED
  BY <1>1, <1>3 DEF WatchInv

LEMMA WatchStep == WatchInv /\ [Next]_vars => WatchInv'
<1> SUFFICES ASSUME WatchInv, [Next]_vars PROVE WatchInv'
  OBVIOUS
<1> USE DEF WatchInv
<1>1. CASE Tick
  <2>1. LastRunAlerts'
    BY <1>1 DEF Tick, LastRunAlerts
  <2> QED
    BY <1>1, <2>1, WatchAssumption DEF Tick
<1>2. CASE Renew
  <2>1. LastRunAlerts'
    BY <1>2 DEF Renew, LastRunAlerts
  <2> QED
    BY <1>2, <2>1 DEF Renew
<1>3. CASE Run
  <2>1. seen' \in [cert : CertDates \cup {ZeroTime}, registry : RegistryDates \cup {ZeroTime}]
    BY <1>3 DEF Run
  <2>2. seen'.cert \in Time /\ seen'.registry \in Time
    <3>1. ZeroTime \in Time
      BY OffsetsAssumption DEF ZeroTime, Time
    <3> QED
      BY <2>1, <3>1, WatchAssumption
  <2>3. now \in Nat
    BY WatchAssumption
  <2>4. LastRunAlerts'
    BY <1>3, <2>2, <2>3, RunAlerts DEF Run, LastRunAlerts
  <2>5. /\ now' \in 0 .. LastTick /\ runTick' \in 0 .. (TicksPerDay - 1)
        /\ due' \in BOOLEAN /\ cert' \in CertDates /\ registry' \in RegistryDates
        /\ lastRun' \in 0 .. now'
    <3>1. /\ now' = now /\ runTick' = runTick /\ due' = FALSE
          /\ cert' = cert /\ registry' = registry /\ lastRun' = now
      BY <1>3 DEF Run
    <3>2. now \in 0 .. now
      BY <2>3
    <3> QED
      BY <3>1, <3>2
  <2> QED
    BY <2>1, <2>4, <2>5
<1>4. CASE Miss
  <2>1. LastRunAlerts'
    BY <1>4 DEF Miss, LastRunAlerts
  <2> QED
    BY <1>4, <2>1 DEF Miss
<1>5. CASE UNCHANGED vars
  BY <1>5 DEF vars, LastRunAlerts
<1> QED
  BY <1>1, <1>2, <1>3, <1>4, <1>5 DEF Next

LEMMA WatchInvariant == Spec => []WatchInv
BY WatchInit, WatchStep, PTL DEF Spec

(* The state is typed: the clock stays within its bound, the last run is not   *)
(* in the future, every alert has a kind and a threshold of the configuration. *)
THEOREM WatchTypeCorrect == Spec => []TypeOK
<1>1. WatchInv => TypeOK
  <2> SUFFICES ASSUME WatchInv, NEW a \in alerts
               PROVE  a.kind \in Kinds /\ a.threshold \in Thresholds \cup {0}
    BY DEF WatchInv, TypeOK
  <2>1. lastRun \in Nat /\ seen.cert \in Time /\ seen.registry \in Time
    BY SeenTimes, WatchAssumption DEF WatchInv
  <2>2. PICK t \in Time, expiring \in Kinds, expired \in Kinds :
          a \in Expected(lastRun, t, expiring, expired)
    BY <2>1 DEF WatchInv, LastRunAlerts, Kinds, CertKinds, DomainKinds
  <2>3. \E k \in {expiring, expired}, u \in Thresholds \cup {0} :
          a = MkAlert(Site, k, u, t, daysBetween(UTC(lastRun), t), 1)
    BY <2>1, <2>2, ExpectedAlerts
  <2> QED
    BY <2>3 DEF MkAlert
<1> QED
  BY <1>1, WatchInvariant, PTL

-----------------------------------------------------------------------------
(* From one run to the next.                                                 *)

LEMMA UrgencyKept ==
    ASSUME NEW m \in Nat, NEW n \in Nat, m <= n, NEW t \in Time, NEW expiring, NEW expired,
           NEW a \in Expected(m, t, expiring, expired)
    PROVE  /\ a.expiresAt = t /\ a.kind \in {expiring, expired}
           /\ \E b \in Expected(n, t, expiring, expired) :
                /\ <<b.kind, b.threshold>> \in {<<a.kind, a.threshold>>, <<expired, 0>>}
                /\ b.expiresAt = t
<1>1. t.at \in Nat
  BY TimeTyped
<1>2. t.at # 0
  BY ExpectedAlerts
<1>3. CASE t.at < n
  <2> DEFINE b == MkAlert(Site, expired, 0, t, daysBetween(UTC(n), t), 1)
  <2>1. b \in Expected(n, t, expiring, expired)
    BY <1>2, <1>3, ExpectedAlerts
  <2>2. b.kind = expired /\ b.threshold = 0 /\ b.expiresAt = t
    BY DEF MkAlert
  <2>3. \E k \in {expiring, expired}, u \in Thresholds \cup {0} :
          a = MkAlert(Site, k, u, t, daysBetween(UTC(m), t), 1)
    BY ExpectedAlerts
  <2>4. a.expiresAt = t /\ a.kind \in {expiring, expired}
    BY <2>3 DEF MkAlert
  <2> HIDE DEF b
  <2> QED
    BY <2>1, <2>2, <2>4
<1>4. CASE n <= t.at
  <2>1. ~(t.at < m)
    BY <1>1, <1>4
  <2>2. PICK u \in Thresholds :
          /\ daysBetween(UTC(m), t) <= u
          /\ a = MkAlert(Site, expiring, u, t, daysBetween(UTC(m), t), 1)
    BY <2>1, ExpectedAlerts
  <2>3. daysBetween(UTC(n), t) <= u
    <3>1. u \in Int
      BY ThresholdsAssumption
    <3>2. /\ daysBetween(UTC(m), t) \in Int /\ daysBetween(UTC(n), t) \in Int
          /\ daysBetween(UTC(n), t) <= daysBetween(UTC(m), t)
      BY DaysDrop
    <3> QED
      BY <2>2, <3>1, <3>2
  <2> DEFINE b == MkAlert(Site, expiring, u, t, daysBetween(UTC(n), t), 1)
  <2>4. b \in Expected(n, t, expiring, expired)
    BY <1>2, <1>4, <2>3, ExpectedAlerts
  <2>5. b.kind = expiring /\ b.threshold = u /\ b.expiresAt = t
    BY DEF MkAlert
  <2>6. a.kind = expiring /\ a.threshold = u /\ a.expiresAt = t
    BY <2>2 DEF MkAlert
  <2> HIDE DEF b
  <2> QED
    BY <2>4, <2>5, <2>6
<1> QED
  BY <1>1, <1>3, <1>4

(* While a date stands, time only adds to its alerts, until the expired alert  *)
(* takes over for good: a threshold never comes and goes, whatever the zone of *)
(* the date, the hour of the runs and the runs that are missed.                *)
THEOREM UrgencyIsMonotone == Spec => UrgencyNeverDrops
<1>1. WatchInv /\ WatchInv' /\ [Next]_vars =>
        [\A a \in alerts :
           (lastRun' # lastRun /\ a.expiresAt = DateFor(a.kind, seen'))
             => \E b \in alerts' :
                  /\ <<b.kind, b.threshold>> \in {<<a.kind, a.threshold>>, <<Expired(a.kind), 0>>}
                  /\ b.expiresAt = a.expiresAt]_vars
  <2> SUFFICES ASSUME WatchInv, WatchInv', [Next]_vars, NEW a \in alerts,
                      lastRun' # lastRun, a.expiresAt = DateFor(a.kind, seen')
               PROVE  \E b \in alerts' :
                        /\ <<b.kind, b.threshold>>
                             \in {<<a.kind, a.threshold>>, <<Expired(a.kind), 0>>}
                        /\ b.expiresAt = a.expiresAt
    OBVIOUS
  <2>1. lastRun \in Nat /\ seen.cert \in Time /\ seen.registry \in Time
    BY SeenTimes, WatchAssumption DEF WatchInv
  <2>2. lastRun' \in Nat /\ lastRun <= lastRun'
    BY WatchAssumption DEF WatchInv, Next, Tick, Renew, Run, Miss, vars
  <2>3. alerts' = Expected(lastRun', seen'.cert, "cert_expiring", "cert_expired")
                  \cup Expected(lastRun', seen'.registry, "domain_expiring", "domain_expired")
    BY DEF WatchInv, LastRunAlerts
  <2>4. CASE a \in Expected(lastRun, seen.cert, "cert_expiring", "cert_expired")
    <3>1. a.expiresAt = seen.cert /\ a.kind \in {"cert_expiring", "cert_expired"}
      BY <2>1, <2>2, <2>4, UrgencyKept
    <3>2. seen'.cert = seen.cert /\ Expired(a.kind) = "cert_expired"
      BY <3>1 DEF DateFor, CertKinds, Expired
    <3>3. \E b \in Expected(lastRun', seen.cert, "cert_expiring", "cert_expired") :
            /\ <<b.kind, b.threshold>> \in {<<a.kind, a.threshold>>, <<"cert_expired", 0>>}
            /\ b.expiresAt = seen.cert
      BY <2>1, <2>2, <2>4, UrgencyKept
    <3> QED
      BY <2>3, <3>1, <3>2, <3>3
  <2>5. CASE a \in Expected(lastRun, seen.registry, "domain_expiring", "domain_expired")
    <3>1. a.expiresAt = seen.registry /\ a.kind \in {"domain_expiring", "domain_expired"}
      BY <2>1, <2>2, <2>5, UrgencyKept
    <3>2. seen'.registry = seen.registry /\ Expired(a.kind) = "domain_expired"
      BY <3>1 DEF DateFor, CertKinds, Expired
    <3>3. \E b \in Expected(lastRun', seen.registry, "domain_expiring", "domain_expired") :
            /\ <<b.kind, b.threshold>> \in {<<a.kind, a.threshold>>, <<"domain_expired", 0>>}
            /\ b.expiresAt = seen.registry
      BY <2>1, <2>2, <2>5, UrgencyKept
    <3> QED
      BY <2>3, <3>1, <3>2, <3>3
  <2> QED
    BY <2>4, <2>5 DEF WatchInv, LastRunAlerts
<1> QED
  BY <1>1, WatchInvariant, PTL DEF Spec, UrgencyNeverDrops

(* A date between two instants is no more days after the first than the second *)
(* is, or one more where its zone is ahead of UTC.                             *)
LEMMA DaysUntilExpiry ==
    ASSUME NEW m \in Nat, NEW n \in Nat, NEW t \in Time, t.at < n, t.off < TicksPerDay
    PROVE  /\ daysBetween(UTC(m), t) \in Int
           /\ daysBetween(UTC(m), t) <= UTCDay(UTC(n)) - UTCDay(UTC(m)) + DaysAhead(t)
<1>1. /\ t.at \in Nat /\ t.off \in Int /\ t.at + t.off \in Int /\ TicksPerDay \in Int
      /\ LocalDay(t) \in Int
  BY TimeTyped, TicksPerDayAssumption
<1>2. /\ LocalDay(UTC(m)) = m \div TicksPerDay /\ m \div TicksPerDay \in Int
      /\ UTCDay(UTC(m)) = m \div TicksPerDay /\ UTCDay(UTC(n)) = n \div TicksPerDay
      /\ n \div TicksPerDay \in Int
  BY UTCTyped, TicksPerDayAssumption DEF UTCDay
<1>3. LocalDay(t) <= (n \div TicksPerDay) + DaysAhead(t)
  <2>1. CASE t.off > 0
    <3>1. t.at + t.off < n + TicksPerDay
      BY <1>1
    <3> QED
      BY <1>1, <2>1, <3>1, WithinADay DEF LocalDay, DaysAhead
  <2>2. CASE ~(t.off > 0)
    <3>1. t.at + t.off <= n
      BY <1>1, <2>2
    <3>2. LocalDay(t) <= n \div TicksPerDay
      BY <1>1, <3>1, DaysGrow DEF LocalDay
    <3> QED
      BY <1>1, <1>2, <2>2, <3>2 DEF DaysAhead
  <2> QED
    BY <2>1, <2>2
<1> DEFINE ahead == DaysAhead(t)
<1>4. ahead \in Int
  BY DEF DaysAhead
<1>5. daysBetween(UTC(m), t) = LocalDay(t) - (m \div TicksPerDay)
  BY <1>2 DEF daysBetween
<1> HIDE DEF ahead
<1>6. LocalDay(t) <= (n \div TicksPerDay) + ahead
  BY <1>3 DEF ahead
<1> QED
  BY <1>1, <1>2, <1>4, <1>5, <1>6 DEF ahead

(* A date that is past at n and was ahead at m had, at m, an alert for every    *)
(* threshold of as many days as there are in between.                          *)
LEMMA WarnedAt ==
    ASSUME NEW m \in Nat, NEW n \in Nat, NEW t \in Time, t.off < TicksPerDay,
           t.at # 0, m <= t.at, t.at < n,
           NEW u \in Thresholds, u >= UTCDay(UTC(n)) - UTCDay(UTC(m)) + DaysAhead(t)
    PROVE  \A expiring, expired :
             \E a \in Expected(m, t, expiring, expired) : a.threshold = u /\ a.kind = expiring
<1> DEFINE bound == UTCDay(UTC(n)) - UTCDay(UTC(m)) + DaysAhead(t)
           days == daysBetween(UTC(m), t)
<1>1. bound \in Int
  BY UTCTyped, TicksPerDayAssumption DEF UTCDay, DaysAhead
<1>2. u \in Int /\ days \in Int /\ days <= bound /\ u >= bound
  BY DaysUntilExpiry, ThresholdsAssumption
<1> HIDE DEF bound, days
<1>3. days <= u
  BY <1>1, <1>2
<1> SUFFICES ASSUME NEW expiring, NEW expired
             PROVE  \E a \in Expected(m, t, expiring, expired) :
                       a.threshold = u /\ a.kind = expiring
  OBVIOUS
<1> DEFINE a == MkAlert(Site, expiring, u, t, daysBetween(UTC(m), t), 1)
<1>4. a \in Expected(m, t, expiring, expired)
  BY <1>3, ExpectedAlerts DEF days
<1>5. a.threshold = u /\ a.kind = expiring
  BY DEF MkAlert
<1> QED
  BY <1>4, <1>5

(* An alert of the expired kind is about a date that is past.                  *)
LEMMA ExpiredIsPast ==
    ASSUME NEW n \in Nat, NEW t \in Time, NEW expiring, NEW expired, expired # expiring,
           NEW b \in Expected(n, t, expiring, expired), b.kind = expired
    PROVE  t.at # 0 /\ t.at < n
<1>1. /\ t.at # 0
      /\ \/ t.at < n
         \/ \E u : b = MkAlert(Site, expiring, u, t, daysBetween(UTC(n), t), 1)
  BY ExpectedAlerts
<1> QED
  BY <1>1 DEF MkAlert

(* A date that has expired was warned of by the run before, for every          *)
(* threshold of as many days as passed since, and one more where the date is   *)
(* written ahead of UTC; for dates with any offset of less than a day, runs at *)
(* any hour and any number of days without a run.                              *)
THEOREM ExpiryIsAnnounced ==
    ASSUME \A t \in CertDates \cup RegistryDates : t.off < TicksPerDay
    PROVE  Spec => WarnedBeforeExpired
<1>1. WatchInv /\ WatchInv' =>
        [\A b \in alerts' :
           (/\ b.kind \in ExpiredKinds
            /\ b.expiresAt = DateFor(b.kind, seen)
            /\ lastRun <= b.expiresAt.at)
              => LET elapsed == UTCDay(UTC(lastRun')) - UTCDay(UTC(lastRun))
                 IN  \A t \in {u \in Thresholds : u >= elapsed + DaysAhead(b.expiresAt)} :
                        \E a \in alerts :
                           /\ a.threshold = t
                           /\ a.kind \in ExpiringKinds /\ Expired(a.kind) = b.kind]_vars
  <2> SUFFICES ASSUME WatchInv, WatchInv', NEW b \in alerts',
                      b.kind \in ExpiredKinds,
                      b.expiresAt = DateFor(b.kind, seen),
                      lastRun <= b.expiresAt.at,
                      NEW u \in Thresholds,
                      u >= UTCDay(UTC(lastRun')) - UTCDay(UTC(lastRun)) + DaysAhead(b.expiresAt)
               PROVE  \E a \in alerts :
                        /\ a.threshold = u
                        /\ a.kind \in ExpiringKinds /\ Expired(a.kind) = b.kind
    OBVIOUS
  <2>1. lastRun \in Nat /\ seen.cert \in Time /\ seen.registry \in Time
    BY SeenTimes, WatchAssumption DEF WatchInv
  <2>2. lastRun' \in Nat
    BY WatchAssumption DEF WatchInv
  <2>3. seen'.cert \in Time /\ seen'.registry \in Time
    <3>1. ZeroTime \in Time
      BY OffsetsAssumption DEF ZeroTime, Time
    <3> QED
      BY <3>1, WatchAssumption DEF WatchInv
  <2>4. seen.cert.off < TicksPerDay /\ seen.registry.off < TicksPerDay
    <3>1. ZeroTime.off < TicksPerDay
      BY TicksPerDayAssumption DEF ZeroTime
    <3> QED
      BY <3>1 DEF WatchInv
  <2>5. CASE b \in Expected(lastRun', seen'.cert, "cert_expiring", "cert_expired")
    <3>1. b.expiresAt = seen'.cert /\ b.kind \in {"cert_expiring", "cert_expired"}
      BY <2>2, <2>3, <2>5, UrgencyKept
    <3>2. b.kind = "cert_expired" /\ b.expiresAt = seen.cert /\ seen'.cert = seen.cert
      BY <3>1 DEF ExpiredKinds, DateFor, CertKinds
    <3>3. seen.cert.at # 0 /\ seen.cert.at < lastRun'
      BY <2>2, <2>3, <2>5, <3>2, ExpiredIsPast
    <3>4. lastRun <= seen.cert.at
          /\ u >= UTCDay(UTC(lastRun')) - UTCDay(UTC(lastRun)) + DaysAhead(seen.cert)
      BY <3>2
    <3>5. \E a \in Expected(lastRun, seen.cert, "cert_expiring", "cert_expired") :
            a.threshold = u /\ a.kind = "cert_expiring"
      <4> HIDE DEF WatchInv
      <4> QED
        BY <2>1, <2>2, <2>4, <3>3, <3>4, WarnedAt
    <3> QED
      BY <3>2, <3>5 DEF WatchInv, LastRunAlerts, ExpiringKinds, Expired, CertKinds
  <2>6. CASE b \in Expected(lastRun', seen'.registry, "domain_expiring", "domain_expired")
    <3>1. b.expiresAt = seen'.registry /\ b.kind \in {"domain_expiring", "domain_expired"}
      BY <2>2, <2>3, <2>6, UrgencyKept
    <3>2. b.kind = "domain_expired" /\ b.expiresAt = seen.registry /\ seen'.registry = seen.registry
      BY <3>1 DEF ExpiredKinds, DateFor, CertKinds
    <3>3. seen.registry.at # 0 /\ seen.registry.at < lastRun'
      BY <2>2, <2>3, <2>6, <3>2, ExpiredIsPast
    <3>4. lastRun <= seen.registry.at
          /\ u >= UTCDay(UTC(lastRun')) - UTCDay(UTC(lastRun)) + DaysAhead(seen.registry)
      BY <3>2
    <3>5. \E a \in Expected(lastRun, seen.registry, "domain_expiring", "domain_expired") :
            a.threshold = u /\ a.kind = "domain_expiring"
      <4> HIDE DEF WatchInv
      <4> QED
        BY <2>1, <2>2, <2>4, <3>3, <3>4, WarnedAt
    <3> QED
      BY <3>2, <3>5 DEF WatchInv, LastRunAlerts, ExpiringKinds, Expired, CertKinds
  <2> QED
    BY <2>5, <2>6 DEF WatchInv, LastRunAlerts
<1> QED
  BY <1>1, WatchInvariant, PTL DEF Spec, WarnedBeforeExpired
=============================================================================
