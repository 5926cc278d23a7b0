--------------------------- MODULE MonitorProofs ---------------------------
(***************************************************************************)
(* Theorems about Monitor, for any list of domains, any probe results and  *)
(* any number of runs, failures and crashes.                               *)
(***************************************************************************)
EXTENDS Monitor, DataLemmas

(* The shape of the results that the engine is given. *)
CertResultsOf(certs) ==
    /\ DOMAIN certs \subseteq Entries
    /\ \A p \in DOMAIN certs :
         certs[p].Domain = domains[p].Name /\ certs[p].NotAfter \in Time

InfosOf(infos) ==
    /\ DOMAIN infos \subseteq Entries
    /\ \A p \in DOMAIN infos :
         /\ infos[p].Domain = domains[p].Name
         /\ infos[p].ExpiresAt \in Time
         /\ infos[p].FallbackExpected \in Time

(* evalOne yields typed alerts about its record, of one of the two kinds. *)
LEMMA EvalOneAlerts ==
    ASSUME NEW now \in Time, NEW p \in Entries, NEW t \in Time,
           NEW expiring \in Kinds, NEW expired \in Kinds,
           NEW a \in evalOne(now, p, domains[p].Name, t, expiring, expired)
    PROVE  /\ a \in Alerts
           /\ a.domain = domains[p].Name
           /\ a.expiresAt = t
           /\ a.pos = p
           /\ a.kind \in {expiring, expired}
<1> DEFINE days == daysBetween(now, t)
<1>1. days \in Int
  BY DaysInt
<1> HIDE DEF days
<1>2. domains[p].Name \in Names
  BY DEF Names
<1>3. \E u \in Thresholds \cup {0}, k \in {expiring, expired} :
        a = MkAlert(domains[p].Name, k, u, t, days, p)
  BY DEF evalOne, days
<1>4. PICK u \in Thresholds \cup {0}, k \in {expiring, expired} :
        a = MkAlert(domains[p].Name, k, u, t, days, p)
  BY <1>3
<1>5. u \in Int
  BY ThresholdsAssumption
<1> QED
  BY <1>1, <1>2, <1>4, <1>5 DEF MkAlert, Alerts

(* engine.go: every alert is typed and is about the record it came from ... *)
LEMMA EvaluateAlerts ==
    ASSUME NEW now \in Time,
           NEW certs, CertResultsOf(certs),
           NEW infos, InfosOf(infos),
           NEW a \in Evaluate(now, certs, infos)
    PROVE  /\ a \in Alerts
           /\ a.domain = domains[a.pos].Name
           /\ a.kind \in CertKinds =>
                a.pos \in DOMAIN certs /\ a.expiresAt = certs[a.pos].NotAfter
           /\ a.kind \in DomainKinds =>
                a.pos \in Emitting(infos) /\ a.expiresAt = infos[a.pos].ExpiresAt
<1>1. CASE a \in CertAlerts(now, certs)
  <2>1. PICK p \in DOMAIN certs :
          a \in evalOne(now, p, certs[p].Domain, certs[p].NotAfter,
                        "cert_expiring", "cert_expired")
    BY <1>1 DEF CertAlerts
  <2>2. p \in Entries /\ certs[p].Domain = domains[p].Name /\ certs[p].NotAfter \in Time
    BY DEF CertResultsOf
  <2>3. /\ a \in Alerts
        /\ a.domain = domains[p].Name
        /\ a.expiresAt = certs[p].NotAfter
        /\ a.pos = p
        /\ a.kind \in {"cert_expiring", "cert_expired"}
    <3>1. "cert_expiring" \in Kinds /\ "cert_expired" \in Kinds
      BY DEF Kinds, CertKinds
    <3> QED
      BY <2>1, <2>2, <3>1, EvalOneAlerts
  <2> QED
    BY <2>3 DEF CertKinds, DomainKinds
<1>2. CASE a \in ExpiryAlerts(now, infos)
  <2>1. PICK p \in Emitting(infos) :
          a \in evalOne(now, p, infos[p].Domain, infos[p].ExpiresAt,
                        "domain_expiring", "domain_expired")
    BY <1>2 DEF ExpiryAlerts
  <2>2. p \in Entries /\ infos[p].Domain = domains[p].Name /\ infos[p].ExpiresAt \in Time
    BY DEF InfosOf, Emitting
  <2>3. /\ a \in Alerts
        /\ a.domain = domains[p].Name
        /\ a.expiresAt = infos[p].ExpiresAt
        /\ a.pos = p
        /\ a.kind \in {"domain_expiring", "domain_expired"}
    <3>1. "domain_expiring" \in Kinds /\ "domain_expired" \in Kinds
      BY DEF Kinds, DomainKinds
    <3> QED
      BY <2>1, <2>2, <3>1, EvalOneAlerts
  <2> QED
    BY <2>1, <2>3 DEF CertKinds, DomainKinds
<1>3. CASE a \in MismatchAlerts(infos)
  <2>1. PICK p \in Emitting(infos) :
          a = MkAlert(infos[p].Domain, "domain_mismatch", 0, infos[p].ExpiresAt,
                      daysBetween(infos[p].ExpiresAt, infos[p].FallbackExpected), p)
    BY <1>3 DEF MismatchAlerts
  <2> DEFINE days == daysBetween(infos[p].ExpiresAt, infos[p].FallbackExpected)
  <2>2. /\ p \in Entries
        /\ infos[p].Domain = domains[p].Name
        /\ infos[p].ExpiresAt \in Time
        /\ infos[p].FallbackExpected \in Time
    BY DEF InfosOf, Emitting
  <2>3. days \in Int
    BY <2>2, DaysInt
  <2> HIDE DEF days
  <2>4. domains[p].Name \in Names
    BY <2>2 DEF Names
  <2> QED
    BY <2>1, <2>2, <2>3, <2>4 DEF MkAlert, Alerts, Kinds, CertKinds, DomainKinds, days
<1> QED
  BY <1>1, <1>2, <1>3 DEF Evaluate

(* ... and two alerts of one record with the same key announce the same date: *)
(* what LastPerKey keeps is one record per key.                              *)
LEMMA SameRecordSameFact ==
    ASSUME NEW now \in Time,
           NEW certs, CertResultsOf(certs),
           NEW infos, InfosOf(infos),
           NEW a \in Evaluate(now, certs, infos),
           NEW b \in Evaluate(now, certs, infos),
           Key(a) = Key(b), a.pos = b.pos
    PROVE  Fact(a) = Fact(b)
<1>1. /\ a.domain = b.domain
      /\ a.kind = b.kind
      /\ a.threshold = b.threshold
  BY DEF Key
<1>2. a.kind \in CertKinds \/ a.kind \in DomainKinds
  BY EvaluateAlerts DEF Alerts, Kinds
<1>3. a.expiresAt = b.expiresAt
  BY <1>1, <1>2, EvaluateAlerts
<1> QED
  BY <1>1, <1>3 DEF Fact

(* Every field of the record is read back; written out for the provers.     *)
LEMMA FactInRecord ==
    ASSUME NEW a \in Alerts
    PROVE  Fact(a) \in Record
BY DEF Fact, Alerts, Record, Time

LEMMA UpsertRecords ==
    ASSUME NEW existing, NEW sent, NEW T, existing \subseteq T, Facts(sent) \subseteq T
    PROVE  upsert(existing, sent) \subseteq T
BY DEF upsert, LastPerKey, Facts

(* enrich.go: Enrich hands the engine one typed info per discovered domain. *)
LEMMA EnrichInfos ==
    ASSUME NEW seen \in SUBSET Entries,
           NEW found, found = [e \in seen |-> domains[e]],
           NEW lookups \in [Apexes(found) -> LookupResults]
    PROVE  InfosOf(Enrich(found, lookups))
<1> DEFINE infos == Enrich(found, lookups)
<1>1. DOMAIN infos = seen /\ DOMAIN found = seen
  BY DEF Enrich
<1>2. SUFFICES ASSUME NEW p \in seen
               PROVE  /\ infos[p].Domain = domains[p].Name
                      /\ infos[p].ExpiresAt \in Time
                      /\ infos[p].FallbackExpected \in Time
  BY <1>1 DEF InfosOf
<1> DEFINE x == Apex(found, p)
           fallback == GroupFallback(found, x)
           rep == Representative(found, x)
<1>3. fallback \in Time
  <2> DEFINE onApex == WithFallback(found, ApexMembers(found, x))
             onAny == WithFallback(found, Members(found, x))
  <2>1. onApex \subseteq seen /\ onAny \subseteq seen
    BY <1>1 DEF WithFallback, ApexMembers, Members
  <2>2. seen \subseteq Nat /\ seen \subseteq 1 .. NumEntries
    BY NumEntriesAssumption DEF Entries
  <2>3. \A e \in seen : found[e].ExpiryFallback \in Time
    BY domainsAssumption
  <2>4. onApex # {} => Last(onApex) \in seen
    BY <2>1, <2>2, LastIn, NumEntriesAssumption
  <2>5. onAny # {} => First(onAny) \in seen
    BY <2>1, <2>2, FirstIn
  <2>6. ZeroTime \in Time
    BY OffsetsAssumption DEF ZeroTime, Time
  <2> QED
    BY <2>3, <2>4, <2>5, <2>6 DEF GroupFallback
<1>4. lookups[x] \in [Err : BOOLEAN, ExpiresAt : Time]
  <2>1. x \in Apexes(found)
    BY <1>1 DEF Apexes
  <2> QED
    BY <2>1, LookupResultsAssumption
<1>5. infos[p] = MemberInfo(found, p, rep, fallback, lookups[x])
  BY <1>1 DEF Enrich
<1>6. ZeroTime \in Time
  BY OffsetsAssumption DEF ZeroTime, Time
<1>7. Substituted(lookups[x], fallback).ExpiresAt \in Time
  BY <1>3, <1>4 DEF Substituted
<1>8. found[p].Name = domains[p].Name
  OBVIOUS
<1> HIDE DEF infos, fallback, rep, x
<1> QED
  BY <1>3, <1>5, <1>6, <1>7, <1>8 DEF MemberInfo

(* What Probe leaves in alerts, whatever was discovered and answered.        *)
LEMMA ProbeAlerts ==
    ASSUME Probe
    PROVE  \E now, certs, infos :
             /\ now \in Time
             /\ CertResultsOf(certs)
             /\ InfosOf(infos)
             /\ alerts' = Evaluate(now, certs, infos)
<1>1. PICK seen \in SUBSET Entries, at \in Clock :
        LET found == [e \in seen |-> domains[e]]
        IN  \E results \in [seen -> CertResults],
               lookups \in [Apexes(found) -> LookupResults] :
              LET certs == [e \in seen |-> [Domain |-> domains[e].Name,
                                            Err |-> results[e].Err,
                                            NotAfter |-> results[e].NotAfter]]
              IN  alerts' = Evaluate(UTC(at), certs, Enrich(found, lookups))
  BY DEF Probe
<1> DEFINE found == [e \in seen |-> domains[e]]
<1>2. PICK results \in [seen -> CertResults],
           lookups \in [Apexes(found) -> LookupResults] :
             alerts' = Evaluate(UTC(at),
                                [e \in seen |-> [Domain |-> domains[e].Name,
                                                 Err |-> results[e].Err,
                                                 NotAfter |-> results[e].NotAfter]],
                                Enrich(found, lookups))
  BY <1>1
<1> DEFINE certs == [e \in seen |-> [Domain |-> domains[e].Name,
                                     Err |-> results[e].Err,
                                     NotAfter |-> results[e].NotAfter]]
           infos == Enrich(found, lookups)
<1>3. UTC(at) \in Time
  BY ClockAssumption, OffsetsAssumption DEF UTC, Time
<1>4. CertResultsOf(certs)
  <2>1. \A p \in seen : results[p].NotAfter \in Time
    BY CertResultsAssumption
  <2> QED
    BY <2>1 DEF CertResultsOf
<1>5. InfosOf(infos)
  BY EnrichInfos
<1> HIDE DEF found, certs, infos
<1> QED
  BY <1>2, <1>3, <1>4, <1>5 DEF certs, infos

-----------------------------------------------------------------------------
(* Type correctness.                                                         *)

(* The values every step can rely on: the program's variables hold what they *)
(* are meant to hold, however a run ended.                                   *)
THEOREM MonitorTypeCorrect == Spec => []TypeOK
<1>1. Init => TypeOK
  <2>1. Absent \in Contents
    BY DEF Absent, Contents
  <2> QED
    BY <2>1 DEF Init, TypeOK, Steps, Pings
<1>2. TypeOK /\ [Next]_vars => TypeOK'
  <2> SUFFICES ASSUME TypeOK, [Next]_vars
               PROVE  TypeOK'
    OBVIOUS
  <2> USE DEF TypeOK
  <2>1. \A outcome : Return(outcome) /\ outcome \subseteq Pings =>
          /\ pc' \in Steps /\ dry' \in BOOLEAN /\ alerts' \subseteq Alerts
          /\ fresh' \subseteq Alerts /\ merged' \subseteq Record /\ ping' \in Pings
    BY DEF Return, Steps
  <2>2. SuccessPing \subseteq Pings /\ FailurePing \subseteq Pings
    BY DEF SuccessPing, FailurePing, Pings
  <2>3. Facts(alerts) \subseteq Record
    BY FactInRecord DEF Facts
  <2>4. ASSUME NEW d \in BOOLEAN, Start(d) PROVE TypeOK'
    BY <2>4 DEF Start, disk, history, Steps
  <2>5. CASE BuildFails
    BY <2>5 DEF BuildFails, memory, disk, history, Steps, Pings
  <2>6. CASE BuildDeps
    BY <2>6 DEF BuildDeps, memory, disk, history, Steps
  <2>7. CASE NothingToDo
    BY <2>1, <2>2, <2>7 DEF NothingToDo, disk, history
  <2>8. CASE Probe
    <3>1. alerts' \subseteq Alerts
      BY <2>8, ProbeAlerts, EvaluateAlerts
    <3> QED
      BY <2>8, <3>1 DEF Probe, disk, history, Steps
  <2>9. CASE SaveInventory
    BY <2>9 DEF SaveInventory, memory, disk, history, Steps
  <2>10. CASE Filter
    <3>1. CASE filterAgainst(file.records, alerts) = {}
      BY <2>1, <2>2, <2>10, <3>1 DEF Filter, disk, history
    <3>2. CASE filterAgainst(file.records, alerts) # {}
      <4>1. filterAgainst(file.records, alerts) \subseteq alerts
        BY DEF filterAgainst
      <4> QED
        BY <2>10, <3>2, <4>1 DEF Filter, disk, history, Steps
    <3> QED
      BY <3>1, <3>2
  <2>11. CASE FilterFails
    BY <2>1, <2>2, <2>11 DEF FilterFails, disk, history
  <2>12. CASE Notify
    BY <2>1, <2>2, <2>3, <2>12 DEF Notify, Mail, AfterNotify, memory, disk, Steps
  <2>13. CASE NotifyFails
    BY <2>1, <2>2, <2>13 DEF NotifyFails, disk, history
  <2>14. CASE NotifyUnsure
    BY <2>1, <2>2, <2>3, <2>14 DEF NotifyUnsure, Mail, disk
  <2>15. CASE LoadAndMerge
    <3>1. Facts(fresh) \subseteq Record
      BY FactInRecord DEF Facts
    <3>2. file.records \subseteq Record
      BY DEF Contents
    <3>3. upsert(file.records, fresh) \subseteq Record
      BY <3>1, <3>2, UpsertRecords
    <3> QED
      BY <2>15, <3>3 DEF LoadAndMerge, disk, history, Steps
  <2>16. CASE OpenTmp
    BY <2>16 DEF OpenTmp, Torn, Contents, memory, history, Steps
  <2>17. CASE WriteTmp
    BY <2>17 DEF WriteTmp, Whole, Contents, memory, history, Steps
  <2>18. CASE RenameTmp
    <3>1. SettledBy(alerts) \subseteq Record
      BY <2>3 DEF SettledBy
    <3> QED
      BY <2>1, <2>2, <2>18, <3>1 DEF RenameTmp, Absent, Contents
  <2>19. CASE SaveFails
    BY <2>1, <2>2, <2>19 DEF SaveFails, disk, history
  <2>20. CASE Crash
    BY <2>20 DEF Crash, disk, history, Steps, Pings
  <2>21. CASE UNCHANGED vars
    BY <2>21 DEF vars
  <2> QED
    BY <2>4, <2>5, <2>6, <2>7, <2>8, <2>9, <2>10, <2>11, <2>12, <2>13, <2>14, <2>15,
       <2>16, <2>17, <2>18, <2>19, <2>20, <2>21 DEF Next
<1> QED
  BY <1>1, <1>2, PTL DEF Spec

-----------------------------------------------------------------------------
(* The steps of a run.                                                       *)

(* A run that saves is not a dry run, what it merges is what Filter saw, and *)
(* the state file is replaced by a whole file or not at all.                 *)
THEOREM RunInvariant == Spec => []RunInv
<1>1. Init => RunInv
  BY DEF Init, RunInv, Saving, StateFileReadable, Absent
<1>2. RunInv /\ [Next]_vars => RunInv'
  <2> SUFFICES ASSUME RunInv, [Next]_vars
               PROVE  RunInv'
    OBVIOUS
  <2> USE DEF RunInv, Saving, StateFileReadable
  <2>1. ASSUME NEW d \in BOOLEAN, Start(d) PROVE RunInv'
    BY <2>1 DEF Start, disk
  <2>2. CASE BuildFails
    BY <2>2 DEF BuildFails, memory, disk
  <2>3. CASE BuildDeps
    BY <2>3 DEF BuildDeps, memory, disk
  <2>4. CASE NothingToDo
    BY <2>4 DEF NothingToDo, Return, disk
  <2>5. CASE Probe
    BY <2>5 DEF Probe, disk
  <2>6. CASE SaveInventory
    BY <2>6 DEF SaveInventory, memory, disk
  <2>7. CASE Filter
    <3>1. CASE filterAgainst(file.records, alerts) = {}
      BY <2>7, <3>1 DEF Filter, Return, disk
    <3>2. CASE filterAgainst(file.records, alerts) # {}
      BY <2>7, <3>2 DEF Filter, disk
    <3> QED
      BY <3>1, <3>2
  <2>8. CASE FilterFails
    BY <2>8 DEF FilterFails, Return, disk
  <2>9. CASE Notify
    BY <2>9 DEF Notify, AfterNotify, Return, memory, disk
  <2>10. CASE NotifyFails
    BY <2>10 DEF NotifyFails, Return, disk
  <2>11. CASE NotifyUnsure
    BY <2>11 DEF NotifyUnsure, Return, disk
  <2>12. CASE LoadAndMerge
    BY <2>12 DEF LoadAndMerge, disk
  <2>13. CASE OpenTmp
    BY <2>13 DEF OpenTmp, memory
  <2>14. CASE WriteTmp
    BY <2>14 DEF WriteTmp, memory
  <2>15. CASE RenameTmp
    BY <2>15 DEF RenameTmp, Return, Whole
  <2>16. CASE SaveFails
    BY <2>16 DEF SaveFails, Return, disk
  <2>17. CASE Crash
    BY <2>17 DEF Crash, disk
  <2>18. CASE UNCHANGED vars
    BY <2>18 DEF vars
  <2> QED
    BY <2>1, <2>2, <2>3, <2>4, <2>5, <2>6, <2>7, <2>8, <2>9, <2>10, <2>11, <2>12,
       <2>13, <2>14, <2>15, <2>16, <2>17, <2>18 DEF Next
<1> QED
  BY <1>1, <1>2, PTL DEF Spec

(* A crash or an error in the middle of Save leaves a state file that the    *)
(* next run can parse.                                                       *)
THEOREM StateFileStaysReadable == Spec => []StateFileReadable
<1>1. RunInv => StateFileReadable
  BY DEF RunInv
<1> QED
  BY <1>1, RunInvariant, PTL

-----------------------------------------------------------------------------
(* Mail before memory.                                                       *)

LEMMA SuppressedFacts ==
    ASSUME NEW records, NEW S
    PROVE  Facts(S) \subseteq records \cup Facts(filterAgainst(records, S))
BY DEF Facts, filterAgainst

LEMMA MailInvariant ==
    ASSUME Backend = "smtp"
    PROVE  Spec => []MailInv
<1>1. Init => MailInv
  BY DEF Init, MailInv, RememberedWasMailed, SuccessMeansInformed, Saving, Absent
<1>2. MailInv /\ RunInv /\ [Next]_vars => MailInv'
  <2> SUFFICES ASSUME MailInv, RunInv, [Next]_vars
               PROVE  MailInv'
    OBVIOUS
  <2> USE DEF MailInv, RememberedWasMailed, SuccessMeansInformed, Saving
  <2>1. ASSUME NEW d \in BOOLEAN, Start(d) PROVE MailInv'
    BY <2>1 DEF Start, disk, history
  <2>2. CASE BuildFails
    BY <2>2 DEF BuildFails, memory, disk, history
  <2>3. CASE BuildDeps
    BY <2>3 DEF BuildDeps, memory, disk, history
  <2>4. CASE NothingToDo
    <3>1. Facts(alerts') = {}
      BY <2>4 DEF NothingToDo, Return, RunInv, Facts
    <3> QED
      BY <2>4, <3>1 DEF NothingToDo, Return, disk, history
  <2>5. CASE Probe
    BY <2>5 DEF Probe, disk, history
  <2>6. CASE SaveInventory
    BY <2>6 DEF SaveInventory, memory, disk, history
  <2>7. CASE Filter
    <3>1. CASE filterAgainst(file.records, alerts) = {}
      <4>1. Facts(alerts) \subseteq file.records
        BY <3>1, SuppressedFacts DEF Facts
      <4> QED
        BY <2>7, <3>1, <4>1 DEF Filter, Return, disk, history
    <3>2. CASE filterAgainst(file.records, alerts) # {}
      BY <2>7, <3>2 DEF Filter, disk, history
    <3> QED
      BY <3>1, <3>2
  <2>8. CASE FilterFails
    <3>1. ping' # "success"
      BY <2>8 DEF FilterFails, Return, FailurePing
    <3> QED
      BY <2>8, <3>1 DEF FilterFails, Return, disk, history
  <2>9. CASE Notify
    <3>1. CASE dry
      BY <2>9, <3>1 DEF Notify, Mail, MailBackend, AfterNotify, Return, disk
    <3>2. CASE ~dry
      <4>1. mailed' = mailed \cup Facts(alerts)
        BY <2>9, <3>2 DEF Notify, Mail, MailBackend
      <4> QED
        BY <2>9, <3>2, <4>1 DEF Notify, AfterNotify, memory, disk
    <3> QED
      BY <3>1, <3>2
  <2>10. CASE NotifyFails
    <3>1. ping' # "success"
      BY <2>10 DEF NotifyFails, Return, FailurePing
    <3> QED
      BY <2>10, <3>1 DEF NotifyFails, Return, disk, history
  <2>11. CASE NotifyUnsure
    <3>1. ping' # "success"
      BY <2>11 DEF NotifyUnsure, Return, FailurePing
    <3>2. mailed \subseteq mailed'
      BY <2>11 DEF NotifyUnsure, Mail
    <3> QED
      BY <2>11, <3>1, <3>2 DEF NotifyUnsure, Return, disk
  <2>12. CASE LoadAndMerge
    <3>1. Facts(fresh) \subseteq mailed
      BY <2>12 DEF LoadAndMerge, RunInv, filterAgainst, Facts
    <3>2. merged' \subseteq mailed
      BY <2>12, <3>1, UpsertRecords DEF LoadAndMerge
    <3> QED
      BY <2>12, <3>2 DEF LoadAndMerge, disk, history
  <2>13. CASE OpenTmp
    BY <2>13 DEF OpenTmp, Torn, memory, history
  <2>14. CASE WriteTmp
    BY <2>14 DEF WriteTmp, Whole, memory, history
  <2>15. CASE RenameTmp
    BY <2>15 DEF RenameTmp, Return, Absent
  <2>16. CASE SaveFails
    <3>1. ping' # "success"
      BY <2>16 DEF SaveFails, Return, FailurePing
    <3> QED
      BY <2>16, <3>1 DEF SaveFails, Return, disk, history
  <2>17. CASE Crash
    BY <2>17 DEF Crash, disk, history
  <2>18. CASE UNCHANGED vars
    BY <2>18 DEF vars
  <2> QED
    BY <2>1, <2>2, <2>3, <2>4, <2>5, <2>6, <2>7, <2>8, <2>9, <2>10, <2>11, <2>12,
       <2>13, <2>14, <2>15, <2>16, <2>17, <2>18 DEF Next
<1> QED
  BY <1>1, <1>2, RunInvariant, PTL DEF Spec

(* With the SMTP backend, nothing is remembered as sent that was not mailed: *)
(* no failure, crash or dry run makes a later run suppress an alert that     *)
(* nobody received.                                                          *)
THEOREM OnlyMailedIsRemembered ==
    ASSUME Backend = "smtp"
    PROVE  Spec => []RememberedWasMailed
<1>1. MailInv => RememberedWasMailed
  BY DEF MailInv
<1> QED
  BY <1>1, MailInvariant, PTL

(* With the SMTP backend, a success ping means that every alert of that run  *)
(* has been mailed.                                                          *)
THEOREM SuccessPingIsHonest ==
    ASSUME Backend = "smtp"
    PROVE  Spec => []SuccessMeansInformed
<1>1. MailInv => SuccessMeansInformed
  BY DEF MailInv
<1> QED
  BY <1>1, MailInvariant, PTL

(* However many FQDNs of a registration are listed, in whatever order and with *)
(* whatever answers, a run alerts about it once per kind and threshold.       *)
THEOREM RegistrationsAlertOnce == Spec => []OneAlertPerRegistration
<1>1. Init => OneAlertPerRegistration
  BY DEF Init, OneAlertPerRegistration
<1>2. OneAlertPerRegistration /\ [Next]_vars => OneAlertPerRegistration'
  <2> SUFFICES ASSUME OneAlertPerRegistration, [Next]_vars
               PROVE  OneAlertPerRegistration'
    OBVIOUS
  <2>1. CASE Probe
    <3>1. PICK now, certs, found, lookups :
            alerts' = Evaluate(now, certs, Enrich(found, lookups))
      BY <2>1 DEF Probe
    <3> DEFINE infos == Enrich(found, lookups)
    <3> SUFFICES ASSUME NEW a \in alerts', NEW b \in alerts',
                        a.kind \in DomainKinds, a.kind = b.kind, a.threshold = b.threshold,
                        RegistrableDomain[a.domain] = RegistrableDomain[b.domain]
                 PROVE  a = b
      BY DEF OneAlertPerRegistration
    <3>2. /\ a.pos = Representative(found, Apex(found, a.pos))
          /\ b.pos = Representative(found, Apex(found, b.pos))
          /\ a.domain = found[a.pos].Name /\ b.domain = found[b.pos].Name
      BY <3>1, RegistrationAlert, EmittingRepresents
    <3>3. a.pos = b.pos
      BY <3>2 DEF Apex
    <3> QED
      BY <3>1, <3>3, RegistrationAlert
  <2>2. CASE alerts' \in {alerts, {}}
    BY <2>2 DEF OneAlertPerRegistration
  <2>3. Probe \/ alerts' \in {alerts, {}}
    BY DEF Next, vars, Start, BuildFails, BuildDeps, NothingToDo, SaveInventory, Filter,
           FilterFails, Notify, AfterNotify, NotifyFails, NotifyUnsure, LoadAndMerge,
           OpenTmp, WriteTmp, RenameTmp, SaveFails, Crash, Return, memory
  <2> QED
    BY <2>1, <2>2, <2>3
<1> QED
  BY <1>1, <1>2, PTL DEF Spec

-----------------------------------------------------------------------------
(* One date per key, and no resend.                                          *)

LEMMA AlertsInvariant == Spec => []AlertsInv
<1>1. Init => AlertsInv
  BY DEF Init, AlertsInv
<1>2. AlertsInv /\ [Next]_vars => AlertsInv'
  <2> SUFFICES ASSUME AlertsInv, [Next]_vars
               PROVE  AlertsInv'
    OBVIOUS
  <2>1. CASE Probe
    <3>1. PICK now, certs, infos :
            /\ now \in Time
            /\ CertResultsOf(certs)
            /\ InfosOf(infos)
            /\ alerts' = Evaluate(now, certs, infos)
      BY <2>1, ProbeAlerts
    <3>2. \A a \in alerts' : a.domain = domains[a.pos].Name
      BY <3>1, EvaluateAlerts
    <3>3. \A a, b \in alerts' : (Key(a) = Key(b) /\ a.pos = b.pos) => Fact(a) = Fact(b)
      BY <3>1, SameRecordSameFact
    <3> QED
      BY <3>2, <3>3 DEF AlertsInv
  <2>2. CASE alerts' \in {alerts, {}}
    BY <2>2 DEF AlertsInv
  <2>3. Probe \/ alerts' \in {alerts, {}}
    BY DEF Next, vars, Start, BuildFails, BuildDeps, NothingToDo, SaveInventory, Filter,
           FilterFails, Notify, AfterNotify, NotifyFails, NotifyUnsure, LoadAndMerge,
           OpenTmp, WriteTmp, RenameTmp, SaveFails, Crash, Return, memory
  <2> QED
    BY <2>1, <2>2, <2>3
<1> QED
  BY <1>1, <1>2, PTL DEF Spec

(* upsert keeps the memory a function when the alerts of one record agree.   *)
LEMMA UpsertOneDate ==
    ASSUME NEW existing, OneDatePerKey(existing),
           NEW sent, sent \subseteq Alerts,
           \A a, b \in sent : (Key(a) = Key(b) /\ a.pos = b.pos) => Fact(a) = Fact(b)
    PROVE  OneDatePerKey(upsert(existing, sent))
<1>1. \A a \in sent : Key(Fact(a)) = Key(a)
  BY DEF Key, Fact
<1>2. \A a \in sent : a.pos \in Int
  BY NumEntriesAssumption DEF Alerts, Entries
<1>3. \A a, b \in LastPerKey(sent) : Key(a) = Key(b) => Fact(a) = Fact(b)
  BY <1>2 DEF LastPerKey
<1>4. SUFFICES ASSUME NEW r \in upsert(existing, sent), NEW s \in upsert(existing, sent),
                      Key(r) = Key(s)
               PROVE  r = s
  BY DEF OneDatePerKey
<1>5. LastPerKey(sent) \subseteq sent
  BY DEF LastPerKey
<1>6. \A f \in Facts(LastPerKey(sent)) : Key(f) \in {Key(a) : a \in sent}
  BY <1>1, <1>5 DEF Facts
<1>7. \A f \in upsert(existing, sent) :
         \/ f \in existing /\ Key(f) \notin {Key(a) : a \in sent}
         \/ f \in Facts(LastPerKey(sent))
  BY DEF upsert
<1>8. CASE r \in Facts(LastPerKey(sent)) /\ s \in Facts(LastPerKey(sent))
  <2>1. PICK a \in LastPerKey(sent), b \in LastPerKey(sent) : r = Fact(a) /\ s = Fact(b)
    BY <1>8 DEF Facts
  <2>2. Key(a) = Key(b)
    BY <1>1, <1>4, <1>5, <2>1
  <2> QED
    BY <1>3, <2>1, <2>2
<1>9. CASE r \in existing /\ s \in existing
  BY <1>4, <1>9 DEF OneDatePerKey
<1> QED
  BY <1>4, <1>6, <1>7, <1>8, <1>9

(* The state file and a save in progress hold one date per key.              *)
THEOREM MemoryIsAFunction == Spec => []OneDateRemembered
<1> DEFINE Inv == OneDateRemembered
<1>1. Init => Inv
  BY DEF Init, OneDateRemembered, OneDatePerKey, Absent
<1>2. Inv /\ TypeOK /\ RunInv /\ AlertsInv /\ [Next]_vars => Inv'
  <2> SUFFICES ASSUME Inv, TypeOK, RunInv, AlertsInv, [Next]_vars
               PROVE  Inv'
    OBVIOUS
  <2>1. CASE LoadAndMerge
    <3>1. fresh \subseteq alerts /\ alerts \subseteq Alerts
      BY <2>1 DEF LoadAndMerge, RunInv, Saving, filterAgainst, TypeOK
    <3>2. OneDatePerKey(upsert(file.records, fresh))
      <4>1. OneDatePerKey(file.records)
        BY DEF OneDateRemembered
      <4>2. \A a, b \in fresh : (Key(a) = Key(b) /\ a.pos = b.pos) => Fact(a) = Fact(b)
        BY <3>1 DEF AlertsInv
      <4> QED
        BY <3>1, <4>1, <4>2, UpsertOneDate
    <3> QED
      BY <2>1, <3>2 DEF LoadAndMerge, OneDateRemembered, disk
  <2>2. CASE RenameTmp
    <3>1. file'.records = merged
      BY <2>2 DEF RenameTmp, RunInv, Whole
    <3>2. merged' = {}
      BY <2>2 DEF RenameTmp, Return
    <3> QED
      BY <3>1, <3>2 DEF OneDateRemembered, OneDatePerKey
  <2>3. CASE file' = file /\ merged' \in {merged, {}}
    BY <2>3 DEF OneDateRemembered, OneDatePerKey
  <2>4. LoadAndMerge \/ RenameTmp \/ (file' = file /\ merged' \in {merged, {}})
    BY DEF Next, vars, Start, BuildFails, BuildDeps, NothingToDo, Probe, SaveInventory,
           Filter, FilterFails, Notify, AfterNotify, NotifyFails, NotifyUnsure,
           OpenTmp, WriteTmp, SaveFails, Crash, Return, memory, disk
  <2> QED
    BY <2>1, <2>2, <2>3, <2>4
<1> QED
  BY <1>1, <1>2, MonitorTypeCorrect, RunInvariant, AlertsInvariant, PTL DEF Spec

(* With one port per name, what a run that saves has sent is remembered, and *)
(* what earlier runs had settled about other keys still is.                  *)
LEMMA SavedRunIsRemembered ==
    ASSUME OnePortPerName, TypeOK, AlertsInv, SettledInv,
           fresh = filterAgainst(file.records, alerts)
    PROVE  SettledBy(alerts) \subseteq upsert(file.records, fresh)
<1>1. \A a, b \in alerts : Key(a) = Key(b) => a.pos = b.pos
  <2> TAKE a, b \in alerts
  <2> HAVE Key(a) = Key(b)
  <2>1. a.pos \in Entries /\ b.pos \in Entries
    BY DEF TypeOK, Alerts
  <2>2. domains[a.pos].Name = domains[b.pos].Name
    BY DEF AlertsInv, Key
  <2> QED
    BY <2>1, <2>2 DEF OnePortPerName
<1>2. \A a \in alerts : a.pos <= a.pos
  BY NumEntriesAssumption DEF TypeOK, Alerts, Entries
<1>3. fresh \subseteq alerts
  BY DEF filterAgainst
<1>4. LastPerKey(fresh) = fresh
  BY <1>1, <1>2, <1>3 DEF LastPerKey
<1>5. \A a \in alerts : Key(Fact(a)) = Key(a)
  BY DEF Key, Fact
<1>6. ASSUME NEW a \in alerts
      PROVE  Fact(a) \in upsert(file.records, fresh)
  <2>1. CASE a \in fresh
    BY <1>4, <2>1 DEF upsert, Facts
  <2>2. CASE a \notin fresh
    <3>1. Fact(a) \in file.records
      BY <2>2 DEF filterAgainst
    <3>2. \A b \in fresh : Key(b) # Key(a)
      <4> SUFFICES ASSUME NEW b \in fresh, Key(b) = Key(a)
                   PROVE  FALSE
        OBVIOUS
      <4>1. Fact(b) = Fact(a)
        BY <1>1, <1>3 DEF AlertsInv
      <4> QED
        BY <3>1, <4>1 DEF filterAgainst
    <3> QED
      BY <1>5, <3>1, <3>2 DEF upsert
  <2> QED
    BY <2>1, <2>2
<1>7. ASSUME NEW f \in settled, Key(f) \notin {Key(a) : a \in alerts}
      PROVE  f \in upsert(file.records, fresh)
  BY <1>3, <1>7 DEF SettledInv, upsert
<1> QED
  BY <1>6, <1>7 DEF SettledBy, Facts

LEMMA SettledInvariant ==
    ASSUME OnePortPerName
    PROVE  Spec => []SettledInv
<1>1. Init => SettledInv
  BY DEF Init, SettledInv, Absent
<1>2. SettledInv /\ TypeOK /\ RunInv /\ AlertsInv /\ [Next]_vars => SettledInv'
  <2> SUFFICES ASSUME SettledInv, TypeOK, RunInv, AlertsInv, [Next]_vars
               PROVE  SettledInv'
    OBVIOUS
  <2>1. CASE RenameTmp
    <3>1. fresh = filterAgainst(file.records, alerts)
      BY <2>1 DEF RenameTmp, RunInv, Saving
    <3>2. file'.records = upsert(file.records, fresh)
      BY <2>1 DEF RenameTmp, RunInv, Saving, Whole
    <3>3. settled' = SettledBy(alerts)
      BY <2>1 DEF RenameTmp
    <3> QED
      BY <3>1, <3>2, <3>3, SavedRunIsRemembered DEF SettledInv
  <2>2. CASE file' = file /\ settled' = settled
    BY <2>2 DEF SettledInv
  <2>3. RenameTmp \/ (file' = file /\ settled' = settled)
    BY DEF Next, vars, Start, BuildFails, BuildDeps, NothingToDo, Probe, SaveInventory,
           Filter, FilterFails, Notify, NotifyFails, NotifyUnsure, LoadAndMerge,
           OpenTmp, WriteTmp, SaveFails, Crash, disk, history
  <2> QED
    BY <2>1, <2>2, <2>3
<1> QED
  BY <1>1, <1>2, MonitorTypeCorrect, RunInvariant, AlertsInvariant, PTL DEF Spec

(* README: when every name is served on one port, an alert that was sent and *)
(* saved is not a reason to send again until its date changes.               *)
THEOREM SavedAlertsAreNotResent == Spec => []NoResendOnePort
<1>1. SettledInv /\ RunInv => NoResend
  <2> SUFFICES ASSUME SettledInv, RunInv PROVE Facts(fresh) \cap settled = {}
    BY DEF NoResend
  <2>1. Facts(fresh) \cap file.records = {}
    BY DEF RunInv, filterAgainst, Facts
  <2> QED
    BY <2>1 DEF SettledInv
<1>2. ASSUME OnePortPerName
      PROVE  Spec => []NoResendOnePort
  <2>1. SettledInv /\ RunInv => NoResendOnePort
    BY <1>1 DEF NoResendOnePort
  <2> QED
    BY <1>2, <2>1, SettledInvariant, RunInvariant, PTL
<1>3. ASSUME ~OnePortPerName
      PROVE  Spec => []NoResendOnePort
  <2>1. TypeOK => NoResendOnePort
    BY <1>3 DEF NoResendOnePort
  <2> QED
    BY <2>1, MonitorTypeCorrect, PTL
<1> QED
  BY <1>2, <1>3

(* main.go: a run given -dry-run neither mails nor touches the state file.   *)
THEOREM DryRunIsInvisible == Spec => DryRunLeavesNoTrace
<1>1. RunInv /\ [Next]_vars => [dry /\ dry' => UNCHANGED <<disk, mailed, settled>>]_vars
  <2> SUFFICES ASSUME RunInv, Next, dry
               PROVE  UNCHANGED <<disk, mailed, settled>>
    OBVIOUS
  <2>1. pc \notin Saving
    BY DEF RunInv
  <2>2. Mail => mailed' = mailed
    BY DEF Mail, MailBackend
  <2> QED
    BY <2>1, <2>2
       DEF Next, Start, BuildFails, BuildDeps, NothingToDo, Probe, SaveInventory, Filter,
           FilterFails, Notify, NotifyFails, NotifyUnsure, LoadAndMerge, OpenTmp,
           WriteTmp, RenameTmp, SaveFails, Crash, history, Saving, disk
<1> QED
  BY <1>1, RunInvariant, PTL DEF Spec, DryRunLeavesNoTrace

-----------------------------------------------------------------------------
(* The memory implements AlertLedger.                                        *)

(* upsert gives a key a new date or leaves it alone: it forgets none.        *)
LEMMA UpsertKeepsKeys ==
    ASSUME NEW existing, NEW sent, sent \subseteq Alerts
    PROVE  \A r \in existing : \E s \in upsert(existing, sent) : Key(s) = Key(r)
<1> SUFFICES ASSUME NEW r \in existing
             PROVE  \E s \in upsert(existing, sent) : Key(s) = Key(r)
  OBVIOUS
<1>1. CASE Key(r) \notin {Key(a) : a \in sent}
  BY <1>1 DEF upsert
<1>2. CASE Key(r) \in {Key(a) : a \in sent}
  <2> DEFINE same == {a \in sent : Key(a) = Key(r)}
             at == {a.pos : a \in same}
  <2>1. at \subseteq 1 .. NumEntries /\ at # {}
    BY <1>2 DEF Alerts, Entries
  <2>2. PICK m \in at : \A p \in at : p <= m
    BY <2>1, NumEntriesAssumption, PositionGreatest
  <2>3. PICK a \in same : a.pos = m
    BY <2>2
  <2>4. a \in LastPerKey(sent)
    BY <2>2, <2>3 DEF LastPerKey
  <2>5. Fact(a) \in upsert(existing, sent)
    BY <2>4 DEF upsert, Facts
  <2>6. Key(Fact(a)) = Key(r)
    BY <2>3 DEF Key, Fact
  <2> QED
    BY <2>5, <2>6
<1> QED
  BY <1>1, <1>2

(* Replacing the state file is the ledger's Remember.                        *)
LEMMA RenameRemembers ==
    ASSUME TypeOK, RunInv, RememberedWasMailed, OneDateRemembered, RenameTmp
    PROVE  Ledger!Remember
<1>1. file'.records = merged /\ mailed' = mailed
  BY DEF RenameTmp, RunInv, Whole
<1>2. merged = upsert(file.records, fresh) /\ fresh \subseteq Alerts
  BY DEF RenameTmp, RunInv, Saving, TypeOK
<1>3. merged \subseteq mailed
  BY DEF RememberedWasMailed
<1>4. Ledger!KeysOf(file.records) \subseteq Ledger!KeysOf(file'.records)
  <2> SUFFICES ASSUME NEW r \in file.records
               PROVE  \E s \in file'.records : Ledger!KeyOf(s) = Ledger!KeyOf(r)
    BY DEF Ledger!KeysOf
  <2> QED
    BY <1>1, <1>2, UpsertKeepsKeys DEF Key, Ledger!KeyOf
<1>5. \A f, g \in file'.records : Ledger!KeyOf(f) = Ledger!KeyOf(g) => f = g
  BY <1>1 DEF OneDateRemembered, OneDatePerKey, Key, Ledger!KeyOf
<1> QED
  BY <1>1, <1>3, <1>4, <1>5 DEF Ledger!Remember

(* With the SMTP backend the mail and the state file implement AlertLedger.  *)
THEOREM MonitorImplementsLedger ==
    ASSUME Backend = "smtp"
    PROVE  Spec => LedgerSpec
<1>1. Init => Ledger!Init
  BY DEF Init, Ledger!Init, Absent
<1>2. TypeOK /\ TypeOK' /\ RunInv /\ RememberedWasMailed /\ OneDateRemembered /\ [Next]_vars
        => [Ledger!Next]_(Ledger!vars)
  <2> SUFFICES ASSUME TypeOK, TypeOK', RunInv, RememberedWasMailed, OneDateRemembered,
                      [Next]_vars
               PROVE  Ledger!Next \/ UNCHANGED Ledger!vars
    OBVIOUS
  <2>1. CASE RenameTmp
    BY <2>1, RenameRemembers DEF Ledger!Next
  <2>2. CASE file' = file /\ mailed \subseteq mailed'
    <3>1. mailed' \subseteq Record
      BY DEF TypeOK
    <3> QED
      BY <2>2, <3>1 DEF Ledger!Next, Ledger!Deliver
  <2>3. RenameTmp \/ (file' = file /\ mailed \subseteq mailed')
    BY DEF Next, vars, Start, BuildFails, BuildDeps, NothingToDo, Probe, SaveInventory,
           Filter, FilterFails, Notify, NotifyFails, NotifyUnsure, Mail, LoadAndMerge,
           OpenTmp, WriteTmp, SaveFails, Crash, disk, history
  <2> QED
    BY <2>1, <2>2, <2>3
<1>3. Spec => []RememberedWasMailed
  BY OnlyMailedIsRemembered
<1> QED
  BY <1>1, <1>2, <1>3, MonitorTypeCorrect, RunInvariant, MemoryIsAFunction, PTL
     DEF Spec, LedgerSpec, Ledger!Spec
=============================================================================
