------------------------------ MODULE Monitor ------------------------------
(***************************************************************************)
(* The life of the monitor: runs of cmd/monitor started one after another  *)
(* by cron (scripts/cron-run.sh keeps two of them from overlapping) or by  *)
(* hand, each going through internal/runner.Run, and what survives a run:  *)
(* the state file, its temporary file, the mail that was delivered and the *)
(* ping the deadman service received.  A run can be killed at any step.    *)
(***************************************************************************)
EXTENDS AlertRules, Enrichment, StateStore

CONSTANTS
    NumEntries,      \* how many domains the sources list
    domains,         \* their [Name, ExpiryFallback], in slice order
    Clock,           \* instants at which a run may read the time
    CertResults,     \* what a TLS check may return: [Err, NotAfter]
    LookupResults,   \* what an RDAP lookup may return: [Err, ExpiresAt]
    Backend,         \* config "notifier.backend"
    URL, FailureURL  \* config "healthcheck": is it filled in?

Entries == 1 .. NumEntries
Names == {domains[e].Name : e \in Entries}

ASSUME NumEntriesAssumption == NumEntries \in Nat
ASSUME domainsAssumption ==
    /\ DOMAIN domains = Entries
    /\ \A e \in Entries : domains[e].ExpiryFallback \in Time
    /\ \A e \in Entries : domains[e].Name \in DOMAIN RegistrableDomain
ASSUME ClockAssumption == Clock \subseteq Nat
ASSUME CertResultsAssumption == CertResults \subseteq [Err : BOOLEAN, NotAfter : Time]
ASSUME LookupResultsAssumption ==
    LookupResults \subseteq [Err : BOOLEAN, ExpiresAt : Time]
ASSUME BackendAssumption == Backend \in {"smtp", "dryrun"}
ASSUME HealthcheckAssumption == URL \in BOOLEAN /\ FailureURL \in BOOLEAN

VARIABLES
    pc,        \* the step of Run the process is at; "idle" between runs
    dry,       \* the run was given -dry-run (DryRunSkipsStateSave)
    alerts,    \* all the alerts of the run (kept until the next run starts)
    fresh,     \* those the state file did not suppress
    merged,    \* the records Save is writing
    file, tmp, \* state.path and state.path + ".tmp"
    ping,      \* what the deadman service received from the last run
    mailed,    \* history: every fact some recipient was mailed
    settled    \* history: facts of runs that saved, until their date changed

memory == <<dry, alerts, fresh, merged>>
disk == <<file, tmp>>
history == <<mailed, settled>>
vars == <<pc, dry, alerts, fresh, merged, file, tmp, ping, mailed, settled>>

Steps == {"idle", "build", "probe", "inventory", "filter", "notify", "load",
          "write", "writing", "rename"}
Pings == {"none", "success", "failure"}
Alerts == [domain : Names, kind : Kinds, threshold : Int, expiresAt : Time,
           daysLeft : Int, pos : Entries]
Record == [domain : Names, kind : Kinds, threshold : Int, at : Nat]

\* A file on disk.  "torn" is a write that was not completed.
Contents == [status : {"absent", "torn", "whole"}, records : SUBSET Record]
Absent == [status |-> "absent", records |-> {}]
Torn == [status |-> "torn", records |-> {}]
Whole(records) == [status |-> "whole", records |-> records]

TypeOK ==
    /\ pc \in Steps
    /\ dry \in BOOLEAN
    /\ alerts \subseteq Alerts
    /\ fresh \subseteq Alerts
    /\ merged \subseteq Record
    /\ file \in Contents
    /\ tmp \in Contents
    /\ ping \in Pings
    /\ mailed \subseteq Record
    /\ settled \subseteq Record

Init ==
    /\ pc = "idle"
    /\ dry = FALSE
    /\ alerts = {}
    /\ fresh = {}
    /\ merged = {}
    /\ file = Absent
    /\ tmp = Absent
    /\ ping = "none"
    /\ mailed = {}
    /\ settled = {}

-----------------------------------------------------------------------------
(* The pings of internal/healthcheck.  The request may be lost.              *)

SuccessPing == IF URL THEN {"success", "none"} ELSE {"none"}

\* Mutant of FailurePing: every hard error looks like a clean exit.
FailureAsSuccess == SuccessPing

\* The failure URL, given or derived from URL.
FailurePing == IF FailureURL \/ URL THEN {"failure", "none"} ELSE {"none"}

\* Run returns: the deferred function pings and the process exits.
Return(outcome) ==
    /\ pc' = "idle"
    /\ fresh' = {}
    /\ merged' = {}
    /\ ping' \in outcome
    /\ UNCHANGED <<dry, alerts>>

-----------------------------------------------------------------------------
(* The steps of a run.                                                       *)

\* The process is started, by cron without -dry-run, by hand with or without.
Start(dryRun) ==
    /\ pc = "idle"
    /\ pc' = "build"
    /\ dry' = dryRun
    /\ alerts' = {}
    /\ UNCHANGED <<fresh, merged, disk, ping, history>>

\* config.Load or BuildDeps fails: exit 1 before the ping is even set up.
BuildFails ==
    /\ pc = "build"
    /\ pc' = "idle"
    /\ ping' = "none"
    /\ UNCHANGED <<memory, disk, history>>

BuildDeps ==
    /\ pc = "build"
    /\ pc' = "probe"
    /\ UNCHANGED <<memory, disk, ping, history>>

\* No discoverer is enabled: a clean exit.
NothingToDo ==
    /\ pc = "probe"
    /\ Return(SuccessPing)
    /\ UNCHANGED <<disk, history>>

\* Discovery returns the entries of the sources that answered; each is looked
\* up and checked, with any result, and the alerts are evaluated.
Probe ==
    /\ pc = "probe"
    /\ \E seen \in SUBSET Entries, at \in Clock :
         LET found == [e \in seen |-> domains[e]]
         IN  \E results \in [seen -> CertResults],
                lookups \in [Apexes(found) -> LookupResults] :
               LET certs == [e \in seen |-> [Domain |-> domains[e].Name,
                                             Err |-> results[e].Err,
                                             NotAfter |-> results[e].NotAfter]]
               IN  alerts' = Evaluate(UTC(at), certs, Enrich(found, lookups))
    /\ pc' = "inventory"
    /\ UNCHANGED <<dry, fresh, merged, disk, ping, history>>

\* The snapshot is written or not: the error is logged and the run goes on.
SaveInventory ==
    /\ pc = "inventory"
    /\ pc' = "filter"
    /\ UNCHANGED <<memory, disk, ping, history>>

\* load, then filterAgainst.  A missing file is an empty memory.
Filter ==
    /\ pc = "filter"
    /\ file.status # "torn"
    /\ LET new == filterAgainst(file.records, alerts)
       IN  IF new = {} THEN Return(SuccessPing)
           ELSE /\ pc' = "notify"
                /\ fresh' = new
                /\ UNCHANGED <<dry, alerts, merged, ping>>
    /\ UNCHANGED <<disk, history>>

\* The state file cannot be read or parsed.
FilterFails ==
    /\ pc = "filter"
    /\ Return(FailurePing)
    /\ UNCHANGED <<disk, history>>

MailBackend == IF dry THEN "dryrun" ELSE Backend

\* The mail carries all the alerts of the run, fresh or not.
Mail == mailed' = IF MailBackend = "smtp" THEN mailed \cup Facts(alerts) ELSE mailed

AfterNotify == IF dry THEN Return(SuccessPing)
               ELSE pc' = "load" /\ UNCHANGED <<memory, ping>>

\* Mutant of Notify: -dry-run does not skip the save.
NotifyThenSave ==
    /\ pc = "notify"
    /\ Mail
    /\ pc' = "load"
    /\ UNCHANGED <<memory, ping, disk, settled>>

Notify ==
    /\ pc = "notify"
    /\ Mail
    /\ AfterNotify
    /\ UNCHANGED <<disk, settled>>

\* Mutant of NotifyFails: the error of the notifier is only logged.
NotifyErrorIgnored ==
    /\ pc = "notify"
    /\ AfterNotify
    /\ UNCHANGED <<disk, history>>

\* Nothing left the host: no connection, a refused recipient, no HTML file.
NotifyFails ==
    /\ pc = "notify"
    /\ Return(FailurePing)
    /\ UNCHANGED <<disk, history>>

\* The server took the message and SendMail still returned an error (QUIT).
NotifyUnsure ==
    /\ pc = "notify"
    /\ MailBackend = "smtp"
    /\ Mail
    /\ Return(FailurePing)
    /\ UNCHANGED <<disk, settled>>

\* Save reads the file again and merges the fresh alerts into it.
LoadAndMerge ==
    /\ pc = "load"
    /\ file.status # "torn"
    /\ pc' = "write"
    /\ merged' = upsert(file.records, fresh)
    /\ UNCHANGED <<dry, alerts, fresh, disk, ping, history>>

\* Mutant of OpenTmp: the state file is overwritten in place.
OpenInPlace ==
    /\ pc = "write"
    /\ pc' = "writing"
    /\ file' = Torn
    /\ UNCHANGED <<memory, tmp, ping, history>>

\* os.WriteFile opens and truncates the temporary file ...
OpenTmp ==
    /\ pc = "write"
    /\ pc' = "writing"
    /\ tmp' = Torn
    /\ UNCHANGED <<memory, file, ping, history>>

\* ... and writes the records to it.
WriteTmp ==
    /\ pc = "writing"
    /\ pc' = "rename"
    /\ tmp' = Whole(merged)
    /\ UNCHANGED <<memory, file, ping, history>>

\* Loading, creating the directory, writing or renaming fails.
SaveFails ==
    /\ pc \in {"load", "write", "writing", "rename"}
    /\ Return(FailurePing)
    /\ UNCHANGED <<disk, history>>

\* The facts still settled once this run has saved.
SettledBy(run) ==
    {f \in settled : Key(f) \notin {Key(a) : a \in run}} \cup Facts(run)

RenameTmp ==
    /\ pc = "rename"
    /\ file' = tmp
    /\ tmp' = Absent
    /\ settled' = SettledBy(alerts)
    /\ Return(SuccessPing)
    /\ UNCHANGED mailed

\* The process is killed (reboot, OOM, kill -9): no ping, no clean-up.
Crash ==
    /\ pc # "idle"
    /\ pc' = "idle"
    /\ ping' = "none"
    /\ fresh' = {}
    /\ merged' = {}
    /\ UNCHANGED <<dry, alerts, disk, history>>

Next ==
    \/ \E d \in BOOLEAN : Start(d)
    \/ BuildFails \/ BuildDeps
    \/ NothingToDo \/ Probe
    \/ SaveInventory
    \/ Filter \/ FilterFails
    \/ Notify \/ NotifyFails \/ NotifyUnsure
    \/ LoadAndMerge \/ OpenTmp \/ WriteTmp \/ RenameTmp \/ SaveFails
    \/ Crash

Spec == Init /\ [][Next]_vars

-----------------------------------------------------------------------------
(* Safety.                                                                   *)

\* What the state file, its temporary copy or a save in progress remembers as
\* sent was mailed: a failed, refused or skipped delivery never reaches the
\* state file (runner.go saves only after Notify returned nil).
RememberedWasMailed == (file.records \cup tmp.records \cup merged) \subseteq mailed

\* A success ping of a real run means that every alert of that run was mailed,
\* by that run or by an earlier one with the same date, so that neither the
\* dedup nor an error path can silence an alert behind a clean exit.
SuccessMeansInformed ==
    (ping = "success" /\ pc = "idle" /\ ~dry /\ Backend = "smtp")
        => Facts(alerts) \subseteq mailed

\* The memory is a function: one date per (domain, kind, threshold), through
\* every renewal, crash and retry, so load cannot drop or choose a record.
OneDateRemembered == OneDatePerKey(file.records) /\ OneDatePerKey(merged)

\* A crash or an error in the middle of Save never leaves a state file that the
\* next Filter cannot parse.
StateFileReadable == file.status # "torn"

OnePortPerName ==
    \A d, e \in Entries : domains[d].Name = domains[e].Name => d = e

\* README: an alert that was sent is not sent again until its date changes.  A
\* run mails only on account of facts that no run has mailed and saved.
NoResend == Facts(fresh) \cap settled = {}

\* NoResend with the promise that it needs: one entry per name.
NoResendOnePort == OnePortPerName => NoResend

\* Whatever subset of a registration's FQDNs was discovered, its expiry and its
\* mismatch are reported for one of them only.
OneAlertPerRegistration ==
    \A a, b \in alerts :
        (a.kind \in DomainKinds /\ a.kind = b.kind /\ a.threshold = b.threshold
         /\ RegistrableDomain[a.domain] = RegistrableDomain[b.domain]) => a = b

\* -dry-run leaves the mail and the memory of alerts alone: it neither mails nor
\* touches the state file or its temporary copy.  (It still flushes the RDAP cache
\* and writes the inventory, runner.go:74-80 and 99-105.)
DryRunLeavesNoTrace ==
    [][dry /\ dry' => UNCHANGED <<disk, mailed, settled>>]_vars

\* With the SMTP backend, the mail and the memory, seen from outside, are an
\* AlertLedger.
Ledger == INSTANCE AlertLedger WITH Announcements <- Record, remembered <- file.records
LedgerSpec == Ledger!Spec

-----------------------------------------------------------------------------
(* The inductive invariants behind the safety properties.                    *)

Saving == {"load", "write", "writing", "rename"}

\* What the variables of a run hold at each of its steps.  No other process
\* writes the state file between Filter and RenameTmp, so what Filter and
\* LoadAndMerge computed from it still stands when it is replaced.
RunInv ==
    /\ pc \notin Saving \cup {"notify"} => fresh = {}
    /\ pc \notin Saving \ {"load"} => merged = {}
    /\ pc \in {"build", "probe"} => alerts = {}
    /\ pc \in Saving \cup {"notify"} => fresh = filterAgainst(file.records, alerts)
    /\ pc \in Saving \ {"load"} => merged = upsert(file.records, fresh)
    /\ pc = "rename" => tmp = Whole(merged)
    /\ pc \in Saving => ~dry
    /\ StateFileReadable

\* With SMTP, a run reaches Save only after its mail.
MailInv ==
    /\ RememberedWasMailed
    /\ SuccessMeansInformed
    /\ pc \in Saving => Facts(alerts) \subseteq mailed

\* What the dedup relies on from the engine.
AlertsInv ==
    /\ \A a \in alerts : a.domain = domains[a.pos].Name
    /\ \A a, b \in alerts : (Key(a) = Key(b) /\ a.pos = b.pos) => Fact(a) = Fact(b)

\* With one port per name, what a completed run sent is what the file remembers.
SettledInv == settled \subseteq file.records

-----------------------------------------------------------------------------
(* Liveness.                                                                 *)

\* A step of the running process; crashes and new runs are not.
RunStep ==
    \/ BuildFails \/ BuildDeps
    \/ NothingToDo \/ Probe
    \/ SaveInventory
    \/ Filter \/ FilterFails
    \/ Notify \/ NotifyFails \/ NotifyUnsure
    \/ LoadAndMerge \/ OpenTmp \/ WriteTmp \/ RenameTmp \/ SaveFails

Real(step) == step /\ ~dry

\* A started run ends.  Cron keeps starting runs without -dry-run, however many
\* are started by hand; and no step of these runs fails, or is cut by a crash,
\* for ever: each that is reached again and again succeeds again and again.
Fairness ==
    /\ WF_vars(RunStep)
    /\ SF_vars(Start(FALSE))
    /\ SF_vars(Real(BuildDeps))
    /\ SF_vars(Real(Probe))
    /\ SF_vars(Real(SaveInventory))
    /\ SF_vars(Real(Filter))
    /\ SF_vars(Real(Notify))
    /\ SF_vars(Real(LoadAndMerge))
    /\ SF_vars(Real(OpenTmp))
    /\ SF_vars(Real(WriteTmp))
    /\ SF_vars(Real(RenameTmp))

FairSpec == Spec /\ Fairness

\* From some run on, every run that evaluates reports f.
Persistent(f) == <>[](pc = "filter" => f \in Facts(alerts))

\* f is mailed, and from then on no run is sent on its account.
Settles(f) == <>[](f \in mailed /\ f \in file.records)
=============================================================================
