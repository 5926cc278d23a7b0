# auto-certs in TLA+

auto-certs is a monitor that cron starts once a day. A run discovers the
domains to watch, asks RDAP for the expiry of each registration and a TLS
handshake for the expiry of each certificate, turns the dates into alerts,
drops those a JSON file remembers as sent, mails the rest, remembers them, and
pings a deadman service. What matters is not any one of these functions: it is
that over hundreds of runs, with probes that fail, dates that change, mail that
bounces and processes that are killed, nobody misses an expiry and nobody is
mailed the same thing every morning. This directory states that and checks it.

## The system

| Component | State | Operations | Talks to |
|---|---|---|---|
| `cmd/monitor`, `internal/runner` | none between runs; the results of each step within a run | `BuildDeps`, `Run` | everything below, in sequence |
| `internal/discovery` | a map filled by one goroutine per source, under a mutex | `Aggregate`, `dedup`, `Static.Discover` | the sources, in parallel |
| Name.com and Route53 sources | none: a name set filled during a call | `Discover`, with its paginated listings | the two APIs |
| `internal/rdap` enrichment | groups per registrable domain; a slice written without a lock by a pool of goroutines | `groupByApex`, `processGroup`, `Enrich` | the client, through the cache |
| `internal/rdap` client and cache | bootstrap table (once per process); map and dirty flag; `state/rdap-cache.json` | `Lookup`, `Get`, `Set`, `Flush` | the registries; the disk |
| `internal/tlscheck` | a slice written by a pool of goroutines | `Check`, `CheckAll` | the monitored hosts |
| `internal/alert` | none: a pure function | `Evaluate`, `evalOne`, `daysBetween` | `Run` |
| `internal/state` | `state/alerts.json` and its `.tmp` | `Filter`, `Save` | the disk |
| `internal/notify` | none | `SMTP.Notify`, `DryRun.Notify`, `BuildSummary`, the sections and the subject of the mail | the SMTP server |
| `internal/inventory` | the snapshot files | `Build`, `MarshalXLSX`, `FileSink.Save` | the disk; its sheet is attached to the mail |
| `internal/healthcheck` | none | `Success`, `Failure` | the deadman service |
| `scripts/cron-run.sh`, `make run` | a lock file, kept by whoever has its descriptor open | the first keeps cron's runs from overlapping, the second asks for no lock | start the monitor |

Hard parts: two files survive a run and are replaced by write-and-rename while
the process can be killed between any two system calls; the mail cannot be
taken back, and may be delivered although an error is reported; the memory of
alerts is keyed by name, kind and threshold and compared by date, while the
names, the representative of a registration and the dates themselves change
from run to run; two pools of goroutines share a slice without a lock; a run
started by hand shares the state file and its temporary copy with cron's; a page
of an API may fail and the rest must stand; days are counted between dates with
and without zones, in two ways; and the mail and its attachment join, collapse
and count the same results each in its own way. Each of these is an entry of
"hazards" in `PROJECT.json`, at its line, with the properties that watch it.

What makes each component correct:

- runner and state: what is remembered was mailed; a success ping means that
  every alert was mailed; nothing is mailed again until it changes; a crash
  never makes the state file unreadable; a dry run leaves no trace in the mail
  and in the state file (it does write the RDAP cache and the inventory).
- alert engine: urgency never drops while a date stands; nothing is reported as
  expired that the run before did not warn of, for every threshold of as many
  days as have passed since, runs that were missed included.
- enrichment: one lookup and one alert per registration, under one of its names
  whether or not the domain itself is listed, the same result for every order of
  the list and of the lookups, RDAP wins over YAML.
- pools: no shared write, a complete result, a return in every case.
- cache: a stale date is bounded in age, and what was flushed is used.
- discovery: a result that depends on the answers and not on their order, no
  date of the static file lost with a duplicate, a request that fails costs its
  own listing and nothing else, nothing of an excluded zone.
- wrapper and overlapping runs: cron's runs exclude one another; a run that is
  alone saves as if no other existed; runs that overlap never remember what was
  not mailed.
- summary, mail and inventory: no alert disappears from the mail, its banner
  tells the worst state, its counts are those of the attached sheet, and the days
  of a row are those of its alerts.

## Modules

| Module | Models | How it corresponds to the code |
|---|---|---|
| `Dates` | `time.Time` | an instant and a zone offset, in ticks; `Before`, `Equal` look at the instant, days at the date in the value's own zone or in UTC |
| `AlertRules` | `alert/engine.go` | `Evaluate` as sets of alerts; `pos` keeps the slice order where it matters |
| `ExpiryWatch` | the engine under a clock | `Tick`, `Renew`, and a daily `Run` whose probes may fail, or a `Miss` of the day |
| `Enrichment` | what `rdap.Enrich` must return | declaratively, per registrable domain |
| `EnrichGroups` | how it is computed (checked by the instances of `Report`) | `AddDomain` is the body of the loop of `groupByApex`, `ProcessGroup` is `processGroup`, in any order |
| `WorkerPool` | the pool of `Enrich` and of `CheckAll` | a producer, an unbuffered channel, `wg.Wait`, cancellation; one write per slot |
| `StateStore` | `state/store.go` | `filterAgainst`, `upsert` over sets of records |
| `Monitor` | `Run`, `main`, `file_store.go`, `healthcheck.go`, the outcome of `Notify` | one action per step of `Run`, its error returns, the system calls of `Save`, `Crash` anywhere |
| `Overlap` | `cron-run.sh`, `make run`, and the steps of `Run` on shared files | several processes, each at its own step; a descriptor follows the file and not its name; the lock is open in the wrapper and in the monitor it started |
| `AlertLedger` | what the memory promises | abstract: facts are mailed, mailed facts replace remembered ones key by key |
| `RdapCache` | `cache.go`, `file_cache.go`, the lookups of `client.go` | load, concurrent hits and misses, one bootstrap, `Flush` by system call, a registry that changes its dates |
| `ApiSources` | `namecom.go`, `route53.go` | each `Discover` as a function of the pages its requests get, any of which may be an error; host names are sequences of labels |
| `Aggregate` | `discovery.go`, the expansion of `static.go` | goroutines that answer or fail, with what `ApiSources` and the static file return, then `dedup` entry by entry |
| `Report` | `summary.go`, the parts of `html.go` and `render.go` that decide something, `inventory.Build`, the cells of `xlsx.go` | `EnrichGroups`, then `CheckAll`, then `Compose`: the alerts, the mail and the sheet of one run |
| `DataLemmas` | | lemmas about the operators of `Enrichment` and `AlertRules` |
| `MonitorProofs`, `OverlapProofs`, `ReportProofs`, `ExpiryWatchProofs`, `AggregateProofs`, `WorkerPoolProofs`, `RdapCacheProofs` | | theorems about the module each is named for, and in `ReportProofs` about `EnrichGroups` |
| `MC*` | | instances for TLC |

`Monitor` extends `AlertRules`, `Enrichment` and `StateStore` and calls them
whole: its `Probe` discovers any subset of the configured entries, draws a
result for each handshake and each lookup, and evaluates the alerts of
`Enrich`'s infos. `Aggregate` justifies the shape of the list it starts from,
`WorkerPool` and `EnrichGroups` that `Enrich` may be used as a function, and
`RdapCache` what a lookup may answer: any date, old or new, or an error.
`Monitor` is a single run at a time, in every detail; `Overlap` keeps of it the
steps that touch what two processes share, and adds the processes.

The variables of `Monitor` that the code does not have are histories: `mailed`
is every fact (domain, kind, threshold, date) that some recipient was sent,
`settled` the facts of runs that mailed and saved, until their key takes another
date. In `Overlap`, `saved` is what the completed saves amount to one after
another, and `overlapped` remembers that two monitors were alive together. A
fact is what the README of the project calls
`(domain, kind, threshold, expiresAt)`.

Names that begin with a mutation of the code (`upsertForget`,
`NotifyErrorIgnored`, ...) are marked "Mutant of" in their comment. No
specification uses them: each is a bug that a property must catch, and is
listed under "mutants" with the property that does.

## Runs

| Run | Instance and bounds | Shows |
|---|---|---|
| `cert` | one name, a certificate absent or with two dates, a clock before, between and after them, threshold 1 day; fairness | the memory is honest, a clean exit means mailed, the state file stays readable, nothing that was saved is repeated until its date changes, a dry run neither mails nor touches the state file, the state file implements `AlertLedger`, and a lasting alert is mailed and then stays suppressed |
| `registry` | an apex with a YAML date, its subdomain, and a second registration, RDAP failing or contradicting the date, any subset discovered | every run has one alert per registration, kind and threshold, about a listed name |
| `overlap` | two processes started by cron and by hand in any order, killed at any step, alerts of two keys and two dates | cron's runs exclude one another; saves are serial until two monitors overlap; even then nothing is remembered that was not mailed |
| `watch` | days of four ticks, a week, runs at each time of day and on any of the days, dates at midnight, noon and the last tick, in UTC, ahead of it and behind it, thresholds 0, 1, 3 | urgency never drops; a date reported as expired was reported by the run before, for thresholds of as many days as passed between them |
| `pool` | three goroutines, four groups over six slots, cancellation, fairness | no shared write, complete result, one lookup each, quiet after return, the call returns |
| `report` | all sorted lists of up to three entries over five names (one in two cases, repeated ones standing for ports), with no date or one of two; four lookup answers, four TLS results, two thresholds | the loop of `groupByApex` computes the declared result; RDAP wins; a registration that is due is announced under exactly one name; every alert is in the mail; the banner is the worst; counts and days agree with the sheet |
| `cache` | two domains concurrently, TTL 1, requests of up to one tick, four ticks, two dates | a stale date is at most TTL plus a request old; flushed entries are used; a flush keeps every answer |
| `aggregate` | the static file, Name.com with up to three pages per listing, of which the first may skip the second, and Route53 with zones, registered domains and records, each page failing or not; names in two cases, on two ports, with a trailing dot, under an excluded zone | the list is a function of the answers, sorted, with every date of the static file; a request that fails costs its own listing only; nothing of an excluded zone |

The bounds are small because the interesting cases need few parties: a memory
goes wrong between two dates of one key or two alerts of one key (`cert`,
`two_ports`), a representative between an apex and one subdomain, a pool between
two holders of one job and a third that waits, a cache within two or three
lifetimes of one entry, a save between two processes, and a mail between two
entries of one name and a third. `MaxLen` bounds the lists of `report`; the
proofs need no bound. Nothing in `Monitor` is bounded by a counter: the number
of runs, crashes and failures is unlimited, because the state is finite once the
dates are. `LastTick` bounds the clocks of `ExpiryWatch` and `RdapCache`. All
runs check deadlock; a pool, a report or an aggregation that has returned
stutters by an explicit step.

### Where the code and its documentation disagree

Each of these runs checks one sentence of the repository and finds the
behaviour of the code that contradicts it.

| Run | Sentence | What the code does |
|---|---|---|
| `two_ports` | README, "no se reenvía hasta que la fecha cambie" | the key has no port, so two ports of one name overwrite each other's record and the mail goes out at every run |
| `dryrun_backend` | `state/store.go`, "we already sent this alert" | with `backend: dryrun` in the config and no `-dry-run`, what was only printed is saved as sent |
| `zoned` | `engine.go`, "using UTC date boundaries" | a date with an offset is counted on the date of its own zone |
| `healthy` | `summary.go`, Healthy is "no error AND no alert" | an entry whose RDAP lookup failed counts as healthy when its certificate is fine; the attached sheet shows the error |

Smaller ones were met without a run of their own. `Failure` pings the
configured failure URL when `URL` is empty (`healthcheck.go:55`), although line
29 says "An empty URL disables all pings". An expired alert about a date that
passed earlier the same day has zero days left (`engine.go:83`), although line
17 says "a negative DaysLeft". `Build` joins by the name as written, although
`inventory.go:57-58` says "case-insensitive". Two ports of one name that reach
the same threshold share one line of the mail, with the date of the first and
not of the more urgent, although the README calls the mail the full picture;
`MailShowsEveryAlert` therefore asks for the date only where a name has one
port. A negative `mismatch_tolerance_days` would report a YAML date that stands
in for RDAP as disagreeing with itself. When a later page of the records of one
domain fails, Name.com drops the hosts of the pages before it
(`namecom.go:146-148`, `98-101`), whereas Route53 keeps what it was told before a
failure; the comment there promises only that "a failure on one zone" does not
"kill the rest", which is what `FailureStaysLocal` says. A registration whose
lookups fail every other run alternates between the date of RDAP and the one of
the YAML, and as the memory holds the last date of a key (`store.go:41-43`) each
change mails its alerts again. The README promises silence only while the date
stands.

What overlapping runs do is no disagreement: `file_store.go` says it is "Not
goroutine-safe", and `make run` asks for no lock. The `overlap` run shows what it
costs (a save may be lost and its mail repeated, and a process that still writes
to the file another has renamed can leave it torn, after which every run fails
with a failure ping until the file is removed) and what it never costs
(an alert that nobody was mailed).

### Fairness

`Monitor.Fairness` says that a started run goes on (the process is sequential,
and its network calls other than SMTP have timeouts), that cron keeps starting
real runs however many are started by hand, and that each step of a real run
that is reached again and again succeeds again and again: strong fairness,
because a failure or a crash may end the run instead. It is an assumption about
the world (no server refuses mail for ever, no disk stays full), and without it
the claim is false for any program. A server that never answers, for which
`smtp.SendMail` has no timeout, is outside it: it would hang the run, and the lock
that the run holds would keep out every later run of cron. Nothing is claimed
about that case, which is listed as a hazard with its note.
`WorkerPool.FairSpec` says that goroutines that can run are scheduled and that
every lookup ends, as the timeouts of the HTTP client, the dialer and the
connection ensure.

## Proofs

`MonitorProofs` proves about `Monitor`, for every list of domains, every set of
dates, thresholds and probe results and every number of runs, failures and
crashes:

| Theorem | Statement |
|---|---|
| `MonitorTypeCorrect` | `Spec => []TypeOK` |
| `StateFileStaysReadable` | `Spec => []StateFileReadable` |
| `OnlyMailedIsRemembered` | with the SMTP backend, `Spec => []RememberedWasMailed` |
| `SuccessPingIsHonest` | with the SMTP backend, `Spec => []SuccessMeansInformed` |
| `RegistrationsAlertOnce` | `Spec => []OneAlertPerRegistration` |
| `MemoryIsAFunction` | `Spec => []OneDateRemembered` (no run of its own: `MonitorImplementsLedger` rests on it) |
| `SavedAlertsAreNotResent` | `Spec => []NoResendOnePort` |
| `DryRunIsInvisible` | `Spec => DryRunLeavesNoTrace` |
| `MonitorImplementsLedger` | with the SMTP backend, `Spec => LedgerSpec` |

Assumptions: the named `ASSUME`s of the constants, which say that the names
have a registrable domain, that probes return dates or errors, and that clocks
and thresholds are integers. TLC evaluates them in every run.

None of the properties is inductive. The state file is honest only because a run
reaches `Save` after its mail, and what it saves is what `Filter` let through at
the time. So the proofs go through invariants of the run, which TLC also checked
on the instances above:

- `RunInv`: what each variable holds at each step; in particular the file that
  `Save` replaces is the one `Filter` read (no other process writes it), and the
  temporary file is whole when it is renamed. `StateFileReadable` follows.
- `MailInv`: at the steps of `Save` every alert of the run has been mailed. A
  fact that `filterAgainst` suppresses is in the file, hence was mailed
  (`SuppressedFacts`).
- `AlertsInv`: an alert names the domain of its position, and two alerts of one
  record with one key tell the same fact (`SameRecordSameFact`, by the cases of
  `Evaluate`). This is what makes `upsert` keep one date per key
  (`UpsertOneDate`), although several alerts of a run may share a key.
- `SettledInv`: with one port per name, what earlier runs settled is in the file.

`MonitorImplementsLedger` puts these together: the only step that changes the
state file is `RenameTmp`, which is a `Remember` of the ledger because what it
writes was mailed (`MailInv`), has one date per key (`MemoryIsAFunction`) and
forgets none (`UpsertKeepsKeys`, by the greatest position among the alerts of a
key); every other step only adds to the mail.

`RegistrationsAlertOnce` is an invariant by itself: an alert about a registration
is emitted at an entry whose info says `IsApex`, that entry is the representative
of its registrable domain, and position, kind and threshold determine the rest.

`DataLemmas` has the facts about the operators: the first and last member of a
group exist (by well-foundedness of the naturals) and are what they were, or the
newcomer, when an entry joins; days are integers; `Evaluate` yields typed alerts.

`OverlapProofs` proves, for any number of processes and any alerts,
`CronExcludes` (`Spec => []CronRunsExclude`), `OverlapRemembersOnlyMailed`
(`[]RememberedWasMailed`) and `OverlapSavesSerially` (`[]SavesAreSerial`), with
type correctness. `LockInv` says that whoever cron has in progress has the lock,
from which exclusion follows at once; `MailInv` that a run past its mail holds
only alerts that were mailed, and that no file holds others, whoever writes to
it; `AloneInv` that, until two monitors overlap, the one that is alive finds the
temporary file as its last step left it and the state file as it read it.

`ReportProofs` proves, for lists of any length and any answers:

| Theorem | Statement |
|---|---|
| `GroupingIsCorrect` | `Spec => []EnrichAsDeclared` |
| `YAMLOnlyStandsIn` | with a tolerance that is not negative, `Spec => []RDAPWins` |
| `MailIsComplete` | `ReportSpec => []MailShowsEveryAlert` |
| `BannerTellsTheWorst` | `ReportSpec => []BannerIsWorst` |
| `CountsMatchSheet` | `ReportSpec => []KPIsMatchAttachment` |
| `OneNameSpeaks` | `ReportSpec => []RegistrationIsWatched` |
| `SheetAgreesWithAlerts` | where every date is in UTC, `ReportSpec => []DaysLeftAgree` |

`GroupsInv` says that a group of the pass is the declared group of the entries
seen so far; the step is `FallbackJoin`: the date so far and the entry that joins
are enough to know the date declared for both, whichever of them is the apex.
`ResultsInv` says that each lookup has written the declared results of its group
and nothing else. `OneNameSpeaks` rests on that: the representative is always a
member of its group (`RepresentativeIn`), its info has the answer of the group
and no error when the group has any date (`GroupDateGiven`), so a date that is
due has an alert there (`DueIsAnnounced`) and at no other member. `ReportInv` adds what the report needs: the checks start when
all of this is done, and the report is the one composed of their results. The
rest is about what `Compose` computes from them. The most urgent alert of a name
and kind exists because the alerts are finitely many and is never collapsed into
another, so it has a line (`MailIsComplete`), and the worst state of the run is
that of some such line (`BannerTellsTheWorst`). The table of sources counts each
entry under one source, so its rows add up (`sourceTable` has the sums as the
number of pairs of a source and one of its entries, which needs no induction). An
alert counts the dates between two instants and its row the whole days, which
differ by at most one, and never the wrong way (`DatesAndDays`); with an offset
they can differ by more, as the run `zoned` shows of the dates alone, and
`DaysLeftAgree` is claimed of UTC only.

Assumed (`InputsAssumption`, `ReportAssumption`): a list is a sequence of entries
with a date each, possibly the zero one; what is written in one way is one name;
results have the types of the code; the thresholds are finitely many.

`ExpiryWatchProofs` proves, for any clock, any thresholds and dates of any
offset, with any number of runs missed, `WatchTypeCorrect`, `UrgencyIsMonotone`
(`Spec => UrgencyNeverDrops`) and, where every offset is less than a day ahead of
UTC, `ExpiryIsAnnounced` (`Spec => WarnedBeforeExpired`). `WatchInv` says that the
alerts are those of the instant and of the dates that the last run saw. Two runs
that saw one date differ only in the count of days, which a later instant never
makes greater (`DaysDrop`). A date that has passed shows, in its own zone, a day
that is at most one later than that of the run which finds it expired, and not
later at all if it is in UTC or behind it; so the run before counted at most the
days between the two runs, and `DaysAhead` more (`DaysUntilExpiry`), and
announced it for every threshold of at least that (`WarnedAt`). Real offsets are
within 14 hours, so the hypothesis costs nothing; that a zone ahead of UTC makes
a warning come a day late is the disagreement of the run `zoned`.

`AggregateProofs` proves, for any answers of the sources, any order in which
they come and any number of pages, domains, zones and records:

| Theorem | Statement |
|---|---|
| `AggregateTypeCorrect` | `Spec => []TypeOK` |
| `MergeIsDeclared` | `Spec => []AggregateAsDeclared` |
| `DatesReachTheList` | `Spec => []DatesAreKept` |
| `FailuresStayLocal` | `Spec => []FailureStaysLocal` |
| `ExcludedZonesStayOut` | where no group of the static file is labelled `route53`, `Spec => []ExcludedStaysOut` |

`AggregateInv` says that what the goroutines have left is what their sources tell
and nothing of the ones that run, that the queue of `dedup` is the rest of it in
order of trust, and that what `dedup` keeps is what is declared of the entries
before (`DeclaredStep`: one more entry adds its key, or gives the kept one its
date, or changes nothing). The sort gives each entry its rank among the others,
and the ranks are all different because no two entries have one name and port.
The other three theorems go on into what the sources return. A date in the list
was told by a source, and every date told comes from the static file, because
the APIs give none (`DatesAreTold`). `ListingTells` says what following
`NextPage` collects, of a listing that came whole for Name.com and of whatever
pages came for AWS; `FailuresStayLocal` follows it through the filters of each
source to the keys that `dedup` keeps (`FoundKeys`, `TrustedKeys`). It is an induction from the last page back, which works
because a page that is asked for comes after the one that points to it; as no
induction theorem of the library can be used, it is a least counterexample
(`LeastOf`), and so are the members of a list of lists (`MembersOfAll`).
`ExcludedZonesStayOut` follows a name through both of its normalisations to the
comparison of the suffix. Its hypothesis is about the label of an entry: a label
that the operator chooses could read `route53` on an entry that AWS never listed.
Assumed: names have a place in the order of strings, one each
(`NameRankAssumption`), and so have those that are found (`RankedAssumption`);
lowering a label twice is lowering it once, and only the empty label becomes
empty (`LowerAssumption`); an excluded zone has no empty label but the last
(`ZonesAssumption`); the answers have the types of the code, and a page that
Name.com points on to is there, possibly as an error (`WorldsAssumption`). That
each source then returns a list of entries is proved (`ToldTyped`).

`WorkerPoolProofs` proves `TypeOK`, `NoSharedSlot`, `ReturnedComplete`,
`OneLookupPerJob` and `QuietAfterReturn` for any number of jobs and goroutines,
from the assumption that the jobs have disjoint slots (which is what
`groupByApex` ensures: `GroupingIsCorrect` says that every entry gets its own
result). Its invariant is an account of the jobs: one that was not
sent has left no trace, one that was sent is held by exactly one goroutine, which
has written the slots it no longer has to do, or is finished.

`RdapCacheProofs` proves the four properties of the `cache` run for any domains,
dates, TTL and delay. `AgeInv` carries the argument of `BoundedStaleness`: a
date in a request, an entry, a file or an answer is either what the registry
publishes or was replaced no earlier than the request that brought it, and no
step but an answer sets the time of an entry. `Remembered` says that the memory
of a run holds what it loaded and what it served, which gives the other two.

Every invariant and every safety property of the runs is proved. Only
model-checked: the two liveness properties, `PersistentAlertSettles` and
`EventuallyReturns` (temporal reasoning under fairness is
out of the reach of the installed provers), and the four disagreements, which
are counterexamples.

## Not modelled

Layout and wording of the mail, its MIME encoding, its badges, headline bullets
and the order of its lines (ties are sorted unstably), and the encoding of the
XLSX; the parsing of YAML, JSON and HTTP (an operation that gives a value or an
error); the configuration and its defaults, whose values are the constants of
the modules; the choice of an endpoint from the RDAP bootstrap table, which is
the outcome of a lookup; the pair of snapshot files written one after the other,
which nothing reads back; log rotation in the cron wrapper. `SentAt`,
`CheckedAt`, `Issuer` and `Source` of an alert are only displayed.

In `Overlap`, reading a file and writing a buffer are single steps, the network
part of a run is left out, and the rebuild of the wrapper ends with the wrapper.
A crash kills the process: a power loss, which could leave a renamed file empty
because nothing is synced, is not modelled. The clocks of `ExpiryWatch` and
`RdapCache` only go forward; the runs of `Monitor` take any time of `Clock` in any
order, so that nothing it says depends on the clock.

In `Report`, the bucket of a name that has no result of a TLS check
(`summary.go:119-120`) is left out: only a cancelled context leads there, and
`main.go:28` never cancels. So are the failure to build the attachment and the
return without fresh alerts (`runner.go:117-126`), on which nothing that `Report`
states depends. In `Monitor`, `SaveInventory` has one outcome, because its error
is logged and the run goes on either way (`runner.go:100`).

## Plan

Done: the core (`Monitor` and what it is made of) with its invariants and proofs,
the alert clock, the pools, the grouping and its proof, the cache, the
aggregation with the two API sources, the overlapping runs and their proofs, the
mail and the inventory, with proofs of all their safety properties.

Next, in this order:

1. `Monitor` with `Aggregate` in front: the case of names and the change of
   representative when a source fails, against the key of the memory.
2. The endpoint table of the RDAP client: longest suffix, preferred scheme.
3. Refinement of `Overlap` restricted to cron's runs into the steps of `Monitor`.

Theorem to prove next: the refinement of 3.
