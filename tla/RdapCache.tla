----------------------------- MODULE RdapCache -----------------------------
(***************************************************************************)
(* The RDAP lookups of successive runs: CachedLooker over a FileCache over *)
(* the Client (internal/rdap).  In each run Enrich looks up every          *)
(* registrable domain once, from several goroutines; then Run flushes the  *)
(* cache.  The registry changes its dates at any moment, requests fail,    *)
(* and the process can be killed.                                          *)
(***************************************************************************)
EXTENDS Integers

CONSTANTS
    Domains,     \* registrable domains that are looked up
    Dates,       \* expiry dates a registry may publish
    TTL,         \* config "rdap.cache.ttl", in ticks
    MaxLag,      \* longest a request takes (the timeout of http.Client)
    LastTick     \* bound of the clock

ASSUME DatesAssumption == Dates \subseteq Nat \ {0}
ASSUME ClockAssumption == TTL \in Nat /\ MaxLag \in Nat /\ LastTick \in Nat

VARIABLES
    now,
    registry,    \* the date each registry publishes ...
    changed,     \* ... and since when
    pc,          \* "idle", "lookup", then the steps of Flush
    entries,     \* memBackend.entries: domain -> [date, cachedAt]
    dirty,       \* memBackend.dirty
    loadFailed,  \* history: this run could not read its file
    bootstrap,   \* Client.bootstrapOnce: "none", "ok" or "failed"
    lookup,      \* the goroutine of each domain
    asked,       \* the request in flight: [date, at]
    served,      \* what Lookup returned to Enrich: [date, at], date 0 for Err
    file, tmp    \* cache.path and cache.path + ".tmp"

world == <<now, registry, changed>>
disk == <<file, tmp>>
vars == <<now, registry, changed, pc, entries, dirty, loadFailed, bootstrap,
          lookup, asked, served, file, tmp>>

Time == 0 .. LastTick
NoDate == 0
NoEntries == [d \in {} |-> 0]
Nothing == [date |-> NoDate, at |-> 0]

\* A cache file: "torn" is a write that was not completed.
Absent == [status |-> "absent", entries |-> NoEntries]
Torn == [status |-> "torn", entries |-> NoEntries]
Whole(e) == [status |-> "whole", entries |-> e]

EntriesOK(e) ==
    /\ DOMAIN e \subseteq Domains
    /\ \A d \in DOMAIN e : e[d] \in [date : Dates, cachedAt : Time]

TypeOK ==
    /\ now \in Time
    /\ registry \in [Domains -> Dates]
    /\ changed \in [Domains -> Time]
    /\ pc \in {"idle", "lookup", "write", "writing", "rename"}
    /\ EntriesOK(entries) /\ EntriesOK(file.entries) /\ EntriesOK(tmp.entries)
    /\ {file.status, tmp.status} \subseteq {"absent", "torn", "whole"}
    /\ dirty \in BOOLEAN /\ loadFailed \in BOOLEAN
    /\ bootstrap \in {"none", "ok", "failed"}
    /\ lookup \in [Domains -> {"todo", "missed", "asked", "done"}]
    /\ asked \in [Domains -> [date : Dates \cup {NoDate}, at : Time]]
    /\ served \in [Domains -> [date : Dates \cup {NoDate}, at : Time]]

Init ==
    /\ now = 0
    /\ registry \in [Domains -> Dates]
    /\ changed = [d \in Domains |-> 0]
    /\ pc = "idle"
    /\ entries = NoEntries
    /\ dirty = FALSE
    /\ loadFailed = FALSE
    /\ bootstrap = "none"
    /\ lookup = [d \in Domains |-> "todo"]
    /\ asked = [d \in Domains |-> Nothing]
    /\ served = [d \in Domains |-> Nothing]
    /\ file = Absent
    /\ tmp = Absent

-----------------------------------------------------------------------------
(* The world.                                                                *)

\* Time passes; a request in flight is answered or given up within MaxLag.
Tick ==
    /\ now < LastTick
    /\ \A d \in Domains : lookup[d] = "asked" => now < asked[d].at + MaxLag
    /\ now' = now + 1
    /\ UNCHANGED <<registry, changed, pc, entries, dirty, loadFailed, bootstrap,
                   lookup, asked, served, disk>>

\* A registration is renewed, or its date corrected.
Renew(d) ==
    /\ registry' \in {[registry EXCEPT ![d] = date] : date \in Dates \ {registry[d]}}
    /\ changed' = [changed EXCEPT ![d] = now]
    /\ UNCHANGED <<now, pc, entries, dirty, loadFailed, bootstrap, lookup, asked,
                   served, disk>>

-----------------------------------------------------------------------------
(* A run.                                                                    *)

\* The process is gone, with its memory.  What it leaves in the temporary file
\* is read by nobody, and truncated by the next flush: it is forgotten too.
Exit ==
    /\ pc' = "idle"
    /\ entries' = NoEntries
    /\ dirty' = FALSE
    /\ loadFailed' = FALSE
    /\ bootstrap' = "none"
    /\ lookup' = [d \in Domains |-> "todo"]
    /\ asked' = [d \in Domains |-> Nothing]
    /\ served' = [d \in Domains |-> Nothing]
    /\ tmp' = Absent

\* NewFileCache loads the file.  One that cannot be read or parsed is no cache.
Start ==
    /\ pc = "idle"
    /\ pc' = "lookup"
    /\ \E readable \in BOOLEAN :
         /\ readable => file.status # "torn"
         /\ entries' = IF readable THEN file.entries ELSE NoEntries
         /\ loadFailed' = ~readable
    /\ UNCHANGED <<world, dirty, bootstrap, lookup, asked, served, disk>>

\* Mutant of Fresh: the entry lives one instant less.
FreshBelow(d) == d \in DOMAIN entries /\ now - entries[d].cachedAt < TTL

\* Mutant of Fresh: the TTL is not looked at.
FreshForEver(d) == d \in DOMAIN entries

\* memBackend.Get finds an entry that has not expired.
Fresh(d) == d \in DOMAIN entries /\ now - entries[d].cachedAt <= TTL

\* Lookup(d) returns date to Enrich.
Serve(d, date) ==
    /\ lookup' = [lookup EXCEPT ![d] = "done"]
    /\ served' = [served EXCEPT ![d] = [date |-> date, at |-> now]]
    /\ asked' = [asked EXCEPT ![d] = Nothing]

\* memBackend.Set, after an answer with a date.
Set(d, date) ==
    /\ entries' = [x \in DOMAIN entries \cup {d} |->
                     IF x = d THEN [date |-> date, cachedAt |-> now] ELSE entries[x]]
    /\ dirty' = TRUE

\* Mutant of Hit: what the cache answers is set again, with a new CachedAt.
HitRestamps(d) ==
    /\ pc = "lookup" /\ lookup[d] = "todo"
    /\ Fresh(d)
    /\ Serve(d, entries[d].date)
    /\ Set(d, entries[d].date)
    /\ UNCHANGED <<world, pc, loadFailed, bootstrap, disk>>

Hit(d) ==
    /\ pc = "lookup" /\ lookup[d] = "todo"
    /\ Fresh(d)
    /\ Serve(d, entries[d].date)
    /\ UNCHANGED <<world, pc, entries, dirty, loadFailed, bootstrap, disk>>

Miss(d) ==
    /\ pc = "lookup" /\ lookup[d] = "todo"
    /\ ~Fresh(d)
    /\ lookup' = [lookup EXCEPT ![d] = "missed"]
    /\ UNCHANGED <<world, pc, entries, dirty, loadFailed, bootstrap, asked, served, disk>>

\* The first miss fetches the IANA list, once per run; the others wait for it.
LoadBootstrap ==
    /\ bootstrap = "none"
    /\ \E d \in Domains : lookup[d] = "missed"
    /\ bootstrap' \in {"ok", "failed"}
    /\ UNCHANGED <<world, pc, entries, dirty, loadFailed, lookup, asked, served, disk>>

\* The request reaches the registry, which answers what it now publishes.
Request(d) ==
    /\ lookup[d] = "missed" /\ bootstrap = "ok"
    /\ lookup' = [lookup EXCEPT ![d] = "asked"]
    /\ asked' = [asked EXCEPT ![d] = [date |-> registry[d], at |-> now]]
    /\ UNCHANGED <<world, pc, entries, dirty, loadFailed, bootstrap, served, disk>>

Answer(d) ==
    /\ lookup[d] = "asked"
    /\ Serve(d, asked[d].date)
    /\ Set(d, asked[d].date)
    /\ UNCHANGED <<world, pc, loadFailed, bootstrap, disk>>

\* Mutant of LookupFails: Set stores whatever Lookup returned.
FailureCached(d) ==
    /\ \/ lookup[d] = "missed" /\ bootstrap # "none"
       \/ lookup[d] = "asked"
    /\ Serve(d, NoDate)
    /\ Set(d, NoDate)
    /\ UNCHANGED <<world, pc, loadFailed, bootstrap, disk>>

\* No bootstrap, no endpoint for the TLD, a transport error, a timeout, a status
\* other than 200, no expiration event or an unreadable one: Set stores nothing.
LookupFails(d) ==
    /\ \/ lookup[d] = "missed" /\ bootstrap # "none"
       \/ lookup[d] = "asked"
    /\ Serve(d, NoDate)
    /\ UNCHANGED <<world, pc, entries, dirty, loadFailed, bootstrap, disk>>

AllServed == \A d \in Domains : lookup[d] = "done"

\* Enrich has returned; nothing was learned and Flush returns at once.
FlushClean ==
    /\ pc = "lookup" /\ AllServed /\ ~dirty
    /\ Exit
    /\ UNCHANGED <<world, file>>

\* Mutant of OpenTmp: the cache file is overwritten in place.
OpenInPlace ==
    /\ pc = "lookup" /\ AllServed /\ dirty
    /\ pc' = "writing"
    /\ file' = Torn
    /\ UNCHANGED <<world, entries, dirty, loadFailed, bootstrap, lookup, asked, served, tmp>>

OpenTmp ==
    /\ pc = "lookup" /\ AllServed /\ dirty
    /\ pc' = "writing"
    /\ tmp' = Torn
    /\ UNCHANGED <<world, entries, dirty, loadFailed, bootstrap, lookup, asked, served, file>>

WriteTmp ==
    /\ pc = "writing"
    /\ pc' = "rename"
    /\ tmp' = Whole(entries)
    /\ UNCHANGED <<world, entries, dirty, loadFailed, bootstrap, lookup, asked, served, file>>

RenameTmp ==
    /\ pc = "rename"
    /\ file' = tmp
    /\ Exit
    /\ UNCHANGED world

\* Creating, writing or renaming fails: a warning, and the run goes on.
FlushFails ==
    /\ pc \in {"lookup", "writing", "rename"} /\ AllServed /\ dirty
    /\ Exit
    /\ UNCHANGED <<world, file>>

Crash ==
    /\ pc # "idle"
    /\ Exit
    /\ UNCHANGED <<world, file>>

Next ==
    \/ Tick
    \/ \E d \in Domains : Renew(d)
    \/ Start
    \/ \E d \in Domains : Hit(d) \/ Miss(d) \/ Request(d) \/ Answer(d) \/ LookupFails(d)
    \/ LoadBootstrap
    \/ FlushClean \/ OpenTmp \/ WriteTmp \/ RenameTmp \/ FlushFails
    \/ Crash

Spec == Init /\ [][Next]_vars

-----------------------------------------------------------------------------

\* A date that the registry had changed is served for at most TTL, counted from
\* the answer that was cached: through hits, reloads, failed lookups and lost
\* flushes nothing prolongs an entry.
BoundedStaleness ==
    \A d \in Domains :
        (served[d].date # NoDate /\ served[d].date # registry[d])
            => changed[d] >= served[d].at - (TTL + MaxLag)

\* config.yaml: the cache avoids the requests.  A lookup reaches the network,
\* where it can fail, only when the file on disk has no entry within its TTL or
\* could not be read: what any earlier run flushed is used, a crash in between
\* or not.
NoNeedlessRequest ==
    [][\A d \in Domains :
         (lookup[d] = "todo" /\ lookup'[d] = "missed")
           => \/ loadFailed
              \/ d \notin DOMAIN file.entries
              \/ now - file.entries[d].cachedAt > TTL]_vars

\* Enrich groups the names so that each registration is asked once; what this
\* run served is then what it learned or was given, in its memory and, once the
\* cache is replaced, on disk.
FlushKeepsAnswers ==
    [][file' # file =>
         \A d \in Domains :
            served[d].date # NoDate =>
                d \in DOMAIN file'.entries /\ file'.entries[d].date = served[d].date]_vars
=============================================================================
