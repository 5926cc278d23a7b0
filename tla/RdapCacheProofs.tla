-------------------------- MODULE RdapCacheProofs ---------------------------
(***************************************************************************)
(* Proofs about RdapCache, for any set of domains and of dates, any TTL,   *)
(* any delay of the requests, and any number of runs and crashes: how old  *)
(* a served date can be, that what was flushed is used, and that a flush   *)
(* loses no answer.                                                        *)
(***************************************************************************)
EXTENDS RdapCache, TLAPS

\* A request in flight has been answered.
TypeInv == TypeOK /\ \A d \in Domains : lookup[d] = "asked" => asked[d].date \in Dates

\* A date is what the registry publishes, or what it published at or after from.
Honest(d, date, from) == date = registry[d] \/ changed[d] >= from

\* An entry is as old as the request that filled it.
HonestEntries(e) ==
    \A d \in DOMAIN e :
        e[d].cachedAt <= now /\ Honest(d, e[d].date, e[d].cachedAt - MaxLag)

HonestRequests ==
    \A d \in Domains : lookup[d] = "asked" =>
        /\ asked[d].at <= now /\ now <= asked[d].at + MaxLag
        /\ Honest(d, asked[d].date, asked[d].at)

HonestAnswers ==
    \A d \in Domains : served[d].date # NoDate =>
        served[d].at <= now /\ Honest(d, served[d].date, served[d].at - (TTL + MaxLag))

AgeInv ==
    /\ TypeInv
    /\ HonestEntries(entries) /\ HonestEntries(file.entries) /\ HonestEntries(tmp.entries)
    /\ HonestRequests
    /\ HonestAnswers

\* The lookups are over when the cache is flushed.
Phases ==
    /\ pc \in {"write", "writing", "rename"} => AllServed
    /\ pc = "idle" => \A d \in Domains : lookup[d] = "todo"
    /\ pc = "rename" => tmp = Whole(entries)

\* What was served is in memory, and what was loaded stays there.
Remembered ==
    /\ \A d \in Domains : served[d].date # NoDate =>
         d \in DOMAIN entries /\ entries[d].date = served[d].date
    /\ pc = "idle" => \A d \in Domains : served[d].date = NoDate
    /\ (pc = "lookup" /\ ~loadFailed) =>
         \A d \in DOMAIN file.entries : lookup[d] = "todo" =>
            d \in DOMAIN entries /\ entries[d] = file.entries[d]

RunInv == TypeInv /\ Phases /\ Remembered

-----------------------------------------------------------------------------
(* Types.                                                                    *)

LEMMA NoDateIsNone == NoDate \notin Dates
  BY DatesAssumption DEF NoDate

LEMMA NothingTyped ==
    ASSUME TypeOK
    PROVE  Nothing \in [date : Dates \cup {NoDate}, at : Time]
  BY ClockAssumption DEF Nothing, Time

LEMMA NoEntriesOK == EntriesOK(NoEntries) /\ DOMAIN NoEntries = {}
  BY DEF EntriesOK, NoEntries

\* What Set leaves in the memory.
LEMMA SetEntries ==
    ASSUME NEW d, NEW date, Set(d, date)
    PROVE  /\ DOMAIN entries' = DOMAIN entries \cup {d}
           /\ entries'[d] = [date |-> date, cachedAt |-> now]
           /\ \A x \in DOMAIN entries : x # d => entries'[x] = entries[x]
  BY DEF Set

LEMMA SetOK ==
    ASSUME TypeOK, NEW d \in Domains, NEW date \in Dates, Set(d, date)
    PROVE  EntriesOK(entries')
<1>1. /\ DOMAIN entries' = DOMAIN entries \cup {d}
      /\ entries'[d] = [date |-> date, cachedAt |-> now]
      /\ \A x \in DOMAIN entries : x # d => entries'[x] = entries[x]
  BY SetEntries
<1>2. [date |-> date, cachedAt |-> now] \in [date : Dates, cachedAt : Time]
  BY DEF TypeOK
<1>3. \A x \in DOMAIN entries : x \in Domains /\ entries[x] \in [date : Dates, cachedAt : Time]
  BY DEF TypeOK, EntriesOK
<1> QED
  BY <1>1, <1>2, <1>3 DEF EntriesOK

LEMMA ServeOK ==
    ASSUME TypeOK, NEW d \in Domains, NEW date \in Dates \cup {NoDate}, Serve(d, date)
    PROVE  /\ lookup' \in [Domains -> {"todo", "missed", "asked", "done"}]
           /\ asked' \in [Domains -> [date : Dates \cup {NoDate}, at : Time]]
           /\ served' \in [Domains -> [date : Dates \cup {NoDate}, at : Time]]
  BY NothingTyped DEF TypeOK, Serve

LEMMA ExitOK ==
    ASSUME TypeOK, Exit, UNCHANGED <<now, registry, changed>>,
           file' \in {file, tmp}
    PROVE  TypeOK'
<1>1. tmp'.status = "absent" /\ tmp'.entries = NoEntries /\ entries' = NoEntries
  BY DEF Exit, Absent
<1>2. /\ asked' \in [Domains -> [date : Dates \cup {NoDate}, at : Time]]
      /\ served' \in [Domains -> [date : Dates \cup {NoDate}, at : Time]]
  BY NothingTyped DEF Exit
<1>3. EntriesOK(file'.entries) /\ file'.status \in {"absent", "torn", "whole"}
  BY DEF TypeOK
<1> QED
  BY <1>1, <1>2, <1>3, NoEntriesOK DEF Exit, TypeOK, EntriesOK, Time

LEMMA TypeInit == Init => TypeOK
<1> SUFFICES ASSUME Init PROVE TypeOK
  OBVIOUS
<1>1. now \in Time /\ 0 \in Time
  BY ClockAssumption DEF Init, Time
<1>2. Nothing \in [date : Dates \cup {NoDate}, at : Time]
  BY <1>1 DEF Nothing
<1>3. entries = NoEntries /\ file.entries = NoEntries /\ tmp.entries = NoEntries
      /\ file.status = "absent" /\ tmp.status = "absent"
  BY DEF Init, Absent
<1> QED
  BY <1>1, <1>2, <1>3, NoEntriesOK DEF Init, TypeOK

LEMMA TypeStep ==
    ASSUME TypeInv, [Next]_vars
    PROVE  TypeOK'
<1> USE DEF TypeInv
<1>1. CASE Tick
  BY <1>1, ClockAssumption DEF Tick, TypeOK, EntriesOK, Time, disk
<1>2. ASSUME NEW d \in Domains, Renew(d) PROVE TypeOK'
  BY <1>2 DEF Renew, TypeOK, EntriesOK, disk
<1>3. CASE Start
  BY <1>3, NoEntriesOK DEF Start, TypeOK, EntriesOK, world, disk
<1>4. ASSUME NEW d \in Domains, Hit(d) PROVE TypeOK'
  <2>1. entries[d].date \in Dates
    BY <1>4 DEF Hit, Fresh, TypeOK, EntriesOK
  <2> QED
    BY <1>4, <2>1, ServeOK DEF Hit, TypeOK, EntriesOK, world, disk
<1>5. ASSUME NEW d \in Domains, Miss(d) PROVE TypeOK'
  BY <1>5 DEF Miss, TypeOK, EntriesOK, world, disk
<1>6. CASE LoadBootstrap
  BY <1>6 DEF LoadBootstrap, TypeOK, EntriesOK, world, disk
<1>7. ASSUME NEW d \in Domains, Request(d) PROVE TypeOK'
  BY <1>7 DEF Request, TypeOK, EntriesOK, world, disk
<1>8. ASSUME NEW d \in Domains, Answer(d) PROVE TypeOK'
  BY <1>8, ServeOK, SetOK DEF Answer, Set, TypeInv, TypeOK, EntriesOK, world, disk
<1>9. ASSUME NEW d \in Domains, LookupFails(d) PROVE TypeOK'
  BY <1>9, ServeOK DEF LookupFails, TypeOK, EntriesOK, world, disk
<1>10. CASE FlushClean \/ FlushFails \/ Crash \/ RenameTmp
  BY <1>10, ExitOK DEF FlushClean, FlushFails, Crash, RenameTmp, world
<1>11. CASE OpenTmp
  <2>1. tmp'.status = "torn" /\ tmp'.entries = NoEntries
    BY <1>11 DEF OpenTmp, Torn
  <2> QED
    BY <1>11, <2>1, NoEntriesOK DEF OpenTmp, TypeOK, EntriesOK, world
<1>12. CASE WriteTmp
  <2>1. tmp'.status = "whole" /\ tmp'.entries = entries
    BY <1>12 DEF WriteTmp, Whole
  <2> QED
    BY <1>12, <2>1 DEF WriteTmp, TypeOK, EntriesOK, world
<1>13. CASE UNCHANGED vars
  BY <1>13 DEF vars, TypeOK, EntriesOK
<1> QED
  BY <1>1, <1>2, <1>3, <1>4, <1>5, <1>6, <1>7, <1>8, <1>9, <1>10, <1>11, <1>12, <1>13
  DEF Next

\* Only Request puts a lookup in flight.
LEMMA AskedStep ==
    ASSUME TypeInv, [Next]_vars, NEW d \in Domains, lookup'[d] = "asked"
    PROVE  \/ Request(d)
           \/ lookup[d] = "asked" /\ asked'[d] = asked[d]
<1> USE DEF TypeInv, TypeOK
<1>1. ASSUME NEW x \in Domains, Request(x) PROVE Request(d) \/ (lookup[d] = "asked" /\ asked'[d] = asked[d])
  BY <1>1 DEF Request
<1>2. ASSUME NEW x \in Domains, Hit(x) \/ Answer(x) \/ LookupFails(x)
      PROVE  lookup[d] = "asked" /\ asked'[d] = asked[d]
  BY <1>2 DEF Hit, Answer, LookupFails, Serve
<1>3. ASSUME NEW x \in Domains, Miss(x) \/ Renew(x)
      PROVE  lookup[d] = "asked" /\ asked'[d] = asked[d]
  BY <1>3 DEF Miss, Renew
<1>4. CASE FlushClean \/ FlushFails \/ Crash \/ RenameTmp
  BY <1>4 DEF FlushClean, FlushFails, Crash, RenameTmp, Exit
<1>5. CASE Tick \/ Start \/ LoadBootstrap \/ OpenTmp \/ WriteTmp \/ UNCHANGED vars
  BY <1>5 DEF Tick, Start, LoadBootstrap, OpenTmp, WriteTmp, vars
<1> QED
  BY <1>1, <1>2, <1>3, <1>4, <1>5 DEF Next

LEMMA TypeInvStep ==
    ASSUME TypeInv, [Next]_vars
    PROVE  TypeInv'
<1>1. ASSUME NEW d \in Domains, lookup'[d] = "asked" PROVE asked'[d].date \in Dates
  <2>1. CASE Request(d)
    BY <2>1 DEF Request, TypeInv, TypeOK
  <2>2. CASE lookup[d] = "asked" /\ asked'[d] = asked[d]
    BY <2>2 DEF TypeInv
  <2> QED
    BY <1>1, <2>1, <2>2, AskedStep
<1> QED
  BY <1>1, TypeStep DEF TypeInv

LEMMA TypeInvariant == Spec => []TypeInv
<1>1. Init => TypeInv
  BY TypeInit DEF Init, TypeInv
<1> QED
  BY <1>1, TypeInvStep, PTL DEF Spec

\* The types of RdapCache; in particular only dates get into the cache.
THEOREM CacheTypeCorrect == Spec => []TypeOK
<1>1. TypeInv => TypeOK
  BY DEF TypeInv
<1> QED
  BY <1>1, TypeInvariant, PTL

-----------------------------------------------------------------------------
(* The age of a served date.                                                 *)

\* The clock does not go back, and a date that changes does so now.
LEMMA WorldStep ==
    ASSUME TypeInv, [Next]_vars
    PROVE  /\ now' >= now
           /\ \A d \in Domains :
                \/ registry'[d] = registry[d] /\ changed'[d] = changed[d]
                \/ changed'[d] = now
<1> USE DEF TypeInv, TypeOK, Time
<1>1. CASE Tick
  BY <1>1 DEF Tick
<1>2. ASSUME NEW x \in Domains, Renew(x)
      PROVE  /\ now' >= now
             /\ \A d \in Domains :
                  \/ registry'[d] = registry[d] /\ changed'[d] = changed[d]
                  \/ changed'[d] = now
  BY <1>2 DEF Renew
<1>3. CASE UNCHANGED world
  BY <1>3 DEF world
<1>4. Tick \/ (\E x \in Domains : Renew(x)) \/ UNCHANGED world
  BY DEF Next, Start, Hit, Miss, LoadBootstrap, Request, Answer, LookupFails, FlushClean,
         OpenTmp, WriteTmp, RenameTmp, FlushFails, Crash, vars, world
<1> QED
  BY <1>1, <1>2, <1>3, <1>4

\* So an honest date stays honest.
LEMMA HonestStep ==
    ASSUME TypeInv, [Next]_vars,
           NEW d \in Domains, NEW date, NEW from \in Int, from <= now, Honest(d, date, from)
    PROVE  date = registry'[d] \/ changed'[d] >= from
  BY WorldStep DEF Honest, TypeInv, TypeOK, Time

\* Where an entry of the memory comes from.
LEMMA EntriesStep ==
    ASSUME TypeInv, [Next]_vars, NEW d \in DOMAIN entries'
    PROVE  \/ d \in DOMAIN entries /\ entries'[d] = entries[d]
           \/ d \in DOMAIN file.entries /\ entries'[d] = file.entries[d]
           \/ /\ d \in Domains /\ lookup[d] = "asked" /\ now' = now
              /\ entries'[d] = [date |-> asked[d].date, cachedAt |-> now]
<1>1. CASE entries' = entries
  BY <1>1
<1>2. CASE entries' = NoEntries
  BY <1>2, NoEntriesOK
<1>3. CASE Start
  BY <1>3, NoEntriesOK DEF Start
<1>4. ASSUME NEW x \in Domains, Answer(x)
      PROVE  \/ d \in DOMAIN entries /\ entries'[d] = entries[d]
             \/ /\ d \in Domains /\ lookup[d] = "asked" /\ now' = now
                /\ entries'[d] = [date |-> asked[d].date, cachedAt |-> now]
  <2>1. Set(x, asked[x].date) /\ lookup[x] = "asked" /\ now' = now
    BY <1>4 DEF Answer, world
  <2>2. /\ DOMAIN entries' = DOMAIN entries \cup {x}
        /\ entries'[x] = [date |-> asked[x].date, cachedAt |-> now]
        /\ \A y \in DOMAIN entries : y # x => entries'[y] = entries[y]
    BY <2>1, SetEntries
  <2> QED
    BY <2>1, <2>2
<1>5. entries' = entries \/ entries' = NoEntries \/ Start \/ (\E x \in Domains : Answer(x))
  BY DEF Next, Tick, Renew, Hit, Miss, LoadBootstrap, Request, LookupFails, FlushClean,
         OpenTmp, WriteTmp, RenameTmp, FlushFails, Crash, Exit, vars
<1> QED
  BY <1>1, <1>2, <1>3, <1>4, <1>5

\* Where the contents of the two files come from.
LEMMA DiskStep ==
    ASSUME [Next]_vars
    PROVE  /\ file' = file \/ (RenameTmp /\ file' = tmp)
           /\ tmp'.entries \in {tmp.entries, entries, NoEntries}
<1>1. ASSUME NEW d \in Domains, Hit(d) \/ Miss(d) \/ Request(d) \/ Answer(d) \/ LookupFails(d)
      PROVE  UNCHANGED disk
  BY <1>1 DEF Hit, Miss, Request, Answer, LookupFails, disk
<1>2. CASE FlushClean \/ FlushFails \/ Crash \/ RenameTmp
  BY <1>2 DEF FlushClean, FlushFails, Crash, RenameTmp, Exit, Absent
<1>3. CASE OpenTmp \/ WriteTmp
  BY <1>3 DEF OpenTmp, WriteTmp, Torn, Whole
<1> QED
  BY <1>1, <1>2, <1>3 DEF Next, Tick, Renew, Start, LoadBootstrap, disk, vars

\* Where a served date comes from.
LEMMA ServedStep ==
    ASSUME TypeInv, [Next]_vars, NEW d \in Domains, served'[d].date # NoDate
    PROVE  \/ served'[d] = served[d]
           \/ Hit(d) /\ served'[d] = [date |-> entries[d].date, at |-> now]
           \/ Answer(d) /\ served'[d] = [date |-> asked[d].date, at |-> now]
<1> DEFINE Goal ==
           \/ served'[d] = served[d]
           \/ Hit(d) /\ served'[d] = [date |-> entries[d].date, at |-> now]
           \/ Answer(d) /\ served'[d] = [date |-> asked[d].date, at |-> now]
<1> USE DEF TypeInv, TypeOK
<1>1. ASSUME NEW x \in Domains, Hit(x) PROVE Goal
  BY <1>1 DEF Hit, Serve
<1>2. ASSUME NEW x \in Domains, Answer(x) PROVE Goal
  BY <1>2 DEF Answer, Serve
<1>3. ASSUME NEW x \in Domains, LookupFails(x) PROVE served'[d] = served[d]
  BY <1>3 DEF LookupFails, Serve
<1>4. ASSUME NEW x \in Domains, Miss(x) \/ Request(x) \/ Renew(x) PROVE served' = served
  BY <1>4 DEF Miss, Request, Renew
<1>5. CASE FlushClean \/ FlushFails \/ Crash \/ RenameTmp
  BY <1>5 DEF FlushClean, FlushFails, Crash, RenameTmp, Exit, Nothing
<1>6. CASE Tick \/ Start \/ LoadBootstrap \/ OpenTmp \/ WriteTmp \/ UNCHANGED vars
  BY <1>6 DEF Tick, Start, LoadBootstrap, OpenTmp, WriteTmp, vars
<1> QED
  BY <1>1, <1>2, <1>3, <1>4, <1>5, <1>6 DEF Next

\* The fact that the four sets of entries share.
LEMMA HonestEntriesStep ==
    ASSUME TypeInv, [Next]_vars, NEW e, EntriesOK(e), HonestEntries(e), NEW d \in DOMAIN e
    PROVE  /\ e[d].cachedAt <= now'
           /\ e[d].date = registry'[d] \/ changed'[d] >= e[d].cachedAt - MaxLag
<1>1. d \in Domains /\ e[d].cachedAt \in Int
  BY DEF EntriesOK, Time
<1>2. e[d].cachedAt - MaxLag \in Int /\ e[d].cachedAt - MaxLag <= now /\ now \in Int
  BY <1>1, ClockAssumption DEF HonestEntries, TypeInv, TypeOK, Time
<1>3. e[d].date = registry'[d] \/ changed'[d] >= e[d].cachedAt - MaxLag
  BY <1>1, <1>2, HonestStep DEF HonestEntries
<1>4. e[d].cachedAt <= now /\ now' >= now /\ now' \in Int
  BY WorldStep, TypeStep DEF HonestEntries, TypeOK, Time
<1> QED
  BY <1>1, <1>2, <1>3, <1>4

LEMMA AgeInvariant == Spec => []AgeInv
<1>1. Init => AgeInv
  <2> SUFFICES ASSUME Init PROVE AgeInv
    OBVIOUS
  <2>1. TypeInv
    BY TypeInit DEF Init, TypeInv
  <2>2. HonestEntries(NoEntries)
    BY NoEntriesOK DEF HonestEntries
  <2>3. HonestRequests /\ HonestAnswers
    BY DEF Init, HonestRequests, HonestAnswers, Nothing
  <2> QED
    BY <2>1, <2>2, <2>3 DEF Init, AgeInv, Absent
<1>2. AgeInv /\ [Next]_vars => AgeInv'
  <2> SUFFICES ASSUME AgeInv, [Next]_vars PROVE AgeInv'
    OBVIOUS
  <2>0. TypeInv /\ EntriesOK(entries) /\ EntriesOK(file.entries) /\ EntriesOK(tmp.entries)
    BY DEF AgeInv, TypeInv, TypeOK
  <2>1. TypeInv'
    BY <2>0, TypeInvStep
  <2>e. /\ \A d \in DOMAIN entries :
             /\ entries[d].cachedAt <= now'
             /\ entries[d].date = registry'[d] \/ changed'[d] >= entries[d].cachedAt - MaxLag
        /\ \A d \in DOMAIN file.entries :
             /\ file.entries[d].cachedAt <= now'
             /\ \/ file.entries[d].date = registry'[d]
                \/ changed'[d] >= file.entries[d].cachedAt - MaxLag
        /\ \A d \in DOMAIN tmp.entries :
             /\ tmp.entries[d].cachedAt <= now'
             /\ \/ tmp.entries[d].date = registry'[d]
                \/ changed'[d] >= tmp.entries[d].cachedAt - MaxLag
    BY <2>0, HonestEntriesStep DEF AgeInv
  <2>r. \A d \in Domains : lookup[d] = "asked" =>
          /\ asked[d].at \in Int /\ asked[d].at <= now /\ now <= asked[d].at + MaxLag
          /\ asked[d].date = registry'[d] \/ changed'[d] >= asked[d].at
    <3> SUFFICES ASSUME NEW d \in Domains, lookup[d] = "asked"
                 PROVE  /\ asked[d].at \in Int /\ asked[d].at <= now /\ now <= asked[d].at + MaxLag
                        /\ asked[d].date = registry'[d] \/ changed'[d] >= asked[d].at
      OBVIOUS
    <3>1. asked[d].at \in Int
      BY <2>0 DEF TypeInv, TypeOK, Time
    <3>2. asked[d].at <= now /\ now <= asked[d].at + MaxLag /\ Honest(d, asked[d].date, asked[d].at)
      BY DEF AgeInv, HonestRequests
    <3> QED
      BY <2>0, <3>1, <3>2, HonestStep
  <2>2. HonestEntries(entries)'
    <3> SUFFICES ASSUME NEW d \in DOMAIN entries'
                 PROVE  /\ entries'[d].cachedAt <= now'
                        /\ \/ entries'[d].date = registry'[d]
                           \/ changed'[d] >= entries'[d].cachedAt - MaxLag
      BY DEF HonestEntries, Honest
    <3>1. CASE d \in DOMAIN entries /\ entries'[d] = entries[d]
      BY <3>1, <2>e
    <3>2. CASE d \in DOMAIN file.entries /\ entries'[d] = file.entries[d]
      BY <3>2, <2>e
    <3>3. CASE /\ d \in Domains /\ lookup[d] = "asked" /\ now' = now
               /\ entries'[d] = [date |-> asked[d].date, cachedAt |-> now]
      <4>1. now \in Int /\ changed'[d] \in Int
        BY <3>3, <2>0, <2>1 DEF TypeInv, TypeOK, Time
      <4>2. asked[d].at >= now - MaxLag
        BY <4>1, <3>3, <2>r, ClockAssumption
      <4> QED
        BY <4>1, <4>2, <3>3, <2>r, ClockAssumption
    <3> QED
      BY <2>0, <3>1, <3>2, <3>3, EntriesStep
  <2>3. HonestEntries(file.entries)' /\ HonestEntries(tmp.entries)'
    <3>1. file'.entries \in {file.entries, tmp.entries} /\ tmp'.entries \in {tmp.entries, entries, NoEntries}
      BY DiskStep
    <3> QED
      BY <3>1, <2>e, NoEntriesOK DEF HonestEntries, Honest
  <2>4. HonestRequests'
    <3> SUFFICES ASSUME NEW d \in Domains, lookup'[d] = "asked"
                 PROVE  /\ asked'[d].at <= now' /\ now' <= asked'[d].at + MaxLag
                        /\ asked'[d].date = registry'[d] \/ changed'[d] >= asked'[d].at
      BY DEF HonestRequests, Honest
    <3>1. CASE Request(d)
      BY <3>1, <2>0, ClockAssumption DEF Request, world, TypeInv, TypeOK, Time
    <3>2. CASE lookup[d] = "asked" /\ asked'[d] = asked[d]
      <4>1. now' <= asked[d].at + MaxLag
        <5>1. CASE Tick
          BY <5>1, <3>2, <2>0, <2>r, ClockAssumption DEF Tick, TypeInv, TypeOK, Time
        <5>2. CASE now' = now
          BY <5>2, <3>2, <2>r
        <5>3. Tick \/ now' = now
          BY DEF Next, Renew, Start, Hit, Miss, LoadBootstrap, Request, Answer, LookupFails,
                 FlushClean, OpenTmp, WriteTmp, RenameTmp, FlushFails, Crash, vars, world
        <5> QED
          BY <5>1, <5>2, <5>3
      <4>2. now \in Int /\ now' \in Int /\ now' >= now
        BY <2>0, <2>1, WorldStep DEF TypeInv, TypeOK, Time
      <4> QED
        BY <4>1, <4>2, <3>2, <2>r
    <3> QED
      BY <2>0, <3>1, <3>2, AskedStep
  <2>5. HonestAnswers'
    <3> SUFFICES ASSUME NEW d \in Domains, served'[d].date # NoDate
                 PROVE  /\ served'[d].at <= now'
                        /\ \/ served'[d].date = registry'[d]
                           \/ changed'[d] >= served'[d].at - (TTL + MaxLag)
      BY DEF HonestAnswers, Honest
    <3>0. /\ now \in Int /\ now' \in Int /\ now' >= now /\ changed'[d] \in Int
          /\ TTL \in Nat /\ MaxLag \in Nat
      BY <2>0, <2>1, WorldStep, ClockAssumption DEF TypeInv, TypeOK, Time
    <3>1. CASE served'[d] = served[d]
      <4>1. served[d].at \in Int
        BY <2>0 DEF TypeInv, TypeOK, Time
      <4>2. /\ served[d].at <= now
            /\ Honest(d, served[d].date, served[d].at - (TTL + MaxLag))
        BY <3>1 DEF AgeInv, HonestAnswers
      <4>3. served[d].at - (TTL + MaxLag) \in Int /\ served[d].at - (TTL + MaxLag) <= now
        BY <4>1, <4>2, <3>0
      <4>4. \/ served[d].date = registry'[d]
            \/ changed'[d] >= served[d].at - (TTL + MaxLag)
        BY <2>0, <4>2, <4>3, HonestStep
      <4> QED
        BY <3>0, <3>1, <4>1, <4>2, <4>4
    <3>2. CASE Hit(d) /\ served'[d] = [date |-> entries[d].date, at |-> now]
      <4>1. d \in DOMAIN entries /\ now - entries[d].cachedAt <= TTL
        BY <3>2 DEF Hit, Fresh
      <4>2. entries[d].cachedAt \in Int
        BY <4>1, <2>0 DEF EntriesOK, Time
      <4> QED
        BY <3>0, <3>2, <4>1, <4>2, <2>e
    <3>3. CASE Answer(d) /\ served'[d] = [date |-> asked[d].date, at |-> now]
      <4>1. lookup[d] = "asked"
        BY <3>3 DEF Answer
      <4> QED
        BY <3>0, <3>3, <4>1, <2>r
    <3> QED
      BY <2>0, <3>1, <3>2, <3>3, ServedStep
  <2> QED
    BY <2>1, <2>2, <2>3, <2>4, <2>5 DEF AgeInv
<1> QED
  BY <1>1, <1>2, PTL DEF Spec

\* Whatever fails, crashes or is cached again, a date that the registry had
\* changed is not served for longer than TTL and a request.
THEOREM StalenessIsBounded == Spec => []BoundedStaleness
<1>1. AgeInv => BoundedStaleness
  BY DEF AgeInv, HonestAnswers, Honest, BoundedStaleness
<1> QED
  BY <1>1, AgeInvariant, PTL

-----------------------------------------------------------------------------
(* What was flushed is used, and a flush loses no answer.                    *)

LEMMA PhasesStep ==
    ASSUME TypeInv, Phases, [Next]_vars
    PROVE  Phases'
<1> USE DEF TypeInv, TypeOK, Phases, AllServed
<1>1. CASE Start \/ Tick \/ UNCHANGED vars
  BY <1>1 DEF Start, Tick, vars, disk, Whole
<1>2. ASSUME NEW d \in Domains, Renew(d) PROVE Phases'
  BY <1>2 DEF Renew, disk, Whole
<1>3. ASSUME NEW d \in Domains, Hit(d) \/ Miss(d) \/ Request(d) \/ Answer(d) \/ LookupFails(d)
      PROVE  Phases'
  <2>1. pc = "lookup" /\ pc' = pc
    BY <1>3 DEF Hit, Miss, Request, Answer, LookupFails, world
  <2> QED
    BY <2>1
<1>4. CASE LoadBootstrap
  <2>1. pc = "lookup" /\ pc' = pc
    BY <1>4 DEF LoadBootstrap
  <2> QED
    BY <2>1
<1>5. CASE FlushClean \/ FlushFails \/ Crash \/ RenameTmp
  BY <1>5 DEF FlushClean, FlushFails, Crash, RenameTmp, Exit
<1>6. CASE OpenTmp \/ WriteTmp
  BY <1>6 DEF OpenTmp, WriteTmp, Whole
<1> QED
  BY <1>1, <1>2, <1>3, <1>4, <1>5, <1>6 DEF Next

\* The memory only grows, except at the start and at the end of a run.
LEMMA RememberedStep ==
    ASSUME TypeInv, Phases, Remembered, [Next]_vars
    PROVE  Remembered'
<1> USE DEF TypeInv, TypeOK, Phases, Remembered
<1>1. CASE Start
  <2>1. \A d \in Domains : served'[d].date = NoDate
    BY <1>1 DEF Start
  <2>2. ~loadFailed' => entries' = file'.entries
    BY <1>1 DEF Start, disk
  <2>3. pc' = "lookup"
    BY <1>1 DEF Start
  <2> QED
    BY <2>1, <2>2, <2>3
<1>2. CASE UNCHANGED <<pc, entries, loadFailed, lookup, served, file>>
  BY <1>2
<1>3. ASSUME NEW d \in Domains, Hit(d) PROVE Remembered'
  <2>1. /\ pc' = "lookup" /\ d \in DOMAIN entries
        /\ UNCHANGED <<entries, loadFailed, file>>
    BY <1>3 DEF Hit, Fresh, disk
  <2>2. \A x \in Domains : served'[x] = IF x = d THEN [date |-> entries[d].date, at |-> now] ELSE served[x]
    BY <1>3 DEF Hit, Serve
  <2>3. \A x \in Domains : lookup'[x] = "todo" => lookup[x] = "todo"
    BY <1>3 DEF Hit, Serve
  <2>4. \A x \in DOMAIN file.entries : x \in Domains
    BY DEF EntriesOK
  <2>5. pc = "lookup"
    BY <1>3 DEF Hit
  <2>6. \A x \in Domains : served'[x].date # NoDate =>
           x \in DOMAIN entries' /\ entries'[x].date = served'[x].date
    BY <2>1, <2>2
  <2>7. ~loadFailed' => \A x \in DOMAIN file'.entries : lookup'[x] = "todo" =>
           x \in DOMAIN entries' /\ entries'[x] = file'.entries[x]
    BY <2>1, <2>3, <2>4, <2>5
  <2> QED
    BY <2>1, <2>6, <2>7
<1>4. ASSUME NEW d \in Domains, Miss(d) \/ Request(d) PROVE Remembered'
  <2>1. /\ pc = "lookup" /\ pc' = "lookup"
        /\ UNCHANGED <<entries, loadFailed, file, served>>
    BY <1>4 DEF Miss, Request, disk, AllServed
  <2>2. \A x \in Domains : lookup'[x] = "todo" => lookup[x] = "todo"
    BY <1>4 DEF Miss, Request
  <2>3. \A x \in DOMAIN file.entries : x \in Domains
    BY DEF EntriesOK
  <2> QED
    BY <2>1, <2>2, <2>3
<1>5. ASSUME NEW d \in Domains, Answer(d) PROVE Remembered'
  <2>1. /\ pc = "lookup" /\ pc' = "lookup" /\ lookup[d] = "asked"
        /\ UNCHANGED <<loadFailed, file>>
    BY <1>5 DEF Answer, disk, AllServed
  <2>2. /\ DOMAIN entries' = DOMAIN entries \cup {d}
        /\ entries'[d] = [date |-> asked[d].date, cachedAt |-> now]
        /\ \A x \in DOMAIN entries : x # d => entries'[x] = entries[x]
    BY <1>5, SetEntries DEF Answer
  <2>3. \A x \in Domains : served'[x] = IF x = d THEN [date |-> asked[d].date, at |-> now] ELSE served[x]
    BY <1>5 DEF Answer, Serve
  <2>4. \A x \in Domains : lookup'[x] = "todo" => lookup[x] = "todo" /\ x # d
    BY <1>5 DEF Answer, Serve
  <2>5. \A x \in DOMAIN file.entries : x \in Domains
    BY DEF EntriesOK
  <2>6. \A x \in Domains : served'[x].date # NoDate =>
           x \in DOMAIN entries' /\ entries'[x].date = served'[x].date
    BY <2>2, <2>3
  <2>7. \A x \in DOMAIN entries : x # d => x \in DOMAIN entries' /\ entries'[x] = entries[x]
    BY <2>2
  <2>8. ~loadFailed' => \A x \in DOMAIN file'.entries : lookup'[x] = "todo" =>
           x \in DOMAIN entries' /\ entries'[x] = file'.entries[x]
    BY <2>1, <2>4, <2>5, <2>7
  <2> QED
    BY <2>1, <2>6, <2>8
<1>6. ASSUME NEW d \in Domains, LookupFails(d) PROVE Remembered'
  <2>1. /\ pc = "lookup" /\ pc' = "lookup"
        /\ UNCHANGED <<entries, loadFailed, file>>
    BY <1>6 DEF LookupFails, disk, AllServed
  <2>2. \A x \in Domains : served'[x].date = NoDate \/ served'[x] = served[x]
    BY <1>6 DEF LookupFails, Serve
  <2>3. \A x \in Domains : lookup'[x] = "todo" => lookup[x] = "todo"
    BY <1>6 DEF LookupFails, Serve
  <2>4. \A x \in DOMAIN file.entries : x \in Domains
    BY DEF EntriesOK
  <2> QED
    BY <2>1, <2>2, <2>3, <2>4
<1>7. CASE FlushClean \/ FlushFails \/ Crash \/ RenameTmp
  <2>1. pc' = "idle" /\ \A d \in Domains : served'[d].date = NoDate
    BY <1>7 DEF FlushClean, FlushFails, Crash, RenameTmp, Exit, Nothing
  <2> QED
    BY <2>1
<1>8. CASE OpenTmp \/ WriteTmp
  <2>1. pc' \in {"writing", "rename"} /\ UNCHANGED <<entries, served>>
    BY <1>8 DEF OpenTmp, WriteTmp
  <2> QED
    BY <2>1
<1>9. ASSUME NEW d \in Domains, Renew(d)
      PROVE  UNCHANGED <<pc, entries, loadFailed, lookup, served, file>>
  BY <1>9 DEF Renew, disk
<1>10. CASE Tick \/ LoadBootstrap \/ UNCHANGED vars
  BY <1>10 DEF Tick, LoadBootstrap, vars, disk
<1> QED
  BY <1>1, <1>2, <1>3, <1>4, <1>5, <1>6, <1>7, <1>8, <1>9, <1>10 DEF Next

LEMMA RunInvariant == Spec => []RunInv
<1>1. Init => RunInv
  <2> SUFFICES ASSUME Init PROVE RunInv
    OBVIOUS
  <2>1. TypeInv
    BY TypeInit DEF Init, TypeInv
  <2>2. Phases
    BY DEF Init, Phases
  <2>3. Remembered
    BY DEF Init, Remembered, Nothing
  <2> QED
    BY <2>1, <2>2, <2>3 DEF RunInv
<1>2. RunInv /\ [Next]_vars => RunInv'
  BY TypeInvStep, PhasesStep, RememberedStep DEF RunInv
<1> QED
  BY <1>1, <1>2, PTL DEF Spec

\* The registry is asked only when the file has no entry within its TTL, or
\* could not be read.
THEOREM FlushedEntriesAreUsed == Spec => NoNeedlessRequest
<1>1. RunInv /\ [Next]_vars =>
        [\A d \in Domains :
           (lookup[d] = "todo" /\ lookup'[d] = "missed")
             => \/ loadFailed
                \/ d \notin DOMAIN file.entries
                \/ now - file.entries[d].cachedAt > TTL]_vars
  <2> SUFFICES ASSUME RunInv, Next, NEW d \in Domains,
                      lookup[d] = "todo", lookup'[d] = "missed",
                      ~loadFailed, d \in DOMAIN file.entries
               PROVE  now - file.entries[d].cachedAt > TTL
    BY DEF vars
  <2> USE DEF RunInv, TypeInv, TypeOK
  <2>1. Miss(d)
    <3>1. ASSUME NEW x \in Domains, Miss(x) PROVE x = d
      BY <3>1 DEF Miss
    <3>2. ASSUME NEW x \in Domains, Hit(x) \/ Answer(x) \/ LookupFails(x) \/ Request(x)
          PROVE  FALSE
      BY <3>2 DEF Hit, Answer, LookupFails, Request, Serve
    <3>3. ASSUME NEW x \in Domains, Renew(x) PROVE FALSE
      BY <3>3 DEF Renew
    <3>4. CASE FlushClean \/ FlushFails \/ Crash \/ RenameTmp
      BY <3>4 DEF FlushClean, FlushFails, Crash, RenameTmp, Exit
    <3>5. CASE Tick \/ Start \/ LoadBootstrap \/ OpenTmp \/ WriteTmp
      BY <3>5 DEF Tick, Start, LoadBootstrap, OpenTmp, WriteTmp
    <3> QED
      BY <3>1, <3>2, <3>3, <3>4, <3>5 DEF Next
  <2>2. pc = "lookup" /\ ~Fresh(d)
    BY <2>1 DEF Miss
  <2>3. d \in DOMAIN entries /\ entries[d] = file.entries[d]
    BY <2>2 DEF Remembered
  <2>4. file.entries[d].cachedAt \in Int /\ now \in Int
    BY DEF EntriesOK, Time
  <2> QED
    BY <2>2, <2>3, <2>4, ClockAssumption DEF Fresh
<1> QED
  BY <1>1, RunInvariant, PTL DEF Spec, NoNeedlessRequest

\* The file that replaces the cache has every answer of the run.
THEOREM AnswersAreFlushed == Spec => FlushKeepsAnswers
<1>1. RunInv /\ [Next]_vars =>
        [file' # file =>
           \A d \in Domains :
              served[d].date # NoDate =>
                  d \in DOMAIN file'.entries /\ file'.entries[d].date = served[d].date]_vars
  <2> SUFFICES ASSUME RunInv, Next, file' # file, NEW d \in Domains, served[d].date # NoDate
               PROVE  d \in DOMAIN file'.entries /\ file'.entries[d].date = served[d].date
    BY DEF vars
  <2>1. RenameTmp /\ file' = tmp
    BY DiskStep
  <2>2. file'.entries = entries
    BY <2>1 DEF RunInv, Phases, RenameTmp, Whole
  <2> QED
    BY <2>2 DEF RunInv, Remembered
<1> QED
  BY <1>1, RunInvariant, PTL DEF Spec, FlushKeepsAnswers
=============================================================================
