----------------------------- MODULE StateStore -----------------------------
(***************************************************************************)
(* internal/state: the memory of the alerts already sent.  A record is     *)
(* keyed by (domain, kind, threshold) and holds the expiry date the alert  *)
(* was sent for, reduced to its instant because it is only read by Equal.  *)
(***************************************************************************)
EXTENDS Integers

Key(r) == <<r.domain, r.kind, r.threshold>>

\* The record an alert leaves; also the name this project gives to what a mail
\* tells its reader: "this date of this domain reached this threshold".
Fact(a) == [domain |-> a.domain, kind |-> a.kind, threshold |-> a.threshold,
            at |-> a.expiresAt.at]

Facts(alerts) == {Fact(a) : a \in alerts}

OneDatePerKey(records) ==
    \A r, s \in records : Key(r) = Key(s) => r = s

\* Mutant of filterAgainst: a renewed date no longer re-arms the alert.
filterByKey(existing, alerts) ==
    {a \in alerts : Key(a) \notin {Key(r) : r \in existing}}

\* An alert is suppressed when its key is remembered with the same instant.
filterAgainst(existing, alerts) == {a \in alerts : Fact(a) \notin existing}

\* The sent alerts that survive: of several with one key, the last of the slice.
LastPerKey(sent) ==
    {a \in sent : \A b \in sent : Key(b) = Key(a) => b.pos <= a.pos}

\* Mutant of upsert: the new records are appended, the old ones kept.
upsertAppend(existing, sent) == existing \cup Facts(sent)

\* Mutant of upsert: the file is rewritten with this run's alerts only.
upsertForget(existing, sent) == Facts(LastPerKey(sent))

\* The records after sent: a key that was sent takes the new date, the others stay.
upsert(existing, sent) ==
    {r \in existing : Key(r) \notin {Key(a) : a \in sent}} \cup Facts(LastPerKey(sent))
=============================================================================
