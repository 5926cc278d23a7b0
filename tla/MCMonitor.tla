----------------------------- MODULE MCMonitor -----------------------------
(* Instances of Monitor for TLC. *)
EXTENDS Monitor

Day(n) == n * TicksPerDay
Site(name, fallback) == [Name |-> name, ExpiryFallback |-> fallback]

MCRegistrable == [n \in {"shop.co", "www.shop.co", "corp.com", "www.corp.com"} |->
                    IF n \in {"corp.com", "www.corp.com"} THEN "corp.com" ELSE "shop.co"]

\* One certificate.
OneSite == <<Site("corp.com", ZeroTime)>>

\* An apex with a YAML date, one of its subdomains, and one of another apex.
TwoApexes == <<Site("shop.co", UTC(Day(5))), Site("www.corp.com", ZeroTime),
               Site("www.shop.co", ZeroTime)>>

\* One name served on two ports; its apex is not monitored.
TwoPorts == <<Site("www.shop.co", ZeroTime), Site("www.shop.co", ZeroTime)>>

NoCert == [Err |-> TRUE, NotAfter |-> ZeroTime]
Cert(at) == [Err |-> FALSE, NotAfter |-> UTC(at)]
NoAnswer == [Err |-> TRUE, ExpiresAt |-> ZeroTime]
Answer(at) == [Err |-> FALSE, ExpiresAt |-> UTC(at)]

NoCerts == {NoCert}
NoLookups == {NoAnswer}

\* A certificate that is renewed, seen the day before either expiry and after one.
CertRenewal == {NoCert, Cert(Day(5)), Cert(Day(7))}
FourAndSix == {Day(4), Day(6)}

\* A registry that answers, fails or contradicts the YAML date.
RegistryFlaps == {NoAnswer, Answer(Day(7))}

\* Two ports with the same or different certificates.
TwoCerts == {NoCert, Cert(Day(5)), Cert(Day(6))}
DayFour == {Day(4)}

\* The facts a certificate of corp.com can give rise to on days 4 and 6.
CorpFacts ==
    [domain : {"corp.com"}, kind : {"cert_expiring"}, threshold : {1}, at : {Day(5), Day(7)}]
    \cup [domain : {"corp.com"}, kind : {"cert_expired"}, threshold : {0}, at : {Day(5)}]

\* An alert that the runs keep reporting is eventually mailed and then stays
\* suppressed, whatever fails, crashes or is run by hand in between (the promise
\* of the README: no alert is lost, and none is repeated while nothing changes).
PersistentAlertSettles == \A f \in CorpFacts : Persistent(f) => Settles(f)
=============================================================================
