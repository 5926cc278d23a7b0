------------------------------ MODULE MCReport ------------------------------
(* Instances of Report, and of EnrichGroups, for TLC. *)
EXTENDS Report

CONSTANT MaxLen     \* longest list

\* As written, in sort order; the capital comes first.
NameList == <<"Shop.co", "api.shop.co", "corp.com", "shop.co", "www.shop.co">>
MCNames == {NameList[k] : k \in 1 .. 5}
Folded(n) == IF n = "Shop.co" THEN "shop.co" ELSE n
MCRegistrable == [n \in MCNames |-> IF n = "corp.com" THEN n ELSE "shop.co"]
MCSourceOf == [n \in MCNames |-> IF n = "Shop.co" THEN "static" ELSE
                                 IF n = "corp.com" THEN "namecom" ELSE "route53"]

Day(n) == UTC(n * TicksPerDay)
Noon(n) == UTC(n * TicksPerDay + 1)

\* The lists Aggregate returns: sorted by name, a name once per port.
SortedLists ==
    LET ranks(n) == {r \in [1 .. n -> 1 .. 5] : \A k \in 1 .. (n - 1) : r[k] <= r[k + 1]}
    IN  UNION {{[k \in 1 .. n |-> [Name |-> Folded(NameList[r[k]]), Written |-> NameList[r[k]],
                                   ExpiryFallback |-> f[k]]] :
                  r \in ranks(n), f \in [1 .. n -> {ZeroTime, Day(5), Day(8)}]} :
                n \in 1 .. MaxLen}

NoAnswer == [Err |-> TRUE, ExpiresAt |-> ZeroTime]
Answer(t) == [Err |-> FALSE, ExpiresAt |-> t]
Answers == {NoAnswer, Answer(Day(5)), Answer(Day(6)), Answer(Noon(7))}

Cert(t) == [Err |-> FALSE, NotAfter |-> t]
Certs == {[Err |-> TRUE, NotAfter |-> ZeroTime], Cert(Day(6)), Cert(Noon(7)), Cert(Day(40))}

\* At noon of day 6.
Now == Noon(6)
=============================================================================
