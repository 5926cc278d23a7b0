--------------------------- MODULE MCExpiryWatch ---------------------------
(* Instances of ExpiryWatch for TLC: days of four ticks, a week of them. *)
EXTENDS ExpiryWatch

\* Zones half a day ahead of UTC and a quarter of a day behind it.
TwoZones == {-1, 0, 2}

\* Dates at midnight, in the middle of a day, and in its last tick.
DatesUTC == {UTC(12), UTC(18), UTC(23)}

\* The same; a midnight as a registry ahead of UTC writes it, and one as a
\* registry behind UTC does.
DatesZoned == DatesUTC \cup {[at |-> 14, off |-> 2], [at |-> 17, off |-> -1]}
=============================================================================
