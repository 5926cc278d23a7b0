------------------------------- MODULE Dates -------------------------------
(***************************************************************************)
(* What auto-certs uses of Go's time.Time: an instant and the zone offset  *)
(* the value was parsed with.  Before and Equal look at the instant alone; *)
(* Year/Month/Day, hence every count of days, look at the wall clock of    *)
(* the value's own zone.                                                   *)
(***************************************************************************)
EXTENDS Integers

CONSTANTS
    TicksPerDay,   \* resolution of the clock
    Offsets        \* zone offsets a parsed date may carry, in ticks

ASSUME TicksPerDayAssumption == TicksPerDay \in Nat \ {0}
ASSUME OffsetsAssumption == Offsets \subseteq Int /\ 0 \in Offsets

Time == [at : Nat, off : Offsets]

\* The zero time.Time.  It also stands for the nil *time.Time of a domain that
\* has no expiry_fallback.
ZeroTime == [at |-> 0, off |-> 0]

UTC(at) == [at |-> at, off |-> 0]

IsZero(t) == t.at = 0
Before(s, t) == s.at < t.at
Equal(s, t) == s.at = t.at

LocalDay(t) == (t.at + t.off) \div TicksPerDay   \* the date t prints in its own zone
UTCDay(t) == t.at \div TicksPerDay               \* the date of t.UTC()
=============================================================================
