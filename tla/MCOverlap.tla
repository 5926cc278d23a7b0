----------------------------- MODULE MCOverlap -----------------------------
(* Two runs, of one alert or of two, with a date that is renewed between them. *)
EXTENDS Overlap, TLC

Alert(domain, at, pos) ==
    [domain |-> domain, kind |-> "cert_expiring", threshold |-> 30,
     expiresAt |-> [at |-> at], pos |-> pos]
MCAlertSets == {{Alert("a", 1, 1)}, {Alert("a", 2, 1), Alert("b", 1, 2)}}
=============================================================================
