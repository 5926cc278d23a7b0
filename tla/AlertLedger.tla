---------------------------- MODULE AlertLedger ----------------------------
(***************************************************************************)
(* What the alert memory promises whoever reads the mail, whatever crashes *)
(* or fails in between: only mailed facts are remembered, with one date    *)
(* per key, and a key once remembered stays remembered.  The monitor's     *)
(* state file implements it.                                               *)
(***************************************************************************)
CONSTANT Announcements          \* [domain, kind, threshold, at] records
VARIABLES mailed, remembered

vars == <<mailed, remembered>>

KeyOf(f) == <<f.domain, f.kind, f.threshold>>
KeysOf(S) == {KeyOf(f) : f \in S}

Init == mailed = {} /\ remembered = {}

\* Some facts are mailed; mail cannot be taken back.
Deliver ==
    /\ mailed' \in SUBSET Announcements
    /\ mailed \subseteq mailed'
    /\ UNCHANGED remembered

\* Mailed facts replace, key by key, what was remembered.
Remember ==
    /\ remembered' \in SUBSET mailed
    /\ KeysOf(remembered) \subseteq KeysOf(remembered')
    /\ \A f, g \in remembered' : KeyOf(f) = KeyOf(g) => f = g
    /\ UNCHANGED mailed

Next == Deliver \/ Remember

Spec == Init /\ [][Next]_vars
=============================================================================
