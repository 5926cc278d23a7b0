--------------------------- MODULE OverlapProofs ---------------------------
(***************************************************************************)
(* Proofs about Overlap, for any number of runs started by cron and by     *)
(* hand, and any alerts: the runs of cron exclude each other, whatever is  *)
(* killed; a run that is alone saves as if no other existed; and runs that *)
(* overlap still remember nothing that was not mailed.                     *)
(***************************************************************************)
EXTENDS Overlap, TLAPS

\* upsert keeps records and adds facts of what was sent.
LEMMA UpsertWithin ==
    ASSUME NEW existing, NEW sent
    PROVE  upsert(existing, sent) \subseteq existing \cup Facts(sent)
BY DEF upsert, LastPerKey, Facts

LEMMA FactsAreRecords ==
    ASSUME NEW S, S \subseteq UNION AlertSets
    PROVE  Facts(S) \subseteq Record
<1> SUFFICES ASSUME NEW a \in S PROVE Fact(a) \in Record
  BY DEF Facts
<1>1. a \in UNION AlertSets
  OBVIOUS
<1>2. a.expiresAt.at \in Nat
  BY <1>1, AlertSetsAssumption
<1> QED
  BY <1>1, <1>2 DEF Fact, Record

LEMMA FactsMonotone ==
    ASSUME NEW S, NEW T, S \subseteq T
    PROVE  Facts(S) \subseteq Facts(T)
BY DEF Facts

\* The contents that are written are contents of a file.
LEMMA WrittenContents ==
    ASSUME NEW content \in Contents, NEW records \in SUBSET Record,
           NEW new \in Overwritten(content, records)
    PROVE  new \in Contents /\ new.records \subseteq records
BY DEF Overwritten, Whole, Torn, Contents

-----------------------------------------------------------------------------

Memory == [alerts : {{}} \cup AlertSets, fresh : SUBSET UNION AlertSets,
           merged : SUBSET Record, fd : {"none", "tmp", "file", "gone"}]

LEMMA BlankMemory == Blank \in Memory /\ Blank.fd = "none"
BY DEF Blank, Memory

LEMMA MovedMemory ==
    ASSUME NEW m \in Memory
    PROVE  /\ [m EXCEPT !.fd = Moved(m.fd)] \in Memory
           /\ [m EXCEPT !.fd = Moved(m.fd)].fd = "none" <=> m.fd = "none"
           /\ [m EXCEPT !.fd = Moved(m.fd)].fresh = m.fresh
           /\ [m EXCEPT !.fd = Moved(m.fd)].alerts = m.alerts
           /\ [m EXCEPT !.fd = Moved(m.fd)].merged = m.merged
<1>1. m.fd \in {"none", "tmp", "file", "gone"}
  BY DEF Memory
<1>2. /\ Moved(m.fd) \in {"none", "tmp", "file", "gone"}
      /\ Moved(m.fd) = "none" <=> m.fd = "none"
  BY <1>1 DEF Moved
<1> QED
  BY <1>2 DEF Memory

\* What the other runs hold when p renames its file.
LEMMA RenameMemory ==
    ASSUME TypeOK, NEW p \in Runs, Rename(p), NEW q \in Runs, q # p
    PROVE  /\ mem'[q] \in Memory
           /\ mem'[q].fd = "none" <=> mem[q].fd = "none"
           /\ mem'[q].fresh = mem[q].fresh
           /\ mem'[q].alerts = mem[q].alerts
           /\ mem'[q].merged = mem[q].merged
<1>1. mem[q] \in Memory
  BY DEF TypeOK, Memory
<1>2. mem'[q] = [mem[q] EXCEPT !.fd = Moved(mem[q].fd)]
  BY DEF Rename
<1> QED
  BY <1>1, <1>2, MovedMemory

\* The processes after the monitor of p exits, or its wrapper ends, are typed.
LEMMA ExitTypes ==
    ASSUME TypeOK, NEW p \in Runs, Exit(p)
    PROVE  /\ pc' \in [Runs -> {"off", "build", "filter", "notify", "load", "open",
                                "write", "rename", "end"}]
           /\ pc'[p] # "write" /\ \A q \in Runs \ {p} : pc'[q] = pc[q]
           /\ shell' \subseteq byCron' /\ byCron' \subseteq Runs
           /\ lock' \in Runs \cup {NoRun}
BY DEF TypeOK, Exit, Released

\* A process enters the states of the model only: files hold records of alerts,
\* and a run has a file open exactly while it writes.
THEOREM OverlapTypeCorrect == Spec => []TypeOK
<1>1. Init => TypeOK
  <2> SUFFICES ASSUME Init PROVE TypeOK
    OBVIOUS
  <2>1. Absent \in Contents
    BY DEF Absent, Contents
  <2> QED
    BY <2>1, BlankMemory DEF Init, TypeOK, Memory
<1>2. TypeOK /\ [Next]_vars => TypeOK'
  <2> SUFFICES ASSUME TypeOK, [Next]_vars PROVE TypeOK'
    OBVIOUS
  <2> USE DEF Memory
  <2>0. CASE UNCHANGED vars
    BY <2>0 DEF vars, TypeOK
  <2>1. CASE \E p \in Runs : CronStarts(p)
    BY <2>1 DEF CronStarts, TypeOK, disk, history
  <2>2. CASE \E p \in Runs : WrapperEnds(p)
    BY <2>2 DEF WrapperEnds, Running, Released, TypeOK, disk, history
  <2>3. ASSUME NEW p \in Runs, Launch(p), pc[p] \in {"off", "build"} PROVE TypeOK'
    <3>1. PICK alerts \in AlertSets : mem' = [mem EXCEPT ![p] = [Blank EXCEPT !.alerts = alerts]]
      BY <2>3 DEF Launch
    <3>2. [Blank EXCEPT !.alerts = alerts] \in Memory
      BY DEF Blank
    <3>3. [Blank EXCEPT !.alerts = alerts].fd = "none"
      BY DEF Blank
    <3>4. mem' \in [Runs -> Memory] /\ \A q \in Runs : mem'[q].fd # "none" <=> pc'[q] = "write"
      BY <2>3, <3>1, <3>2, <3>3 DEF Launch, TypeOK
    <3>5. overlapped' \in BOOLEAN
      BY <2>3 DEF Launch, TypeOK
    <3> QED
      BY <2>3, <3>4, <3>5 DEF Launch, TypeOK, disk
  <2>4. CASE \E p \in Runs : Stops(p)
    <3>1. PICK p \in Runs : Stops(p)
      BY <2>4
    <3>2. mem' \in [Runs -> Memory] /\ \A q \in Runs : mem'[q].fd # "none" <=> pc'[q] = "write"
      BY <3>1, ExitTypes, BlankMemory DEF Stops, Forget, TypeOK
    <3> QED
      BY <3>1, <3>2, ExitTypes DEF Stops, TypeOK, disk, history
  <2>5. CASE \E p \in Runs : Filter(p)
    <3>1. PICK p \in Runs : Filter(p)
      BY <2>5
    <3> DEFINE new == filterAgainst(file.records, mem[p].alerts)
    <3>2. new \in SUBSET UNION AlertSets
      BY DEF filterAgainst, TypeOK
    <3>3. CASE new = {}
      <4>1. Exit(p) /\ Forget(p)
        BY <3>1, <3>3 DEF Filter
      <4>2. mem' \in [Runs -> Memory] /\ \A q \in Runs : mem'[q].fd # "none" <=> pc'[q] = "write"
        BY <4>1, ExitTypes, BlankMemory DEF Forget, TypeOK
      <4> QED
        BY <3>1, <4>1, <4>2, ExitTypes DEF Filter, TypeOK, disk, history
    <3>4. CASE new # {}
      <4>1. Goto(p, "notify") /\ mem' = [mem EXCEPT ![p].fresh = new]
        BY <3>1, <3>4 DEF Filter
      <4> HIDE DEF new
      <4> QED
        BY <3>1, <3>2, <4>1 DEF Filter, Goto, TypeOK, disk, history
    <3> QED
      BY <3>3, <3>4
  <2>6. CASE \E p \in Runs : Notify(p)
    <3>1. PICK p \in Runs : Notify(p)
      BY <2>6
    <3>2. mem[p].alerts \subseteq UNION AlertSets
      BY DEF TypeOK
    <3> QED
      BY <3>1, <3>2, FactsAreRecords DEF Notify, Goto, TypeOK, disk
  <2>7. CASE \E p \in Runs : Load(p)
    <3>1. PICK p \in Runs : Load(p)
      BY <2>7
    <3> DEFINE new == upsert(file.records, mem[p].fresh)
    <3>2. new \in SUBSET Record
      BY UpsertWithin, FactsAreRecords DEF TypeOK, Contents
    <3>3. mem' = [mem EXCEPT ![p].merged = new] /\ Goto(p, "open")
      BY <3>1 DEF Load
    <3> HIDE DEF new
    <3> QED
      BY <3>1, <3>2, <3>3 DEF Load, Goto, TypeOK, disk, history
  <2>8. CASE \E p \in Runs : Open(p)
    <3>1. Empty \in Contents
      BY DEF Empty, Contents
    <3> QED
      BY <2>8, <3>1 DEF Open, Goto, TypeOK, history
  <2>9. CASE \E p \in Runs : Write(p)
    <3>1. PICK p \in Runs : Write(p)
      BY <2>9
    <3>2. file' \in Contents /\ tmp' \in Contents
      <4>1. mem[p].merged \in SUBSET Record
        BY DEF TypeOK
      <4> QED
        BY <3>1, <4>1, WrittenContents DEF Write, TypeOK
    <3> QED
      BY <3>1, <3>2 DEF Write, Goto, TypeOK, history
  <2>10. CASE \E p \in Runs : WriteCut(p)
    <3>1. PICK p \in Runs : WriteCut(p)
      BY <2>10
    <3>2. file' \in Contents /\ tmp' \in Contents
      BY <3>1 DEF WriteCut, Torn, Contents, TypeOK
    <3>3. mem' \in [Runs -> Memory] /\ \A q \in Runs : mem'[q].fd # "none" <=> pc'[q] = "write"
      BY <3>1, ExitTypes, BlankMemory DEF WriteCut, Forget, TypeOK
    <3> QED
      BY <3>1, <3>2, <3>3, ExitTypes DEF WriteCut, TypeOK, history
  <2>11. CASE \E p \in Runs : Rename(p)
    <3>1. PICK p \in Runs : Rename(p)
      BY <2>11
    <3>2. \A q \in Runs \ {p} : /\ mem'[q] \in Memory
                                /\ mem'[q].fd = "none" <=> mem[q].fd = "none"
      BY <3>1, RenameMemory
    <3>3. mem' \in [Runs -> Memory] /\ \A q \in Runs : mem'[q].fd # "none" <=> pc'[q] = "write"
      <4>1. mem' = [q \in Runs |-> mem'[q]] /\ mem'[p] = Blank
        BY <3>1 DEF Rename
      <4>2. mem' \in [Runs -> Memory]
        BY <3>2, <4>1, BlankMemory, Zenon
      <4>3. pc'[p] # "write" /\ \A q \in Runs \ {p} : pc'[q] = pc[q]
        BY <3>1, ExitTypes DEF Rename
      <4>4. \A q \in Runs : mem[q].fd # "none" <=> pc[q] = "write"
        BY DEF TypeOK
      <4> QED
        BY <3>2, <4>1, <4>2, <4>3, <4>4, BlankMemory
    <3>4. saved' \subseteq Record
      BY <3>1, UpsertWithin, FactsAreRecords DEF Rename, TypeOK
    <3>5. file' \in Contents /\ tmp' \in Contents
      BY <3>1 DEF Rename, TypeOK, Absent, Contents
    <3> QED
      BY <3>1, <3>3, <3>4, <3>5, ExitTypes DEF Rename, TypeOK
  <2> QED
    BY <2>0, <2>1, <2>2, <2>3, <2>4, <2>5, <2>6, <2>7, <2>8, <2>9, <2>10, <2>11
       DEF Next, MonitorStep, WrapperLaunches, HandStarts
<1> QED
  BY <1>1, <1>2, PTL DEF Spec

-----------------------------------------------------------------------------

\* What an action of cron-run.sh, or the end of a monitor, does to the lock.
LEMMA LockStep ==
    ASSUME TypeOK, LockInv, [Next]_vars
    PROVE  LockInv'
<1>0. CASE UNCHANGED vars
  BY <1>0 DEF vars, LockInv
<1>1. CASE \E p \in Runs : CronStarts(p)
  <2>1. PICK p \in Runs : CronStarts(p)
    BY <1>1
  <2>2. byCron = {}
    BY <2>1, NoRunAssumption DEF CronStarts, LockInv, TypeOK
  <2> QED
    BY <2>1, <2>2 DEF CronStarts, LockInv
<1>2. CASE \E p \in Runs : WrapperEnds(p)
  BY <1>2 DEF WrapperEnds, LockInv, Released
<1>3. ASSUME UNCHANGED <<byCron, lock>> PROVE LockInv'
  BY <1>3 DEF LockInv
<1>4. ASSUME NEW p \in Runs, Exit(p) PROVE LockInv'
  BY <1>4 DEF Exit, LockInv, Released
<1>5. ASSUME NEW p \in Runs, Launch(p) PROVE LockInv'
  BY <1>3, <1>5 DEF Launch
<1>6. ASSUME NEW p \in Runs, MonitorStep(p) PROVE LockInv'
  <2>1. CASE Filter(p)
    BY <1>3, <1>4, <2>1 DEF Filter, Goto
  <2>2. CASE Notify(p) \/ Load(p) \/ Open(p) \/ Write(p)
    BY <1>3, <2>2 DEF Notify, Load, Open, Write, Goto
  <2>3. CASE WriteCut(p) \/ Rename(p) \/ Stops(p)
    BY <1>4, <2>3 DEF WriteCut, Rename, Stops
  <2> QED
    BY <1>6, <2>1, <2>2, <2>3 DEF MonitorStep
<1> QED
  BY <1>0, <1>1, <1>2, <1>5, <1>6 DEF Next, WrapperLaunches, HandStarts

THEOREM LockInvariant == Spec => []LockInv
<1>1. Init => LockInv
  BY DEF Init, LockInv
<1> QED
  BY <1>1, LockStep, OverlapTypeCorrect, PTL DEF Spec

\* cron-run.sh: two runs of cron are never in progress together, whether the
\* wrapper or its monitor is killed first.
THEOREM CronExcludes == Spec => []CronRunsExclude
<1>1. LockInv => CronRunsExclude
  BY DEF LockInv, CronRunsExclude
<1> QED
  BY <1>1, LockInvariant, PTL

-----------------------------------------------------------------------------

\* A step that leaves the files and the mail alone, and gives no run anything
\* but a blank memory.
LEMMA ForgetKeepsMailInv ==
    ASSUME TypeOK, MailInv, NEW p \in Runs, Exit(p), Forget(p), mailed' = mailed,
           file'.records \subseteq mailed, tmp'.records \subseteq mailed
    PROVE  MailInv'
<1>1. /\ mem'[p] = Blank /\ pc'[p] \in {"end", "off"}
      /\ \A q \in Runs \ {p} : mem'[q] = mem[q] /\ pc'[q] = pc[q]
  BY DEF TypeOK, Exit, Forget
<1>2. Blank.fresh = {} /\ Blank.alerts = {} /\ Blank.merged = {}
  BY DEF Blank
<1> QED
  BY <1>1, <1>2 DEF MailInv, RememberedWasMailed

LEMMA MailStep ==
    ASSUME TypeOK, MailInv, [Next]_vars
    PROVE  MailInv'
<1> USE DEF MailInv, RememberedWasMailed
<1>0. CASE UNCHANGED vars
  BY <1>0 DEF vars
<1>1. CASE \E p \in Runs : CronStarts(p)
  BY <1>1 DEF CronStarts, TypeOK, disk, history
<1>2. CASE \E p \in Runs : WrapperEnds(p)
  BY <1>2 DEF WrapperEnds, TypeOK, disk, history
<1>3. ASSUME NEW p \in Runs, Launch(p) PROVE MailInv'
  <2>1. PICK alerts \in AlertSets : mem' = [mem EXCEPT ![p] = [Blank EXCEPT !.alerts = alerts]]
    BY <1>3 DEF Launch
  <2>2. /\ [Blank EXCEPT !.alerts = alerts].fresh = {}
        /\ [Blank EXCEPT !.alerts = alerts].merged = {}
    BY DEF Blank
  <2>3. /\ mem'[p].fresh = {} /\ mem'[p].merged = {} /\ pc'[p] = "filter"
        /\ \A q \in Runs \ {p} : mem'[q] = mem[q] /\ pc'[q] = pc[q]
    BY <1>3, <2>1, <2>2 DEF Launch, TypeOK
  <2> QED
    BY <1>3, <2>3 DEF Launch, disk
<1>4. CASE \E p \in Runs : Stops(p)
  BY <1>4, ForgetKeepsMailInv DEF Stops, disk, history
<1>5. CASE \E p \in Runs : Filter(p)
  <2>1. PICK p \in Runs : Filter(p)
    BY <1>5
  <2> DEFINE new == filterAgainst(file.records, mem[p].alerts)
  <2>2. new \subseteq mem[p].alerts
    BY DEF filterAgainst
  <2>3. CASE new = {}
    BY <2>1, <2>3, ForgetKeepsMailInv DEF Filter, disk, history
  <2>4. CASE new # {}
    <3>1. Goto(p, "notify") /\ mem' = [mem EXCEPT ![p].fresh = new]
      BY <2>1, <2>4 DEF Filter
    <3> HIDE DEF new
    <3> QED
      BY <2>1, <2>2, <3>1 DEF Filter, Goto, TypeOK, disk, history
  <2> QED
    BY <2>3, <2>4
<1>6. CASE \E p \in Runs : Notify(p)
  BY <1>6 DEF Notify, Goto, TypeOK, disk
<1>7. CASE \E p \in Runs : Load(p)
  <2>1. PICK p \in Runs : Load(p)
    BY <1>7
  <2> DEFINE new == upsert(file.records, mem[p].fresh)
  <2>2. new \subseteq mailed
    <3>1. Facts(mem[p].fresh) \subseteq mailed
      BY <2>1, FactsMonotone DEF Load
    <3> QED
      BY <3>1, UpsertWithin
  <2>3. mem' = [mem EXCEPT ![p].merged = new] /\ Goto(p, "open")
    BY <2>1 DEF Load
  <2> HIDE DEF new
  <2> QED
    BY <2>1, <2>2, <2>3 DEF Load, Goto, TypeOK, disk, history
<1>8. CASE \E p \in Runs : Open(p)
  BY <1>8 DEF Open, Goto, TypeOK, Empty, history
<1>9. CASE \E p \in Runs : Write(p)
  <2>1. PICK p \in Runs : Write(p)
    BY <1>9
  <2>2. file'.records \subseteq mailed /\ tmp'.records \subseteq mailed
    <3>1. mem[p].merged \in SUBSET Record /\ mem[p].merged \subseteq mailed
      BY DEF TypeOK
    <3> QED
      BY <2>1, <3>1, WrittenContents DEF Write, TypeOK
  <2> QED
    BY <2>1, <2>2 DEF Write, Goto, TypeOK, history
<1>10. CASE \E p \in Runs : WriteCut(p)
  BY <1>10, ForgetKeepsMailInv DEF WriteCut, Torn, history
<1>11. CASE \E p \in Runs : Rename(p)
  <2>1. PICK p \in Runs : Rename(p)
    BY <1>11
  <2>2. mem'[p] = Blank /\ pc'[p] \in {"end", "off"} /\ \A q \in Runs \ {p} : pc'[q] = pc[q]
    BY <2>1 DEF Rename, Exit, TypeOK
  <2>3. Blank.fresh = {} /\ Blank.alerts = {} /\ Blank.merged = {}
    BY DEF Blank
  <2>4. file'.records \subseteq mailed /\ tmp'.records = {} /\ mailed' = mailed
    BY <2>1 DEF Rename, Absent
  <2> QED
    BY <2>1, <2>2, <2>3, <2>4, RenameMemory
<1> QED
  BY <1>0, <1>1, <1>2, <1>3, <1>4, <1>5, <1>6, <1>7, <1>8, <1>9, <1>10, <1>11
     DEF Next, MonitorStep, WrapperLaunches, HandStarts

\* Runs that overlap, in any number and order, may repeat an alert or end in an
\* error, but no file ever remembers an alert that was not mailed.
THEOREM OverlapRemembersOnlyMailed == Spec => []RememberedWasMailed
<1>1. Init => MailInv
  BY DEF Init, MailInv, RememberedWasMailed, Blank, Absent
<1>2. MailInv => RememberedWasMailed
  BY DEF MailInv
<1> QED
  BY <1>1, <1>2, MailStep, OverlapTypeCorrect, PTL DEF Spec

-----------------------------------------------------------------------------

\* While p is the only monitor, what a step of it does to the others' part of
\* AloneInv is nothing: they are not at a step of Save.
LEMMA AloneByOne ==
    ASSUME TypeOK, AloneInv, NEW p \in Runs, Running(p), ~overlapped, ~overlapped',
           \A q \in Runs \ {p} : pc'[q] = pc[q],
           file'.status \in {"absent", "whole"}, file'.records = saved',
           Held(p)'
    PROVE  AloneInv'
<1>1. \A q \in Runs \ {p} : ~Running(q)
  BY DEF AloneInv
<1>2. \A q \in Runs \ {p} : ~Running(q)' /\ Held(q)'
  BY <1>1 DEF Running, Held
<1> QED
  BY <1>2 DEF AloneInv, SavesAreSerial

LEMMA AloneStep ==
    ASSUME TypeOK, AloneInv, [Next]_vars
    PROVE  AloneInv'
<1> USE DEF SavesAreSerial
<1>0. CASE UNCHANGED vars
  BY <1>0 DEF vars, AloneInv, Running, Held
<1>1. CASE overlapped'
  BY <1>1 DEF AloneInv
<1>2. CASE \E p \in Runs : CronStarts(p)
  BY <1>2 DEF CronStarts, AloneInv, Running, Held, TypeOK, disk, history
<1>3. CASE \E p \in Runs : WrapperEnds(p)
  <2>1. PICK p \in Runs : WrapperEnds(p)
    BY <1>3
  <2>2. pc'[p] \in {pc[p], "off"} /\ \A q \in Runs \ {p} : pc'[q] = pc[q]
    BY <2>1 DEF WrapperEnds, TypeOK
  <2> QED
    BY <2>1, <2>2 DEF WrapperEnds, AloneInv, Running, Held, disk, history
<1>4. ASSUME NEW p \in Runs, Launch(p), ~overlapped' PROVE AloneInv'
  <2>1. /\ pc'[p] = "filter" /\ \A q \in Runs \ {p} : pc'[q] = pc[q] /\ ~Running(q)
        /\ ~overlapped /\ file' = file /\ saved' = saved
    BY <1>4 DEF Launch, TypeOK, disk
  <2>2. \A q \in Runs \ {p} : ~Running(q)' /\ Held(q)'
    BY <2>1 DEF Running, Held
  <2>3. Held(p)'
    BY <2>1 DEF Held
  <2> QED
    BY <2>1, <2>2, <2>3 DEF AloneInv
<1>5. ASSUME NEW p \in Runs, MonitorStep(p), ~overlapped' PROVE AloneInv'
  <2> USE DEF history, disk
  <2>1. Running(p) /\ ~overlapped
    BY <1>5 DEF MonitorStep, Filter, Notify, Load, Open, Write, WriteCut, Rename, Stops,
                Running
  <2>2. /\ \A q \in Runs \ {p} : ~Running(q)
        /\ Held(p) /\ file.status \in {"absent", "whole"} /\ file.records = saved
    BY <2>1 DEF AloneInv
  <2>3. ASSUME Exit(p) PROVE /\ pc'[p] \in {"end", "off"}
                             /\ \A q \in Runs \ {p} : pc'[q] = pc[q]
    BY <2>3 DEF Exit, TypeOK
  <2>4. ASSUME Exit(p), file'.status \in {"absent", "whole"}, file'.records = saved'
        PROVE  AloneInv'
    BY <2>1, <2>3, <2>4, <1>5, AloneByOne DEF Held
  <2>5. CASE Stops(p)
    BY <2>2, <2>4, <2>5 DEF Stops
  <2>6. CASE Filter(p)
    <3>1. CASE Exit(p)
      BY <2>2, <2>4, <2>6, <3>1 DEF Filter
    <3>2. CASE Goto(p, "notify")
      <4>1. pc'[p] = "notify" /\ \A q \in Runs \ {p} : pc'[q] = pc[q]
        BY <3>2 DEF Goto, TypeOK
      <4>2. Held(p)'
        BY <4>1 DEF Held
      <4> QED
        BY <1>5, <2>1, <2>2, <2>6, <4>1, <4>2, AloneByOne DEF Filter
    <3> QED
      BY <2>6, <3>1, <3>2 DEF Filter
  <2>7. CASE Notify(p)
    <3>1. pc'[p] = "load" /\ \A q \in Runs \ {p} : pc'[q] = pc[q]
      BY <2>7 DEF Notify, Goto, TypeOK
    <3>2. Held(p)'
      BY <3>1 DEF Held
    <3> QED
      BY <1>5, <2>1, <2>2, <2>7, <3>1, <3>2, AloneByOne DEF Notify
  <2>8. CASE Load(p)
    <3>1. pc'[p] = "open" /\ \A q \in Runs \ {p} : pc'[q] = pc[q]
      BY <2>8 DEF Load, Goto, TypeOK
    <3> DEFINE new == upsert(file.records, mem[p].fresh)
    <3>2. mem' = [mem EXCEPT ![p].merged = new] /\ file' = file /\ saved' = saved
      BY <2>8 DEF Load
    <3>3. mem'[p].merged = new /\ mem'[p].fresh = mem[p].fresh
      <4> HIDE DEF new
      <4> QED
        BY <3>2 DEF TypeOK
    <3>4. Held(p)'
      BY <3>1, <3>2, <3>3 DEF Held
    <3> QED
      BY <1>5, <2>1, <2>2, <3>1, <3>2, <3>4, AloneByOne
  <2>9. CASE Open(p)
    <3>1. /\ pc'[p] = "write" /\ \A q \in Runs \ {p} : pc'[q] = pc[q]
          /\ tmp' = Empty /\ file' = file /\ saved' = saved
      BY <2>9 DEF Open, Goto, TypeOK
    <3>2. /\ mem'[p].fd = "tmp" /\ mem'[p].merged = mem[p].merged
          /\ mem'[p].fresh = mem[p].fresh
      BY <2>9 DEF Open, TypeOK
    <3>3. mem[p].merged = upsert(file.records, mem[p].fresh)
      BY <2>2, <2>9 DEF Held, Open
    <3>4. Held(p)'
      BY <3>1, <3>2, <3>3 DEF Held
    <3> QED
      BY <1>5, <2>1, <2>2, <3>1, <3>4, AloneByOne
  <2>10. CASE Write(p)
    <3>1. pc'[p] = "rename" /\ saved' = saved /\ \A q \in Runs \ {p} : pc'[q] = pc[q]
      BY <2>10 DEF Write, Goto, TypeOK
    <3>2. /\ mem[p].fd = "tmp" /\ tmp = Empty
          /\ mem[p].merged = upsert(file.records, mem[p].fresh)
      BY <2>2, <2>10 DEF Held, Write
    <3>3. mem'[p].merged = mem[p].merged /\ mem'[p].fresh = mem[p].fresh
      BY <2>10 DEF Write, TypeOK
    <3>4. file' = file /\ tmp' = Whole(mem[p].merged)
      BY <2>10, <3>2 DEF Write, Overwritten, Empty
    <3>5. Held(p)'
      BY <3>1, <3>2, <3>3, <3>4 DEF Held
    <3> QED
      BY <1>5, <2>1, <2>2, <3>1, <3>4, <3>5, AloneByOne
  <2>11. CASE WriteCut(p)
    <3>1. mem[p].fd = "tmp"
      BY <2>2, <2>11 DEF Held, WriteCut
    <3> QED
      BY <2>2, <2>4, <2>11, <3>1 DEF WriteCut
  <2>12. CASE Rename(p)
    <3>1. /\ tmp = Whole(mem[p].merged)
          /\ mem[p].merged = upsert(file.records, mem[p].fresh)
      BY <2>2, <2>12 DEF Held, Rename
    <3>2. file' = tmp /\ saved' = upsert(saved, mem[p].fresh) /\ Exit(p)
      BY <2>12 DEF Rename
    <3>3. file'.status = "whole" /\ file'.records = saved'
      BY <2>2, <3>1, <3>2 DEF Whole
    <3> QED
      BY <2>4, <3>2, <3>3
  <2> QED
    BY <1>5, <2>5, <2>6, <2>7, <2>8, <2>9, <2>10, <2>11, <2>12 DEF MonitorStep
<1> QED
  BY <1>0, <1>1, <1>2, <1>3, <1>4, <1>5 DEF Next, WrapperLaunches, HandStarts

\* Until two monitors are alive together, the state file is what the completed
\* saves amount to one after another, whichever processes are killed.
THEOREM OverlapSavesSerially == Spec => []SavesAreSerial
<1>1. Init => AloneInv
  BY DEF Init, AloneInv, SavesAreSerial, Running, Held, Absent
<1>2. AloneInv => SavesAreSerial
  BY DEF AloneInv
<1> QED
  BY <1>1, <1>2, AloneStep, OverlapTypeCorrect, PTL DEF Spec
=============================================================================
