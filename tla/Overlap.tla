------------------------------ MODULE Overlap ------------------------------
(***************************************************************************)
(* Runs of the monitor that are alive at the same time: those that cron    *)
(* starts through scripts/cron-run.sh, which holds a lock, and those       *)
(* started by hand (make run), which do not ask for it.  They share the    *)
(* state file and the name of its temporary copy, and each step of Save is *)
(* a system call.  Monitor has every other detail of a single run.         *)
(*                                                                         *)
(* A descriptor follows the file and not its name: when the temporary file *)
(* is renamed, whoever has it open goes on writing to the state file.      *)
(***************************************************************************)
EXTENDS StateStore

CONSTANTS
    Runs,        \* processes; one that has ended may be started again
    NoRun,
    AlertSets    \* what Evaluate may return

ASSUME NoRunAssumption == NoRun \notin Runs
ASSUME AlertSetsAssumption == \A a \in UNION AlertSets : a.expiresAt.at \in Nat

VARIABLES
    pc,          \* the step each run is at
    mem,         \* what each run holds: [alerts, fresh, merged, fd]
    shell,       \* runs whose wrapper is alive
    byCron,      \* runs in progress that the wrapper started
    lock,        \* the run that has state/cron.lock open and locked
    file, tmp,   \* what the two names refer to
    mailed,      \* history: facts that were mailed
    saved,       \* history: what the completed saves amount to, one after another
    overlapped   \* history: two monitors were alive together

processes == <<pc, mem, shell, byCron, lock>>
disk == <<file, tmp>>
history == <<mailed, saved, overlapped>>
vars == <<pc, mem, shell, byCron, lock, file, tmp, mailed, saved, overlapped>>

Absent == [status |-> "absent", records |-> {}]
Empty == [status |-> "empty", records |-> {}]      \* created or truncated
Torn == [status |-> "torn", records |-> {}]        \* not the JSON of any run
Whole(records) == [status |-> "whole", records |-> records]

Blank == [alerts |-> {}, fresh |-> {}, merged |-> {}, fd |-> "none"]

Init ==
    /\ pc = [p \in Runs |-> "off"]
    /\ mem = [p \in Runs |-> Blank]
    /\ shell = {}
    /\ byCron = {}
    /\ lock = NoRun
    /\ file = Absent
    /\ tmp = Absent
    /\ mailed = {}
    /\ saved = {}
    /\ overlapped = FALSE

Running(p) == pc[p] \in {"filter", "notify", "load", "open", "write", "rename"}

-----------------------------------------------------------------------------
(* scripts/cron-run.sh                                                       *)

\* Mutant of CronStarts: the outcome of flock is not looked at.
CronStartsAnyway(p) ==
    /\ pc[p] = "off"
    /\ pc' = [pc EXCEPT ![p] = "build"]
    /\ shell' = shell \cup {p}
    /\ byCron' = byCron \cup {p}
    /\ lock' = p
    /\ UNCHANGED <<mem, disk, history>>

\* exec 9> and flock -n 9.  When the lock is taken the wrapper exits: no step.
CronStarts(p) ==
    /\ pc[p] = "off"
    /\ lock = NoRun
    /\ pc' = [pc EXCEPT ![p] = "build"]
    /\ shell' = shell \cup {p}
    /\ byCron' = byCron \cup {p}
    /\ lock' = p
    /\ UNCHANGED <<mem, disk, history>>

\* The last process of p closes descriptor 9.
Released(p) == IF lock = p THEN NoRun ELSE lock

\* Mutant of WrapperEnds: the lock dies with the wrapper.
WrapperEndsUnlocks(p) ==
    /\ p \in shell
    /\ shell' = shell \ {p}
    /\ lock' = Released(p)
    /\ IF Running(p) THEN UNCHANGED <<pc, byCron>>
       ELSE pc' = [pc EXCEPT ![p] = "off"] /\ byCron' = byCron \ {p}
    /\ UNCHANGED <<mem, disk, history>>

\* The wrapper is killed, its build fails, or it exits with the monitor's code.
\* The monitor inherited descriptor 9: while it lives, the lock is kept.
WrapperEnds(p) ==
    /\ p \in shell
    /\ shell' = shell \ {p}
    /\ IF Running(p) THEN UNCHANGED <<pc, byCron, lock>>
       ELSE /\ pc' = [pc EXCEPT ![p] = "off"]
            /\ byCron' = byCron \ {p}
            /\ lock' = Released(p)
    /\ UNCHANGED <<mem, disk, history>>

\* The monitor gets to Filter with the alerts of its probes.
Launch(p) ==
    /\ pc' = [pc EXCEPT ![p] = "filter"]
    /\ \E alerts \in AlertSets : mem' = [mem EXCEPT ![p] = [Blank EXCEPT !.alerts = alerts]]
    /\ overlapped' = (overlapped \/ \E q \in Runs \ {p} : Running(q))
    /\ UNCHANGED <<shell, byCron, lock, disk, mailed, saved>>

WrapperLaunches(p) == pc[p] = "build" /\ Launch(p)

\* make run, or ./auto-certs by hand.
HandStarts(p) == pc[p] = "off" /\ Launch(p)

-----------------------------------------------------------------------------
(* The monitor: the steps of Run that touch what the runs share.             *)

\* The monitor of p exits; its wrapper, if it has one, goes on.
Exit(p) ==
    /\ pc' = [pc EXCEPT ![p] = IF p \in shell THEN "end" ELSE "off"]
    /\ byCron' = IF p \in shell THEN byCron ELSE byCron \ {p}
    /\ lock' = IF p \in shell THEN lock ELSE Released(p)
    /\ UNCHANGED shell

Forget(p) == mem' = [mem EXCEPT ![p] = Blank]

\* A step returns an error, or the process is killed.
Stops(p) ==
    /\ Running(p)
    /\ Exit(p)
    /\ Forget(p)
    /\ UNCHANGED <<disk, history>>

\* decode takes an empty file for an empty memory.
Readable(content) == content.status # "torn"

Goto(p, step) ==
    /\ pc' = [pc EXCEPT ![p] = step]
    /\ UNCHANGED <<shell, byCron, lock>>

Filter(p) ==
    /\ pc[p] = "filter"
    /\ Readable(file)
    /\ LET new == filterAgainst(file.records, mem[p].alerts)
       IN  IF new = {} THEN Exit(p) /\ Forget(p)
           ELSE Goto(p, "notify") /\ mem' = [mem EXCEPT ![p].fresh = new]
    /\ UNCHANGED <<disk, history>>

\* Mutant of Notify: the error of the mail is only logged.
NotifyUnheeded(p) ==
    /\ pc[p] = "notify"
    /\ mailed' \in {mailed, mailed \cup Facts(mem[p].alerts)}
    /\ Goto(p, "load")
    /\ UNCHANGED <<mem, disk, saved, overlapped>>

\* SMTP has no timeout: a run can stay before this step for ever.
Notify(p) ==
    /\ pc[p] = "notify"
    /\ mailed' = mailed \cup Facts(mem[p].alerts)
    /\ Goto(p, "load")
    /\ UNCHANGED <<mem, disk, saved, overlapped>>

Load(p) ==
    /\ pc[p] = "load"
    /\ Readable(file)
    /\ mem' = [mem EXCEPT ![p].merged = upsert(file.records, mem[p].fresh)]
    /\ Goto(p, "open")
    /\ UNCHANGED <<disk, history>>

\* Mutant of Open: the state file itself is truncated and written.
OpenFile(p) ==
    /\ pc[p] = "open"
    /\ file' = Empty
    /\ mem' = [mem EXCEPT ![p].fd = "file"]
    /\ Goto(p, "write")
    /\ UNCHANGED <<tmp, history>>

\* os.WriteFile creates or truncates the temporary file ...
Open(p) ==
    /\ pc[p] = "open"
    /\ tmp' = Empty
    /\ mem' = [mem EXCEPT ![p].fd = "tmp"]
    /\ Goto(p, "write")
    /\ UNCHANGED <<file, history>>

\* What a file holds after records are written over it from its first byte: the
\* end of a longer text that was there remains.
Overwritten(content, records) ==
    IF content.status = "empty" \/ content = Whole(records) THEN {Whole(records)}
    ELSE {Whole(records), Torn}

\* Mutant of Write: the file is not closed.
WriteLeavesOpen(p) ==
    /\ pc[p] = "write"
    /\ file' \in IF mem[p].fd = "file" THEN Overwritten(file, mem[p].merged) ELSE {file}
    /\ tmp' \in IF mem[p].fd = "tmp" THEN Overwritten(tmp, mem[p].merged) ELSE {tmp}
    /\ Goto(p, "rename")
    /\ UNCHANGED <<mem, history>>

\* ... and writes to what it opened, whatever its name is by now.
Write(p) ==
    /\ pc[p] = "write"
    /\ file' \in IF mem[p].fd = "file" THEN Overwritten(file, mem[p].merged) ELSE {file}
    /\ tmp' \in IF mem[p].fd = "tmp" THEN Overwritten(tmp, mem[p].merged) ELSE {tmp}
    /\ mem' = [mem EXCEPT ![p].fd = "none"]
    /\ Goto(p, "rename")
    /\ UNCHANGED history

\* The disk fills up, or the process is killed, in the middle of the write.
WriteCut(p) ==
    /\ pc[p] = "write"
    /\ file' = IF mem[p].fd = "file" THEN Torn ELSE file
    /\ tmp' = IF mem[p].fd = "tmp" THEN Torn ELSE tmp
    /\ Exit(p)
    /\ Forget(p)
    /\ UNCHANGED history

\* The descriptors of the other runs once tmp is named file.
Moved(fd) == CASE fd = "tmp" -> "file" [] fd = "file" -> "gone" [] OTHER -> fd

Rename(p) ==
    /\ pc[p] = "rename"
    /\ tmp.status # "absent"
    /\ file' = tmp
    /\ tmp' = Absent
    /\ saved' = upsert(saved, mem[p].fresh)
    /\ Exit(p)
    /\ mem' = [q \in Runs |-> IF q = p THEN Blank
                              ELSE [mem[q] EXCEPT !.fd = Moved(mem[q].fd)]]
    /\ UNCHANGED <<mailed, overlapped>>

\* A step of the monitor; it is Stops when the state file is torn, or when
\* another run has renamed the temporary file.
MonitorStep(p) ==
    \/ Filter(p) \/ Notify(p) \/ Load(p)
    \/ Open(p) \/ Write(p) \/ WriteCut(p) \/ Rename(p)
    \/ Stops(p)

Next ==
    \E p \in Runs :
        \/ CronStarts(p) \/ WrapperLaunches(p) \/ WrapperEnds(p) \/ HandStarts(p)
        \/ MonitorStep(p)

Spec == Init /\ [][Next]_vars

-----------------------------------------------------------------------------

Record == [domain : {a.domain : a \in UNION AlertSets}, kind : {a.kind : a \in UNION AlertSets},
           threshold : {a.threshold : a \in UNION AlertSets}, at : Nat]
Contents == [status : {"absent", "empty", "torn", "whole"}, records : SUBSET Record]

TypeOK ==
    /\ pc \in [Runs -> {"off", "build", "filter", "notify", "load", "open", "write",
                         "rename", "end"}]
    /\ mem \in [Runs -> [alerts : {{}} \cup AlertSets, fresh : SUBSET UNION AlertSets,
                         merged : SUBSET Record, fd : {"none", "tmp", "file", "gone"}]]
    /\ \A p \in Runs : mem[p].fd # "none" <=> pc[p] = "write"
    /\ shell \subseteq byCron /\ byCron \subseteq Runs /\ lock \in Runs \cup {NoRun}
    /\ file \in Contents /\ tmp \in Contents
    /\ mailed \subseteq Record /\ saved \subseteq Record /\ overlapped \in BOOLEAN

\* cron-run.sh: "Sin runs concurrentes (flock)".  Two runs of cron are never in
\* progress together, whichever of the wrapper and the monitor is killed first.
CronRunsExclude == \A p, q \in byCron : p = q

\* Until a run started by hand overlaps another, the state file is exactly what
\* the saves that completed amount to, one after another: no save is lost, no
\* half-written one is seen, whatever is killed in between.
SavesAreSerial ==
    ~overlapped => file.status \in {"absent", "whole"} /\ file.records = saved

\* Even then, nothing is remembered that was not mailed: runs that overlap may
\* repeat an alert, or end in an error, but they do not silence one.
RememberedWasMailed ==
    /\ (file.records \cup tmp.records) \subseteq mailed
    /\ \A p \in Runs : mem[p].merged \subseteq mailed

-----------------------------------------------------------------------------
(* The inductive invariants behind the safety properties.                    *)

\* Whoever cron has in progress has the lock.
LockInv == \A p \in byCron : lock = p

\* A run saves after its mail, and only some of the alerts it mailed.
MailInv ==
    /\ RememberedWasMailed
    /\ \A p \in Runs : mem[p].fresh \subseteq mem[p].alerts
    /\ \A p \in Runs : pc[p] \in {"load", "open", "write", "rename"} =>
                          Facts(mem[p].alerts) \subseteq mailed

\* A run that is alone finds the files as it left them at its last step.
Held(p) ==
    /\ pc[p] = "write" => mem[p].fd = "tmp" /\ tmp = Empty
    /\ pc[p] = "rename" => tmp = Whole(mem[p].merged)
    /\ pc[p] \in {"open", "write", "rename"} =>
           mem[p].merged = upsert(file.records, mem[p].fresh)

AloneInv ==
    /\ SavesAreSerial
    /\ ~overlapped => /\ \A p, q \in Runs : Running(p) /\ Running(q) => p = q
                      /\ \A p \in Runs : Held(p)
=============================================================================
