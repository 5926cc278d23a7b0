----------------------------- MODULE WorkerPool -----------------------------
(***************************************************************************)
(* The pool that rdap.Enrich and tlscheck.CheckAll both are: a producer    *)
(* hands the jobs 1..N in order over an unbuffered channel to a fixed set  *)
(* of goroutines, each job is one lookup followed by the write of the      *)
(* slots of out that belong to it (all the FQDNs of a group in Enrich, one *)
(* result in CheckAll), and the producer returns out after closing the     *)
(* channel and waiting for the goroutines.  No lock protects out.          *)
(***************************************************************************)
EXTENDS Integers, FiniteSets

CONSTANTS
    N,            \* number of jobs
    Workers,      \* the goroutines (the code caps their number at N)
    SlotsOf,      \* SlotsOf[j]: the slots of out that job j writes
    Cancellable   \* may the context be cancelled? (main uses Background: no)

Jobs == 1 .. N
Slots == UNION {SlotsOf[j] : j \in Jobs}

ASSUME NAssumption == N \in Nat \ {0}
ASSUME WorkersAssumption == Workers # {}
ASSUME SlotsAssumption ==
    /\ DOMAIN SlotsOf = Jobs
    /\ \A i, j \in Jobs : i # j => SlotsOf[i] \cap SlotsOf[j] = {}
ASSUME CancellableAssumption == Cancellable \in BOOLEAN

VARIABLES
    producer,    \* where the calling goroutine is
    next,        \* the job it is about to send
    closed,      \* the channel is closed
    cancelled,   \* ctx.Done() is ready
    worker,      \* where each goroutine is
    job,         \* the job it holds; 0 when it holds none
    todo,        \* the slots of that job it has not written yet
    looked,      \* history: how often each job was looked up
    out          \* the job whose result a slot holds; 0 is the zero value

vars == <<producer, next, closed, cancelled, worker, job, todo, looked, out>>
world == <<closed, cancelled>>
results == <<looked, out>>

TypeOK ==
    /\ producer \in {"send", "close", "wait", "returned"}
    /\ next \in 1 .. N + 1
    /\ closed \in BOOLEAN
    /\ cancelled \in BOOLEAN
    /\ worker \in [Workers -> {"receive", "lookup", "write", "done"}]
    /\ job \in [Workers -> 0 .. N]
    /\ todo \in [Workers -> SUBSET Slots]
    /\ looked \in [Jobs -> Nat]
    /\ out \in [Slots -> 0 .. N]

Init ==
    /\ producer = "send"
    /\ next = 1
    /\ closed = FALSE
    /\ cancelled = FALSE
    /\ worker = [w \in Workers |-> "receive"]
    /\ job = [w \in Workers |-> 0]
    /\ todo = [w \in Workers |-> {}]
    /\ looked = [j \in Jobs |-> 0]
    /\ out = [s \in Slots |-> 0]

\* The caller's context is cancelled.
Cancel ==
    /\ Cancellable
    /\ ~cancelled
    /\ cancelled' = TRUE
    /\ UNCHANGED <<producer, next, closed, worker, job, todo, results>>

\* Mutant of Send: the job is sent again when the select wakes up once more.
SendTwice(w) ==
    /\ producer = "send"
    /\ next <= N
    /\ worker[w] = "receive"
    /\ worker' = [worker EXCEPT ![w] = "lookup"]
    /\ job' = [job EXCEPT ![w] = next]
    /\ todo' = [todo EXCEPT ![w] = SlotsOf[next]]
    /\ next' \in {next, next + 1}
    /\ UNCHANGED <<producer, world, results>>

\* Mutant of Send: the loop advances by the slots of the job, not by one.
SendSkips(w) ==
    /\ producer = "send"
    /\ next <= N
    /\ worker[w] = "receive"
    /\ worker' = [worker EXCEPT ![w] = "lookup"]
    /\ job' = [job EXCEPT ![w] = next]
    /\ todo' = [todo EXCEPT ![w] = SlotsOf[next]]
    /\ next' = next + Cardinality(SlotsOf[next])
    /\ UNCHANGED <<producer, world, results>>

\* "case jobs <- g": the producer and a waiting goroutine meet.  When the
\* context is done too, select may still choose this branch.
Send(w) ==
    /\ producer = "send"
    /\ next <= N
    /\ worker[w] = "receive"
    /\ worker' = [worker EXCEPT ![w] = "lookup"]
    /\ job' = [job EXCEPT ![w] = next]
    /\ todo' = [todo EXCEPT ![w] = SlotsOf[next]]
    /\ next' = next + 1
    /\ UNCHANGED <<producer, world, results>>

\* The loop is over, or "case <-ctx.Done()" leaves it.
StopSending ==
    /\ producer = "send"
    /\ next > N \/ cancelled
    /\ producer' = "close"
    /\ UNCHANGED <<next, world, worker, job, todo, results>>

Close ==
    /\ producer = "close"
    /\ closed' = TRUE
    /\ producer' = "wait"
    /\ UNCHANGED <<next, cancelled, worker, job, todo, results>>

\* Mutant of Return: the cancelled branch does not wait for the goroutines.
ReturnWithoutWait ==
    /\ producer = "wait"
    /\ cancelled \/ \A w \in Workers : worker[w] = "done"
    /\ producer' = "returned"
    /\ UNCHANGED <<next, world, worker, job, todo, results>>

\* wg.Wait() returns once every goroutine has called wg.Done().
Return ==
    /\ producer = "wait"
    /\ \A w \in Workers : worker[w] = "done"
    /\ producer' = "returned"
    /\ UNCHANGED <<next, world, worker, job, todo, results>>

\* The lookup or the handshake answers, with a result or an error.
Lookup(w) ==
    /\ worker[w] = "lookup"
    /\ worker' = [worker EXCEPT ![w] = "write"]
    /\ looked' = [looked EXCEPT ![job[w]] = @ + 1]
    /\ UNCHANGED <<producer, next, world, job, todo, out>>

\* Mutant of Write: the registry is asked again for the next member of the group.
WriteLookingUp(w) ==
    /\ worker[w] = "write"
    /\ \E s \in todo[w] :
         /\ out' = [out EXCEPT ![s] = job[w]]
         /\ todo' = [todo EXCEPT ![w] = @ \ {s}]
         /\ worker' = [worker EXCEPT ![w] = IF todo[w] = {s} THEN "write" ELSE "lookup"]
    /\ UNCHANGED <<producer, next, world, job, looked>>

\* One member of the group is written.
Write(w) ==
    /\ worker[w] = "write"
    /\ \E s \in todo[w] :
         /\ out' = [out EXCEPT ![s] = job[w]]
         /\ todo' = [todo EXCEPT ![w] = @ \ {s}]
    /\ UNCHANGED <<producer, next, world, worker, job, looked>>

\* The job is finished: back to "range jobs".
Finish(w) ==
    /\ worker[w] = "write"
    /\ todo[w] = {}
    /\ worker' = [worker EXCEPT ![w] = "receive"]
    /\ job' = [job EXCEPT ![w] = 0]
    /\ UNCHANGED <<producer, next, world, todo, results>>

\* Mutant of Exit: a receive that does not look at "ok" takes the zero value of
\* the closed channel for a job, again and again.
ReceiveZero(w) ==
    /\ worker[w] = "receive"
    /\ closed
    /\ worker' = [worker EXCEPT ![w] = "write"]
    /\ UNCHANGED <<producer, next, world, job, todo, results>>

\* The closed channel ends the range loop; the deferred wg.Done() runs.
Exit(w) ==
    /\ worker[w] = "receive"
    /\ closed
    /\ worker' = [worker EXCEPT ![w] = "done"]
    /\ UNCHANGED <<producer, next, world, job, todo, results>>

Goroutine(w) == Lookup(w) \/ Write(w) \/ Finish(w) \/ Exit(w)
Producer == (\E w \in Workers : Send(w)) \/ StopSending \/ Close \/ Return

\* The call has returned: the pool is gone.
Terminated == producer = "returned" /\ UNCHANGED vars

Next ==
    \/ Cancel
    \/ \E w \in Workers : Send(w)
    \/ StopSending \/ Close \/ Return
    \/ \E w \in Workers : Lookup(w) \/ Write(w) \/ Finish(w) \/ Exit(w)
    \/ Terminated

Spec == Init /\ [][Next]_vars

\* Goroutines that can run are scheduled, and every lookup ends: the HTTP
\* client, the dialer and the handshake all have timeouts.
FairSpec == Spec /\ WF_vars(Producer) /\ \A w \in Workers : WF_vars(Goroutine(w))

-----------------------------------------------------------------------------

\* No two goroutines ever hold slots in common: the comment "disjoint slice
\* indices" is what makes the unlocked writes to out race free.
NoSharedSlot ==
    \A v, w \in Workers : v # w => todo[v] \cap todo[w] = {}

\* Whatever the schedule, out is handed back with the jobs that were sent, a
\* prefix, written in full and by nobody else, and with no other; without a
\* cancellation that is all of them.
ReturnedComplete ==
    producer = "returned" =>
        /\ \A j \in Jobs : \A s \in SlotsOf[j] : out[s] = IF j < next THEN j ELSE 0
        /\ next <= N => cancelled

\* One lookup per registrable domain, which is why Enrich groups the names.
OneLookupPerJob ==
    /\ \A j \in Jobs : looked[j] <= 1
    /\ producer = "returned" => \A j \in Jobs : looked[j] = IF j < next THEN 1 ELSE 0

\* The caller owns out once it has it: no goroutine writes behind its back.
QuietAfterReturn == [][producer = "returned" => UNCHANGED results]_vars

\* The call returns, also when it is cancelled while every goroutine is busy.
EventuallyReturns == <>(producer = "returned")
=============================================================================
