-------------------------- MODULE WorkerPoolProofs --------------------------
(***************************************************************************)
(* Proofs about WorkerPool, for any number of jobs and of goroutines and   *)
(* any cancellation: no two goroutines write one slot, and out is handed   *)
(* back complete and left alone.  The argument is an account of every job: *)
(* it has not been sent, or exactly one goroutine holds it, or it is done. *)
(***************************************************************************)
EXTENDS WorkerPool, TLAPS

Busy == {"lookup", "write"}

\* A goroutine holds a job and the slots it still has to write, or nothing.
Holding ==
    \A w \in Workers :
        IF worker[w] \in Busy
            THEN /\ job[w] \in Jobs /\ job[w] < next
                 /\ todo[w] \subseteq SlotsOf[job[w]]
                 /\ looked[job[w]] = IF worker[w] = "lookup" THEN 0 ELSE 1
                 /\ worker[w] = "lookup" => todo[w] = SlotsOf[job[w]]
                 /\ \A s \in SlotsOf[job[w]] \ todo[w] : out[s] = job[w]
            ELSE job[w] = 0 /\ todo[w] = {}

\* A job is held by one goroutine at most.
OneHolder ==
    \A v, w \in Workers : (v # w /\ worker[v] \in Busy) => job[v] # job[w]

\* A job that was not sent has left no trace, and one that nobody holds any more
\* is finished.
Accounted ==
    \A j \in Jobs :
        /\ j >= next => looked[j] = 0 /\ \A s \in SlotsOf[j] : out[s] = 0
        /\ (j < next /\ \A w \in Workers : job[w] # j)
             => looked[j] = 1 /\ \A s \in SlotsOf[j] : out[s] = j

\* The order in which the call ends.
Shutdown ==
    /\ closed <=> producer \in {"wait", "returned"}
    /\ \A w \in Workers : worker[w] = "done" => closed
    /\ producer = "returned" => \A w \in Workers : worker[w] = "done"
    /\ producer # "send" => next > N \/ cancelled

PoolInv == TypeOK /\ Holding /\ OneHolder /\ Accounted /\ Shutdown

-----------------------------------------------------------------------------

LEMMA SlotsOfJob ==
    ASSUME NEW j \in Jobs
    PROVE  /\ SlotsOf[j] \subseteq Slots
           /\ \A i \in Jobs : i # j => SlotsOf[i] \cap SlotsOf[j] = {}
  BY SlotsAssumption DEF Slots

LEMMA PoolInit == Init => PoolInv
<1> SUFFICES ASSUME Init PROVE PoolInv
  OBVIOUS
<1> USE NAssumption DEF Init, Jobs
<1>1. TypeOK
  <2>1. next \in 1 .. N + 1 /\ 0 \in 0 .. N /\ 0 \in Nat
    OBVIOUS
  <2>2. /\ job \in [Workers -> 0 .. N] /\ looked \in [Jobs -> Nat]
        /\ out \in [Slots -> 0 .. N] /\ todo \in [Workers -> SUBSET Slots]
    BY <2>1
  <2> QED
    BY <2>1, <2>2 DEF TypeOK
<1>2. Holding
  BY DEF Holding, Busy
<1>3. OneHolder
  BY DEF OneHolder, Busy
<1>4. Accounted
  <2>1. \A j \in Jobs : \A s \in SlotsOf[j] : out[s] = 0
    BY SlotsOfJob
  <2> QED
    BY <2>1 DEF Accounted
<1>5. Shutdown
  BY DEF Shutdown
<1> QED
  BY <1>1, <1>2, <1>3, <1>4, <1>5 DEF PoolInv

\* A job that is sent was held by nobody, and is held by its receiver only.
LEMMA SendStep ==
    ASSUME PoolInv, NEW w \in Workers, Send(w)
    PROVE  PoolInv'
<1> USE NAssumption DEF PoolInv, Jobs
<1>0. next \in Jobs /\ next' = next + 1
  BY DEF Send, TypeOK
<1>1. TypeOK'
  BY <1>0, SlotsOfJob DEF Send, TypeOK, world, results
<1>2. Holding'
  <2> SUFFICES ASSUME NEW v \in Workers PROVE Holding!(v)'
    BY DEF Holding
  <2>1. CASE v = w
    BY <2>1, <1>0 DEF Send, TypeOK, Holding, Accounted, Busy, results
  <2>2. CASE v # w
    BY <2>2, <1>0 DEF Send, TypeOK, Holding, Busy, results
  <2> QED
    BY <2>1, <2>2
<1>3. OneHolder'
  BY <1>0 DEF Send, TypeOK, Holding, OneHolder, Busy
<1>4. Accounted'
  <2> SUFFICES ASSUME NEW j \in Jobs PROVE Accounted!(j)'
    BY DEF Accounted
  <2>1. j >= next' => j >= next
    BY <1>0
  <2>2. (j < next' /\ \A v \in Workers : job'[v] # j) => (j < next /\ \A v \in Workers : job[v] # j)
    <3> SUFFICES ASSUME j < next', \A v \in Workers : job'[v] # j
                 PROVE  j < next /\ \A v \in Workers : job[v] # j
      OBVIOUS
    <3>1. job'[w] = next /\ job[w] = 0 /\ \A v \in Workers \ {w} : job'[v] = job[v]
      BY DEF Send, TypeOK, Holding, Busy
    <3>2. j # next /\ j # 0
      BY <3>1
    <3>3. \A v \in Workers : job[v] # j
      BY <3>1, <3>2
    <3>4. next \in Int /\ j \in Int /\ next' = next + 1
      BY <1>0
    <3> QED
      BY <3>2, <3>3, <3>4
  <2> QED
    BY <2>1, <2>2 DEF Accounted, Send, results
<1>5. Shutdown'
  BY <1>0 DEF Shutdown, Send, TypeOK, world
<1> QED
  BY <1>1, <1>2, <1>3, <1>4, <1>5

LEMMA LookupStep ==
    ASSUME PoolInv, NEW w \in Workers, Lookup(w)
    PROVE  PoolInv'
<1> USE NAssumption DEF PoolInv, Jobs
<1>0. /\ worker[w] = "lookup" /\ job[w] \in Jobs /\ job[w] < next
      /\ looked[job[w]] = 0
  BY DEF Lookup, Holding, Busy
<1>1. TypeOK'
  BY <1>0 DEF Lookup, TypeOK, world
<1>2. Holding'
  <2> SUFFICES ASSUME NEW v \in Workers PROVE Holding!(v)'
    BY DEF Holding
  <2>1. CASE v = w
    BY <2>1, <1>0 DEF Lookup, TypeOK, Holding, Busy
  <2>2. CASE v # w
    BY <2>2, <1>0 DEF Lookup, TypeOK, Holding, OneHolder, Busy
  <2> QED
    BY <2>1, <2>2
<1>3. OneHolder'
  BY <1>0 DEF Lookup, TypeOK, OneHolder, Busy
<1>4. Accounted'
  <2> SUFFICES ASSUME NEW j \in Jobs PROVE Accounted!(j)'
    BY DEF Accounted
  <2>1. CASE j = job[w]
    BY <2>1, <1>0 DEF Lookup, TypeOK
  <2>2. CASE j # job[w]
    BY <2>2, <1>0 DEF Lookup, TypeOK, Accounted
  <2> QED
    BY <2>1, <2>2
<1>5. Shutdown'
  BY <1>0 DEF Shutdown, Lookup, TypeOK, world
<1> QED
  BY <1>1, <1>2, <1>3, <1>4, <1>5

\* The slots of different jobs are disjoint, so a write stays within its job.
LEMMA WriteStep ==
    ASSUME PoolInv, NEW w \in Workers, Write(w)
    PROVE  PoolInv'
<1> USE NAssumption DEF PoolInv, Jobs
<1>0. /\ worker[w] = "write" /\ job[w] \in Jobs /\ job[w] < next
      /\ todo[w] \subseteq SlotsOf[job[w]]
  BY DEF Write, Holding, Busy
<1>p. PICK s \in todo[w] :
        /\ out' = [out EXCEPT ![s] = job[w]]
        /\ todo' = [todo EXCEPT ![w] = @ \ {s}]
  BY DEF Write
<1>s. s \in Slots /\ \A j \in Jobs : j # job[w] => s \notin SlotsOf[j]
  BY <1>0, <1>p, SlotsOfJob
<1>u. UNCHANGED <<producer, next, closed, cancelled, worker, job, looked>>
  BY DEF Write, world
<1>o. \A t \in Slots : out'[t] = IF t = s THEN job[w] ELSE out[t]
  BY <1>p DEF TypeOK
<1>1. TypeOK'
  BY <1>0, <1>p, <1>s, <1>u DEF TypeOK
<1>2. Holding'
  <2> SUFFICES ASSUME NEW v \in Workers PROVE Holding!(v)'
    BY DEF Holding
  <2>1. CASE v = w
    <3>1. \A t \in SlotsOf[job[w]] \ todo'[w] : out'[t] = job[w]
      BY <1>0, <1>p, <1>o, SlotsOfJob DEF TypeOK, Holding, Busy
    <3> QED
      BY <2>1, <3>1, <1>0, <1>p, <1>u DEF TypeOK, Holding, Busy
  <2>2. CASE v # w /\ worker[v] \in Busy
    <3>1. job[v] # job[w] /\ job[v] \in Jobs
      BY <2>2 DEF OneHolder, Holding
    <3>2. \A t \in SlotsOf[job[v]] : out'[t] = out[t]
      BY <3>1, <1>s, <1>o, SlotsOfJob
    <3> QED
      BY <2>2, <3>1, <3>2, <1>p, <1>u DEF TypeOK, Holding
  <2>3. CASE v # w /\ worker[v] \notin Busy
    BY <2>3, <1>p, <1>u DEF TypeOK, Holding
  <2> QED
    BY <2>1, <2>2, <2>3
<1>3. OneHolder'
  BY <1>u DEF OneHolder
<1>4. Accounted'
  <2> SUFFICES ASSUME NEW j \in Jobs PROVE Accounted!(j)'
    BY DEF Accounted
  <2>1. CASE j = job[w]
    BY <2>1, <1>0, <1>u DEF TypeOK
  <2>2. CASE j # job[w]
    <3>1. \A t \in SlotsOf[j] : out'[t] = out[t]
      BY <2>2, <1>s, <1>o, SlotsOfJob
    <3> QED
      BY <3>1, <1>u DEF Accounted
  <2> QED
    BY <2>1, <2>2
<1>5. Shutdown'
  BY <1>u DEF Shutdown
<1> QED
  BY <1>1, <1>2, <1>3, <1>4, <1>5

\* A job that is let go has all its slots written.
LEMMA FinishStep ==
    ASSUME PoolInv, NEW w \in Workers, Finish(w)
    PROVE  PoolInv'
<1> USE NAssumption DEF PoolInv, Jobs
<1>0. /\ worker[w] = "write" /\ todo[w] = {} /\ job[w] \in Jobs /\ job[w] < next
      /\ looked[job[w]] = 1
      /\ \A s \in SlotsOf[job[w]] : out[s] = job[w]
  BY DEF Finish, Holding, Busy
<1>1. TypeOK'
  BY <1>0 DEF Finish, TypeOK, world, results
<1>2. Holding'
  <2> SUFFICES ASSUME NEW v \in Workers PROVE Holding!(v)'
    BY DEF Holding
  <2>1. CASE v = w
    BY <2>1, <1>0 DEF Finish, TypeOK, Busy
  <2>2. CASE v # w
    BY <2>2, <1>0 DEF Finish, TypeOK, Holding, Busy, results
  <2> QED
    BY <2>1, <2>2
<1>3. OneHolder'
  BY <1>0 DEF Finish, TypeOK, Holding, OneHolder, Busy
<1>4. Accounted'
  <2> SUFFICES ASSUME NEW j \in Jobs PROVE Accounted!(j)'
    BY DEF Accounted
  <2>1. CASE j = job[w]
    BY <2>1, <1>0 DEF Finish, TypeOK, results
  <2>2. CASE j # job[w]
    <3>1. (\A v \in Workers : job'[v] # j) => \A v \in Workers : job[v] # j
      BY <2>2 DEF Finish, TypeOK
    <3> QED
      BY <3>1 DEF Finish, Accounted, results
  <2> QED
    BY <2>1, <2>2
<1>5. Shutdown'
  BY <1>0 DEF Shutdown, Finish, TypeOK, world
<1> QED
  BY <1>1, <1>2, <1>3, <1>4, <1>5

LEMMA ExitStep ==
    ASSUME PoolInv, NEW w \in Workers, Exit(w)
    PROVE  PoolInv'
<1> USE DEF PoolInv
<1>1. TypeOK'
  BY DEF Exit, TypeOK, world, results
<1>2. Holding'
  BY DEF Exit, TypeOK, Holding, Busy, results
<1>3. OneHolder'
  BY DEF Exit, TypeOK, OneHolder, Busy
<1>4. Accounted'
  BY DEF Exit, Accounted, results
<1>5. Shutdown'
  BY DEF Shutdown, Exit, TypeOK, world
<1> QED
  BY <1>1, <1>2, <1>3, <1>4, <1>5

\* Steps of the caller that touch no goroutine and no result.
LEMMA CallerStep ==
    ASSUME PoolInv, Cancel \/ StopSending \/ Close \/ Return \/ UNCHANGED vars
    PROVE  PoolInv'
<1> USE DEF PoolInv
<1>1. UNCHANGED <<next, worker, job, todo, looked, out>>
  BY DEF Cancel, StopSending, Close, Return, vars, results
<1>2. TypeOK'
  BY <1>1 DEF TypeOK, Cancel, StopSending, Close, Return, vars, world
<1>3. Holding' /\ OneHolder' /\ Accounted'
  BY <1>1 DEF Holding, OneHolder, Accounted
<1>4. Shutdown'
  BY <1>1 DEF Shutdown, TypeOK, Cancel, StopSending, Close, Return, vars, world
<1> QED
  BY <1>2, <1>3, <1>4

LEMMA PoolInvariant == Spec => []PoolInv
<1>1. PoolInv /\ [Next]_vars => PoolInv'
  BY SendStep, LookupStep, WriteStep, FinishStep, ExitStep, CallerStep DEF Next, Terminated
<1> QED
  BY <1>1, PoolInit, PTL DEF Spec

-----------------------------------------------------------------------------

\* The pool keeps its types; in particular the producer sends N jobs at most.
THEOREM PoolTypeCorrect == Spec => []TypeOK
<1>1. PoolInv => TypeOK
  BY DEF PoolInv
<1> QED
  BY <1>1, PoolInvariant, PTL

\* The unlocked writes to out are race free, for any number of goroutines.
THEOREM WritesAreDisjoint == Spec => []NoSharedSlot
<1>1. PoolInv => NoSharedSlot
  <2> SUFFICES ASSUME PoolInv, NEW v \in Workers, NEW w \in Workers, v # w
               PROVE  todo[v] \cap todo[w] = {}
    BY DEF NoSharedSlot
  <2>1. CASE worker[v] \in Busy /\ worker[w] \in Busy
    <3>1. /\ job[v] \in Jobs /\ job[w] \in Jobs /\ job[v] # job[w]
          /\ todo[v] \subseteq SlotsOf[job[v]] /\ todo[w] \subseteq SlotsOf[job[w]]
      BY <2>1 DEF PoolInv, Holding, OneHolder
    <3> QED
      BY <3>1, SlotsOfJob
  <2>2. CASE worker[v] \notin Busy \/ worker[w] \notin Busy
    BY <2>2 DEF PoolInv, Holding
  <2> QED
    BY <2>1, <2>2
<1> QED
  BY <1>1, PoolInvariant, PTL

\* When the call has returned nobody holds a job.
LEMMA ReturnedIdle ==
    ASSUME PoolInv, producer = "returned"
    PROVE  \A w \in Workers : worker[w] = "done" /\ job[w] = 0
  BY DEF PoolInv, Shutdown, Holding, Busy

\* Enrich and CheckAll return the results of a prefix of the jobs, in full.
THEOREM ResultsAreComplete == Spec => []ReturnedComplete
<1>1. PoolInv => ReturnedComplete
  <2> SUFFICES ASSUME PoolInv, producer = "returned"
               PROVE  /\ \A j \in Jobs : \A s \in SlotsOf[j] : out[s] = IF j < next THEN j ELSE 0
                      /\ next <= N => cancelled
    BY DEF ReturnedComplete
  <2>1. \A j \in Jobs : \A w \in Workers : job[w] # j
    BY ReturnedIdle DEF Jobs
  <2>2. \A j \in Jobs : j < next \/ j >= next
    BY NAssumption DEF PoolInv, TypeOK, Jobs
  <2>3. \A j \in Jobs : \A s \in SlotsOf[j] : out[s] = IF j < next THEN j ELSE 0
    BY <2>1, <2>2 DEF PoolInv, Accounted, Jobs, TypeOK
  <2>4. next <= N => cancelled
    BY NAssumption DEF PoolInv, Shutdown, TypeOK
  <2> QED
    BY <2>3, <2>4
<1> QED
  BY <1>1, PoolInvariant, PTL

\* Each registrable domain, or host, is asked once at most.
THEOREM JobsAreLookedUpOnce == Spec => []OneLookupPerJob
<1>1. PoolInv => OneLookupPerJob
  <2> SUFFICES ASSUME PoolInv, NEW j \in Jobs
               PROVE  /\ looked[j] <= 1
                      /\ producer = "returned" => looked[j] = IF j < next THEN 1 ELSE 0
    BY DEF OneLookupPerJob
  <2>1. j < next \/ j >= next
    BY NAssumption DEF PoolInv, TypeOK, Jobs
  <2>2. looked[j] <= 1
    <3>1. CASE \E w \in Workers : job[w] = j
      BY <3>1 DEF PoolInv, Holding, Jobs
    <3>2. CASE \A w \in Workers : job[w] # j
      BY <3>2, <2>1 DEF PoolInv, Accounted
    <3> QED
      BY <3>1, <3>2
  <2>3. producer = "returned" => looked[j] = IF j < next THEN 1 ELSE 0
    <3>1. producer = "returned" => \A w \in Workers : job[w] # j
      BY ReturnedIdle DEF Jobs
    <3> QED
      BY <3>1, <2>1 DEF PoolInv, Accounted, TypeOK, Jobs
  <2> QED
    BY <2>2, <2>3
<1> QED
  BY <1>1, PoolInvariant, PTL

\* No goroutine writes to out once the caller has it.
THEOREM ResultsStayPut == Spec => QuietAfterReturn
<1>1. PoolInv /\ [Next]_vars => [producer = "returned" => UNCHANGED results]_vars
  <2> SUFFICES ASSUME PoolInv, producer = "returned", Next
               PROVE  UNCHANGED results
    BY DEF vars, results
  <2>1. \A w \in Workers : worker[w] = "done"
    BY ReturnedIdle
  <2> QED
    BY <2>1 DEF Next, Cancel, Send, StopSending, Close, Return, Lookup, Write, Finish,
                Exit, Terminated, vars, results
<1> QED
  BY <1>1, PoolInvariant, PTL DEF Spec, QuietAfterReturn
=============================================================================
