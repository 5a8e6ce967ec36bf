------------------------------- MODULE CpuPool -------------------------------
(***************************************************************************)
(* The shared, bounded CPU pool of src/runtime: one ledger of job slots    *)
(* and buffer bytes (Lease), one FIFO queue, a fixed set of worker         *)
(* threads, and the five job kinds that run on them.                       *)
(*                                                                         *)
(* The kinds differ in control only in three ways, and so are modelled by  *)
(* three groups: Section publishes into a mutex slot and keeps its lease   *)
(* on every outcome; Packet, VerifyLoginKey and DecodeChunk answer over a  *)
(* oneshot channel and give the lease back before an error is sent;        *)
(* Lighting answers over a oneshot channel, keeps its lease on every       *)
(* outcome and can be resumed under it.                                    *)
(*                                                                         *)
(* Each action is one critical section of the pool's mutex, one atomic     *)
(* access to a cancellation flag or channel, or one condition-variable     *)
(* call; everything a thread does between two of them is local. The peaks  *)
(* and the completed count of CpuPoolStats only feed stats() and are left  *)
(* out.                                                                    *)
(***************************************************************************)
EXTENDS Integers, Sequences, FiniteSets, FiniteSetsExt

CONSTANTS
  Workers,        \* the worker threads
  Jobs,           \* identities of the work items clients admit
  Kind,           \* Kind[j]: which of the five job kinds j is
  Bytes,          \* Bytes[j]: buffer bytes j reserves
  MaxJobs,        \* CpuPoolConfig.max_jobs
  BufferBytes,    \* CpuPoolConfig.buffer_bytes
  ResidentBytes,  \* ResidentBytes[j]: bytes j's result is charged once adopted
  MaxResident,    \* MaxResident[k]: byte limit of the resident ledger of kind k
  NoJob           \* an idle worker's job

OneShot == {"Packet", "VerifyLoginKey", "DecodeChunk"}
Kinds == {"Section", "Lighting"} \cup OneShot
Adoptable == {"DecodeChunk", "Lighting"}

ASSUME PoolAssumption ==
  /\ IsFiniteSet(Jobs) /\ NoJob \notin Jobs
  /\ IsFiniteSet(Workers) /\ Workers # {}
  /\ Kind \in [Jobs -> Kinds]
  /\ Bytes \in [Jobs -> Nat]
  /\ ResidentBytes \in [Jobs -> Nat]
  /\ MaxResident \in [Adoptable -> Nat]
  /\ MaxJobs \in Nat \ {0}
  /\ BufferBytes \in Nat

VARIABLES
  pool,          \* life of the CpuPool value: starting, open, joining, joined
  closed,        \* PoolState.closed
  queue,         \* PoolState.queue
  inFlight,      \* CpuPoolStats.in_flight
  queued,        \* CpuPoolStats.queued
  running,       \* CpuPoolStats.running
  bytes,         \* CpuPoolStats.reserved_buffer_bytes
  lease,         \* jobs whose Lease value is alive
  stage,         \* who owns job j, and how far it is
  outcome,       \* what j's completion carries
  handle,        \* the client's task handle for j
  worker,        \* what each worker thread is doing
  job,           \* the job each busy worker runs
  unnotified,    \* jobs pushed whose enqueue has unlocked and not yet notified
  notifyAll,     \* a notify_all call not made yet
  resident,      \* jobs whose result holds a resident lease
  residentUsed   \* ResidentStats.used_bytes, one ledger per adoptable kind

ledger == <<inFlight, bytes, lease>>
threads == <<worker, job>>
condvar == <<unnotified, notifyAll>>
counters == <<queued, running>>
residency == <<resident, residentUsed>>
vars == <<pool, closed, queue, ledger, counters, stage, outcome, handle,
          threads, condvar, residency>>

(* Stages in which a worker owns the job: popped, past the first           *)
(* cancellation check, outcome fixed, abandoned at the first check, and    *)
(* finish_job done but the completion not published.                       *)
OnWorker == {"running", "computing", "settled", "abandoned", "finished"}
Stages == {"idle", "pending", "queued", "ready", "gone", "held", "adopting",
           "resident"} \cup OnWorker
Outcomes == {"none", "ok", "paused", "error", "cancelled"}

(* submit has returned the task handle to its caller.                      *)
Returned(j) == j \notin unnotified

(* The SectionTask flag is set, or the oneshot receiver closed or dropped. *)
Cancelled(j) == handle[j] \in {"cancelled", "dropped"}

-----------------------------------------------------------------------------
(* Mutant: the slot is refunded, the bytes are not.                        *)
ReleaseSlotOnly(j) ==
  /\ lease' = lease \ {j}
  /\ inFlight' = inFlight - 1
  /\ UNCHANGED bytes

(* The admission ledger.                                                   *)
Release(j) ==
  /\ lease' = lease \ {j}
  /\ inFlight' = inFlight - 1
  /\ bytes' = bytes - Bytes[j]

(* Mutant: refunds a lease an error path has already given back.           *)
ReleaseTwice(j) == Release(j)

ReleaseIfHeld(j) == IF j \in lease THEN Release(j) ELSE UNCHANGED ledger

(* j's completion is destroyed on the worker; a client that still holds    *)
(* the (cancelled) handle has yet to see that.                             *)
Vanish(j) ==
  LET dropped == handle[j] = "dropped"
  IN  /\ stage' = [stage EXCEPT ![j] = IF dropped THEN "idle" ELSE "gone"]
      /\ handle' = [handle EXCEPT ![j] = IF dropped THEN "none" ELSE @]
      /\ outcome' = [outcome EXCEPT ![j] = "none"]

Forget(j) ==
  /\ stage' = [stage EXCEPT ![j] = "idle"]
  /\ outcome' = [outcome EXCEPT ![j] = "none"]
  /\ handle' = [handle EXCEPT ![j] = "none"]

-----------------------------------------------------------------------------
(* Mutant: the slot limit is tested one job too late.                      *)
ReserveOneTooMany(j) ==
  /\ pool # "starting" /\ stage[j] = "idle"
  /\ ~closed
  /\ inFlight <= MaxJobs
  /\ Bytes[j] <= BufferBytes - bytes
  /\ inFlight' = inFlight + 1
  /\ bytes' = bytes + Bytes[j]
  /\ lease' = lease \cup {j}
  /\ stage' = [stage EXCEPT ![j] = "pending"]
  /\ UNCHANGED <<pool, closed, queue, counters, outcome, handle, threads,
                 condvar, residency>>

(* Client operations.                                                      *)
try_reserve(j) ==
  /\ pool # "starting" /\ stage[j] = "idle"
  /\ ~closed
  /\ inFlight # MaxJobs
  /\ Bytes[j] <= BufferBytes - bytes
  /\ inFlight' = inFlight + 1
  /\ bytes' = bytes + Bytes[j]
  /\ lease' = lease \cup {j}
  /\ stage' = [stage EXCEPT ![j] = "pending"]
  /\ UNCHANGED <<pool, closed, queue, counters, outcome, handle, threads,
                 condvar, residency>>

(* Dropped unsubmitted, or a buffer allocation failed after admission.     *)
DropPending(j) ==
  /\ stage[j] = "pending"
  /\ Release(j)
  /\ Forget(j)
  /\ UNCHANGED <<pool, closed, queue, counters, threads, condvar, residency>>

(* Mutant: the job is pushed and no worker is notified.                    *)
EnqueueSilently(j) ==
  /\ stage[j] = "pending" /\ ~closed
  /\ queue' = Append(queue, j)
  /\ queued' = queued + 1
  /\ stage' = [stage EXCEPT ![j] = "queued"]
  /\ handle' = [handle EXCEPT ![j] = "live"]
  /\ UNCHANGED <<pool, closed, ledger, running, outcome, threads, condvar, residency>>

(* submit/enqueue on an open pool: push under the lock, notify after it.   *)
enqueue(j) ==
  /\ stage[j] = "pending" /\ ~closed
  /\ queue' = Append(queue, j)
  /\ queued' = queued + 1
  /\ stage' = [stage EXCEPT ![j] = "queued"]
  /\ handle' = [handle EXCEPT ![j] = "live"]
  /\ unnotified' = unnotified \cup {j}
  /\ UNCHANGED <<pool, closed, ledger, running, outcome, threads, notifyAll, residency>>

(* submit on a closed pool: Err(Closed) drops the pending job.             *)
EnqueueClosed(j) == closed /\ DropPending(j)

cancel(j) ==
  /\ handle[j] = "live" /\ Returned(j)
  /\ handle' = [handle EXCEPT ![j] = "cancelled"]
  /\ UNCHANGED <<pool, closed, queue, ledger, counters, stage, outcome,
                 threads, condvar, residency>>

(* A published completion dies with its handle; an unpublished one is      *)
(* left to the worker.                                                     *)
DropTask(j) ==
  /\ handle[j] \in {"live", "cancelled"} /\ Returned(j)
  /\ IF stage[j] \in {"ready", "gone"}
     THEN ReleaseIfHeld(j) /\ Forget(j)
     ELSE /\ handle' = [handle EXCEPT ![j] = "dropped"]
          /\ UNCHANGED <<ledger, stage, outcome>>
  /\ UNCHANGED <<pool, closed, queue, counters, threads, condvar, residency>>

(* Mutant: trusts the worker's check, which ran before publication.        *)
TakeUnchecked(j) ==
  /\ stage[j] = "ready" /\ Kind[j] = "Section" /\ Returned(j)
  /\ stage' = [stage EXCEPT ![j] = "held"]
  /\ handle' = [handle EXCEPT ![j] = "none"]
  /\ UNCHANGED <<pool, closed, queue, ledger, counters, outcome, threads,
                 condvar, residency>>

(* try_take/wait of a section: the flag is read again after publication,   *)
(* and the completion keeps its lease whatever it carries.                 *)
TakeSection(j) ==
  /\ stage[j] = "ready" /\ Kind[j] = "Section" /\ Returned(j)
  /\ outcome' = [outcome EXCEPT ![j] = IF Cancelled(j) THEN "cancelled" ELSE @]
  /\ stage' = [stage EXCEPT ![j] = "held"]
  /\ handle' = [handle EXCEPT ![j] = "none"]
  /\ UNCHANGED <<pool, closed, queue, ledger, counters, threads, condvar,
                 residency>>

(* wait_mut of a oneshot task: a value that was sent before cancel is      *)
(* received and dropped; an error result carries no lease.                 *)
TakeOneShot(j) ==
  /\ stage[j] = "ready" /\ Kind[j] # "Section" /\ Returned(j)
  /\ IF ~Cancelled(j) /\ (outcome[j] = "ok" \/ Kind[j] = "Lighting")
     THEN /\ stage' = [stage EXCEPT ![j] = "held"]
          /\ handle' = [handle EXCEPT ![j] = "none"]
          /\ UNCHANGED <<ledger, outcome>>
     ELSE ReleaseIfHeld(j) /\ Forget(j)
  /\ UNCHANGED <<pool, closed, queue, counters, threads, condvar, residency>>

(* Waiting on a cancelled channel whose sender is gone: Err(Cancelled).    *)
TakeCancelled(j) ==
  /\ stage[j] = "gone"
  /\ Forget(j)
  /\ UNCHANGED <<pool, closed, queue, ledger, counters, threads, condvar,
                 residency>>

DropCompletion(j) ==
  /\ stage[j] = "held"
  /\ Release(j)
  /\ Forget(j)
  /\ UNCHANGED <<pool, closed, queue, counters, threads, condvar, residency>>

(* A paused lighting slice goes back to pending under the same lease.      *)
into_pending(j) ==
  /\ stage[j] = "held" /\ Kind[j] = "Lighting" /\ outcome[j] = "paused"
  /\ stage' = [stage EXCEPT ![j] = "pending"]
  /\ outcome' = [outcome EXCEPT ![j] = "none"]
  /\ UNCHANGED <<pool, closed, queue, ledger, counters, handle, threads,
                 condvar, residency>>

(* Mutant: adopted without a destination charge.                           *)
AdoptUncharged(j) ==
  /\ stage[j] = "held" /\ outcome[j] = "ok" /\ Kind[j] \in Adoptable
  /\ stage' = [stage EXCEPT ![j] = "adopting"]
  /\ UNCHANGED <<pool, closed, queue, ledger, counters, outcome, handle,
                 threads, condvar, residency>>

(* try_adopt: the resident ledger is charged first, in its own lock...     *)
try_adopt(j) ==
  /\ stage[j] = "held" /\ outcome[j] = "ok" /\ Kind[j] \in Adoptable
  /\ ResidentBytes[j] <= MaxResident[Kind[j]] - residentUsed[Kind[j]]
  /\ resident' = resident \cup {j}
  /\ residentUsed' = [residentUsed EXCEPT ![Kind[j]] = @ + ResidentBytes[j]]
  /\ stage' = [stage EXCEPT ![j] = "adopting"]
  /\ UNCHANGED <<pool, closed, queue, ledger, counters, outcome, handle,
                 threads, condvar>>

(* ... and only then is the CPU lease given back.                          *)
AdoptRelease(j) ==
  /\ stage[j] = "adopting"
  /\ Release(j)
  /\ stage' = [stage EXCEPT ![j] = "resident"]
  /\ outcome' = [outcome EXCEPT ![j] = "none"]
  /\ UNCHANGED <<pool, closed, queue, counters, handle, threads, condvar,
                 residency>>

DropResident(j) ==
  /\ stage[j] = "resident"
  /\ resident' = resident \ {j}
  /\ residentUsed' = [residentUsed EXCEPT ![Kind[j]] = @ - ResidentBytes[j]]
  /\ Forget(j)
  /\ UNCHANGED <<pool, closed, queue, ledger, counters, threads, condvar>>

-----------------------------------------------------------------------------
(* Start and shutdown.                                                     *)

(* CpuPool::new spawns the threads one by one ...                          *)
Spawn(w) ==
  /\ pool = "starting" /\ worker[w] = "unspawned"
  /\ worker' = [worker EXCEPT ![w] = "seeking"]
  /\ pool' = IF \E v \in Workers : worker'[v] = "unspawned"
             THEN "starting" ELSE "open"
  /\ UNCHANGED <<closed, queue, ledger, counters, stage, outcome, handle,
                 job, condvar, residency>>

CloseState ==
  /\ closed' = TRUE
  /\ notifyAll' = TRUE
  /\ UNCHANGED <<queue, ledger, counters, stage, outcome, handle, threads,
                 unnotified, residency>>

close == pool = "open" /\ CloseState /\ UNCHANGED pool

(* shutdown, the pool's Drop, and ... the Drop after a spawn error.        *)
join == pool \in {"starting", "open"} /\ CloseState /\ pool' = "joining"

Joined ==
  /\ pool = "joining" /\ ~notifyAll
  /\ \A w \in Workers : worker[w] \in {"unspawned", "exited"}
  /\ pool' = "joined"
  /\ UNCHANGED <<closed, queue, ledger, counters, stage, outcome, handle,
                 threads, condvar, residency>>

-----------------------------------------------------------------------------
(* Condition variable "work". A waiting thread may also wake by itself.    *)

Woken(W) == worker' = [w \in Workers |-> IF w \in W THEN "seeking" ELSE worker[w]]
Waiting == {w \in Workers : worker[w] = "waiting"}

NotifyOne(j) ==
  /\ j \in unnotified
  /\ unnotified' = unnotified \ {j}
  /\ IF Waiting = {} THEN UNCHANGED worker ELSE \E w \in Waiting : Woken({w})
  /\ UNCHANGED <<pool, closed, queue, ledger, counters, stage, outcome,
                 handle, job, notifyAll, residency>>

NotifyAll ==
  /\ notifyAll
  /\ notifyAll' = FALSE
  /\ Woken(Waiting)
  /\ UNCHANGED <<pool, closed, queue, ledger, counters, stage, outcome,
                 handle, job, unnotified, residency>>

SpuriousWake(w) ==
  /\ worker[w] = "waiting"
  /\ Woken({w})
  /\ UNCHANGED <<pool, closed, queue, ledger, counters, stage, outcome,
                 handle, job, condvar, residency>>

-----------------------------------------------------------------------------
(* Worker threads: the loop of work().                                     *)

Pop(w) ==
  /\ worker[w] = "seeking" /\ queue # <<>>
  /\ queue' = Tail(queue)
  /\ queued' = queued - 1
  /\ running' = running + 1
  /\ worker' = [worker EXCEPT ![w] = "busy"]
  /\ job' = [job EXCEPT ![w] = Head(queue)]
  /\ stage' = [stage EXCEPT ![Head(queue)] = "running"]
  /\ UNCHANGED <<pool, closed, ledger, outcome, handle, condvar,
                 residency>>

(* Mutant: a closed pool's worker leaves without draining the queue.       *)
ExitUndrained(w) ==
  /\ worker[w] = "seeking" /\ (closed \/ queue = <<>>)
  /\ worker' = [worker EXCEPT ![w] = IF closed THEN "exited" ELSE "waiting"]
  /\ UNCHANGED <<pool, closed, queue, ledger, counters, stage, outcome,
                 handle, job, condvar, residency>>

(* Queue empty: return when closed, otherwise wait (atomically unlocking). *)
ExitOrWait(w) ==
  /\ worker[w] = "seeking" /\ queue = <<>>
  /\ worker' = [worker EXCEPT ![w] = IF closed THEN "exited" ELSE "waiting"]
  /\ UNCHANGED <<pool, closed, queue, ledger, counters, stage, outcome,
                 handle, job, condvar, residency>>

(* The first cancellation check. A cancelled section still completes; the  *)
(* other kinds drop their input and lease and only count the job.          *)
Begin(w) ==
  LET j == job[w]
  IN  /\ worker[w] = "busy" /\ stage[j] = "running"
      /\ CASE ~Cancelled(j) ->
                /\ stage' = [stage EXCEPT ![j] = "computing"]
                /\ UNCHANGED <<ledger, outcome>>
           [] Cancelled(j) /\ Kind[j] = "Section" ->
                /\ stage' = [stage EXCEPT ![j] = "settled"]
                /\ outcome' = [outcome EXCEPT ![j] = "cancelled"]
                /\ UNCHANGED ledger
           [] OTHER ->
                /\ stage' = [stage EXCEPT ![j] = "abandoned"]
                /\ Release(j)
                /\ UNCHANGED outcome
      /\ UNCHANGED <<pool, closed, queue, counters, handle, threads, condvar,
                     residency>>

(* What the kernel may return; a panic is caught and is an error.          *)
Results(k) == {"ok", "error"} \cup (IF k = "Lighting" THEN {"paused"} ELSE {})

(* The kernel returns r and cancellation is checked again.                 *)
Settle(w, r) ==
  LET j == job[w]
      k == Kind[j]
      suppressed == Cancelled(j) /\ (k = "Section" \/ (k \in OneShot /\ r = "ok"))
      result == IF suppressed THEN "cancelled" ELSE r
  IN  /\ worker[w] = "busy" /\ stage[j] = "computing"
      /\ r \in Results(k)
      /\ stage' = [stage EXCEPT ![j] = "settled"]
      /\ outcome' = [outcome EXCEPT ![j] = result]
      /\ IF k \in OneShot /\ result # "ok" THEN Release(j) ELSE UNCHANGED ledger
      /\ UNCHANGED <<pool, closed, queue, counters, handle, threads, condvar,
                     residency>>

Idle(w) ==
  /\ worker' = [worker EXCEPT ![w] = "seeking"]
  /\ job' = [job EXCEPT ![w] = NoJob]

finish_job(w) ==
  LET j == job[w]
  IN  /\ worker[w] = "busy" /\ stage[j] \in {"settled", "abandoned"}
      /\ running' = running - 1
      /\ IF stage[j] = "settled"
         THEN /\ stage' = [stage EXCEPT ![j] = "finished"]
              /\ UNCHANGED <<outcome, handle, threads>>
         ELSE Vanish(j) /\ Idle(w)
      /\ UNCHANGED <<pool, closed, queue, ledger, queued, condvar,
                     residency>>

(* Store into the section's slot, or send. A dropped section handle, or a  *)
(* closed channel, destroys the completion here with its lease.            *)
Publish(w) ==
  LET j == job[w]
      lost == IF Kind[j] = "Section" THEN handle[j] = "dropped" ELSE Cancelled(j)
  IN  /\ worker[w] = "busy" /\ stage[j] = "finished"
      /\ IF lost
         THEN ReleaseIfHeld(j) /\ Vanish(j)
         ELSE /\ stage' = [stage EXCEPT ![j] = "ready"]
              /\ UNCHANGED <<ledger, outcome, handle>>
      /\ Idle(w)
      /\ UNCHANGED <<pool, closed, queue, counters, condvar, residency>>

-----------------------------------------------------------------------------
Init ==
  /\ pool = "starting" /\ closed = FALSE /\ queue = <<>>
  /\ inFlight = 0 /\ bytes = 0 /\ lease = {}
  /\ queued = 0 /\ running = 0
  /\ stage = [j \in Jobs |-> "idle"]
  /\ outcome = [j \in Jobs |-> "none"]
  /\ handle = [j \in Jobs |-> "none"]
  /\ worker = [w \in Workers |-> "unspawned"]
  /\ job = [w \in Workers |-> NoJob]
  /\ unnotified = {} /\ notifyAll = FALSE
  /\ resident = {} /\ residentUsed = [k \in Adoptable |-> 0]

Client(j) ==
  \/ try_reserve(j) \/ DropPending(j) \/ enqueue(j) \/ EnqueueClosed(j)
  \/ cancel(j) \/ DropTask(j)
  \/ TakeSection(j) \/ TakeOneShot(j) \/ TakeCancelled(j)
  \/ DropCompletion(j) \/ into_pending(j)
  \/ try_adopt(j) \/ AdoptRelease(j) \/ DropResident(j)

WorkerStep(w) ==
  \/ Pop(w) \/ ExitOrWait(w) \/ Begin(w)
  \/ \E r \in Outcomes : Settle(w, r)
  \/ finish_job(w) \/ Publish(w)

Next ==
  \/ \E j \in Jobs : Client(j) \/ NotifyOne(j)
  \/ \E w \in Workers : Spawn(w) \/ SpuriousWake(w) \/ WorkerStep(w)
  \/ close \/ join \/ Joined \/ NotifyAll

Spec == Init /\ [][Next]_vars

(* Threads that exist keep being scheduled: workers, and the callers of    *)
(* enqueue and close between their unlock and their notify. Clients owe    *)
(* the pool nothing.                                                       *)
Fairness ==
  /\ \A w \in Workers : WF_vars(WorkerStep(w))
  /\ \A j \in Jobs : WF_vars(NotifyOne(j))
  /\ WF_vars(NotifyAll) /\ WF_vars(Joined)

FairSpec == Spec /\ Fairness

-----------------------------------------------------------------------------
(* Type invariant of the pool.                                             *)
TypeOK ==
  /\ pool \in {"starting", "open", "joining", "joined"}
  /\ closed \in BOOLEAN /\ notifyAll \in BOOLEAN
  /\ queue \in Seq(Jobs)
  /\ inFlight \in Nat /\ bytes \in Int
  /\ queued \in Nat /\ running \in Nat
  /\ unnotified \in SUBSET Jobs /\ lease \in SUBSET Jobs /\ resident \in SUBSET Jobs
  /\ stage \in [Jobs -> Stages]
  /\ outcome \in [Jobs -> Outcomes]
  /\ handle \in [Jobs -> {"none", "live", "cancelled", "dropped"}]
  /\ worker \in [Workers -> {"unspawned", "seeking", "waiting", "busy", "exited"}]
  /\ job \in [Workers -> Jobs \cup {NoJob}]
  /\ residentUsed \in [Adoptable -> Int]

(* The queue holds each queued job once.                                   *)
QueueExact ==
  /\ queued = Len(queue)
  /\ \A a, b \in 1..Len(queue) : queue[a] = queue[b] => a = b
  /\ \A j \in Jobs : stage[j] = "queued" <=> \E a \in 1..Len(queue) : queue[a] = j

BusyWorkers == {w \in Workers : worker[w] = "busy"}
CountedWorkers == {w \in BusyWorkers : stage[job[w]] # "finished"}

(* Every job on a worker is one busy worker's, and running counts those    *)
(* that have not been through finish_job.                                  *)
WorkersExact ==
  /\ running = Cardinality(CountedWorkers)
  /\ \A w \in Workers : worker[w] = "busy" <=> job[w] # NoJob
  /\ \A w \in BusyWorkers : stage[job[w]] \in OnWorker
  /\ \A v, w \in BusyWorkers : job[v] = job[w] => v = w
  /\ \A j \in Jobs : stage[j] \in OnWorker => \E w \in BusyWorkers : job[w] = j

(* Which stages and outcomes own a lease: a settled oneshot job only with  *)
(* a result, the other kinds whatever they carry.                          *)
LeaseExact ==
  /\ inFlight = Cardinality(lease)
  /\ \A j \in Jobs :
       /\ outcome[j] = "paused" => Kind[j] = "Lighting"
       /\ j \in lease <=>
            \/ stage[j] \in {"pending", "queued", "running", "computing", "held", "adopting"}
            \/ /\ stage[j] \in {"settled", "finished", "ready"}
               /\ Kind[j] \in OneShot => outcome[j] = "ok"
       /\ j \in resident <=> stage[j] \in {"adopting", "resident"}

(* Nothing is accepted before every thread runs or after the close, and    *)
(* no thread leaves a queue behind.                                        *)
LifeExact ==
  /\ pool = "starting" => \A j \in Jobs : stage[j] = "idle"
  /\ pool \in {"joining", "joined"} => closed
  /\ \A w \in Workers :
       /\ worker[w] = "unspawned" => queue = <<>> /\ (pool = "starting" \/ closed)
       /\ worker[w] = "exited" => closed /\ queue = <<>>
       /\ pool = "joined" => worker[w] \in {"unspawned", "exited"}

WithinLimits ==
  /\ inFlight <= MaxJobs /\ bytes <= BufferBytes
  /\ \A k \in Adoptable : residentUsed[k] <= MaxResident[k]

(* The inductive invariant: type correctness, and what ties queue, worker  *)
(* threads, leases and counters together so that no counter can underflow. *)
PoolInv ==
  TypeOK /\ QueueExact /\ WorkersExact /\ LeaseExact /\ LifeExact /\ WithinLimits

SumBytes(weight, S) == SumFunctionOnSet(weight, S)

(* Both ledgers say exactly what is alive: in_flight and                   *)
(* reserved_buffer_bytes are the live leases and their bytes, and each     *)
(* resident ledger the bytes of the results adopted into it. Every path    *)
(* (error, cancel, drop, adopt, resume) must refund once and only once.    *)
AccountingExact ==
  /\ inFlight = Cardinality(lease)
  /\ bytes = SumBytes(Bytes, lease)
  /\ \A k \in Adoptable :
       residentUsed[k] = SumBytes(ResidentBytes, {j \in resident : Kind[j] = k})

(* Buffers are never used uncharged and never charged when gone: whoever   *)
(* owns a payload (client, queue, worker, channel, completion) owns its    *)
(* lease, an adoption overlaps the two charges, and no lease outlives its  *)
(* job ("There is no API that detaches a Vec from that lease").            *)
ChargedWhileOwned ==
  \A j \in Jobs :
    /\ \/ stage[j] \in {"pending", "queued", "running", "computing", "held", "adopting"}
       \/ stage[j] \in {"settled", "finished", "ready"} /\ outcome[j] \in {"ok", "paused"}
       => j \in lease
    /\ stage[j] \in {"idle", "gone", "abandoned", "resident"} => j \notin lease
    /\ j \in resident <=> stage[j] \in {"adopting", "resident"}

(* The admission bounds, and the claim at each push that the preallocated  *)
(* queue cannot grow: a job that can still be pushed finds a free place.   *)
CapacityBound ==
  /\ inFlight <= MaxJobs /\ bytes <= BufferBytes
  /\ \A k \in Adoptable : residentUsed[k] <= MaxResident[k]
  /\ Len(queue) <= MaxJobs
  /\ (\E j \in Jobs : stage[j] = "pending") => Len(queue) < MaxJobs

(* close "drains all accepted queued/running jobs": a worker only leaves a *)
(* closed pool whose queue is empty for good, and once all have left no    *)
(* accepted job is stuck without a worker.                                 *)
DrainedOnExit ==
  /\ \A w \in Workers : worker[w] = "exited" => closed /\ queue = <<>>
  /\ pool = "joined" =>
       \A j \in Jobs : stage[j] \notin OnWorker \cup {"queued"}

(* A client that cancelled before taking the result never gets a usable    *)
(* one, even when the worker's own checks ran before the cancellation.     *)
CancelSuppresses ==
  [][\A j \in Jobs :
       stage[j] # "held" /\ stage'[j] = "held" /\ Cancelled(j)
         => outcome'[j] = "cancelled"]_vars

(* The comment on CpuPoolConfig.max_jobs: in-flight "counts reservations,  *)
(* queued/running work and retained completions together".                 *)
InFlightCountsRunning == queued + running <= inFlight

(* Every accepted job is finished with by the workers, although no client  *)
(* ever takes a result and every wake-up is a single notify_one.           *)
JobsFinish ==
  \A j \in Jobs : stage[j] = "queued" ~> stage[j] \notin OnWorker \cup {"queued"}

(* shutdown/Drop returns: "retained task handles/completions do not        *)
(* prevent this drain and join from finishing".                            *)
JoinReturns == pool = "joining" ~> pool = "joined"

(* Nothing in the pool waits for good: accepted jobs finish and a join     *)
(* returns, although every wake-up is sent after the lock was released.    *)
PoolProgress == JobsFinish /\ JoinReturns
=============================================================================
