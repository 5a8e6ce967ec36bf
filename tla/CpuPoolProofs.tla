---------------------------- MODULE CpuPoolProofs ----------------------------
(***************************************************************************)
(* Safety of the CPU pool for every number of workers and jobs, every      *)
(* assignment of kinds and sizes and every limit: PoolInv is inductive,    *)
(* and implies the lease, capacity and drain properties that TLC checks on *)
(* small pools; and both byte ledgers are exact.                           *)
(*                                                                         *)
(* One lemma per action shows that it preserves PoolInv, part by part. The *)
(* lemmas before them say what giving a lease back does to the ledger, and *)
(* that a step which leaves the threads alone and moves no job on or off   *)
(* a worker keeps the worker part. That the ledgers are sums follows from  *)
(* what one step may do to each (LeaseMoves, ResidentMoves) and the facts  *)
(* on sums over finite sets in DataFacts.                                  *)
(***************************************************************************)
EXTENDS CpuPool, DataFacts

(* What Lease's Drop leaves: the slot counter still counts the live leases *)
(* and neither counter leaves its range.                                   *)
LEMMA ReleaseFacts ==
  ASSUME TypeOK, LeaseExact, WithinLimits, NEW j \in Jobs, j \in lease, Release(j)
  PROVE  /\ lease' \in SUBSET Jobs /\ lease' = lease \ {j}
         /\ inFlight' = Cardinality(lease') /\ inFlight' \in Nat /\ inFlight' <= MaxJobs
         /\ bytes' \in Int /\ bytes' <= BufferBytes
<1>1. IsFiniteSet(lease)
  BY PoolAssumption, FS_Subset DEF TypeOK
<1>2. /\ IsFiniteSet(lease \ {j})
      /\ Cardinality(lease \ {j}) = Cardinality(lease) - 1
  BY <1>1, FS_RemoveElement
<1>3. Cardinality(lease \ {j}) \in Nat
  BY <1>2, FS_CardinalityType
<1> QED
  BY <1>2, <1>3, PoolAssumption DEF TypeOK, LeaseExact, WithinLimits, Release

(* The same for a completion that may have lost its lease to an error.     *)
LEMMA ReleaseIfHeldFacts ==
  ASSUME TypeOK, LeaseExact, WithinLimits, NEW j \in Jobs, ReleaseIfHeld(j)
  PROVE  /\ lease' \in SUBSET Jobs /\ lease' = lease \ {j}
         /\ inFlight' = Cardinality(lease') /\ inFlight' \in Nat /\ inFlight' <= MaxJobs
         /\ bytes' \in Int /\ bytes' <= BufferBytes
<1>1. CASE j \in lease
  BY <1>1, ReleaseFacts DEF ReleaseIfHeld
<1>2. CASE j \notin lease
  BY <1>2 DEF ReleaseIfHeld, ledger, TypeOK, LeaseExact, WithinLimits
<1> QED
  BY <1>1, <1>2

(* A step that leaves the threads alone and moves no job on or off a       *)
(* worker, or through finish_job, keeps the worker part.                   *)
LEMMA WorkersStable ==
  ASSUME TypeOK, WorkersExact, UNCHANGED <<running, worker, job>>,
         \A k \in Jobs : stage'[k] \in OnWorker <=> stage[k] \in OnWorker,
         \A k \in Jobs : stage'[k] = "finished" <=> stage[k] = "finished"
  PROVE  WorkersExact'
<1>1. running' = running /\ worker' = worker /\ job' = job
  OBVIOUS
<1>2. BusyWorkers' = BusyWorkers
  BY <1>1 DEF BusyWorkers
<1>3. ASSUME NEW w \in BusyWorkers
      PROVE  /\ stage'[job[w]] \in OnWorker <=> stage[job[w]] \in OnWorker
             /\ stage'[job[w]] = "finished" <=> stage[job[w]] = "finished"
  BY PoolAssumption DEF TypeOK, WorkersExact, BusyWorkers
<1>4. CountedWorkers' = CountedWorkers
  BY <1>1, <1>2, <1>3 DEF CountedWorkers
<1> QED
  BY <1>1, <1>2, <1>3, <1>4 DEF WorkersExact

(* Likewise the queue part, for a step that neither pushes nor pops.       *)
LEMMA QueueStable ==
  ASSUME QueueExact, UNCHANGED <<queue, queued>>,
         \A k \in Jobs : stage'[k] = "queued" <=> stage[k] = "queued"
  PROVE  QueueExact'
  BY DEF QueueExact

USE DEF OneShot, Kinds, Adoptable, OnWorker, Stages, Outcomes,
        ledger, counters, threads, condvar, residency

(* Admission adds one lease within the limits.                             *)
LEMMA try_reserveInv ==
  ASSUME PoolInv, NEW j \in Jobs, try_reserve(j)
  PROVE  PoolInv'
<1> USE DEF PoolInv, try_reserve
<1>0. lease' \in SUBSET Jobs /\ inFlight' = Cardinality(lease')
  <2>1. IsFiniteSet(lease) /\ j \notin lease
    BY PoolAssumption, FS_Subset DEF TypeOK, LeaseExact
  <2>2. Cardinality(lease \cup {j}) = Cardinality(lease) + 1
    BY <2>1, FS_AddElement
  <2> QED
    BY <2>2 DEF TypeOK, LeaseExact
<1>1. TypeOK'
  BY <1>0, PoolAssumption DEF TypeOK
<1>2. QueueExact'
  BY QueueStable DEF TypeOK
<1>3. WorkersExact'
  BY WorkersStable DEF TypeOK
<1>4. LeaseExact'
  BY <1>0 DEF TypeOK, LeaseExact
<1>5. LifeExact'
  BY DEF TypeOK, LifeExact
<1>6. WithinLimits'
  <2>1. inFlight \in Nat /\ MaxJobs \in Nat /\ inFlight <= MaxJobs /\ inFlight # MaxJobs
    BY PoolAssumption DEF TypeOK, WithinLimits
  <2>2. inFlight + 1 <= MaxJobs
    BY <2>1
  <2>3. bytes \in Int /\ Bytes[j] \in Nat /\ BufferBytes \in Nat
    BY PoolAssumption DEF TypeOK
  <2>4. Bytes[j] <= BufferBytes - bytes
    OBVIOUS
  <2>5. bytes + Bytes[j] <= BufferBytes
    BY <2>3, <2>4
  <2>6. inFlight' = inFlight + 1 /\ bytes' = bytes + Bytes[j] /\ residentUsed' = residentUsed
    OBVIOUS
  <2> QED
    BY <2>2, <2>5, <2>6 DEF WithinLimits
<1> QED
  BY <1>1, <1>2, <1>3, <1>4, <1>5, <1>6

(* A dropped reservation gives its lease back.                             *)
LEMMA DropPendingInv ==
  ASSUME PoolInv, NEW j \in Jobs, DropPending(j)
  PROVE  PoolInv'
<1> USE DEF PoolInv, DropPending, Forget
<1>0. /\ lease' \in SUBSET Jobs /\ inFlight' = Cardinality(lease')
      /\ inFlight' \in Nat /\ inFlight' <= MaxJobs
      /\ bytes' \in Int /\ bytes' <= BufferBytes
      /\ lease' = lease \ {j}
  BY ReleaseFacts DEF LeaseExact
<1>1. TypeOK'
  BY <1>0, PoolAssumption DEF TypeOK
<1>2. QueueExact'
  BY QueueStable DEF TypeOK
<1>3. WorkersExact'
  BY WorkersStable DEF TypeOK
<1>4. LeaseExact'
  BY <1>0 DEF TypeOK, LeaseExact
<1>5. LifeExact'
  BY DEF TypeOK, LifeExact
<1>6. WithinLimits'
  BY <1>0, PoolAssumption DEF TypeOK, WithinLimits
<1> QED
  BY <1>1, <1>2, <1>3, <1>4, <1>5, <1>6

(* A submitted job enters the queue once.                                  *)
LEMMA enqueueInv ==
  ASSUME PoolInv, NEW j \in Jobs, enqueue(j)
  PROVE  PoolInv'
<1> USE DEF PoolInv, enqueue
<1>1. TypeOK'
  BY DEF TypeOK
<1>2. QueueExact'
  <2>1. /\ Len(queue') = Len(queue) + 1 /\ Len(queue) \in Nat
        /\ queue'[Len(queue) + 1] = j
        /\ \A a \in 1..Len(queue) : queue'[a] = queue[a]
    BY DEF TypeOK
  <2>2. \A a \in 1..Len(queue) : queue[a] # j
    BY DEF QueueExact
  <2>3. \A k \in Jobs : stage'[k] = "queued" <=> k = j \/ stage[k] = "queued"
    BY DEF TypeOK
  <2> QED
    BY <2>1, <2>2, <2>3 DEF QueueExact
<1>3. WorkersExact'
  BY WorkersStable DEF TypeOK
<1>4. LeaseExact'
  BY DEF TypeOK, LeaseExact
<1>5. LifeExact'
  BY DEF TypeOK, LifeExact
<1>6. WithinLimits'
  BY DEF WithinLimits
<1> QED
  BY <1>1, <1>2, <1>3, <1>4, <1>5, <1>6

(* Cancelling only sets the flag.                                          *)
LEMMA cancelInv ==
  ASSUME PoolInv, NEW j \in Jobs, cancel(j)
  PROVE  PoolInv'
<1> USE DEF PoolInv, cancel
<1>1. TypeOK'
  BY PoolAssumption DEF TypeOK
<1>2. QueueExact'
  BY QueueStable DEF TypeOK
<1>3. WorkersExact'
  BY WorkersStable DEF TypeOK
<1>4. LeaseExact'
  BY DEF TypeOK, LeaseExact
<1>5. LifeExact'
  BY DEF TypeOK, LifeExact
<1>6. WithinLimits'
  BY PoolAssumption DEF TypeOK, WithinLimits
<1> QED
  BY <1>1, <1>2, <1>3, <1>4, <1>5, <1>6

(* A dropped handle takes a published completion with it.                  *)
LEMMA DropTaskInv ==
  ASSUME PoolInv, NEW j \in Jobs, DropTask(j)
  PROVE  PoolInv'
<1> USE DEF PoolInv, DropTask, Forget
<1>0. /\ lease' \in SUBSET Jobs /\ inFlight' = Cardinality(lease')
      /\ inFlight' \in Nat /\ inFlight' <= MaxJobs
      /\ bytes' \in Int /\ bytes' <= BufferBytes
      /\ lease' = IF stage[j] \in {"ready", "gone"} THEN lease \ {j} ELSE lease
  <2>1. CASE stage[j] \in {"ready", "gone"}
    BY <2>1, ReleaseIfHeldFacts
  <2>2. CASE stage[j] \notin {"ready", "gone"}
    BY <2>2 DEF TypeOK, LeaseExact, WithinLimits
  <2> QED
    BY <2>1, <2>2
<1>1. TypeOK'
  BY <1>0 DEF TypeOK
<1>2. QueueExact'
  BY QueueStable DEF TypeOK
<1>3. WorkersExact'
  BY WorkersStable DEF TypeOK
<1>4. LeaseExact'
  BY <1>0 DEF TypeOK, LeaseExact
<1>5. LifeExact'
  BY DEF TypeOK, LifeExact
<1>6. WithinLimits'
  BY <1>0 DEF TypeOK, WithinLimits
<1> QED
  BY <1>1, <1>2, <1>3, <1>4, <1>5, <1>6

(* Taking a section completion moves the lease with it.                    *)
LEMMA TakeSectionInv ==
  ASSUME PoolInv, NEW j \in Jobs, TakeSection(j)
  PROVE  PoolInv'
<1> USE DEF PoolInv, TakeSection
<1>1. TypeOK'
  BY PoolAssumption DEF TypeOK
<1>2. QueueExact'
  BY QueueStable DEF TypeOK
<1>3. WorkersExact'
  BY WorkersStable DEF TypeOK
<1>4. LeaseExact'
  BY DEF TypeOK, LeaseExact
<1>5. LifeExact'
  BY DEF TypeOK, LifeExact
<1>6. WithinLimits'
  BY PoolAssumption DEF TypeOK, WithinLimits
<1> QED
  BY <1>1, <1>2, <1>3, <1>4, <1>5, <1>6

(* Receiving from a channel, or dropping what it held.                     *)
LEMMA TakeOneShotInv ==
  ASSUME PoolInv, NEW j \in Jobs, TakeOneShot(j)
  PROVE  PoolInv'
<1> USE DEF PoolInv, TakeOneShot, Forget
<1> DEFINE kept == ~Cancelled(j) /\ (outcome[j] = "ok" \/ Kind[j] = "Lighting")
<1>0. /\ lease' \in SUBSET Jobs /\ inFlight' = Cardinality(lease')
      /\ inFlight' \in Nat /\ inFlight' <= MaxJobs
      /\ bytes' \in Int /\ bytes' <= BufferBytes
      /\ lease' = IF kept THEN lease ELSE lease \ {j}
  <2>1. CASE kept
    BY <2>1 DEF TypeOK, LeaseExact, WithinLimits
  <2>2. CASE ~kept
    BY <2>2, ReleaseIfHeldFacts
  <2> QED
    BY <2>1, <2>2
<1>1. TypeOK'
  BY <1>0, PoolAssumption DEF TypeOK
<1>2. QueueExact'
  BY QueueStable DEF TypeOK
<1>3. WorkersExact'
  BY WorkersStable DEF TypeOK
<1>4. LeaseExact'
  <2>1. CASE kept
    <3>1. j \in lease
      BY <2>1, PoolAssumption DEF LeaseExact
    <3> QED
      BY <2>1, <3>1, <1>0 DEF TypeOK, LeaseExact
  <2>2. CASE ~kept
    BY <2>2, <1>0 DEF TypeOK, LeaseExact
  <2> QED
    BY <2>1, <2>2
<1>5. LifeExact'
  BY DEF TypeOK, LifeExact
<1>6. WithinLimits'
  BY <1>0, PoolAssumption DEF TypeOK, WithinLimits
<1> QED
  BY <1>1, <1>2, <1>3, <1>4, <1>5, <1>6

(* The waiter learns that the worker dropped the job.                      *)
LEMMA TakeCancelledInv ==
  ASSUME PoolInv, NEW j \in Jobs, TakeCancelled(j)
  PROVE  PoolInv'
<1> USE DEF PoolInv, TakeCancelled, Forget
<1>1. TypeOK'
  BY PoolAssumption DEF TypeOK
<1>2. QueueExact'
  BY QueueStable DEF TypeOK
<1>3. WorkersExact'
  BY WorkersStable DEF TypeOK
<1>4. LeaseExact'
  BY DEF TypeOK, LeaseExact
<1>5. LifeExact'
  BY DEF TypeOK, LifeExact
<1>6. WithinLimits'
  BY PoolAssumption DEF TypeOK, WithinLimits
<1> QED
  BY <1>1, <1>2, <1>3, <1>4, <1>5, <1>6

(* A dropped completion gives its lease back.                              *)
LEMMA DropCompletionInv ==
  ASSUME PoolInv, NEW j \in Jobs, DropCompletion(j)
  PROVE  PoolInv'
<1> USE DEF PoolInv, DropCompletion, Forget
<1>0. /\ lease' \in SUBSET Jobs /\ inFlight' = Cardinality(lease')
      /\ inFlight' \in Nat /\ inFlight' <= MaxJobs
      /\ bytes' \in Int /\ bytes' <= BufferBytes
      /\ lease' = lease \ {j}
  BY ReleaseFacts DEF LeaseExact
<1>1. TypeOK'
  BY <1>0, PoolAssumption DEF TypeOK
<1>2. QueueExact'
  BY QueueStable DEF TypeOK
<1>3. WorkersExact'
  BY WorkersStable DEF TypeOK
<1>4. LeaseExact'
  BY <1>0 DEF TypeOK, LeaseExact
<1>5. LifeExact'
  BY DEF TypeOK, LifeExact
<1>6. WithinLimits'
  BY <1>0, PoolAssumption DEF TypeOK, WithinLimits
<1> QED
  BY <1>1, <1>2, <1>3, <1>4, <1>5, <1>6

(* A paused slice is pending again.                                        *)
LEMMA into_pendingInv ==
  ASSUME PoolInv, NEW j \in Jobs, into_pending(j)
  PROVE  PoolInv'
<1> USE DEF PoolInv, into_pending
<1>1. TypeOK'
  BY PoolAssumption DEF TypeOK
<1>2. QueueExact'
  BY QueueStable DEF TypeOK
<1>3. WorkersExact'
  BY WorkersStable DEF TypeOK
<1>4. LeaseExact'
  BY DEF TypeOK, LeaseExact
<1>5. LifeExact'
  BY DEF TypeOK, LifeExact
<1>6. WithinLimits'
  BY PoolAssumption DEF TypeOK, WithinLimits
<1> QED
  BY <1>1, <1>2, <1>3, <1>4, <1>5, <1>6

(* Adoption charges the resident ledger.                                   *)
LEMMA try_adoptInv ==
  ASSUME PoolInv, NEW j \in Jobs, try_adopt(j)
  PROVE  PoolInv'
<1> USE DEF PoolInv, try_adopt
<1>0. /\ residentUsed' \in [Adoptable -> Int]
      /\ \A k \in Adoptable : residentUsed'[k] <= MaxResident[k]
  <2> HIDE DEF Adoptable
  <2>1. Kind[j] \in Adoptable /\ ResidentBytes[j] \in Nat
    BY PoolAssumption
  <2>2. residentUsed \in [Adoptable -> Int] /\ MaxResident \in [Adoptable -> Nat]
    BY PoolAssumption DEF TypeOK
  <2> QED
    BY <2>1, <2>2 DEF WithinLimits
<1>1. TypeOK'
  BY <1>0 DEF TypeOK
<1>2. QueueExact'
  BY QueueStable DEF TypeOK
<1>3. WorkersExact'
  BY WorkersStable DEF TypeOK
<1>4. LeaseExact'
  BY DEF TypeOK, LeaseExact
<1>5. LifeExact'
  BY DEF TypeOK, LifeExact
<1>6. WithinLimits'
  BY <1>0 DEF WithinLimits
<1> QED
  BY <1>1, <1>2, <1>3, <1>4, <1>5, <1>6

(* Then the CPU lease goes.                                                *)
LEMMA AdoptReleaseInv ==
  ASSUME PoolInv, NEW j \in Jobs, AdoptRelease(j)
  PROVE  PoolInv'
<1> USE DEF PoolInv, AdoptRelease
<1>0. /\ lease' \in SUBSET Jobs /\ inFlight' = Cardinality(lease')
      /\ inFlight' \in Nat /\ inFlight' <= MaxJobs
      /\ bytes' \in Int /\ bytes' <= BufferBytes
      /\ lease' = lease \ {j}
  BY ReleaseFacts DEF LeaseExact
<1>1. TypeOK'
  BY <1>0, PoolAssumption DEF TypeOK
<1>2. QueueExact'
  BY QueueStable DEF TypeOK
<1>3. WorkersExact'
  BY WorkersStable DEF TypeOK
<1>4. LeaseExact'
  BY <1>0 DEF TypeOK, LeaseExact
<1>5. LifeExact'
  BY DEF TypeOK, LifeExact
<1>6. WithinLimits'
  BY <1>0, PoolAssumption DEF TypeOK, WithinLimits
<1> QED
  BY <1>1, <1>2, <1>3, <1>4, <1>5, <1>6

(* A dropped resident uncharges its ledger.                                *)
LEMMA DropResidentInv ==
  ASSUME PoolInv, NEW j \in Jobs, DropResident(j)
  PROVE  PoolInv'
<1> USE DEF PoolInv, DropResident, Forget
<1>0. /\ residentUsed' \in [Adoptable -> Int]
      /\ \A k \in Adoptable : residentUsed'[k] <= MaxResident[k]
  <2> HIDE DEF Adoptable
  <2>1. ResidentBytes[j] \in Nat
    BY PoolAssumption
  <2>2. residentUsed \in [Adoptable -> Int] /\ MaxResident \in [Adoptable -> Nat]
    BY PoolAssumption DEF TypeOK
  <2> QED
    <3>1. CASE Kind[j] \in Adoptable
      BY <3>1, <2>1, <2>2 DEF WithinLimits
    <3>2. CASE Kind[j] \notin Adoptable
      BY <3>2, <2>2 DEF WithinLimits
    <3> QED
      BY <3>1, <3>2
<1>1. TypeOK'
  BY <1>0 DEF TypeOK
<1>2. QueueExact'
  BY QueueStable DEF TypeOK
<1>3. WorkersExact'
  BY WorkersStable DEF TypeOK
<1>4. LeaseExact'
  BY DEF TypeOK, LeaseExact
<1>5. LifeExact'
  BY DEF TypeOK, LifeExact
<1>6. WithinLimits'
  BY <1>0 DEF WithinLimits
<1> QED
  BY <1>1, <1>2, <1>3, <1>4, <1>5, <1>6

(* A notification wakes at most one waiting thread.                        *)
LEMMA NotifyOneInv ==
  ASSUME PoolInv, NEW j \in Jobs, NotifyOne(j)
  PROVE  PoolInv'
<1> USE DEF PoolInv, NotifyOne, Woken, Waiting
<1>1. TypeOK'
  BY PoolAssumption DEF TypeOK
<1>2. QueueExact'
  BY QueueStable DEF TypeOK
<1>3. WorkersExact'
  <2>1. BusyWorkers' = BusyWorkers /\ CountedWorkers' = CountedWorkers
    BY DEF TypeOK, BusyWorkers, CountedWorkers
  <2> QED
    BY <2>1 DEF TypeOK, WorkersExact, BusyWorkers
<1>4. LeaseExact'
  BY DEF TypeOK, LeaseExact
<1>5. LifeExact'
  BY DEF TypeOK, LifeExact
<1>6. WithinLimits'
  BY PoolAssumption DEF TypeOK, WithinLimits
<1> QED
  BY <1>1, <1>2, <1>3, <1>4, <1>5, <1>6

(* A thread starts.                                                        *)
LEMMA SpawnInv ==
  ASSUME PoolInv, NEW w \in Workers, Spawn(w)
  PROVE  PoolInv'
<1> USE DEF PoolInv, Spawn
<1>1. TypeOK'
  BY PoolAssumption DEF TypeOK
<1>2. QueueExact'
  BY QueueStable DEF TypeOK
<1>3. WorkersExact'
  <2>1. BusyWorkers' = BusyWorkers /\ CountedWorkers' = CountedWorkers
    BY DEF TypeOK, BusyWorkers, CountedWorkers
  <2> QED
    BY <2>1 DEF TypeOK, WorkersExact, BusyWorkers
<1>4. LeaseExact'
  BY DEF TypeOK, LeaseExact
<1>5. LifeExact'
  BY DEF TypeOK, LifeExact
<1>6. WithinLimits'
  BY PoolAssumption DEF TypeOK, WithinLimits
<1> QED
  BY <1>1, <1>2, <1>3, <1>4, <1>5, <1>6

(* A thread wakes by itself.                                               *)
LEMMA SpuriousWakeInv ==
  ASSUME PoolInv, NEW w \in Workers, SpuriousWake(w)
  PROVE  PoolInv'
<1> USE DEF PoolInv, SpuriousWake, Woken
<1>1. TypeOK'
  BY PoolAssumption DEF TypeOK
<1>2. QueueExact'
  BY QueueStable DEF TypeOK
<1>3. WorkersExact'
  <2>1. BusyWorkers' = BusyWorkers /\ CountedWorkers' = CountedWorkers
    BY DEF TypeOK, BusyWorkers, CountedWorkers
  <2> QED
    BY <2>1 DEF TypeOK, WorkersExact, BusyWorkers
<1>4. LeaseExact'
  BY DEF TypeOK, LeaseExact
<1>5. LifeExact'
  BY DEF TypeOK, LifeExact
<1>6. WithinLimits'
  BY PoolAssumption DEF TypeOK, WithinLimits
<1> QED
  BY <1>1, <1>2, <1>3, <1>4, <1>5, <1>6

(* A thread that finds no work leaves or waits.                            *)
LEMMA ExitOrWaitInv ==
  ASSUME PoolInv, NEW w \in Workers, ExitOrWait(w)
  PROVE  PoolInv'
<1> USE DEF PoolInv, ExitOrWait
<1>1. TypeOK'
  BY PoolAssumption DEF TypeOK
<1>2. QueueExact'
  BY QueueStable DEF TypeOK
<1>3. WorkersExact'
  <2>1. BusyWorkers' = BusyWorkers /\ CountedWorkers' = CountedWorkers
    BY DEF TypeOK, BusyWorkers, CountedWorkers
  <2> QED
    BY <2>1 DEF TypeOK, WorkersExact, BusyWorkers
<1>4. LeaseExact'
  BY DEF TypeOK, LeaseExact
<1>5. LifeExact'
  BY DEF TypeOK, LifeExact
<1>6. WithinLimits'
  BY PoolAssumption DEF TypeOK, WithinLimits
<1> QED
  BY <1>1, <1>2, <1>3, <1>4, <1>5, <1>6

(* A thread takes the head of the queue.                                   *)
LEMMA PopInv ==
  ASSUME PoolInv, NEW w \in Workers, Pop(w)
  PROVE  PoolInv'
<1> USE DEF PoolInv, Pop
<1> DEFINE h == Head(queue)
<1>0. /\ h \in Jobs /\ Tail(queue) \in Seq(Jobs) /\ Len(queue) \in Nat \ {0}
      /\ Len(Tail(queue)) = Len(queue) - 1 /\ queue[1] = h
      /\ \A a \in 1..Len(queue) - 1 : Tail(queue)[a] = queue[a + 1]
  BY DEF TypeOK
<1>a. stage[h] = "queued" /\ stage' = [stage EXCEPT ![h] = "running"]
  BY <1>0 DEF QueueExact
<1>1. TypeOK'
  BY <1>0 DEF TypeOK, QueueExact
<1>2. QueueExact'
  <2>1. \A a \in 1..Len(queue) - 1 : queue[a + 1] # h
    BY <1>0 DEF QueueExact
  <2>2. \A k \in Jobs : stage'[k] = "queued" <=> k # h /\ stage[k] = "queued"
    BY <1>a DEF TypeOK
  <2>3. ASSUME NEW k \in Jobs, k # h, NEW a \in 1..Len(queue), queue[a] = k
        PROVE  \E b \in 1..Len(queue) - 1 : Tail(queue)[b] = k
    <3>1. a - 1 \in 1..Len(queue) - 1 /\ Tail(queue)[a - 1] = queue[a]
      BY <1>0, <2>3
    <3> QED
      BY <3>1, <2>3
  <2>4. ASSUME NEW k \in Jobs
        PROVE  stage'[k] = "queued" <=> \E a \in 1..Len(queue') : queue'[a] = k
    BY <1>0, <2>1, <2>2, <2>3 DEF QueueExact
  <2> QED
    BY <1>0, <2>4 DEF QueueExact
<1>3. WorkersExact'
  <2>1. worker[w] # "busy" /\ w \notin CountedWorkers
    BY DEF BusyWorkers, CountedWorkers
  <2>2. BusyWorkers' = BusyWorkers \cup {w}
    BY DEF TypeOK, BusyWorkers
  <2>3. \A v \in BusyWorkers : job[v] # h /\ job[v] \in Jobs /\ v # w
    <3>1. \A v \in BusyWorkers : stage[job[v]] \in OnWorker /\ job[v] # NoJob
      BY DEF WorkersExact, BusyWorkers
    <3>2. \A v \in BusyWorkers : v \in Workers /\ v # w
      BY <2>1 DEF BusyWorkers
    <3>3. \A v \in BusyWorkers : job[v] \in Jobs
      BY <3>1, <3>2 DEF TypeOK
    <3> QED
      BY <1>a, <3>1, <3>2, <3>3
  <2>4. CountedWorkers' = CountedWorkers \cup {w}
    BY <1>0, <1>a, <2>2, <2>3 DEF TypeOK, BusyWorkers, CountedWorkers
  <2>5. IsFiniteSet(CountedWorkers)
    BY PoolAssumption, FS_Subset DEF CountedWorkers, BusyWorkers
  <2>6. running' = Cardinality(CountedWorkers')
    BY <2>1, <2>4, <2>5, FS_AddElement DEF WorkersExact
  <2>7. \A v \in Workers : worker'[v] = "busy" <=> job'[v] # NoJob
    BY <1>0, PoolAssumption DEF TypeOK, WorkersExact
  <2>8. \A v \in BusyWorkers' : stage'[job'[v]] \in OnWorker
    BY <1>0, <1>a, <2>2, <2>3 DEF TypeOK, WorkersExact
  <2>9. \A u, v \in BusyWorkers' : job'[u] = job'[v] => u = v
    BY <2>2, <2>3 DEF TypeOK, WorkersExact
  <2>10. ASSUME NEW k \in Jobs, stage'[k] \in OnWorker
         PROVE  \E v \in BusyWorkers' : job'[v] = k
    <3>1. CASE k = h
      BY <3>1, <2>2 DEF TypeOK
    <3>2. CASE k # h
      <4>1. stage[k] \in OnWorker
        BY <3>2, <1>a, <2>10 DEF TypeOK
      <4>2. PICK v \in BusyWorkers : job[v] = k
        BY <4>1 DEF WorkersExact
      <4> QED
        BY <4>2, <2>2, <2>3 DEF TypeOK
    <3> QED
      BY <3>1, <3>2
  <2> QED
    BY <2>6, <2>7, <2>8, <2>9, <2>10 DEF WorkersExact
<1>4. LeaseExact'
  BY <1>0, <1>a DEF TypeOK, LeaseExact
<1>5. LifeExact'
  BY <1>0, <1>a DEF TypeOK, LifeExact
<1>6. WithinLimits'
  BY DEF WithinLimits
<1> QED
  BY <1>1, <1>2, <1>3, <1>4, <1>5, <1>6

(* The first cancellation check.                                           *)
LEMMA BeginInv ==
  ASSUME PoolInv, NEW w \in Workers, Begin(w)
  PROVE  PoolInv'
<1> USE DEF PoolInv, Begin
<1> DEFINE j == job[w]
<1>j. j \in Jobs /\ w \in BusyWorkers
  BY PoolAssumption DEF TypeOK, WorkersExact, BusyWorkers
<1> DEFINE dropped == Cancelled(j) /\ Kind[j] # "Section"
<1>0. /\ lease' \in SUBSET Jobs /\ inFlight' = Cardinality(lease')
      /\ inFlight' \in Nat /\ inFlight' <= MaxJobs
      /\ bytes' \in Int /\ bytes' <= BufferBytes
      /\ lease' = IF dropped THEN lease \ {j} ELSE lease
  <2>1. CASE dropped
    <3>1. j \in lease /\ Release(j)
      BY <1>j, <2>1 DEF LeaseExact
    <3> QED
      BY <1>j, <2>1, <3>1, ReleaseFacts
  <2>2. CASE ~dropped
    BY <2>2 DEF TypeOK, LeaseExact, WithinLimits
  <2> QED
    BY <2>1, <2>2
<1>s. /\ stage' \in [Jobs -> Stages]
      /\ stage'[j] = CASE ~Cancelled(j) -> "computing"
                       [] Cancelled(j) /\ Kind[j] = "Section" -> "settled"
                       [] OTHER -> "abandoned"
      /\ \A k \in Jobs \ {j} : stage'[k] = stage[k]
      /\ outcome' \in [Jobs -> Outcomes]
      /\ outcome'[j] = IF Cancelled(j) /\ Kind[j] = "Section" THEN "cancelled" ELSE outcome[j]
      /\ \A k \in Jobs \ {j} : outcome'[k] = outcome[k]
  BY <1>j DEF TypeOK
<1>1. TypeOK'
  BY <1>0, <1>s DEF TypeOK
<1>2. QueueExact'
  BY <1>s, QueueStable
<1>3. WorkersExact'
  BY <1>s, WorkersStable
<1>4. LeaseExact'
  BY <1>j, <1>0, <1>s, PoolAssumption DEF LeaseExact
<1>5. LifeExact'
  BY <1>j, <1>s DEF LifeExact
<1>6. WithinLimits'
  BY <1>0 DEF WithinLimits
<1> QED
  BY <1>1, <1>2, <1>3, <1>4, <1>5, <1>6

(* The kernel returns.                                                     *)
LEMMA SettleInv ==
  ASSUME PoolInv, NEW w \in Workers, NEW r \in Outcomes, Settle(w, r)
  PROVE  PoolInv'
<1> USE DEF PoolInv, Settle
<1> DEFINE j == job[w]
<1>j. j \in Jobs /\ w \in BusyWorkers
  BY PoolAssumption DEF TypeOK, WorkersExact, BusyWorkers
<1> DEFINE suppressed == Cancelled(j) /\ (Kind[j] = "Section" \/ (Kind[j] \in OneShot /\ r = "ok"))
           result == IF suppressed THEN "cancelled" ELSE r
           dropped == Kind[j] \in OneShot /\ result # "ok"
<1>0. /\ lease' \in SUBSET Jobs /\ inFlight' = Cardinality(lease')
      /\ inFlight' \in Nat /\ inFlight' <= MaxJobs
      /\ bytes' \in Int /\ bytes' <= BufferBytes
      /\ lease' = IF dropped THEN lease \ {j} ELSE lease
  <2>1. CASE dropped
    <3>1. j \in lease /\ Release(j)
      BY <1>j, <2>1 DEF LeaseExact
    <3> QED
      BY <1>j, <2>1, <3>1, ReleaseFacts
  <2>2. CASE ~dropped
    BY <2>2 DEF TypeOK, LeaseExact, WithinLimits
  <2> QED
    BY <2>1, <2>2
<1>s. /\ stage' \in [Jobs -> Stages] /\ stage'[j] = "settled"
      /\ \A k \in Jobs \ {j} : stage'[k] = stage[k]
      /\ outcome' \in [Jobs -> Outcomes] /\ outcome'[j] = result
      /\ \A k \in Jobs \ {j} : outcome'[k] = outcome[k]
  BY <1>j DEF TypeOK
<1>p. result = "paused" => Kind[j] = "Lighting"
  BY <1>j DEF Results
<1>1. TypeOK'
  BY <1>0, <1>s DEF TypeOK
<1>2. QueueExact'
  BY <1>s, QueueStable
<1>3. WorkersExact'
  BY <1>s, WorkersStable
<1>4. LeaseExact'
  BY <1>j, <1>0, <1>s, <1>p, PoolAssumption DEF LeaseExact
<1>5. LifeExact'
  BY <1>j, <1>s DEF LifeExact
<1>6. WithinLimits'
  BY <1>0 DEF WithinLimits
<1> QED
  BY <1>1, <1>2, <1>3, <1>4, <1>5, <1>6

(* The running count goes down.                                            *)
LEMMA finish_jobInv ==
  ASSUME PoolInv, NEW w \in Workers, finish_job(w)
  PROVE  PoolInv'
<1> USE DEF PoolInv, finish_job, Vanish, Idle
<1> DEFINE j == job[w]
<1>j. j \in Jobs /\ w \in BusyWorkers
  BY PoolAssumption DEF TypeOK, WorkersExact, BusyWorkers
<1>c. /\ w \in CountedWorkers /\ IsFiniteSet(CountedWorkers)
      /\ Cardinality(CountedWorkers \ {w}) = running - 1 /\ running - 1 \in Nat
  <2>1. w \in CountedWorkers /\ IsFiniteSet(CountedWorkers)
    BY <1>j, PoolAssumption, FS_Subset DEF CountedWorkers, BusyWorkers
  <2>2. /\ Cardinality(CountedWorkers \ {w}) = Cardinality(CountedWorkers) - 1
        /\ IsFiniteSet(CountedWorkers \ {w})
    BY <2>1, FS_RemoveElement
  <2>3. Cardinality(CountedWorkers \ {w}) \in Nat
    BY <2>2, FS_CardinalityType
  <2> QED
    BY <2>1, <2>2, <2>3 DEF WorkersExact
<1>o. \A v \in BusyWorkers \ {w} : job[v] # j /\ job[v] \in Jobs
  BY <1>j, PoolAssumption DEF TypeOK, WorkersExact, BusyWorkers
<1>s. /\ stage' \in [Jobs -> Stages]
      /\ stage'[j] \in (IF stage[j] = "settled" THEN {"finished"} ELSE {"idle", "gone"})
      /\ \A k \in Jobs \ {j} : stage'[k] = stage[k]
      /\ outcome' \in [Jobs -> Outcomes]
      /\ outcome'[j] = IF stage[j] = "settled" THEN outcome[j] ELSE "none"
      /\ \A k \in Jobs \ {j} : outcome'[k] = outcome[k]
      /\ handle' \in [Jobs -> {"none", "live", "cancelled", "dropped"}]
  BY <1>j DEF TypeOK
<1>1. TypeOK'
  BY <1>c, <1>s DEF TypeOK
<1>2. QueueExact'
  BY <1>s, QueueStable
<1>3. WorkersExact'
  <2>1. CASE stage[j] = "settled"
    <3>1. BusyWorkers' = BusyWorkers /\ CountedWorkers' = CountedWorkers \ {w}
      BY <2>1, <1>j, <1>o, <1>s DEF BusyWorkers, CountedWorkers
    <3>2. \A k \in Jobs : stage'[k] \in OnWorker <=> stage[k] \in OnWorker
      BY <2>1, <1>s
    <3> QED
      BY <2>1, <3>1, <3>2, <1>c, <1>j, <1>o, <1>s DEF WorkersExact
  <2>2. CASE stage[j] = "abandoned"
    <3>0. worker' = [worker EXCEPT ![w] = "seeking"] /\ job' = [job EXCEPT ![w] = NoJob]
      BY <2>2
    <3>1. BusyWorkers' = BusyWorkers \ {w}
      BY <3>0 DEF TypeOK, BusyWorkers
    <3>2. \A v \in BusyWorkers \ {w} : job'[v] = job[v] /\ stage'[job[v]] = stage[job[v]]
      BY <3>0, <1>o, <1>s DEF TypeOK, BusyWorkers
    <3>3. CountedWorkers' = CountedWorkers \ {w}
      BY <3>1, <3>2 DEF CountedWorkers
    <3>4. \A v \in Workers : worker'[v] = "busy" <=> job'[v] # NoJob
      BY <3>0 DEF TypeOK, WorkersExact
    <3>5. ASSUME NEW k \in Jobs, stage'[k] \in OnWorker
          PROVE  \E v \in BusyWorkers' : job'[v] = k
      <4>1. k # j /\ stage[k] \in OnWorker
        BY <2>2, <1>s, <3>5
      <4>2. PICK v \in BusyWorkers : job[v] = k
        BY <4>1 DEF WorkersExact
      <4> QED
        BY <4>1, <4>2, <3>1, <3>2
    <3> QED
      BY <3>1, <3>2, <3>3, <3>4, <3>5, <1>c DEF WorkersExact
  <2> QED
    BY <2>1, <2>2
<1>4. LeaseExact'
  BY <1>j, <1>s, PoolAssumption DEF LeaseExact
<1>5. LifeExact'
  BY <1>j, <1>s DEF TypeOK, LifeExact
<1>6. WithinLimits'
  BY DEF WithinLimits
<1> QED
  BY <1>1, <1>2, <1>3, <1>4, <1>5, <1>6

(* The completion is published or destroyed.                               *)
LEMMA PublishInv ==
  ASSUME PoolInv, NEW w \in Workers, Publish(w)
  PROVE  PoolInv'
<1> USE DEF PoolInv, Publish, Vanish, Idle
<1> DEFINE j == job[w]
<1>j. j \in Jobs /\ w \in BusyWorkers
  BY PoolAssumption DEF TypeOK, WorkersExact, BusyWorkers
<1> DEFINE lost == IF Kind[j] = "Section" THEN handle[j] = "dropped" ELSE Cancelled(j)
<1>0. /\ lease' \in SUBSET Jobs /\ inFlight' = Cardinality(lease')
      /\ inFlight' \in Nat /\ inFlight' <= MaxJobs
      /\ bytes' \in Int /\ bytes' <= BufferBytes
      /\ lease' = IF lost THEN lease \ {j} ELSE lease
  <2>1. CASE lost
    BY <1>j, <2>1, ReleaseIfHeldFacts
  <2>2. CASE ~lost
    BY <2>2 DEF TypeOK, LeaseExact, WithinLimits
  <2> QED
    BY <2>1, <2>2
<1>o. \A v \in BusyWorkers \ {w} : job[v] # j /\ job[v] \in Jobs
  BY <1>j, PoolAssumption DEF TypeOK, WorkersExact, BusyWorkers
<1>s. /\ stage' \in [Jobs -> Stages]
      /\ stage'[j] \in (IF lost THEN {"idle", "gone"} ELSE {"ready"})
      /\ \A k \in Jobs \ {j} : stage'[k] = stage[k]
      /\ outcome' \in [Jobs -> Outcomes]
      /\ outcome'[j] = IF lost THEN "none" ELSE outcome[j]
      /\ \A k \in Jobs \ {j} : outcome'[k] = outcome[k]
      /\ handle' \in [Jobs -> {"none", "live", "cancelled", "dropped"}]
  BY <1>j DEF TypeOK
<1>1. TypeOK'
  BY <1>0, <1>s DEF TypeOK
<1>2. QueueExact'
  BY <1>j, <1>s, QueueStable
<1>3. WorkersExact'
  <2>1. BusyWorkers' = BusyWorkers \ {w}
    BY DEF TypeOK, BusyWorkers
  <2>2. \A v \in BusyWorkers \ {w} : job'[v] = job[v] /\ stage'[job[v]] = stage[job[v]]
    BY <1>o, <1>s DEF TypeOK, BusyWorkers
  <2>3. w \notin CountedWorkers
    BY DEF CountedWorkers
  <2>4. CountedWorkers' = CountedWorkers
    BY <2>1, <2>2, <2>3 DEF CountedWorkers
  <2>5. \A v \in Workers : worker'[v] = "busy" <=> job'[v] # NoJob
    BY DEF TypeOK, WorkersExact
  <2>6. ASSUME NEW k \in Jobs, stage'[k] \in OnWorker
        PROVE  \E v \in BusyWorkers' : job'[v] = k
    <3>1. k # j /\ stage[k] \in OnWorker
      BY <1>s, <2>6
    <3>2. PICK v \in BusyWorkers : job[v] = k
      BY <3>1 DEF WorkersExact
    <3> QED
      BY <3>1, <3>2, <2>1, <2>2
  <2> QED
    BY <2>1, <2>2, <2>4, <2>5, <2>6 DEF WorkersExact
<1>4. LeaseExact'
  BY <1>j, <1>0, <1>s, PoolAssumption DEF LeaseExact
<1>5. LifeExact'
  BY <1>j, <1>s DEF TypeOK, LifeExact
<1>6. WithinLimits'
  BY <1>0 DEF WithinLimits
<1> QED
  BY <1>1, <1>2, <1>3, <1>4, <1>5, <1>6

(* Closing refuses further jobs.                                           *)
LEMMA CloseStateInv ==
  ASSUME PoolInv, CloseState, pool' \in {pool, "joining"}
  PROVE  PoolInv'
<1> USE DEF PoolInv, CloseState
<1>1. TypeOK'
  BY PoolAssumption DEF TypeOK
<1>2. QueueExact'
  BY QueueStable DEF TypeOK
<1>3. WorkersExact'
  BY WorkersStable DEF TypeOK
<1>4. LeaseExact'
  BY DEF TypeOK, LeaseExact
<1>5. LifeExact'
  BY DEF TypeOK, LifeExact
<1>6. WithinLimits'
  BY PoolAssumption DEF TypeOK, WithinLimits
<1> QED
  BY <1>1, <1>2, <1>3, <1>4, <1>5, <1>6

(* join returns.                                                           *)
LEMMA JoinedInv ==
  ASSUME PoolInv, Joined
  PROVE  PoolInv'
<1> USE DEF PoolInv, Joined
<1>1. TypeOK'
  BY PoolAssumption DEF TypeOK
<1>2. QueueExact'
  BY QueueStable DEF TypeOK
<1>3. WorkersExact'
  BY WorkersStable DEF TypeOK
<1>4. LeaseExact'
  BY DEF TypeOK, LeaseExact
<1>5. LifeExact'
  BY DEF TypeOK, LifeExact
<1>6. WithinLimits'
  BY PoolAssumption DEF TypeOK, WithinLimits
<1> QED
  BY <1>1, <1>2, <1>3, <1>4, <1>5, <1>6

(* Closing wakes every waiting thread.                                     *)
LEMMA NotifyAllInv ==
  ASSUME PoolInv, NotifyAll
  PROVE  PoolInv'
<1> USE DEF PoolInv, NotifyAll, Woken, Waiting
<1>1. TypeOK'
  BY PoolAssumption DEF TypeOK
<1>2. QueueExact'
  BY QueueStable DEF TypeOK
<1>3. WorkersExact'
  <2>1. BusyWorkers' = BusyWorkers /\ CountedWorkers' = CountedWorkers
    BY DEF TypeOK, BusyWorkers, CountedWorkers
  <2> QED
    BY <2>1 DEF TypeOK, WorkersExact, BusyWorkers
<1>4. LeaseExact'
  BY DEF TypeOK, LeaseExact
<1>5. LifeExact'
  BY DEF TypeOK, LifeExact
<1>6. WithinLimits'
  BY PoolAssumption DEF TypeOK, WithinLimits
<1> QED
  BY <1>1, <1>2, <1>3, <1>4, <1>5, <1>6

-----------------------------------------------------------------------------
(* A new pool has no job, no lease and no thread.                          *)
LEMMA InitInv ==
  ASSUME Init
  PROVE  PoolInv
<1> USE DEF Init
<1>1. TypeOK
  <2>1. closed \in BOOLEAN /\ notifyAll \in BOOLEAN
    OBVIOUS
  <2>2. queue \in Seq(Jobs)
    OBVIOUS
  <2>3. /\ unnotified \in SUBSET Jobs /\ lease \in SUBSET Jobs /\ resident \in SUBSET Jobs
        /\ inFlight \in Nat /\ bytes \in Int /\ queued \in Nat /\ running \in Nat
        /\ residentUsed \in [Adoptable -> Int]
    OBVIOUS
  <2>4. /\ stage \in [Jobs -> Stages] /\ outcome \in [Jobs -> Outcomes]
        /\ handle \in [Jobs -> {"none", "live", "cancelled", "dropped"}]
        /\ worker \in [Workers -> {"unspawned", "seeking", "waiting", "busy", "exited"}]
        /\ job \in [Workers -> Jobs \cup {NoJob}]
    OBVIOUS
  <2> QED
    BY <2>1, <2>2, <2>3, <2>4 DEF TypeOK
<1>2. QueueExact
  BY DEF QueueExact
<1>3. WorkersExact
  <2>1. BusyWorkers = {} /\ CountedWorkers = {}
    BY DEF BusyWorkers, CountedWorkers
  <2>2. running = Cardinality(CountedWorkers)
    BY <2>1, FS_EmptySet
  <2> QED
    BY <2>1, <2>2 DEF WorkersExact
<1>4. LeaseExact
  <2>1. inFlight = Cardinality(lease)
    BY FS_EmptySet
  <2> QED
    BY <2>1 DEF LeaseExact
<1>5. LifeExact
  BY DEF LifeExact
<1>6. WithinLimits
  BY PoolAssumption DEF WithinLimits
<1> QED
  BY <1>1, <1>2, <1>3, <1>4, <1>5, <1>6 DEF PoolInv

(* Stuttering.                                                             *)
LEMMA StutterInv ==
  ASSUME PoolInv, UNCHANGED vars
  PROVE  PoolInv'
  BY DEF PoolInv, vars, TypeOK, QueueExact, WorkersExact, BusyWorkers,
         CountedWorkers, LeaseExact, LifeExact, WithinLimits

(* Every step a client takes on a job keeps the invariant.                 *)
LEMMA ClientInv ==
  ASSUME PoolInv, NEW j \in Jobs, Client(j)
  PROVE  PoolInv'
<1>1. CASE try_reserve(j)     BY <1>1, try_reserveInv
<1>2. CASE DropPending(j)     BY <1>2, DropPendingInv
<1>3. CASE enqueue(j)         BY <1>3, enqueueInv
<1>4. CASE EnqueueClosed(j)   BY <1>4, DropPendingInv DEF EnqueueClosed
<1>5. CASE cancel(j)          BY <1>5, cancelInv
<1>6. CASE DropTask(j)        BY <1>6, DropTaskInv
<1>7. CASE TakeSection(j)     BY <1>7, TakeSectionInv
<1>8. CASE TakeOneShot(j)     BY <1>8, TakeOneShotInv
<1>9. CASE TakeCancelled(j)   BY <1>9, TakeCancelledInv
<1>10. CASE DropCompletion(j) BY <1>10, DropCompletionInv
<1>11. CASE into_pending(j)   BY <1>11, into_pendingInv
<1>12. CASE try_adopt(j)      BY <1>12, try_adoptInv
<1>13. CASE AdoptRelease(j)   BY <1>13, AdoptReleaseInv
<1>14. CASE DropResident(j)   BY <1>14, DropResidentInv
<1> QED
  BY <1>1, <1>2, <1>3, <1>4, <1>5, <1>6, <1>7, <1>8, <1>9, <1>10, <1>11,
     <1>12, <1>13, <1>14 DEF Client

(* Every step of a worker's loop keeps it.                                 *)
LEMMA WorkerStepInv ==
  ASSUME PoolInv, NEW w \in Workers, WorkerStep(w)
  PROVE  PoolInv'
<1>1. CASE Pop(w)        BY <1>1, PopInv
<1>2. CASE ExitOrWait(w) BY <1>2, ExitOrWaitInv
<1>3. CASE Begin(w)      BY <1>3, BeginInv
<1>4. CASE \E r \in Outcomes : Settle(w, r)
  BY <1>4, SettleInv
<1>5. CASE finish_job(w) BY <1>5, finish_jobInv
<1>6. CASE Publish(w)    BY <1>6, PublishInv
<1> QED
  BY <1>1, <1>2, <1>3, <1>4, <1>5, <1>6 DEF WorkerStep

(* The invariant is inductive.                                             *)
LEMMA NextInv ==
  ASSUME PoolInv, [Next]_vars
  PROVE  PoolInv'
<1>1. ASSUME NEW j \in Jobs, Client(j)       PROVE PoolInv' BY <1>1, ClientInv
<1>2. ASSUME NEW j \in Jobs, NotifyOne(j)    PROVE PoolInv' BY <1>2, NotifyOneInv
<1>3. ASSUME NEW w \in Workers, Spawn(w)     PROVE PoolInv' BY <1>3, SpawnInv
<1>4. ASSUME NEW w \in Workers, SpuriousWake(w)
      PROVE  PoolInv'
  BY <1>4, SpuriousWakeInv
<1>5. ASSUME NEW w \in Workers, WorkerStep(w) PROVE PoolInv' BY <1>5, WorkerStepInv
<1>6. CASE close     BY <1>6, CloseStateInv DEF close
<1>7. CASE join      BY <1>7, CloseStateInv DEF join
<1>8. CASE Joined    BY <1>8, JoinedInv
<1>9. CASE NotifyAll BY <1>9, NotifyAllInv
<1>10. CASE UNCHANGED vars BY <1>10, StutterInv
<1> QED
  BY <1>1, <1>2, <1>3, <1>4, <1>5, <1>6, <1>7, <1>8, <1>9, <1>10 DEF Next

(* The pool's invariant for every pool: queue, threads, leases and         *)
(* counters of src/runtime/mod.rs agree in every reachable state.          *)
THEOREM PoolInvariant == Spec => []PoolInv
<1>1. Init => PoolInv
  BY InitInv
<1>2. PoolInv /\ [Next]_vars => PoolInv'
  BY NextInv
<1> QED
  BY <1>1, <1>2, PTL DEF Spec

(* No buffer of any of the five job kinds is used uncharged, and no lease  *)
(* outlives its job, whatever the clients do with their handles.           *)
THEOREM LeaseSafety == Spec => []ChargedWhileOwned
<1>1. PoolInv => ChargedWhileOwned
  <2> SUFFICES ASSUME PoolInv, NEW j \in Jobs
               PROVE  /\ \/ stage[j] \in {"pending", "queued", "running", "computing",
                                         "held", "adopting"}
                         \/ /\ stage[j] \in {"settled", "finished", "ready"}
                            /\ outcome[j] \in {"ok", "paused"}
                         => j \in lease
                      /\ stage[j] \in {"idle", "gone", "abandoned", "resident"}
                           => j \notin lease
                      /\ j \in resident <=> stage[j] \in {"adopting", "resident"}
    BY DEF ChargedWhileOwned
  <2> QED
    BY DEF PoolInv, LeaseExact
<1> QED
  BY <1>1, PoolInvariant, PTL

(* A worker thread leaves only a closed pool with an empty queue, and a    *)
(* joined pool has left no accepted job unfinished.                        *)
THEOREM DrainSafety == Spec => []DrainedOnExit
<1>1. PoolInv => DrainedOnExit
  <2> SUFFICES ASSUME PoolInv PROVE DrainedOnExit
    OBVIOUS
  <2>1. \A w \in Workers : worker[w] = "exited" => closed /\ queue = <<>>
    BY DEF PoolInv, LifeExact
  <2>2. ASSUME pool = "joined", NEW j \in Jobs
        PROVE  stage[j] \notin OnWorker \cup {"queued"}
    <3>1. BusyWorkers = {}
      BY <2>2 DEF PoolInv, LifeExact, BusyWorkers
    <3>2. stage[j] \notin OnWorker
      BY <3>1 DEF PoolInv, WorkersExact
    <3>3. PICK w \in Workers : worker[w] \in {"unspawned", "exited"}
      BY <2>2, PoolAssumption DEF PoolInv, LifeExact
    <3>4. queue = <<>>
      BY <3>3 DEF PoolInv, LifeExact
    <3>5. stage[j] # "queued"
      BY <3>4 DEF PoolInv, QueueExact
    <3> QED
      BY <3>2, <3>5
  <2> QED
    BY <2>1, <2>2 DEF DrainedOnExit
<1> QED
  BY <1>1, PoolInvariant, PTL

(* A queue whose jobs are all in a finite set of leases is no longer than  *)
(* that set.                                                               *)
LEMMA QueueWithinLeases ==
  ASSUME PoolInv
  PROVE  /\ Len(queue) <= inFlight
         /\ \A j \in Jobs : stage[j] = "pending" => Len(queue) < inFlight
<1> DEFINE Queued == {j \in Jobs : stage[j] = "queued"}
<1>1. IsFiniteSet(lease) /\ Queued \subseteq lease /\ IsFiniteSet(Queued)
  BY PoolAssumption, FS_Subset DEF PoolInv, TypeOK, LeaseExact
<1>2. queue \in Bijection(1..Len(queue), Queued) /\ Len(queue) \in Nat
  <2>1. queue \in Seq(Jobs) /\ Len(queue) \in Nat
    BY DEF PoolInv, TypeOK
  <2>2. \A a \in 1..Len(queue) : queue[a] \in Queued
    BY <2>1 DEF PoolInv, QueueExact
  <2>3. queue \in [1..Len(queue) -> Queued]
    BY <2>1, <2>2
  <2>4. queue \in Injection(1..Len(queue), Queued)
    BY <2>3 DEF Injection, IsInjective, PoolInv, QueueExact
  <2>5. queue \in Surjection(1..Len(queue), Queued)
    BY <2>3 DEF Surjection, PoolInv, QueueExact
  <2> QED
    BY <2>1, <2>4, <2>5 DEF Bijection
<1>3. Cardinality(Queued) = Len(queue)
  <2>1. ExistsBijection(1..Len(queue), Queued)
    BY <1>2 DEF ExistsBijection
  <2> QED
    BY <2>1, <1>2, FS_CountingElements
<1>4. Cardinality(Queued) <= Cardinality(lease)
  BY <1>1, FS_Subset
<1>5. ASSUME NEW j \in Jobs, stage[j] = "pending"
      PROVE  Len(queue) < inFlight
  <2>1. j \in lease /\ j \notin Queued
    BY <1>5 DEF PoolInv, LeaseExact
  <2>2. Queued \subseteq lease \ {j}
    BY <1>1, <2>1
  <2>3. /\ IsFiniteSet(lease \ {j})
        /\ Cardinality(lease \ {j}) = Cardinality(lease) - 1
    BY <1>1, <2>1, FS_RemoveElement
  <2>4. Cardinality(Queued) <= Cardinality(lease \ {j})
    BY <2>2, <2>3, FS_Subset
  <2>5. inFlight = Cardinality(lease) /\ inFlight \in Nat
    BY DEF PoolInv, TypeOK, LeaseExact
  <2> QED
    BY <1>2, <1>3, <2>3, <2>4, <2>5
<1> QED
  BY <1>3, <1>4, <1>5 DEF PoolInv, LeaseExact

(* Admission bounds every resource, and the queue preallocated for         *)
(* max_jobs entries always has room for a job that holds a lease.          *)
THEOREM CapacitySafety == Spec => []CapacityBound
<1>1. PoolInv => CapacityBound
  <2> SUFFICES ASSUME PoolInv PROVE CapacityBound
    OBVIOUS
  <2>1. inFlight \in Nat /\ MaxJobs \in Nat /\ Len(queue) \in Nat
    BY PoolAssumption DEF PoolInv, TypeOK
  <2>2. /\ inFlight <= MaxJobs /\ bytes <= BufferBytes
        /\ \A k \in Adoptable : residentUsed[k] <= MaxResident[k]
    BY DEF PoolInv, WithinLimits
  <2>3. Len(queue) <= MaxJobs
    BY <2>1, <2>2, QueueWithinLeases
  <2>4. (\E j \in Jobs : stage[j] = "pending") => Len(queue) < MaxJobs
    BY <2>1, <2>2, QueueWithinLeases
  <2> QED
    BY <2>2, <2>3, <2>4 DEF CapacityBound
<1> QED
  BY <1>1, PoolInvariant, PTL
-----------------------------------------------------------------------------
(* Only taking a published completion hands it to the client, and both     *)
(* takes look at the cancellation flag (or channel) once more.             *)
LEMMA TakenIsLive ==
  ASSUME PoolInv, Next, NEW k \in Jobs,
         stage[k] # "held", stage'[k] = "held", Cancelled(k)
  PROVE  outcome'[k] = "cancelled"
<1> USE DEF PoolInv, TypeOK
<1>1. ASSUME NEW j \in Jobs, TakeSection(j) PROVE outcome'[k] = "cancelled"
  BY <1>1 DEF TakeSection
<1>2. ASSUME NEW j \in Jobs, TakeOneShot(j) PROVE FALSE
  BY <1>2 DEF TakeOneShot, Forget
<1>3. ASSUME NEW j \in Jobs, Client(j), ~TakeSection(j), ~TakeOneShot(j)
      PROVE  FALSE
  <2>1. CASE try_reserve(j) \/ enqueue(j) \/ cancel(j)
    BY <2>1 DEF try_reserve, enqueue, cancel
  <2>2. CASE DropPending(j) \/ EnqueueClosed(j) \/ DropTask(j)
    BY <2>2 DEF DropPending, EnqueueClosed, DropTask, Forget
  <2>3. CASE TakeCancelled(j) \/ DropCompletion(j) \/ into_pending(j)
    BY <2>3 DEF TakeCancelled, DropCompletion, into_pending, Forget
  <2>4. CASE try_adopt(j) \/ AdoptRelease(j) \/ DropResident(j)
    BY <2>4 DEF try_adopt, AdoptRelease, DropResident, Forget
  <2> QED
    BY <1>3, <2>1, <2>2, <2>3, <2>4 DEF Client
<1>4. ASSUME NEW w \in Workers, WorkerStep(w) PROVE FALSE
  <2>1. ~ExitOrWait(w)
    BY DEF ExitOrWait
  <2>2. ~Pop(w)
    <3>1. ASSUME Pop(w) PROVE Head(queue) \in Jobs
      BY <3>1 DEF Pop
    <3> QED
      BY <3>1 DEF Pop
  <2>3. ASSUME worker[w] = "busy" PROVE job[w] \in Jobs
    BY <2>3 DEF WorkersExact
  <2>4. ~Begin(w)
    BY <2>3 DEF Begin
  <2>5. ASSUME NEW r \in Outcomes, Settle(w, r) PROVE FALSE
    BY <2>3, <2>5 DEF Settle
  <2>6. ~finish_job(w)
    BY <2>3 DEF finish_job, Vanish
  <2>7. ~Publish(w)
    BY <2>3 DEF Publish, Vanish
  <2> QED
    BY <1>4, <2>1, <2>2, <2>4, <2>5, <2>6, <2>7 DEF WorkerStep
<1>5. ASSUME NEW j \in Jobs, NotifyOne(j) PROVE FALSE
  BY <1>5 DEF NotifyOne
<1>6. ASSUME NEW w \in Workers, Spawn(w) \/ SpuriousWake(w) PROVE FALSE
  BY <1>6 DEF Spawn, SpuriousWake
<1>7. ~(close \/ join \/ Joined \/ NotifyAll)
  BY DEF close, join, CloseState, Joined, NotifyAll
<1> QED
  BY <1>1, <1>2, <1>3, <1>4, <1>5, <1>6, <1>7 DEF Next

(* Cancelling before the result is taken wins over the worker's earlier    *)
(* checks, in SectionTask and in the oneshot tasks alike.                  *)
THEOREM CancelSafety == Spec => CancelSuppresses
<1>1. PoolInv /\ [Next]_vars
        => [\A j \in Jobs :
              stage[j] # "held" /\ stage'[j] = "held" /\ Cancelled(j)
                => outcome'[j] = "cancelled"]_vars
  BY TakenIsLive
<1> QED
  BY <1>1, PoolInvariant, PTL DEF Spec, CancelSuppresses

-----------------------------------------------------------------------------
(* A step leaves a ledger alone, adds one charge or takes one back.        *)
LeaseMove ==
  \/ lease' = lease /\ bytes' = bytes
  \/ \E j \in Jobs \ lease : lease' = lease \cup {j} /\ bytes' = bytes + Bytes[j]
  \/ \E j \in lease : lease' = lease \ {j} /\ bytes' = bytes - Bytes[j]

ResidentMove ==
  \/ resident' = resident /\ residentUsed' = residentUsed
  \/ \E j \in Jobs \ resident :
       /\ resident' = resident \cup {j}
       /\ residentUsed' = [residentUsed EXCEPT ![Kind[j]] = @ + ResidentBytes[j]]
  \/ \E j \in resident :
       /\ resident' = resident \ {j}
       /\ residentUsed' = [residentUsed EXCEPT ![Kind[j]] = @ - ResidentBytes[j]]

(* Giving back a lease that is there, or one that may be gone already.     *)
LEMMA ReleaseMoves ==
  ASSUME NEW j, (Release(j) /\ j \in lease) \/ ReleaseIfHeld(j)
  PROVE  LeaseMove
BY DEF Release, ReleaseIfHeld, LeaseMove

(* What each operation of a client does to the two ledgers.                *)
LEMMA ClientMoves ==
  ASSUME PoolInv, NEW j \in Jobs, Client(j)
  PROVE  LeaseMove /\ ResidentMove
<1> USE DEF PoolInv, LeaseExact
<1>1. CASE try_reserve(j)
  <2>1. j \notin lease
    BY <1>1 DEF try_reserve
  <2> QED
    BY <1>1, <2>1 DEF try_reserve, LeaseMove, ResidentMove
<1>2. CASE DropPending(j) \/ EnqueueClosed(j)
  <2>1. j \in lease /\ Release(j) /\ UNCHANGED residency
    BY <1>2 DEF DropPending, EnqueueClosed
  <2> QED
    BY <2>1, ReleaseMoves DEF ResidentMove
<1>3. CASE enqueue(j) \/ cancel(j) \/ TakeSection(j) \/ TakeCancelled(j) \/ into_pending(j)
  <2>1. UNCHANGED ledger /\ UNCHANGED residency
    BY <1>3 DEF enqueue, cancel, TakeSection, TakeCancelled, into_pending
  <2> QED
    BY <2>1 DEF LeaseMove, ResidentMove
<1>4. CASE DropTask(j)
  <2>1. (ReleaseIfHeld(j) \/ UNCHANGED ledger) /\ UNCHANGED residency
    BY <1>4 DEF DropTask
  <2> QED
    BY <2>1, ReleaseMoves DEF LeaseMove, ResidentMove
<1>5. CASE TakeOneShot(j)
  <2>1. (ReleaseIfHeld(j) \/ UNCHANGED ledger) /\ UNCHANGED residency
    BY <1>5 DEF TakeOneShot
  <2> QED
    BY <2>1, ReleaseMoves DEF LeaseMove, ResidentMove
<1>6. CASE DropCompletion(j) \/ AdoptRelease(j)
  <2>1. j \in lease /\ Release(j) /\ UNCHANGED residency
    BY <1>6 DEF DropCompletion, AdoptRelease
  <2> QED
    BY <2>1, ReleaseMoves DEF ResidentMove
<1>7. CASE try_adopt(j)
  <2>1. j \notin resident
    BY <1>7 DEF try_adopt
  <2> QED
    BY <1>7, <2>1 DEF try_adopt, LeaseMove, ResidentMove
<1>8. CASE DropResident(j)
  <2>1. j \in resident
    BY <1>8 DEF DropResident
  <2> QED
    BY <1>8, <2>1 DEF DropResident, LeaseMove, ResidentMove
<1> QED
  BY <1>1, <1>2, <1>3, <1>4, <1>5, <1>6, <1>7, <1>8 DEF Client

(* A worker only ever gives leases back.                                   *)
LEMMA WorkerMoves ==
  ASSUME PoolInv, NEW w \in Workers, WorkerStep(w)
  PROVE  LeaseMove /\ ResidentMove
<1> DEFINE j == job[w]
<1>0. worker[w] = "busy" => j \in Jobs
  BY DEF PoolInv, TypeOK, WorkersExact
<1>1. CASE Pop(w) \/ ExitOrWait(w) \/ finish_job(w)
  <2>1. UNCHANGED ledger /\ UNCHANGED residency
    BY <1>1 DEF Pop, ExitOrWait, finish_job
  <2> QED
    BY <2>1 DEF LeaseMove, ResidentMove
<1>2. CASE Begin(w)
  <2>1. worker[w] = "busy" /\ stage[j] = "running" /\ UNCHANGED residency
    BY <1>2 DEF Begin
  <2>2. Release(j) \/ UNCHANGED ledger
    BY <1>2 DEF Begin
  <2>3. j \in lease
    BY <1>0, <2>1 DEF PoolInv, LeaseExact
  <2> HIDE DEF j
  <2> QED
    BY <2>1, <2>2, <2>3, ReleaseMoves DEF LeaseMove, ResidentMove
<1>3. ASSUME NEW r \in Outcomes, Settle(w, r) PROVE LeaseMove /\ ResidentMove
  <2>1. worker[w] = "busy" /\ stage[j] = "computing" /\ UNCHANGED residency
    BY <1>3 DEF Settle
  <2>2. Release(j) \/ UNCHANGED ledger
    BY <1>3 DEF Settle
  <2>3. j \in lease
    BY <1>0, <2>1 DEF PoolInv, LeaseExact
  <2> HIDE DEF j
  <2> QED
    BY <2>1, <2>2, <2>3, ReleaseMoves DEF LeaseMove, ResidentMove
<1>4. CASE Publish(w)
  <2>1. UNCHANGED residency /\ (ReleaseIfHeld(j) \/ UNCHANGED ledger)
    BY <1>4 DEF Publish
  <2> HIDE DEF j
  <2> QED
    BY <2>1, ReleaseMoves DEF LeaseMove, ResidentMove
<1> QED
  BY <1>1, <1>2, <1>3, <1>4 DEF WorkerStep

(* So does every step.                                                     *)
LEMMA LedgerMoves ==
  ASSUME PoolInv, [Next]_vars
  PROVE  LeaseMove /\ ResidentMove
<1>1. ASSUME UNCHANGED ledger, UNCHANGED residency PROVE LeaseMove /\ ResidentMove
  BY <1>1 DEF LeaseMove, ResidentMove
<1>2. ASSUME NEW j \in Jobs, NotifyOne(j) PROVE UNCHANGED ledger /\ UNCHANGED residency
  BY <1>2 DEF NotifyOne
<1>3. ASSUME NEW w \in Workers, Spawn(w) \/ SpuriousWake(w)
      PROVE  UNCHANGED ledger /\ UNCHANGED residency
  BY <1>3 DEF Spawn, SpuriousWake
<1>4. CASE close \/ join \/ Joined \/ NotifyAll \/ UNCHANGED vars
  BY <1>1, <1>4 DEF close, join, CloseState, Joined, NotifyAll, vars
<1> QED
  BY <1>1, <1>2, <1>3, <1>4, ClientMoves, WorkerMoves DEF Next

(* A ledger that was the sum of its charges before a move is so after it.  *)
LEMMA BytesStay ==
  ASSUME PoolInv, bytes = SumBytes(Bytes, lease), LeaseMove
  PROVE  bytes' = SumBytes(Bytes, lease')
<1>1. IsFiniteSet(lease) /\ lease \in SUBSET Jobs /\ \A x \in Jobs : Bytes[x] \in Nat
  BY PoolAssumption, FS_Subset DEF PoolInv, TypeOK
<1>2. ASSUME NEW j \in Jobs \ lease, lease' = lease \cup {j}, bytes' = bytes + Bytes[j]
      PROVE  bytes' = SumBytes(Bytes, lease')
  <2>1. SumFunctionOnSet(Bytes, lease \cup {j}) = Bytes[j] + SumFunctionOnSet(Bytes, lease)
    BY <1>1, SumAdd
  <2>2. SumFunctionOnSet(Bytes, lease) \in Nat
    BY <1>1, SumNat
  <2> QED
    BY <1>1, <1>2, <2>1, <2>2 DEF SumBytes
<1>3. ASSUME NEW j \in lease, lease' = lease \ {j}, bytes' = bytes - Bytes[j]
      PROVE  bytes' = SumBytes(Bytes, lease')
  <2>1. SumFunctionOnSet(Bytes, lease) = Bytes[j] + SumFunctionOnSet(Bytes, lease \ {j})
    BY <1>1, SumRemove
  <2>2. SumFunctionOnSet(Bytes, lease \ {j}) \in Nat /\ Bytes[j] \in Nat
    BY <1>1, FS_Subset, SumNat
  <2> QED
    BY <1>3, <2>1, <2>2 DEF SumBytes
<1> QED
  BY <1>2, <1>3 DEF LeaseMove

Residents(k) == {j \in resident : Kind[j] = k}

(* Each ledger of adopted results stays the sum over its results, whether  *)
(* one enters it, one leaves it or none moves.                             *)
LEMMA ResidentsStay ==
  ASSUME PoolInv, ResidentMove, NEW k \in Adoptable,
         residentUsed[k] = SumBytes(ResidentBytes, Residents(k))
  PROVE  residentUsed'[k] = SumBytes(ResidentBytes, Residents(k)')
<1> HIDE DEF Adoptable
<1>1. /\ IsFiniteSet(Residents(k)) /\ Residents(k) \in SUBSET Jobs
      /\ \A x \in Jobs : ResidentBytes[x] \in Nat
      /\ residentUsed \in [Adoptable -> Int]
  BY PoolAssumption, FS_Subset DEF PoolInv, TypeOK, Residents
<1>2. ASSUME NEW j \in Jobs \ resident, resident' = resident \cup {j},
             residentUsed' = [residentUsed EXCEPT ![Kind[j]] = @ + ResidentBytes[j]]
      PROVE  residentUsed'[k] = SumBytes(ResidentBytes, Residents(k)')
  <2>1. CASE Kind[j] = k
    <3>1. Residents(k)' = Residents(k) \cup {j} /\ j \notin Residents(k)
      BY <1>2, <2>1 DEF Residents
    <3>2. SumFunctionOnSet(ResidentBytes, Residents(k) \cup {j})
            = ResidentBytes[j] + SumFunctionOnSet(ResidentBytes, Residents(k))
      BY <1>1, <3>1, SumAdd
    <3>3. SumFunctionOnSet(ResidentBytes, Residents(k)) \in Nat
      BY <1>1, SumNat
    <3>4. residentUsed'[k] = residentUsed[k] + ResidentBytes[j]
      BY <1>1, <1>2, <2>1
    <3> QED
      BY <1>1, <3>1, <3>2, <3>3, <3>4 DEF SumBytes
  <2>2. CASE Kind[j] # k
    <3>1. Residents(k)' = Residents(k)
      BY <1>2, <2>2 DEF Residents
    <3> QED
      BY <1>1, <1>2, <2>2, <3>1
  <2> QED
    BY <2>1, <2>2
<1>3. ASSUME NEW j \in resident, resident' = resident \ {j},
             residentUsed' = [residentUsed EXCEPT ![Kind[j]] = @ - ResidentBytes[j]]
      PROVE  residentUsed'[k] = SumBytes(ResidentBytes, Residents(k)')
  <2>1. CASE Kind[j] = k
    <3>1. Residents(k)' = Residents(k) \ {j} /\ j \in Residents(k)
      BY <1>3, <2>1 DEF Residents
    <3>2. SumFunctionOnSet(ResidentBytes, Residents(k))
            = ResidentBytes[j] + SumFunctionOnSet(ResidentBytes, Residents(k) \ {j})
      BY <1>1, <3>1, SumRemove
    <3>3. SumFunctionOnSet(ResidentBytes, Residents(k) \ {j}) \in Nat /\ ResidentBytes[j] \in Nat
      BY <1>1, <3>1, FS_Subset, SumNat
    <3>4. residentUsed'[k] = residentUsed[k] - ResidentBytes[j]
      BY <1>1, <1>3, <2>1
    <3> QED
      BY <3>1, <3>2, <3>3, <3>4 DEF SumBytes
  <2>2. CASE Kind[j] # k
    <3>1. Residents(k)' = Residents(k)
      BY <1>3, <2>2 DEF Residents
    <3> QED
      BY <1>1, <1>3, <2>2, <3>1
  <2> QED
    BY <2>1, <2>2
<1>4. CASE resident' = resident /\ residentUsed' = residentUsed
  BY <1>4 DEF Residents
<1> QED
  BY <1>2, <1>3, <1>4 DEF ResidentMove

(* reserved_buffer_bytes and each resident ledger's used_bytes equal, in   *)
(* every state, the sum of what is alive, whatever errors, cancellations,  *)
(* drops, adoptions and resumptions the jobs went through.                 *)
THEOREM AccountingSafety == Spec => []AccountingExact
<1>1. Init => AccountingExact
  <2> SUFFICES ASSUME Init PROVE AccountingExact
    OBVIOUS
  <2>1. \A k \in Adoptable : {j \in resident : Kind[j] = k} = {} /\ residentUsed[k] = 0
    BY DEF Init
  <2>2. lease = {} /\ bytes = 0 /\ inFlight = 0
    BY DEF Init
  <2>3. Cardinality({}) = 0
    BY FS_EmptySet
  <2> QED
    BY <2>1, <2>2, <2>3, SumEmpty DEF AccountingExact, SumBytes
<1>2. PoolInv /\ AccountingExact /\ [Next]_vars => AccountingExact'
  <2> SUFFICES ASSUME PoolInv, AccountingExact, [Next]_vars PROVE AccountingExact'
    OBVIOUS
  <2>1. inFlight' = Cardinality(lease')
    BY NextInv DEF PoolInv, LeaseExact
  <2>2. bytes' = SumBytes(Bytes, lease')
    BY LedgerMoves, BytesStay DEF AccountingExact
  <2>3. \A k \in Adoptable :
          residentUsed'[k] = SumBytes(ResidentBytes, Residents(k)')
    BY LedgerMoves, ResidentsStay DEF AccountingExact, Residents
  <2> QED
    BY <2>1, <2>2, <2>3 DEF AccountingExact, Residents
<1> QED
  BY <1>1, <1>2, PoolInvariant, PTL DEF Spec

=============================================================================
