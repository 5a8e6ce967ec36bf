-------------------------- MODULE SectionPreparation --------------------------
(***************************************************************************)
(* The mutable section owner of world/preparation.rs                       *)
(* (SectionPreparationOwner): loaded sources with revisions, demand for    *)
(* their network bytes, jobs in the shared CPU pool and a bounded cache of *)
(* finished ones.                                                          *)
(*                                                                         *)
(* The owner runs on one thread, so its methods are actions, except drive: *)
(* workers finish jobs and give slots back while it loops, so each turn of *)
(* its two loops is a step and no other owner method runs in between. Of   *)
(* the pool only its slots are kept: a job, a cached completion or a       *)
(* dropped but still running job each occupy one.                          *)
(*                                                                         *)
(* A palette's content is one value; its heap size only grows in set.      *)
(***************************************************************************)
EXTENDS Naturals, Sequences, FiniteSetsExt, Queues

CONSTANTS
  Chunks,        \* chunk addresses
  Sections,      \* section addresses
  ChunkOf,       \* ChunkOf[s]: the chunk of section s
  Contents,      \* palette contents with their counts
  Sizes,         \* heap sizes a source can have
  MaxChunks, MaxSections, MaxPending, MaxCached, HeapLimit,  \* PreparationLimits
  PoolSlots,     \* slots of the CPU pool this owner can get
  MaxGeneration, \* u64::MAX, where generations are exhausted
  MaxRevision,   \* u64::MAX, where revisions are exhausted
  MaxEpoch,      \* u64::MAX, where epochs are exhausted
  None

ASSUME PreparationAssumption ==
  /\ IsFiniteSet(Sections) /\ IsFiniteSet(Chunks)
  /\ ChunkOf \in [Sections -> Chunks]
  /\ {MaxChunks, MaxSections, MaxPending, MaxCached} \subseteq Nat \ {0}
  /\ MaxCached <= MaxSections
  /\ {HeapLimit, PoolSlots, MaxGeneration, MaxRevision, MaxEpoch} \subseteq Nat
  /\ Sizes \subseteq Nat
  /\ None \notin Nat

VARIABLES
  epoch, nextGeneration, nextRevision,
  heap,         \* source_heap_bytes
  chunks,       \* per chunk address, its generation or None
  sections,     \* per section address, its ResidentSection or None
  pending,      \* RequestedSection entries with their task
  dirty,        \* the dirty queue
  cacheOrder,   \* the cache_order queue
  drive,        \* the owner is inside drive: phase and index, or None
  orphans,      \* jobs whose task was dropped while a worker had them
  poolClosed    \* the pool was closed by the server

source == <<epoch, nextGeneration, nextRevision, heap, chunks>>
queues == <<pending, dirty, cacheOrder>>
vars == <<source, sections, queues, drive, orphans, poolClosed>>

Tasks == [section : Sections, epoch : 0..MaxEpoch, revision : 1..MaxRevision,
          generation : 1..MaxGeneration, input : Contents, cancelled : BOOLEAN,
          ready : BOOLEAN, ok : BOOLEAN]
ResidentSections ==
  [generation : 1..MaxGeneration, revision : 1..MaxRevision, content : Contents,
   size : Sizes, wanted : BOOLEAN, dirty : BOOLEAN, cached : Tasks \cup {None},
   failure : {"error", "cancelled", None}]
Drives == [phase : {"take", "submit"}, index : Nat \ {0}]

(* None is none of the values it stands in for.                            *)
ASSUME NoneAssumption == None \notin Tasks \cup ResidentSections \cup Drives \cup {"error", "cancelled"}

Loaded == {s \in Sections : sections[s] # None}
SizeOf == [s \in Loaded |-> sections[s].size]
PendingOf(s) == {i \in DOMAIN pending : pending[i].section = s}

(* key_at, with the generation publish compares: the identity of s now.    *)
KeyOf(s) == [section |-> s, epoch |-> epoch, revision |-> sections[s].revision,
             generation |-> sections[s].generation]
TaskKey(t) == [section |-> t.section, epoch |-> t.epoch, revision |-> t.revision,
               generation |-> t.generation]

PoolUsed == Len(pending) + Len(cacheOrder) + orphans

-----------------------------------------------------------------------------
(* Loading and unloading sources.                                          *)

load_chunk(c) ==
  /\ drive = None
  /\ chunks[c] = None
  /\ Cardinality({d \in Chunks : chunks[d] # None}) # MaxChunks
  /\ nextGeneration < MaxGeneration
  /\ nextGeneration' = nextGeneration + 1
  /\ chunks' = [chunks EXCEPT ![c] = nextGeneration + 1]
  /\ UNCHANGED <<epoch, nextRevision, heap, sections, queues, drive, orphans,
                 poolClosed>>

load_section(s, v, size) ==
  /\ drive = None
  /\ chunks[ChunkOf[s]] # None
  /\ sections[s] = None
  /\ Cardinality(Loaded) # MaxSections
  /\ nextRevision < MaxRevision
  /\ size <= HeapLimit - heap
  /\ heap' = heap + size
  /\ nextRevision' = nextRevision + 1
  /\ sections' = [sections EXCEPT ![s] =
       [generation |-> chunks[ChunkOf[s]], revision |-> nextRevision + 1,
        content |-> v, size |-> size, wanted |-> FALSE, dirty |-> FALSE,
        cached |-> None, failure |-> None]]
  /\ UNCHANGED <<epoch, nextGeneration, chunks, queues, drive, orphans, poolClosed>>

(* SectionTask::cancel on every pending job of the sections S.             *)
CancelTasks(S) ==
  [i \in DOMAIN pending |->
     IF pending[i].section \in S THEN [pending[i] EXCEPT !.cancelled = TRUE]
     ELSE pending[i]]

unload_chunk(c) ==
  LET gone == {s \in Loaded : ChunkOf[s] = c}
      others == {s \in Sections : ChunkOf[s] # c}
  IN  /\ drive = None
      /\ chunks[c] # None
      /\ chunks' = [chunks EXCEPT ![c] = None]
      /\ pending' = CancelTasks(Sections \ others)
      /\ dirty' = Retain(dirty, others)
      /\ cacheOrder' = Retain(cacheOrder, others)
      /\ sections' = [s \in Sections |-> IF s \in gone THEN None ELSE sections[s]]
      /\ heap' = heap - SumFunctionOnSet(SizeOf, gone)
      /\ UNCHANGED <<epoch, nextGeneration, nextRevision, drive, orphans, poolClosed>>

reload ==
  /\ drive = None
  /\ epoch < MaxEpoch
  /\ epoch' = epoch + 1
  /\ orphans' = orphans + Cardinality({i \in DOMAIN pending : ~pending[i].ready})
  /\ pending' = <<>> /\ dirty' = <<>> /\ cacheOrder' = <<>>
  /\ sections' = [s \in Sections |-> None]
  /\ chunks' = [c \in Chunks |-> None]
  /\ heap' = 0
  /\ UNCHANGED <<nextGeneration, nextRevision, drive, poolClosed>>

-----------------------------------------------------------------------------
(* Writes and demand.                                                      *)

(* Mutant: the bytes of the previous revision stay in the cache.           *)
ChangedKeepsBytes(s, new) ==
  /\ nextRevision' = nextRevision + 1
  /\ sections' = [sections EXCEPT ![s] =
       [new EXCEPT !.revision = nextRevision + 1, !.failure = None, !.dirty = new.wanted]]
  /\ pending' = IF new.wanted /\ ~new.dirty THEN CancelTasks({s}) ELSE pending
  /\ dirty' = IF new.wanted /\ ~new.dirty THEN Append(dirty, s) ELSE dirty
  /\ UNCHANGED cacheOrder

(* changed: a new revision drops the cached bytes and, when the section is *)
(* wanted and not already dirty, cancels its jobs and queues it once.      *)
changed(s, new) ==
  /\ nextRevision' = nextRevision + 1
  /\ sections' = [sections EXCEPT ![s] =
       [new EXCEPT !.revision = nextRevision + 1, !.failure = None,
                   !.cached = None, !.dirty = new.wanted]]
  /\ cacheOrder' = IF new.cached = None THEN cacheOrder
                   ELSE Retain(cacheOrder, Sections \ {s})
  /\ pending' = IF new.wanted /\ ~new.dirty THEN CancelTasks({s}) ELSE pending
  /\ dirty' = IF new.wanted /\ ~new.dirty THEN Append(dirty, s) ELSE dirty

(* set_block, set_biome, set_counts with a value that differs: in place,   *)
(* or into a larger palette of blocks or of biomes. The new palette has to *)
(* fit beside all that is charged; size - kept is what it takes, where     *)
(* kept is the section's other palette.                                    *)
Write(s, v, size) ==
  /\ drive = None
  /\ sections[s] # None
  /\ v # sections[s].content
  /\ nextRevision < MaxRevision
  /\ \/ size = sections[s].size
     \/ /\ size > sections[s].size
        /\ \E kept \in 0..sections[s].size : size - kept <= HeapLimit - heap
  /\ heap' = heap - sections[s].size + size
  /\ changed(s, [sections[s] EXCEPT !.content = v, !.size = size])
  /\ UNCHANGED <<epoch, nextGeneration, chunks, drive, orphans, poolClosed>>

(* Mutant: only the dirty flag is looked at before queueing again.         *)
RequestTwice(s) ==
  LET queue == sections[s].cached = None /\ ~sections[s].dirty
  IN  /\ drive = None
      /\ sections[s] # None
      /\ sections' = [sections EXCEPT ![s].wanted = TRUE, ![s].failure = None,
                                      ![s].dirty = @ \/ queue]
      /\ dirty' = IF queue THEN Append(dirty, s) ELSE dirty
      /\ UNCHANGED <<source, pending, cacheOrder, drive, orphans, poolClosed>>

request(s) ==
  LET queue == /\ sections[s].cached = None
               /\ ~sections[s].dirty
               /\ \A i \in PendingOf(s) : pending[i].epoch # epoch
                                            \/ pending[i].revision # sections[s].revision
  IN  /\ drive = None
      /\ sections[s] # None
      /\ sections' = [sections EXCEPT ![s].wanted = TRUE, ![s].failure = None,
                                      ![s].dirty = @ \/ queue]
      /\ dirty' = IF queue THEN Append(dirty, s) ELSE dirty
      /\ UNCHANGED <<source, pending, cacheOrder, drive, orphans, poolClosed>>

-----------------------------------------------------------------------------
(* drive.                                                                  *)

BeginDrive ==
  /\ drive = None
  /\ drive' = [phase |-> "take", index |-> 1]
  /\ UNCHANGED <<source, sections, queues, orphans, poolClosed>>

(* Vec::swap_remove.                                                       *)
SwapRemove(q, i) == SubSeq([q EXCEPT ![i] = q[Len(q)]], 1, Len(q) - 1)

(* publish's two early returns: unloaded, or another identity.             *)
IsCurrent(t) == sections[t.section] # None /\ TaskKey(t) = KeyOf(t.section)

(* publish of a successful completion: evict the oldest at the limit.      *)
PublishCached(t) ==
  LET s == t.section
      order == IF sections[s].cached = None THEN cacheOrder
               ELSE Retain(cacheOrder, Sections \ {s})
      full == Len(order) = MaxCached
  IN  /\ sections' =
           [x \in Sections |->
              IF x = s THEN [sections[s] EXCEPT !.cached = t, !.failure = None]
              ELSE IF full /\ x = Head(order) THEN [sections[x] EXCEPT !.cached = None]
              ELSE sections[x]]
      /\ cacheOrder' = Append(IF full THEN Tail(order) ELSE order, s)

(* Mutant: a cancelled job is not collected when it is done.               *)
TakeSkipsCancelled ==
  LET i == drive.index
      t == pending[i]
  IN  /\ drive # None
      /\ drive.phase = "take" /\ i <= Len(pending)
      /\ IF ~t.ready \/ t.cancelled
         THEN /\ drive' = [drive EXCEPT !.index = i + 1]
              /\ UNCHANGED <<sections, pending, cacheOrder>>
         ELSE /\ pending' = SwapRemove(pending, i)
              /\ UNCHANGED drive
              /\ IF IsCurrent(t) /\ t.ok THEN PublishCached(t)
                 ELSE UNCHANGED <<sections, cacheOrder>>
      /\ UNCHANGED <<source, dirty, orphans, poolClosed>>

(* One turn of the first loop; try_take reads the cancel flag again.       *)
TakeStep ==
  LET i == drive.index
      t == pending[i]
  IN  /\ drive # None
      /\ drive.phase = "take" /\ i <= Len(pending)
      /\ IF ~t.ready
         THEN /\ drive' = [drive EXCEPT !.index = i + 1]
              /\ UNCHANGED <<sections, pending, cacheOrder>>
         ELSE /\ pending' = SwapRemove(pending, i)
              /\ UNCHANGED drive
              /\ CASE ~IsCurrent(t) -> UNCHANGED <<sections, cacheOrder>>
                   [] IsCurrent(t) /\ (t.cancelled \/ ~t.ok) ->
                        /\ sections' = [sections EXCEPT ![t.section].failure =
                                          IF t.cancelled THEN "cancelled" ELSE "error"]
                        /\ UNCHANGED cacheOrder
                   [] OTHER -> PublishCached(t)
      /\ UNCHANGED <<source, dirty, orphans, poolClosed>>

TakeDone ==
  /\ drive # None
  /\ drive.phase = "take" /\ drive.index > Len(pending)
  /\ drive' = [drive EXCEPT !.phase = "submit"]
  /\ UNCHANGED <<source, sections, queues, orphans, poolClosed>>

Submitting == drive # None /\ drive.phase = "submit"
Room == PoolUsed < PoolSlots /\ ~poolClosed

(* Mutant: a submitted section stays flagged dirty.                        *)
SubmitStaysDirty ==
  LET s == Head(dirty)
  IN  /\ Submitting
      /\ dirty # <<>> /\ Len(pending) # MaxPending /\ Room
      /\ pending' = Append(pending,
           [section |-> s, epoch |-> epoch, revision |-> sections[s].revision,
            generation |-> sections[s].generation, input |-> sections[s].content,
            cancelled |-> FALSE, ready |-> FALSE, ok |-> FALSE])
      /\ dirty' = Tail(dirty)
      /\ UNCHANGED <<source, sections, cacheOrder, drive, orphans, poolClosed>>

(* One turn of the second loop that gets a slot: snapshot and submit.      *)
SubmitStep ==
  LET s == Head(dirty)
  IN  /\ Submitting
      /\ dirty # <<>> /\ Len(pending) # MaxPending /\ Room
      /\ pending' = Append(pending,
           [section |-> s, epoch |-> epoch, revision |-> sections[s].revision,
            generation |-> sections[s].generation, input |-> sections[s].content,
            cancelled |-> FALSE, ready |-> FALSE, ok |-> FALSE])
      /\ dirty' = Tail(dirty)
      /\ sections' = [sections EXCEPT ![s].dirty = FALSE]
      /\ UNCHANGED <<source, cacheOrder, drive, orphans, poolClosed>>

(* The pool is full: evict_oldest and try again.                           *)
EvictStep ==
  /\ Submitting
  /\ dirty # <<>> /\ Len(pending) # MaxPending /\ ~poolClosed
  /\ PoolUsed = PoolSlots /\ cacheOrder # <<>>
  /\ sections' = [sections EXCEPT ![Head(cacheOrder)].cached = None]
  /\ cacheOrder' = Tail(cacheOrder)
  /\ UNCHANGED <<source, pending, dirty, drive, orphans, poolClosed>>

(* Nothing left, or backpressure.                                          *)
EndDrive ==
  /\ Submitting
  /\ \/ dirty = <<>>
     \/ Len(pending) = MaxPending
     \/ poolClosed
     \/ PoolUsed = PoolSlots /\ cacheOrder = <<>>
  /\ drive' = None
  /\ UNCHANGED <<source, sections, queues, orphans, poolClosed>>

-----------------------------------------------------------------------------
(* The pool: workers finish jobs, also dropped ones; the server closes it. *)

Finish(i, ok) ==
  /\ i \in DOMAIN pending
  /\ ~pending[i].ready
  /\ pending' = [pending EXCEPT ![i].ready = TRUE, ![i].ok = ok]
  /\ UNCHANGED <<source, sections, dirty, cacheOrder, drive, orphans, poolClosed>>

FinishOrphan ==
  /\ orphans > 0
  /\ orphans' = orphans - 1
  /\ UNCHANGED <<source, sections, queues, drive, poolClosed>>

ClosePool ==
  /\ ~poolClosed
  /\ poolClosed' = TRUE
  /\ UNCHANGED <<source, sections, queues, drive, orphans>>

-----------------------------------------------------------------------------
Init ==
  /\ epoch = 0 /\ nextGeneration = 0 /\ nextRevision = 0 /\ heap = 0
  /\ chunks = [c \in Chunks |-> None]
  /\ sections = [s \in Sections |-> None]
  /\ pending = <<>> /\ dirty = <<>> /\ cacheOrder = <<>>
  /\ drive = None /\ orphans = 0 /\ poolClosed = FALSE

DriveStep == TakeStep \/ TakeDone \/ SubmitStep \/ EvictStep \/ EndDrive

Next ==
  \/ \E c \in Chunks : load_chunk(c) \/ unload_chunk(c)
  \/ \E s \in Sections :
       \/ request(s)
       \/ \E v \in Contents, size \in Sizes : load_section(s, v, size) \/ Write(s, v, size)
  \/ reload \/ BeginDrive \/ DriveStep
  \/ \E i \in 1..MaxPending, ok \in BOOLEAN : Finish(i, ok)
  \/ FinishOrphan \/ ClosePool

Spec == Init /\ [][Next]_vars

(* The owner's thread keeps calling drive and the workers keep working.    *)
FairSpec ==
  /\ Spec
  /\ WF_vars(BeginDrive) /\ WF_vars(DriveStep) /\ WF_vars(FinishOrphan)
  /\ \A i \in 1..MaxPending : WF_vars(\E ok \in BOOLEAN : Finish(i, ok))

-----------------------------------------------------------------------------
(* Type invariant of the owner.                                            *)
TypeOK ==
  /\ epoch \in 0..MaxEpoch /\ nextGeneration \in 0..MaxGeneration
  /\ nextRevision \in 0..MaxRevision
  /\ chunks \in [Chunks -> 1..MaxGeneration \cup {None}]
  /\ sections \in [Sections -> ResidentSections \cup {None}]
  /\ pending \in Seq(Tasks) /\ dirty \in Seq(Sections) /\ cacheOrder \in Seq(Sections)
  /\ drive \in Drives \cup {None} /\ poolClosed \in BOOLEAN
  /\ orphans \in Nat /\ heap \in 0..HeapLimit

(* Cached bytes are always those of the section as it is now: made by a    *)
(* successful job from the present content, for the present identity. No   *)
(* write, unload, reload or late completion leaves older bytes behind.     *)
CachedIsCurrent ==
  \A s \in Loaded :
    sections[s].cached # None =>
      /\ sections[s].cached.input = sections[s].content
      /\ TaskKey(sections[s].cached) = KeyOf(s)
      /\ sections[s].cached.ok /\ ~sections[s].cached.cancelled

(* The queues are the flags: every queued address is loaded (the code      *)
(* expects it), flagged and queued once, so neither queue outgrows the     *)
(* capacity reserved for it; source_heap_bytes is what the loaded palettes *)
(* occupy.                                                                 *)
BookkeepingExact ==
  /\ TypeOK
  /\ heap = SumFunctionOnSet(SizeOf, Loaded)
  /\ Elements(dirty) = {s \in Loaded : sections[s].dirty}
  /\ Elements(cacheOrder) = {s \in Loaded : sections[s].cached # None}
  /\ Len(dirty) = Cardinality(Elements(dirty)) /\ Len(dirty) <= MaxSections
  /\ Len(cacheOrder) = Cardinality(Elements(cacheOrder)) /\ Len(cacheOrder) <= MaxCached
  /\ Len(pending) <= MaxPending

(* Cancellation only ever hits superseded work: a job whose bytes would    *)
(* still be published is not cancelled, so a section is never failed as    *)
(* Cancelled and never waits for a job that will be suppressed.            *)
CurrentWorkNotCancelled ==
  /\ \A i \in DOMAIN pending : IsCurrent(pending[i]) => ~pending[i].cancelled
  /\ \A s \in Loaded : sections[s].failure # "cancelled"

(* One revision of a section is prepared by at most one job, and not again *)
(* once its bytes are cached: repeated requests and writes coalesce.       *)
NoDuplicateWork ==
  \A s \in Loaded :
    LET jobs == {i \in PendingOf(s) : IsCurrent(pending[i])}
    IN  /\ Cardinality(jobs) <= 1
        /\ jobs # {} => sections[s].cached = None /\ ~sections[s].dirty

(* A section's present revision has at most one job, which lives.          *)
WorkCoalesces == CurrentWorkNotCancelled /\ NoDuplicateWork

(* The queues, as an induction needs them: without repetition, inside      *)
(* their limits, and telling the same as the flags.                        *)

QueuesExact ==
  /\ Elements(dirty) = {s \in Loaded : sections[s].dirty} /\ Distinct(dirty)
  /\ Elements(cacheOrder) = {s \in Loaded : sections[s].cached # None} /\ Distinct(cacheOrder)
  /\ Len(cacheOrder) <= MaxCached /\ Len(pending) <= MaxPending
  /\ Cardinality(Loaded) <= MaxSections

(* Revisions come from one counter, so that a new one is nobody's.         *)
RevisionsIssued ==
  /\ \A s \in Loaded : sections[s].revision <= nextRevision
  /\ \A i \in DOMAIN pending : pending[i].revision <= nextRevision

(* A job that would still be published works on the present content and is *)
(* the only answer its section waits for.                                  *)
JobsCurrent ==
  \A i \in DOMAIN pending :
    LET t == pending[i]
    IN  IsCurrent(t) =>
          /\ t.input = sections[t.section].content /\ ~t.cancelled
          /\ sections[t.section].cached = None /\ ~sections[t.section].dirty
          /\ \A j \in DOMAIN pending :
               pending[j].section = t.section /\ IsCurrent(pending[j]) => j = i

(* Only wanted sections are queued, and those have no bytes yet.           *)
FlagsExact ==
  \A s \in Loaded : /\ sections[s].dirty => sections[s].wanted /\ sections[s].cached = None
                    /\ sections[s].failure # "cancelled"

(* The inductive invariant behind BookkeepingExact, CachedIsCurrent and    *)
(* WorkCoalesces.                                                          *)
PreparationInv ==
  /\ TypeOK /\ heap = SumFunctionOnSet(SizeOf, Loaded) /\ QueuesExact
  /\ RevisionsIssued /\ CachedIsCurrent /\ JobsCurrent /\ FlagsExact

Served(s) ==
  /\ sections[s] # None
  /\ sections[s].wanted
  /\ \/ sections[s].cached # None \/ sections[s].failure # None \/ sections[s].dirty
     \/ \E i \in PendingOf(s) : IsCurrent(pending[i])

(* Demand is not forgotten: a requested section that is cached, failed,    *)
(* queued or being prepared stays so under writes and late completions,    *)
(* until it is unloaded or its bytes are evicted from the cache's head.    *)
DemandKept ==
  [][\A s \in Sections :
       Served(s) /\ sections'[s] # None
         => \/ Served(s)'
            \/ cacheOrder # <<>> /\ Head(cacheOrder) = s /\ s \notin Elements(cacheOrder')]_vars

Waiting(s) ==
  /\ sections[s] # None
  /\ sections[s].dirty \/ \E i \in PendingOf(s) : IsCurrent(pending[i])

(* Every queued or submitted section gets an answer (bytes or a failure)   *)
(* as long as the owner keeps driving and the pool is open, also when      *)
(* cached bytes hold every slot of the pool.                               *)
RequestAnswered == \A s \in Sections : Waiting(s) ~> (poolClosed \/ ~Waiting(s))

(* A request is neither forgotten nor left waiting.                        *)
RequestsServed == DemandKept /\ RequestAnswered
=============================================================================
