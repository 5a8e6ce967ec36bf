----------------------- MODULE SectionPreparationProofs -----------------------
(***************************************************************************)
(* Proofs about SectionPreparation: cached bytes are those of the section  *)
(* as it is now, the queues and the heap counter say what the flags and    *)
(* palettes say, and a revision is prepared by one job that is never       *)
(* cancelled, for every number of chunks, sections, places and slots.      *)
(*                                                                         *)
(* PreparationInv is inductive. The first part is about swap_remove (for   *)
(* the other queue operations see DataFacts); then one lemma per operation *)
(* of the owner and per turn of drive's loops.                             *)
(***************************************************************************)
EXTENDS SectionPreparation, DataFacts

(* swap_remove: the last element takes the place of the removed one.       *)
LEMMA SwapRemoveFacts ==
  ASSUME NEW T, NEW q \in Seq(T), NEW i \in 1..Len(q)
  PROVE  /\ SwapRemove(q, i) \in Seq(T) /\ Len(SwapRemove(q, i)) = Len(q) - 1
         /\ \A k \in 1..(Len(q) - 1) :
              SwapRemove(q, i)[k] = IF k = i THEN q[Len(q)] ELSE q[k]
<1> DEFINE r == [q EXCEPT ![i] = q[Len(q)]]
<1>1. Len(q) \in Nat /\ Len(q) \in 1..Len(q) /\ \A k \in 1..Len(q) : q[k] \in T
  OBVIOUS
<1>2. r \in Seq(T) /\ Len(r) = Len(q) /\ \A k \in 1..Len(q) : r[k] = IF k = i THEN q[Len(q)] ELSE q[k]
  BY <1>1
<1> HIDE DEF r
<1>3. /\ SubSeq(r, 1, Len(q) - 1) \in Seq(T) /\ Len(SubSeq(r, 1, Len(q) - 1)) = Len(q) - 1
      /\ \A k \in 1..(Len(q) - 1) : SubSeq(r, 1, Len(q) - 1)[k] = r[k]
  BY <1>1, <1>2
<1>4. SwapRemove(q, i) = SubSeq(r, 1, Len(q) - 1)
  BY DEF SwapRemove, r
<1> QED
  BY <1>1, <1>2, <1>3, <1>4

-----------------------------------------------------------------------------
(* The parts of PreparationInv, each as a predicate of the pieces of state *)
(* it is about, so that a step is about the old and the new pieces.        *)

In(S) == {s \in Sections : S[s] # None}
SectionStates == [Sections -> ResidentSections \cup {None}]

(* publish would accept the completion of t.                               *)
Accepted(t, e, S) ==
  /\ S[t.section] # None /\ t.epoch = e
  /\ t.revision = S[t.section].revision /\ t.generation = S[t.section].generation

HeapPart(h, S) == h = SumFunctionOnSet([s \in In(S) |-> S[s].size], In(S))

QueuePart(d, c, S) ==
  /\ Elements(d) = {s \in In(S) : S[s].dirty} /\ Distinct(d)
  /\ Elements(c) = {s \in In(S) : S[s].cached # None} /\ Distinct(c)
  /\ Len(c) <= MaxCached

RevisionPart(n, p, S) ==
  /\ \A s \in In(S) : S[s].revision <= n
  /\ \A i \in DOMAIN p : p[i].revision <= n

CachePart(e, S) ==
  \A s \in In(S) :
    LET t == S[s].cached
    IN  t # None => /\ t.input = S[s].content /\ t.section = s /\ t.epoch = e
                    /\ t.revision = S[s].revision /\ t.generation = S[s].generation
                    /\ t.ok /\ ~t.cancelled

JobPart(p, e, S) ==
  \A i \in DOMAIN p :
    Accepted(p[i], e, S) =>
      /\ p[i].input = S[p[i].section].content /\ ~p[i].cancelled
      /\ S[p[i].section].cached = None /\ ~S[p[i].section].dirty
      /\ \A j \in DOMAIN p : p[j].section = p[i].section /\ Accepted(p[j], e, S) => j = i

FlagPart(S) ==
  \A s \in In(S) : /\ S[s].dirty => S[s].wanted /\ S[s].cached = None
                   /\ S[s].failure # "cancelled"

CountPart(p, S) == Len(p) <= MaxPending /\ Cardinality(In(S)) <= MaxSections

(* The identities publish compares.                                        *)
LEMMA AcceptedMeans ==
  /\ \A t : IsCurrent(t) <=> Accepted(t, epoch, sections)
  /\ \A t : IsCurrent(t)' <=> Accepted(t, epoch', sections')
BY DEF IsCurrent, Accepted, TaskKey, KeyOf

(* PreparationInv is its parts, before and after a step.                   *)
LEMMA Parts ==
  /\ PreparationInv <=>
       /\ TypeOK /\ HeapPart(heap, sections) /\ QueuePart(dirty, cacheOrder, sections)
       /\ RevisionPart(nextRevision, pending, sections) /\ CachePart(epoch, sections)
       /\ JobPart(pending, epoch, sections) /\ FlagPart(sections) /\ CountPart(pending, sections)
  /\ PreparationInv' <=>
       /\ TypeOK' /\ HeapPart(heap', sections') /\ QueuePart(dirty', cacheOrder', sections')
       /\ RevisionPart(nextRevision', pending', sections') /\ CachePart(epoch', sections')
       /\ JobPart(pending', epoch', sections') /\ FlagPart(sections')
       /\ CountPart(pending', sections')
<1>1. Loaded = In(sections) /\ Loaded' = In(sections')
  BY DEF Loaded, In
<1>2. /\ heap = SumFunctionOnSet(SizeOf, Loaded) <=> HeapPart(heap, sections)
      /\ (heap = SumFunctionOnSet(SizeOf, Loaded))' <=> HeapPart(heap', sections')
  BY DEF SizeOf, Loaded, In, HeapPart
<1>3. /\ QueuesExact <=> QueuePart(dirty, cacheOrder, sections) /\ CountPart(pending, sections)
      /\ QueuesExact' <=> QueuePart(dirty', cacheOrder', sections') /\ CountPart(pending', sections')
  BY DEF QueuesExact, QueuePart, CountPart, Loaded, In, Elements, Distinct
<1>4. /\ RevisionsIssued <=> RevisionPart(nextRevision, pending, sections)
      /\ RevisionsIssued' <=> RevisionPart(nextRevision', pending', sections')
      /\ FlagsExact <=> FlagPart(sections)
      /\ FlagsExact' <=> FlagPart(sections')
  BY DEF RevisionsIssued, RevisionPart, FlagsExact, FlagPart, Loaded, In
<1>5. /\ CachedIsCurrent <=> CachePart(epoch, sections)
      /\ CachedIsCurrent' <=> CachePart(epoch', sections')
  BY DEF CachedIsCurrent, CachePart, TaskKey, KeyOf, Loaded, In
<1>6. /\ JobsCurrent <=> JobPart(pending, epoch, sections)
      /\ JobsCurrent' <=> JobPart(pending', epoch', sections')
  BY DEF JobsCurrent, JobPart, IsCurrent, Accepted, TaskKey, KeyOf
<1> QED
  BY <1>2, <1>3, <1>4, <1>5, <1>6 DEF PreparationInv

(* The constants, each on its own.                                         *)
LEMMA Limits ==
  /\ MaxChunks \in Nat /\ MaxSections \in Nat /\ MaxPending \in Nat /\ MaxCached \in Nat
  /\ MaxCached > 0 /\ MaxPending > 0 /\ HeapLimit \in Nat /\ PoolSlots \in Nat
  /\ MaxGeneration \in Nat /\ MaxRevision \in Nat /\ MaxEpoch \in Nat
  /\ \A s \in Sections : ChunkOf[s] \in Chunks
  /\ \A size \in Sizes : size \in Nat
<1>1. /\ MaxChunks \in Nat \ {0} /\ MaxSections \in Nat \ {0} /\ MaxPending \in Nat \ {0}
      /\ MaxCached \in Nat \ {0}
  BY PreparationAssumption
<1>2. /\ HeapLimit \in Nat /\ PoolSlots \in Nat
      /\ MaxGeneration \in Nat /\ MaxRevision \in Nat /\ MaxEpoch \in Nat
  BY PreparationAssumption
<1>3. /\ \A s \in Sections : ChunkOf[s] \in Chunks
      /\ \A size \in Sizes : size \in Nat
  BY PreparationAssumption
<1> QED
  BY <1>1, <1>2, <1>3

(* What the fields of a section and of a job are.                          *)
LEMMA FieldTypes ==
  /\ \A r \in ResidentSections :
       /\ r # None /\ r.generation \in 1..MaxGeneration /\ r.revision \in 1..MaxRevision
       /\ r.content \in Contents /\ r.size \in Sizes /\ r.size \in Nat
       /\ r.wanted \in BOOLEAN /\ r.dirty \in BOOLEAN
       /\ r.cached \in Tasks \cup {None} /\ r.failure \in {"error", "cancelled", None}
  /\ \A t \in Tasks :
       /\ t # None /\ t.section \in Sections /\ t.epoch \in 0..MaxEpoch
       /\ t.revision \in 1..MaxRevision /\ t.generation \in 1..MaxGeneration
       /\ t.input \in Contents /\ t.cancelled \in BOOLEAN /\ t.ready \in BOOLEAN
       /\ t.ok \in BOOLEAN
<1>1. Sizes \subseteq Nat /\ None \notin ResidentSections /\ None \notin Tasks
  BY PreparationAssumption, NoneAssumption
<1>2. \A r \in ResidentSections :
        /\ r.generation \in 1..MaxGeneration /\ r.revision \in 1..MaxRevision
        /\ r.content \in Contents /\ r.size \in Sizes
        /\ r.wanted \in BOOLEAN /\ r.dirty \in BOOLEAN
        /\ r.cached \in Tasks \cup {None} /\ r.failure \in {"error", "cancelled", None}
  BY DEF ResidentSections
<1>3. \A t \in Tasks :
        /\ t.section \in Sections /\ t.epoch \in 0..MaxEpoch
        /\ t.revision \in 1..MaxRevision /\ t.generation \in 1..MaxGeneration
        /\ t.input \in Contents /\ t.cancelled \in BOOLEAN /\ t.ready \in BOOLEAN
        /\ t.ok \in BOOLEAN
  BY DEF Tasks
<1> QED
  BY <1>1, <1>2, <1>3

(* The heap after sections changed without any palette changing its size.  *)
LEMMA HeapSame ==
  ASSUME NEW S, NEW S2, NEW h, HeapPart(h, S), In(S2) = In(S),
         \A x \in In(S) : S2[x].size = S[x].size
  PROVE  HeapPart(h, S2)
<1>1. [x \in In(S2) |-> S2[x].size] = [x \in In(S) |-> S[x].size]
  OBVIOUS
<1> QED
  BY <1>1 DEF HeapPart

(* One section is written, replaced or loaded.                             *)
LEMMA OneSection ==
  ASSUME NEW S \in SectionStates, NEW s \in Sections, NEW r \in ResidentSections,
         NEW S2 \in SectionStates, S2[s] = r, \A x \in Sections : x # s => S2[x] = S[x],
         NEW h, HeapPart(h, S)
  PROVE  /\ In(S2) = In(S) \cup {s}
         /\ h \in Nat /\ IsFiniteSet(In(S))
         /\ s \in In(S) => S[s].size \in Nat /\ S[s].size <= h
         /\ HeapPart(h - (IF s \in In(S) THEN S[s].size ELSE 0) + r.size, S2)
<1> DEFINE w == [x \in In(S) |-> S[x].size]
           w2 == [x \in In(S2) |-> S2[x].size]
           rest == In(S) \ {s}
<1>1. r # None
  BY FieldTypes
<1>2. In(S2) = In(S) \cup {s} /\ In(S2) \ {s} = rest
  BY <1>1 DEF In
<1>3. IsFiniteSet(In(S)) /\ IsFiniteSet(In(S2)) /\ IsFiniteSet(rest)
  <2>1. In(S) \in SUBSET Sections /\ In(S2) \in SUBSET Sections /\ rest \in SUBSET Sections
    BY DEF In
  <2> QED
    BY <2>1, PreparationAssumption, FS_Subset
<1>4. \A x \in In(S) : S[x] \in ResidentSections /\ w[x] = S[x].size /\ w[x] \in Nat
  BY FieldTypes DEF In, SectionStates
<1>5. \A x \in In(S2) : w2[x] = S2[x].size /\ w2[x] \in Nat
  <2>1. \A x \in In(S2) : S2[x] \in ResidentSections
    BY <1>1 DEF In, SectionStates
  <2> QED
    BY <2>1, FieldTypes
<1>6. \A x \in rest : w2[x] = w[x]
  <2>1. \A x \in rest : x \in In(S) /\ x \in In(S2) /\ x # s /\ x \in Sections
    BY <1>2 DEF In
  <2> QED
    BY <2>1
<1> HIDE DEF w, w2, rest
<1>7. SumFunctionOnSet(w2, rest) = SumFunctionOnSet(w, rest)
  BY <1>3, <1>6, SumSame
<1>8. s \in In(S2) /\ SumFunctionOnSet(w2, In(S2)) = r.size + SumFunctionOnSet(w2, rest)
  <2>1. s \in In(S2) /\ w2[s] = r.size
    BY <1>1, <1>2, <1>5
  <2> QED
    BY <1>2, <1>3, <1>5, <2>1, SumRemove
<1>9. h = SumFunctionOnSet(w, In(S)) /\ h \in Nat
  BY <1>3, <1>4, SumNat DEF HeapPart, w
<1>10. \A v : v = SumFunctionOnSet(w2, In(S2)) => HeapPart(v, S2)
  BY DEF HeapPart, w2
<1>11. CASE s \in In(S)
  <2>1. h = w[s] + SumFunctionOnSet(w, rest)
    BY <1>3, <1>4, <1>9, <1>11, SumRemove DEF rest
  <2>2. SumFunctionOnSet(w, rest) \in Nat
    BY <1>3, <1>4, SumNat DEF rest
  <2>3. r.size \in Nat /\ w[s] = S[s].size /\ w[s] \in Nat
    BY <1>4, <1>11, FieldTypes
  <2>4. S[s].size <= h /\ h - S[s].size + r.size = SumFunctionOnSet(w2, In(S2))
    BY <1>7, <1>8, <2>1, <2>2, <2>3
  <2> QED
    BY <1>1, <1>2, <1>3, <1>9, <1>10, <1>11, <2>3, <2>4
<1>12. CASE s \notin In(S)
  <2>1. rest = In(S)
    BY <1>12 DEF rest
  <2>2. r.size \in Nat
    BY FieldTypes
  <2>3. h - 0 + r.size = SumFunctionOnSet(w2, In(S2))
    BY <1>7, <1>8, <1>9, <2>1, <2>2
  <2> QED
    BY <1>1, <1>2, <1>3, <1>9, <1>10, <1>12, <2>3
<1> QED
  BY <1>11, <1>12

(* Cached bytes stay right where nothing they depend on changed.           *)
LEMMA CacheStay ==
  ASSUME NEW S, NEW S2, NEW e, CachePart(e, S),
         \A x \in In(S2) :
           \/ S2[x].cached = None
           \/ /\ x \in In(S) /\ S2[x].cached = S[x].cached /\ S2[x].content = S[x].content
              /\ S2[x].revision = S[x].revision /\ S2[x].generation = S[x].generation
  PROVE  CachePart(e, S2)
<1> SUFFICES ASSUME NEW x \in In(S2), S2[x].cached # None
             PROVE  /\ S2[x].cached.input = S2[x].content /\ S2[x].cached.section = x
                    /\ S2[x].cached.epoch = e
                    /\ S2[x].cached.revision = S2[x].revision
                    /\ S2[x].cached.generation = S2[x].generation
                    /\ S2[x].cached.ok /\ ~S2[x].cached.cancelled
  BY DEF CachePart
<1>1. /\ x \in In(S) /\ S2[x].cached = S[x].cached /\ S2[x].content = S[x].content
      /\ S2[x].revision = S[x].revision /\ S2[x].generation = S[x].generation
  OBVIOUS
<1>2. /\ S[x].cached.input = S[x].content /\ S[x].cached.section = x
      /\ S[x].cached.epoch = e /\ S[x].cached.revision = S[x].revision
      /\ S[x].cached.generation = S[x].generation
      /\ S[x].cached.ok /\ ~S[x].cached.cancelled
  BY <1>1 DEF CachePart
<1> QED
  BY <1>1, <1>2

(* Steps that change flags, failures or drop cached bytes, but no source.  *)
LEMMA SourcesStay ==
  ASSUME NEW S \in SectionStates, NEW S2 \in SectionStates, NEW h, HeapPart(h, S),
         In(S2) = In(S),
         \A x \in In(S) :
           /\ S2[x].size = S[x].size /\ S2[x].content = S[x].content
           /\ S2[x].revision = S[x].revision /\ S2[x].generation = S[x].generation
  PROVE  /\ HeapPart(h, S2)
         /\ \A e : \A t \in Tasks : Accepted(t, e, S2) <=> Accepted(t, e, S)
<1>1. HeapPart(h, S2)
  BY HeapSame
<1>2. ASSUME NEW e, NEW t \in Tasks PROVE Accepted(t, e, S2) <=> Accepted(t, e, S)
  <2>1. t.section \in Sections
    BY FieldTypes
  <2>2. t.section \in In(S2) <=> t.section \in In(S)
    OBVIOUS
  <2> QED
    BY <2>1, <2>2 DEF Accepted, In
<1> QED
  BY <1>1, <1>2

(* Jobs keep their part: each job there is comes from one there was, and   *)
(* is accepted only if that one was, for a section still without bytes.    *)
LEMMA JobsKept ==
  ASSUME NEW p, NEW p2, NEW e, NEW e2, NEW S, NEW S2, JobPart(p, e, S), NEW o,
         \A j \in DOMAIN p2 : /\ o[j] \in DOMAIN p /\ p2[j].section = p[o[j]].section
                              /\ p2[j].input = p[o[j]].input,
         \A j, k \in DOMAIN p2 : o[j] = o[k] => j = k,
         \A j \in DOMAIN p2 :
           Accepted(p2[j], e2, S2) =>
             /\ Accepted(p[o[j]], e, S) /\ ~p2[j].cancelled
             /\ S2[p2[j].section].content = S[p2[j].section].content
             /\ S2[p2[j].section].cached = None /\ ~S2[p2[j].section].dirty
  PROVE  JobPart(p2, e2, S2)
<1> SUFFICES ASSUME NEW i \in DOMAIN p2, Accepted(p2[i], e2, S2)
             PROVE  /\ p2[i].input = S2[p2[i].section].content /\ ~p2[i].cancelled
                    /\ S2[p2[i].section].cached = None /\ ~S2[p2[i].section].dirty
                    /\ \A j \in DOMAIN p2 :
                         p2[j].section = p2[i].section /\ Accepted(p2[j], e2, S2) => j = i
  BY DEF JobPart
<1>1. o[i] \in DOMAIN p /\ Accepted(p[o[i]], e, S)
  OBVIOUS
<1>2. /\ p[o[i]].input = S[p[o[i]].section].content
      /\ \A j \in DOMAIN p : p[j].section = p[o[i]].section /\ Accepted(p[j], e, S) => j = o[i]
  BY <1>1 DEF JobPart
<1> QED
  BY <1>1, <1>2
(* The same, when every job keeps its place.                               *)
LEMMA JobsStay ==
  ASSUME NEW p, NEW p2, NEW e, NEW e2, NEW S, NEW S2, JobPart(p, e, S),
         DOMAIN p2 = DOMAIN p,
         \A j \in DOMAIN p : p2[j].section = p[j].section /\ p2[j].input = p[j].input,
         \A j \in DOMAIN p :
           Accepted(p2[j], e2, S2) =>
             /\ Accepted(p[j], e, S) /\ ~p2[j].cancelled
             /\ S2[p[j].section].content = S[p[j].section].content
             /\ S2[p[j].section].cached = None /\ ~S2[p[j].section].dirty
  PROVE  JobPart(p2, e2, S2)
<1> SUFFICES ASSUME NEW i \in DOMAIN p, Accepted(p2[i], e2, S2)
             PROVE  /\ p2[i].input = S2[p2[i].section].content /\ ~p2[i].cancelled
                    /\ S2[p2[i].section].cached = None /\ ~S2[p2[i].section].dirty
                    /\ \A j \in DOMAIN p :
                         p2[j].section = p2[i].section /\ Accepted(p2[j], e2, S2) => j = i
  BY DEF JobPart
<1>1. Accepted(p[i], e, S)
  OBVIOUS
<1>2. /\ p[i].input = S[p[i].section].content
      /\ \A j \in DOMAIN p : p[j].section = p[i].section /\ Accepted(p[j], e, S) => j = i
  BY <1>1 DEF JobPart
<1> QED
  BY <1>1, <1>2

(* Steps that leave the owner's sections, counters and queues alone.       *)
LEMMA Untouched ==
  ASSUME PreparationInv, TypeOK',
         UNCHANGED <<epoch, nextRevision, heap, sections, pending, dirty, cacheOrder>>
  PROVE  PreparationInv'
BY Parts

(* Loading a chunk, entering and leaving drive, the worker of a dropped    *)
(* job and closing the pool.                                               *)
LEMMA QuietInv ==
  ASSUME PreparationInv,
         (\E c \in Chunks : load_chunk(c)) \/ BeginDrive \/ TakeDone \/ EndDrive
           \/ FinishOrphan \/ ClosePool \/ UNCHANGED vars
  PROVE  PreparationInv'
<1>1. TypeOK
  BY DEF PreparationInv
<1>2. CASE \E c \in Chunks : load_chunk(c)
  <2>1. TypeOK'
    BY <1>1, <1>2, Limits DEF TypeOK, load_chunk, queues
  <2> QED
    BY <1>2, <2>1, Untouched DEF load_chunk, queues
<1>3. CASE BeginDrive \/ TakeDone \/ EndDrive
  <2>1. drive' \in Drives \cup {None}
    <3>1. CASE BeginDrive
      BY <3>1 DEF BeginDrive, Drives
    <3>2. CASE TakeDone
      <4>1. drive \in Drives /\ drive' = [drive EXCEPT !.phase = "submit"]
        BY <1>1, <3>2 DEF TakeDone, TypeOK
      <4> QED
        BY <4>1 DEF Drives
    <3>3. CASE EndDrive
      BY <3>3 DEF EndDrive
    <3> QED
      BY <1>3, <3>1, <3>2, <3>3
  <2>2. TypeOK'
    BY <1>1, <1>3, <2>1 DEF TypeOK, BeginDrive, TakeDone, EndDrive, source, queues
  <2> QED
    BY <1>3, <2>2, Untouched DEF BeginDrive, TakeDone, EndDrive, source, queues
<1>4. CASE FinishOrphan \/ ClosePool \/ UNCHANGED vars
  <2>1. orphans' \in Nat /\ poolClosed' \in BOOLEAN
    <3>1. orphans \in Nat /\ poolClosed \in BOOLEAN
      BY <1>1 DEF TypeOK
    <3>2. CASE FinishOrphan
      <4>1. orphans' \in Nat
        BY <3>1, <3>2 DEF FinishOrphan
      <4> QED
        BY <3>1, <3>2, <4>1 DEF FinishOrphan
    <3>3. CASE ClosePool
      BY <3>1, <3>3 DEF ClosePool
    <3>4. CASE UNCHANGED vars
      BY <3>1, <3>4 DEF vars
    <3> QED
      BY <1>4, <3>2, <3>3, <3>4
  <2>2. UNCHANGED <<source, sections, queues, drive>>
    BY <1>4 DEF FinishOrphan, ClosePool, vars
  <2>3. TypeOK'
    BY <1>1, <2>1, <2>2 DEF TypeOK, source, queues
  <2> QED
    BY <2>2, <2>3, Untouched DEF source, queues
<1> QED
  BY <1>2, <1>3, <1>4

(* The invariant holds when the owner is created.                          *)
LEMMA PreparationStart == Init => PreparationInv
<1> SUFFICES ASSUME Init PROVE PreparationInv
  OBVIOUS
<1>1. TypeOK
  <2>1. /\ epoch \in 0..MaxEpoch /\ nextGeneration \in 0..MaxGeneration
        /\ nextRevision \in 0..MaxRevision /\ orphans \in Nat /\ heap \in 0..HeapLimit
    BY Limits DEF Init
  <2>2. /\ chunks \in [Chunks -> 1..MaxGeneration \cup {None}]
        /\ sections \in [Sections -> ResidentSections \cup {None}]
        /\ drive \in Drives \cup {None}
    BY DEF Init
  <2>3. pending \in Seq(Tasks) /\ dirty \in Seq(Sections) /\ cacheOrder \in Seq(Sections)
    BY DEF Init
  <2>4. poolClosed \in BOOLEAN
    BY DEF Init
  <2> QED
    BY <2>1, <2>2, <2>3, <2>4 DEF TypeOK
<1>2. In(sections) = {}
  BY DEF Init, In
<1>3. HeapPart(heap, sections)
  BY <1>2, SumEmpty DEF Init, HeapPart
<1>4. QueuePart(dirty, cacheOrder, sections)
  BY <1>2, Limits DEF Init, QueuePart, Elements, Distinct
<1>5. CountPart(pending, sections)
  <2>1. Len(pending) = 0
    BY DEF Init
  <2>2. Cardinality(In(sections)) = 0
    BY <1>2, FS_EmptySet
  <2> QED
    BY <2>1, <2>2, Limits DEF CountPart
<1>6. /\ RevisionPart(nextRevision, pending, sections) /\ CachePart(epoch, sections)
      /\ JobPart(pending, epoch, sections) /\ FlagPart(sections)
  BY <1>2 DEF Init, RevisionPart, CachePart, JobPart, FlagPart
<1> QED
  BY <1>1, <1>3, <1>4, <1>5, <1>6, Parts

-----------------------------------------------------------------------------
(* Loading and unloading.                                                  *)

(* A new section has a revision no job was made for.                       *)
LEMMA load_sectionInv ==
  ASSUME PreparationInv, NEW s \in Sections, NEW v \in Contents, NEW size \in Sizes,
         load_section(s, v, size)
  PROVE  PreparationInv'
<1> DEFINE r == [generation |-> chunks[ChunkOf[s]], revision |-> nextRevision + 1,
                 content |-> v, size |-> size, wanted |-> FALSE, dirty |-> FALSE,
                 cached |-> None, failure |-> None]
<1>1. /\ TypeOK /\ HeapPart(heap, sections) /\ QueuePart(dirty, cacheOrder, sections)
      /\ RevisionPart(nextRevision, pending, sections) /\ CachePart(epoch, sections)
      /\ JobPart(pending, epoch, sections) /\ FlagPart(sections) /\ CountPart(pending, sections)
  BY Parts
<1>2. /\ chunks[ChunkOf[s]] # None /\ sections[s] = None
      /\ Cardinality(Loaded) # MaxSections /\ nextRevision < MaxRevision
      /\ size <= HeapLimit - heap /\ heap' = heap + size
      /\ nextRevision' = nextRevision + 1 /\ sections' = [sections EXCEPT ![s] = r]
      /\ UNCHANGED <<epoch, nextGeneration, chunks, pending, dirty, cacheOrder, drive, orphans, poolClosed>>
  BY DEF load_section, queues
<1>3. r \in ResidentSections
  <2>1. chunks \in [Chunks -> 1..MaxGeneration \cup {None}] /\ nextRevision \in 0..MaxRevision
    BY <1>1 DEF TypeOK
  <2>2. chunks[ChunkOf[s]] # None /\ ChunkOf[s] \in Chunks
    BY <1>2, Limits
  <2>3. chunks[ChunkOf[s]] \in 1..MaxGeneration
    BY <2>1, <2>2
  <2>4. nextRevision < MaxRevision /\ MaxRevision \in Nat
    BY <1>2, Limits
  <2>5. nextRevision + 1 \in 1..MaxRevision
    BY <2>1, <2>4
  <2> QED
    BY <2>3, <2>5 DEF ResidentSections
<1>4. /\ r.revision = nextRevision + 1 /\ r.size = size /\ r.dirty = FALSE
      /\ r.cached = None /\ r.failure = None
  OBVIOUS
<1> HIDE DEF r
<1>5. /\ sections \in SectionStates /\ sections' \in SectionStates /\ sections'[s] = r
      /\ \A x \in Sections : x # s => sections'[x] = sections[x]
  BY <1>1, <1>2, <1>3 DEF TypeOK, SectionStates
<1>6. s \notin In(sections) /\ size \in Nat
  BY <1>2, Limits DEF In
<1>7. /\ In(sections') = In(sections) \cup {s} /\ heap \in Nat /\ IsFiniteSet(In(sections))
      /\ HeapPart(heap + size, sections')
  <2>1. /\ In(sections') = In(sections) \cup {s} /\ heap \in Nat /\ IsFiniteSet(In(sections))
        /\ HeapPart(heap - 0 + size, sections')
    BY <1>1, <1>3, <1>4, <1>5, <1>6, OneSection
  <2> QED
    BY <1>6, <2>1
<1>8. TypeOK'
  BY <1>1, <1>2, <1>5, <1>6, <1>7, Limits DEF TypeOK, SectionStates
<1>9. QueuePart(dirty', cacheOrder', sections')
  <2>1. /\ {x \in In(sections') : sections'[x].dirty} = {x \in In(sections) : sections[x].dirty}
        /\ {x \in In(sections') : sections'[x].cached # None}
             = {x \in In(sections) : sections[x].cached # None}
    BY <1>4, <1>5, <1>6, <1>7 DEF In
  <2> QED
    BY <1>1, <1>2, <2>1 DEF QueuePart
<1>10. CountPart(pending', sections')
  <2>1. Cardinality(In(sections')) = Cardinality(In(sections)) + 1 /\ Cardinality(In(sections)) \in Nat
    <3>1. /\ Cardinality(In(sections)) \in Nat
          /\ Cardinality(In(sections) \cup {s}) = Cardinality(In(sections)) + 1
      BY <1>6, <1>7, CountOne
    <3> QED
      BY <1>7, <3>1
  <2>2. Cardinality(In(sections)) # MaxSections
    BY <1>2 DEF In, Loaded
  <2> QED
    BY <1>1, <1>2, <2>1, <2>2, Limits DEF CountPart
<1>11. RevisionPart(nextRevision', pending', sections')
  <2>1. \A x \in In(sections) : sections[x].revision \in Nat /\ sections[x].revision <= nextRevision
    BY <1>1, FieldTypes DEF RevisionPart, In, TypeOK
  <2>2. \A i \in DOMAIN pending : pending[i].revision \in Nat /\ pending[i].revision <= nextRevision
    BY <1>1, FieldTypes DEF RevisionPart, TypeOK
  <2>3. nextRevision \in Nat
    BY <1>1 DEF TypeOK
  <2> QED
    BY <1>2, <1>4, <1>5, <1>7, <2>1, <2>2, <2>3 DEF RevisionPart, In
<1>12. CachePart(epoch', sections') /\ FlagPart(sections')
  <2>1. None # "cancelled"
    BY NoneAssumption
  <2> QED
    BY <1>1, <1>2, <1>4, <1>5, <1>7, <2>1 DEF CachePart, FlagPart, In
<1>13. JobPart(pending', epoch', sections')
  <2>1. ASSUME NEW i \in DOMAIN pending, Accepted(pending[i], epoch, sections')
        PROVE  Accepted(pending[i], epoch, sections) /\ pending[i].section # s
                 /\ sections'[pending[i].section] = sections[pending[i].section]
    <3>1. pending[i].section \in Sections /\ pending[i].revision <= nextRevision
            /\ pending[i].revision \in Nat /\ nextRevision \in Nat
      BY <1>1, FieldTypes DEF TypeOK, RevisionPart
    <3>2. pending[i].section # s
      BY <1>4, <1>5, <2>1, <3>1 DEF Accepted
    <3> QED
      BY <1>5, <2>1, <3>1, <3>2 DEF Accepted
  <2>2. JobPart(pending, epoch, sections) /\ pending' = pending /\ epoch' = epoch
    BY <1>1, <1>2
  <2>3. JobPart(pending, epoch, sections')
    BY <2>1, <2>2 DEF JobPart
  <2> QED
    BY <2>2, <2>3
<1> QED
  BY <1>2, <1>7, <1>8, <1>9, <1>10, <1>11, <1>12, <1>13, Parts

(* Cancelling marks jobs and changes nothing else about them.              *)
LEMMA CancelFacts ==
  ASSUME pending \in Seq(Tasks), NEW Z
  PROVE  /\ CancelTasks(Z) \in Seq(Tasks) /\ DOMAIN CancelTasks(Z) = DOMAIN pending
         /\ Len(CancelTasks(Z)) = Len(pending)
         /\ \A i \in DOMAIN pending :
              LET t == CancelTasks(Z)[i]
              IN  /\ t.section = pending[i].section /\ t.epoch = pending[i].epoch
                  /\ t.revision = pending[i].revision /\ t.generation = pending[i].generation
                  /\ t.input = pending[i].input
                  /\ pending[i].section \notin Z => t.cancelled = pending[i].cancelled
<1> DEFINE new(t) == IF t.section \in Z THEN [t EXCEPT !.cancelled = TRUE] ELSE t
<1>1. \A t \in Tasks :
        /\ new(t) \in Tasks /\ new(t).section = t.section /\ new(t).epoch = t.epoch
        /\ new(t).revision = t.revision /\ new(t).generation = t.generation
        /\ new(t).input = t.input /\ (t.section \notin Z => new(t).cancelled = t.cancelled)
  BY DEF Tasks
<1>2. CancelTasks(Z) = [i \in 1..Len(pending) |-> new(pending[i])]
  BY DEF CancelTasks
<1>3. Len(pending) \in Nat /\ DOMAIN pending = 1..Len(pending)
        /\ \A i \in 1..Len(pending) : pending[i] \in Tasks
  OBVIOUS
<1> HIDE DEF new
<1>4. CancelTasks(Z) \in Seq(Tasks) /\ Len(CancelTasks(Z)) = Len(pending)
        /\ DOMAIN CancelTasks(Z) = DOMAIN pending
  BY <1>1, <1>2, <1>3
<1>5. \A i \in DOMAIN pending : CancelTasks(Z)[i] = new(pending[i])
  BY <1>2, <1>3
<1> QED
  BY <1>1, <1>3, <1>4, <1>5

(* Jobs of chunk c are cancelled, its addresses leave the queues and its   *)
(* palettes the heap.                                                      *)
LEMMA unload_chunkInv ==
  ASSUME PreparationInv, NEW c \in Chunks, unload_chunk(c)
  PROVE  PreparationInv'
<1> DEFINE gone == {s \in Loaded : ChunkOf[s] = c}
           others == {s \in Sections : ChunkOf[s] # c}
           w == [x \in In(sections) |-> sections[x].size]
<1>1. /\ TypeOK /\ HeapPart(heap, sections) /\ QueuePart(dirty, cacheOrder, sections)
      /\ RevisionPart(nextRevision, pending, sections) /\ CachePart(epoch, sections)
      /\ JobPart(pending, epoch, sections) /\ FlagPart(sections) /\ CountPart(pending, sections)
  BY Parts
<1>2. /\ chunks' = [chunks EXCEPT ![c] = None]
      /\ pending' = CancelTasks(Sections \ others)
      /\ dirty' = Retain(dirty, others)
      /\ cacheOrder' = Retain(cacheOrder, others)
      /\ sections' = [s \in Sections |-> IF s \in gone THEN None ELSE sections[s]]
      /\ heap' = heap - SumFunctionOnSet(SizeOf, gone)
      /\ UNCHANGED <<epoch, nextGeneration, nextRevision, drive, orphans, poolClosed>>
  BY DEF unload_chunk
<1>3. /\ sections \in SectionStates /\ pending \in Seq(Tasks) /\ dirty \in Seq(Sections)
      /\ cacheOrder \in Seq(Sections) /\ heap \in 0..HeapLimit
      /\ chunks \in [Chunks -> 1..MaxGeneration \cup {None}]
  BY <1>1 DEF TypeOK, SectionStates
<1>4. Loaded = In(sections) /\ SizeOf = w
  BY DEF Loaded, In, SizeOf
<1>5. /\ In(sections') = In(sections) \ gone /\ In(sections') = In(sections) \cap others
      /\ \A x \in In(sections') : sections'[x] = sections[x]
      /\ sections' \in SectionStates
  BY <1>2, <1>3, <1>4 DEF In, SectionStates
<1>6. \A x \in Sections : ChunkOf[x] = c => sections'[x] = None
  BY <1>2, <1>4 DEF In
<1>7. IsFiniteSet(In(sections)) /\ gone \in SUBSET In(sections)
  <2>1. In(sections) \in SUBSET Sections
    BY DEF In
  <2> QED
    BY <1>4, <2>1, PreparationAssumption, FS_Subset
<1>8. \A x \in In(sections) : w[x] = sections[x].size /\ w[x] \in Nat
  BY <1>3, FieldTypes DEF In, SectionStates
<1> HIDE DEF w, gone
<1>9. heap' \in 0..HeapLimit /\ HeapPart(heap', sections')
  <2>1. heap = SumFunctionOnSet(w, In(sections))
    BY <1>1 DEF HeapPart, w
  <2>2. /\ SumFunctionOnSet(w, In(sections) \ gone)
             = SumFunctionOnSet(w, In(sections)) - SumFunctionOnSet(w, gone)
        /\ SumFunctionOnSet(w, In(sections) \ gone) \in Nat
        /\ SumFunctionOnSet(w, In(sections) \ gone) <= SumFunctionOnSet(w, In(sections))
    BY <1>7, <1>8, SumWithout
  <2> DEFINE w2 == [x \in In(sections') |-> sections'[x].size]
  <2>3. IsFiniteSet(In(sections')) /\ \A x \in In(sections') : w2[x] = w[x]
    <3>1. \A x \in In(sections') : x \in In(sections) /\ sections'[x] = sections[x]
      BY <1>5
    <3>2. In(sections') \in SUBSET In(sections)
      BY <1>5
    <3> QED
      BY <1>7, <1>8, <3>1, <3>2, FS_Subset
  <2> HIDE DEF w2
  <2>4. SumFunctionOnSet(w2, In(sections')) = SumFunctionOnSet(w, In(sections'))
    BY <2>3, SumSame
  <2>5. heap' = SumFunctionOnSet(w2, In(sections'))
    BY <1>2, <1>4, <1>5, <2>1, <2>2, <2>4
  <2>6. HeapPart(heap', sections')
    BY <2>5 DEF HeapPart, w2
  <2>7. heap' \in 0..HeapLimit
    BY <1>2, <1>3, <1>4, <2>1, <2>2, Limits
  <2> QED
    BY <2>6, <2>7
<1>10. /\ dirty' \in Seq(Sections) /\ cacheOrder' \in Seq(Sections)
       /\ Len(cacheOrder') <= Len(cacheOrder)
       /\ Elements(dirty') = Elements(dirty) \cap others
       /\ Elements(cacheOrder') = Elements(cacheOrder) \cap others
       /\ Distinct(dirty') /\ Distinct(cacheOrder')
  <2> HIDE DEF others
  <2>1. Distinct(dirty) /\ Distinct(cacheOrder)
    BY <1>1 DEF QueuePart
  <2> QED
    BY <1>2, <1>3, <2>1, RetainFacts
<1>11. /\ pending' \in Seq(Tasks) /\ DOMAIN pending' = DOMAIN pending
       /\ Len(pending') = Len(pending)
       /\ \A i \in DOMAIN pending :
            /\ pending'[i].section = pending[i].section /\ pending'[i].epoch = pending[i].epoch
            /\ pending'[i].revision = pending[i].revision
            /\ pending'[i].generation = pending[i].generation
            /\ pending'[i].input = pending[i].input
            /\ pending[i].section \in others => pending'[i].cancelled = pending[i].cancelled
  <2> HIDE DEF others
  <2> QED
    BY <1>2, <1>3, CancelFacts
<1>12. TypeOK'
  <2>1. chunks' \in [Chunks -> 1..MaxGeneration \cup {None}]
    BY <1>2, <1>3
  <2> QED
    BY <1>1, <1>2, <1>5, <1>9, <1>10, <1>11, <2>1 DEF TypeOK, SectionStates
<1>13. QueuePart(dirty', cacheOrder', sections')
  <2>1. Len(cacheOrder') <= MaxCached
    BY <1>1, <1>3, <1>10, Limits DEF QueuePart
  <2>2. /\ {x \in In(sections') : sections'[x].dirty}
             = {x \in In(sections) : sections[x].dirty} \cap others
        /\ {x \in In(sections') : sections'[x].cached # None}
             = {x \in In(sections) : sections[x].cached # None} \cap others
    <3> HIDE DEF others
    <3> QED
      BY <1>5
  <2> QED
    BY <1>1, <1>10, <2>1, <2>2 DEF QueuePart
<1>14. CountPart(pending', sections')
  <2>1. Cardinality(In(sections')) <= Cardinality(In(sections))
    <3>1. In(sections') \in SUBSET In(sections)
      BY <1>5
    <3> QED
      BY <1>7, <3>1, FS_Subset
  <2>2. Cardinality(In(sections)) \in Nat /\ Cardinality(In(sections')) \in Nat
    BY <1>5, <1>7, FS_Subset, FS_CardinalityType
  <2> QED
    BY <1>1, <1>11, <2>1, <2>2, Limits DEF CountPart
<1>15. RevisionPart(nextRevision', pending', sections')
  BY <1>1, <1>2, <1>5, <1>11 DEF RevisionPart
<1>16. CachePart(epoch', sections') /\ FlagPart(sections')
  BY <1>1, <1>2, <1>5 DEF CachePart, FlagPart
<1>17. JobPart(pending', epoch', sections')
  <2>1. ASSUME NEW j \in DOMAIN pending, Accepted(pending'[j], epoch', sections')
        PROVE  /\ Accepted(pending[j], epoch, sections) /\ ~pending'[j].cancelled
               /\ sections'[pending[j].section].content = sections[pending[j].section].content
               /\ sections'[pending[j].section].cached = None
               /\ ~sections'[pending[j].section].dirty
    <3>1. pending[j].section \in Sections
      BY <1>3, FieldTypes
    <3>2. pending[j].section \in others /\ pending[j].section \in In(sections')
      BY <1>6, <1>11, <2>1, <3>1 DEF Accepted, In
    <3>3. sections'[pending[j].section] = sections[pending[j].section]
      BY <1>5, <3>2
    <3>4. Accepted(pending[j], epoch, sections)
      BY <1>2, <1>11, <2>1, <3>3 DEF Accepted
    <3> QED
      BY <1>1, <1>11, <3>2, <3>3, <3>4 DEF JobPart
  <2>2. /\ DOMAIN pending' = DOMAIN pending
        /\ \A j \in DOMAIN pending : /\ pending'[j].section = pending[j].section
                                     /\ pending'[j].input = pending[j].input
    BY <1>11
  <2>3. JobPart(pending, epoch, sections)
    BY <1>1
  <2> QED
    BY <2>1, <2>2, <2>3, JobsStay
<1> QED
  BY <1>2, <1>9, <1>12, <1>13, <1>14, <1>15, <1>16, <1>17, Parts

(* reload starts over; the jobs that run go on as orphans.                 *)
LEMMA reloadInv ==
  ASSUME PreparationInv, reload
  PROVE  PreparationInv'
<1>1. TypeOK
  BY Parts
<1>2. In(sections') = {}
  BY DEF reload, In
<1>3. orphans' \in Nat
  <2> DEFINE running == {i \in DOMAIN pending : ~pending[i].ready}
  <2>1. running \in SUBSET (1..Len(pending)) /\ Len(pending) \in Nat /\ orphans \in Nat
    BY <1>1 DEF TypeOK
  <2>2. IsFiniteSet(1..Len(pending))
    BY <2>1, FS_Interval, 1 \in Int, Len(pending) \in Int
  <2>3. orphans' = orphans + Cardinality(running)
    BY DEF reload
  <2> HIDE DEF running
  <2>4. Cardinality(running) \in Nat
    BY <2>1, <2>2, FS_Subset, FS_CardinalityType
  <2> QED
    BY <2>1, <2>3, <2>4
<1>4. TypeOK'
  <2>1. epoch' \in 0..MaxEpoch /\ heap' \in 0..HeapLimit
    BY <1>1, Limits DEF reload, TypeOK
  <2>2. /\ chunks' \in [Chunks -> 1..MaxGeneration \cup {None}]
        /\ sections' \in [Sections -> ResidentSections \cup {None}]
    BY DEF reload
  <2>3. pending' \in Seq(Tasks) /\ dirty' \in Seq(Sections) /\ cacheOrder' \in Seq(Sections)
    BY DEF reload
  <2> QED
    BY <1>1, <1>3, <2>1, <2>2, <2>3 DEF reload, TypeOK
<1>5. HeapPart(heap', sections')
  BY <1>2, SumEmpty DEF reload, HeapPart
<1>6. QueuePart(dirty', cacheOrder', sections')
  BY <1>2, Limits DEF reload, QueuePart, Elements, Distinct
<1>7. CountPart(pending', sections')
  <2>1. Len(pending') = 0
    BY DEF reload
  <2>2. Cardinality(In(sections')) = 0
    BY <1>2, FS_EmptySet
  <2> QED
    BY <2>1, <2>2, Limits DEF CountPart
<1>8. /\ RevisionPart(nextRevision', pending', sections') /\ CachePart(epoch', sections')
      /\ JobPart(pending', epoch', sections') /\ FlagPart(sections')
  BY <1>2 DEF reload, RevisionPart, CachePart, JobPart, FlagPart
<1> QED
  BY <1>4, <1>5, <1>6, <1>7, <1>8, Parts

-----------------------------------------------------------------------------
(* Writes and demand.                                                      *)

(* A write gives the section a revision no job and no cached bytes have.   *)
LEMMA WriteInv ==
  ASSUME PreparationInv, NEW s \in Sections, NEW v \in Contents, NEW size \in Sizes,
         Write(s, v, size)
  PROVE  PreparationInv'
<1> DEFINE old == sections[s]
           new == [old EXCEPT !.content = v, !.size = size]
           r == [new EXCEPT !.revision = nextRevision + 1, !.failure = None,
                            !.cached = None, !.dirty = new.wanted]
           queue == old.wanted /\ ~old.dirty
<1>1. /\ TypeOK /\ HeapPart(heap, sections) /\ QueuePart(dirty, cacheOrder, sections)
      /\ RevisionPart(nextRevision, pending, sections) /\ CachePart(epoch, sections)
      /\ JobPart(pending, epoch, sections) /\ FlagPart(sections) /\ CountPart(pending, sections)
  BY Parts
<1>2. /\ sections \in SectionStates /\ pending \in Seq(Tasks) /\ dirty \in Seq(Sections)
      /\ cacheOrder \in Seq(Sections) /\ heap \in 0..HeapLimit /\ nextRevision \in 0..MaxRevision
  BY <1>1 DEF TypeOK, SectionStates
<1>3. old # None /\ old \in ResidentSections /\ s \in In(sections)
  BY <1>2 DEF Write, SectionStates, In
<1>4. /\ new.wanted = old.wanted /\ new.dirty = old.dirty /\ new.cached = old.cached
      /\ r \in ResidentSections /\ r.revision = nextRevision + 1 /\ r.size = size
      /\ r.wanted = old.wanted /\ r.dirty = old.wanted /\ r.cached = None /\ r.failure = None
  <2>1. nextRevision + 1 \in 1..MaxRevision
    BY <1>2, Limits DEF Write
  <2> QED
    BY <1>3, <2>1 DEF ResidentSections
<1>5. /\ nextRevision < MaxRevision /\ nextRevision' = nextRevision + 1
      /\ \/ size = old.size
         \/ size > old.size /\ \E kept \in 0..old.size : size - kept <= HeapLimit - heap
      /\ heap' = heap - old.size + size
      /\ sections' = [sections EXCEPT ![s] = r]
      /\ cacheOrder' = IF old.cached = None THEN cacheOrder
                       ELSE Retain(cacheOrder, Sections \ {s})
      /\ pending' = IF queue THEN CancelTasks({s}) ELSE pending
      /\ dirty' = IF queue THEN Append(dirty, s) ELSE dirty
      /\ UNCHANGED <<epoch, nextGeneration, chunks, drive, orphans, poolClosed>>
  <2>1. changed(s, new)
    BY DEF Write
  <2>2. /\ nextRevision' = nextRevision + 1 /\ sections' = [sections EXCEPT ![s] = r]
        /\ cacheOrder' = IF new.cached = None THEN cacheOrder
                         ELSE Retain(cacheOrder, Sections \ {s})
        /\ pending' = IF new.wanted /\ ~new.dirty THEN CancelTasks({s}) ELSE pending
        /\ dirty' = IF new.wanted /\ ~new.dirty THEN Append(dirty, s) ELSE dirty
    BY <2>1 DEF changed
  <2>3. /\ nextRevision < MaxRevision /\ heap' = heap - old.size + size
        /\ \/ size = old.size
           \/ size > old.size /\ \E kept \in 0..old.size : size - kept <= HeapLimit - heap
        /\ UNCHANGED <<epoch, nextGeneration, chunks, drive, orphans, poolClosed>>
    BY DEF Write
  <2> HIDE DEF new, r
  <2> QED
    BY <1>4, <2>2, <2>3
<1> HIDE DEF old, new, r, queue
<1>6. /\ sections' \in SectionStates /\ sections'[s] = r
      /\ \A x \in Sections : x # s => sections'[x] = sections[x]
  BY <1>2, <1>4, <1>5 DEF SectionStates
<1>7. /\ In(sections') = In(sections) /\ HeapPart(heap', sections')
      /\ old.size \in Nat /\ old.size <= heap /\ size \in Nat
  <2>1. /\ In(sections') = In(sections) \cup {s} /\ sections[s].size \in Nat
        /\ sections[s].size <= heap
        /\ HeapPart(heap - sections[s].size + size, sections')
    BY <1>1, <1>2, <1>3, <1>4, <1>6, OneSection
  <2> QED
    BY <1>3, <1>5, <2>1, Limits DEF old
<1>8. heap' \in 0..HeapLimit
  BY <1>2, <1>5, <1>7, Limits
<1>9. /\ pending' \in Seq(Tasks) /\ DOMAIN pending' = DOMAIN pending
      /\ Len(pending') = Len(pending)
      /\ \A i \in DOMAIN pending :
           /\ pending'[i].section = pending[i].section /\ pending'[i].epoch = pending[i].epoch
           /\ pending'[i].revision = pending[i].revision
           /\ pending'[i].generation = pending[i].generation
           /\ pending'[i].input = pending[i].input
           /\ pending[i].section # s => pending'[i].cancelled = pending[i].cancelled
  <2>1. CASE queue
    BY <1>2, <1>5, <2>1, CancelFacts
  <2>2. CASE ~queue
    BY <1>2, <1>5, <2>2
  <2> QED
    BY <2>1, <2>2
<1>10. /\ cacheOrder' \in Seq(Sections) /\ Distinct(cacheOrder')
       /\ Len(cacheOrder') <= Len(cacheOrder)
       /\ Elements(cacheOrder') = Elements(cacheOrder) \ {s}
  <2>1. /\ Elements(cacheOrder) = {x \in In(sections) : sections[x].cached # None}
        /\ Distinct(cacheOrder) /\ Len(cacheOrder) \in Nat
    BY <1>1, <1>2 DEF QueuePart
  <2>2. CASE old.cached = None
    BY <1>2, <1>5, <2>1, <2>2 DEF old
  <2>3. CASE old.cached # None
    <3> DEFINE q == Retain(cacheOrder, Sections \ {s})
    <3>1. /\ q \in Seq(Sections) /\ Distinct(q) /\ Len(q) <= Len(cacheOrder)
          /\ Elements(q) = Elements(cacheOrder) \cap (Sections \ {s})
      BY <1>2, <2>1, RetainFacts
    <3>2. cacheOrder' = q
      BY <1>5, <2>3
    <3>3. Elements(cacheOrder) \subseteq Sections
      BY <2>1 DEF In
    <3> HIDE DEF q
    <3> QED
      BY <3>1, <3>2, <3>3
  <2> QED
    BY <2>2, <2>3
<1>11. /\ dirty' \in Seq(Sections) /\ Distinct(dirty')
       /\ Elements(dirty') = IF r.dirty THEN Elements(dirty) \cup {s} ELSE Elements(dirty) \ {s}
  <2>1. /\ Elements(dirty) = {x \in In(sections) : sections[x].dirty} /\ Distinct(dirty)
        /\ old.dirty => old.wanted
    BY <1>1, <1>3 DEF QueuePart, FlagPart, old
  <2>2. CASE queue
    <3>1. s \notin Elements(dirty) /\ r.dirty
      BY <1>4, <2>1, <2>2 DEF old, queue
    <3> QED
      BY <1>2, <1>5, <2>1, <2>2, <3>1, QueueEnds
  <2>3. CASE ~queue
    <3>1. s \in Elements(dirty) <=> old.dirty
      BY <1>3, <2>1 DEF old
    <3>2. r.dirty <=> old.dirty
      BY <1>4, <2>1, <2>3 DEF queue
    <3> QED
      BY <1>2, <1>5, <2>1, <2>3, <3>1, <3>2
  <2> QED
    BY <2>2, <2>3
<1>12. TypeOK'
  <2>1. nextRevision' \in 0..MaxRevision
    BY <1>2, <1>5, Limits
  <2> QED
    BY <1>1, <1>5, <1>6, <1>8, <1>9, <1>10, <1>11, <2>1 DEF TypeOK, SectionStates
<1>13. QueuePart(dirty', cacheOrder', sections')
  <2>1. Len(cacheOrder') <= MaxCached
    BY <1>1, <1>2, <1>10, Limits DEF QueuePart
  <2>2. {x \in In(sections') : sections'[x].cached # None}
          = {x \in In(sections) : sections[x].cached # None} \ {s}
    BY <1>4, <1>6, <1>7 DEF In
  <2>3. {x \in In(sections') : sections'[x].dirty}
          = IF r.dirty THEN {x \in In(sections) : sections[x].dirty} \cup {s}
            ELSE {x \in In(sections) : sections[x].dirty} \ {s}
    BY <1>3, <1>6, <1>7 DEF In
  <2> QED
    BY <1>1, <1>10, <1>11, <2>1, <2>2, <2>3 DEF QueuePart
<1>14. CountPart(pending', sections')
  BY <1>1, <1>7, <1>9 DEF CountPart
<1>15. RevisionPart(nextRevision', pending', sections')
  <2>1. \A x \in In(sections) : sections[x].revision \in Nat /\ sections[x].revision <= nextRevision
    BY <1>1, <1>2, FieldTypes DEF RevisionPart, In, SectionStates
  <2>2. \A i \in DOMAIN pending : pending[i].revision \in Nat /\ pending[i].revision <= nextRevision
    BY <1>1, <1>2, FieldTypes DEF RevisionPart
  <2>3. nextRevision \in Nat
    BY <1>2
  <2>4. \A x \in In(sections') : sections'[x].revision <= nextRevision + 1
    BY <1>4, <1>6, <1>7, <2>1, <2>3 DEF In
  <2>5. \A i \in DOMAIN pending' : pending'[i].revision <= nextRevision + 1
    BY <1>9, <2>2, <2>3
  <2> QED
    BY <1>5, <2>4, <2>5 DEF RevisionPart
<1>16. CachePart(epoch', sections') /\ FlagPart(sections')
  <2>1. None # "cancelled"
    BY NoneAssumption
  <2>2. \A x \in In(sections') : x \in Sections /\ x \in In(sections)
    BY <1>7 DEF In
  <2>3. CachePart(epoch', sections')
    <3>1. ASSUME NEW x \in In(sections')
          PROVE  sections'[x].cached = None \/ (x \in In(sections) /\ sections'[x] = sections[x])
      BY <1>4, <1>6, <2>2
    <3>2. CachePart(epoch, sections) /\ epoch' = epoch
      BY <1>1, <1>5
    <3>3. CachePart(epoch, sections')
      BY <3>1, <3>2, CacheStay
    <3> QED
      BY <3>2, <3>3
  <2>4. FlagPart(sections')
    BY <1>1, <1>4, <1>6, <2>1, <2>2 DEF FlagPart
  <2> QED
    BY <2>3, <2>4
<1>17. JobPart(pending', epoch', sections')
  <2>1. ASSUME NEW j \in DOMAIN pending, Accepted(pending'[j], epoch', sections')
        PROVE  /\ Accepted(pending[j], epoch, sections) /\ ~pending'[j].cancelled
               /\ sections'[pending[j].section].content = sections[pending[j].section].content
               /\ sections'[pending[j].section].cached = None
               /\ ~sections'[pending[j].section].dirty
    <3>1. /\ pending[j].section \in Sections /\ pending[j].revision <= nextRevision
          /\ pending[j].revision \in Nat /\ nextRevision \in Nat
      BY <1>1, <1>2, FieldTypes DEF RevisionPart
    <3>2. pending[j].section # s
      BY <1>4, <1>6, <1>9, <2>1, <3>1 DEF Accepted
    <3>3. sections'[pending[j].section] = sections[pending[j].section]
      BY <1>6, <3>1, <3>2
    <3>4. Accepted(pending[j], epoch, sections)
      BY <1>5, <1>9, <2>1, <3>3 DEF Accepted
    <3> QED
      BY <1>1, <1>9, <3>2, <3>3, <3>4 DEF JobPart
  <2>2. /\ DOMAIN pending' = DOMAIN pending
        /\ \A j \in DOMAIN pending : /\ pending'[j].section = pending[j].section
                                     /\ pending'[j].input = pending[j].input
    BY <1>9
  <2>3. JobPart(pending, epoch, sections)
    BY <1>1
  <2> QED
    BY <2>1, <2>2, <2>3, JobsStay
<1> QED
  BY <1>7, <1>12, <1>13, <1>14, <1>15, <1>16, <1>17, Parts

(* A request queues a section only when nothing is on its way to it.       *)
LEMMA requestInv ==
  ASSUME PreparationInv, NEW s \in Sections, request(s)
  PROVE  PreparationInv'
<1> DEFINE old == sections[s]
           queue == /\ old.cached = None /\ ~old.dirty
                    /\ \A i \in PendingOf(s) : pending[i].epoch # epoch
                                                 \/ pending[i].revision # old.revision
<1>1. /\ TypeOK /\ HeapPart(heap, sections) /\ QueuePart(dirty, cacheOrder, sections)
      /\ RevisionPart(nextRevision, pending, sections) /\ CachePart(epoch, sections)
      /\ JobPart(pending, epoch, sections) /\ FlagPart(sections) /\ CountPart(pending, sections)
  BY Parts
<1>2. /\ sections \in SectionStates /\ pending \in Seq(Tasks) /\ dirty \in Seq(Sections)
  BY <1>1 DEF TypeOK, SectionStates
<1>3. old # None /\ old \in ResidentSections /\ s \in In(sections)
  BY <1>2 DEF request, SectionStates, In
<1>4. /\ sections' = [sections EXCEPT ![s].wanted = TRUE, ![s].failure = None,
                                      ![s].dirty = @ \/ queue]
      /\ dirty' = IF queue THEN Append(dirty, s) ELSE dirty
      /\ UNCHANGED <<source, pending, cacheOrder, drive, orphans, poolClosed>>
  BY DEF request
<1>5. queue \in BOOLEAN
  OBVIOUS
<1>6. queue => ~old.dirty /\ old.cached = None
  OBVIOUS
<1>7. queue => \A i \in DOMAIN pending : pending[i].section = s => ~Accepted(pending[i], epoch, sections)
  BY DEF PendingOf, Accepted
<1> HIDE DEF queue
<1> DEFINE r == sections'[s]
<1>8. /\ sections' \in SectionStates /\ r \in ResidentSections
      /\ \A x \in Sections : x # s => sections'[x] = sections[x]
      /\ r.size = old.size /\ r.content = old.content /\ r.revision = old.revision
      /\ r.generation = old.generation /\ r.cached = old.cached /\ r.wanted = TRUE
      /\ r.failure = None /\ r.dirty = (old.dirty \/ queue)
  <2> DEFINE n == [old EXCEPT !.wanted = TRUE, !.failure = None, !.dirty = @ \/ queue]
  <2>1. n \in ResidentSections
    BY <1>3, <1>5 DEF ResidentSections
  <2>2. /\ n.size = old.size /\ n.content = old.content /\ n.revision = old.revision
        /\ n.generation = old.generation /\ n.cached = old.cached /\ n.wanted = TRUE
        /\ n.failure = None /\ n.dirty = (old.dirty \/ queue)
    BY <1>3, <1>5 DEF ResidentSections
  <2>3. sections' = [sections EXCEPT ![s] = n]
    BY <1>2, <1>3, <1>4 DEF SectionStates, ResidentSections
  <2> HIDE DEF n, old
  <2>4. sections' \in SectionStates /\ r = n /\ \A x \in Sections : x # s => sections'[x] = sections[x]
    BY <1>2, <2>1, <2>3 DEF SectionStates
  <2> QED
    BY <2>1, <2>2, <2>4
<1> HIDE DEF r
<1>9. In(sections') = In(sections) /\ \A x \in In(sections) : x \in Sections
  BY <1>3, <1>8, FieldTypes DEF In, r
<1>10. /\ HeapPart(heap, sections')
       /\ \A t \in Tasks : Accepted(t, epoch, sections') <=> Accepted(t, epoch, sections)
  <2>1. \A x \in In(sections) :
          /\ sections'[x].size = sections[x].size /\ sections'[x].content = sections[x].content
          /\ sections'[x].revision = sections[x].revision
          /\ sections'[x].generation = sections[x].generation
    BY <1>8, <1>9 DEF r
  <2> QED
    BY <1>1, <1>2, <1>8, <1>9, <2>1, SourcesStay
<1>11. /\ dirty' \in Seq(Sections) /\ Distinct(dirty')
       /\ Elements(dirty') = {x \in In(sections') : sections'[x].dirty}
  <2>1. Elements(dirty) = {x \in In(sections) : sections[x].dirty} /\ Distinct(dirty)
    BY <1>1 DEF QueuePart
  <2>2. CASE queue
    <3>1. s \notin Elements(dirty)
      BY <1>6, <2>1, <2>2
    <3>2. Elements(dirty') = Elements(dirty) \cup {s} /\ dirty' \in Seq(Sections) /\ Distinct(dirty')
      BY <1>2, <1>4, <2>1, <2>2, <3>1, QueueEnds
    <3> QED
      BY <1>3, <1>8, <1>9, <2>1, <2>2, <3>2 DEF r
  <2>3. CASE ~queue
    BY <1>2, <1>3, <1>4, <1>8, <1>9, <2>1, <2>3 DEF r
  <2> QED
    BY <2>2, <2>3
<1>12. TypeOK'
  BY <1>1, <1>4, <1>8, <1>11 DEF TypeOK, SectionStates, source
<1>13. QueuePart(dirty', cacheOrder', sections')
  <2>1. {x \in In(sections') : sections'[x].cached # None}
          = {x \in In(sections) : sections[x].cached # None}
    BY <1>8, <1>9 DEF r
  <2> QED
    BY <1>1, <1>4, <1>11, <2>1 DEF QueuePart
<1>14. CountPart(pending', sections') /\ RevisionPart(nextRevision', pending', sections')
  <2>1. \A x \in In(sections') : sections'[x].revision = sections[x].revision /\ x \in In(sections)
    BY <1>8, <1>9 DEF r
  <2> QED
    BY <1>1, <1>4, <1>9, <2>1 DEF CountPart, RevisionPart, source
<1>15. CachePart(epoch', sections')
  <2>1. \A x \in In(sections') :
          /\ x \in In(sections) /\ sections'[x].cached = sections[x].cached
          /\ sections'[x].content = sections[x].content
          /\ sections'[x].revision = sections[x].revision
          /\ sections'[x].generation = sections[x].generation
    BY <1>8, <1>9 DEF r
  <2>2. CachePart(epoch, sections) /\ epoch' = epoch
    BY <1>1, <1>4 DEF source
  <2>3. CachePart(epoch, sections')
    BY <2>1, <2>2, CacheStay
  <2> QED
    BY <2>2, <2>3
<1>16. FlagPart(sections')
  <2>1. None # "cancelled"
    BY NoneAssumption
  <2>2. ASSUME NEW x \in In(sections')
        PROVE  /\ sections'[x].dirty => sections'[x].wanted /\ sections'[x].cached = None
               /\ sections'[x].failure # "cancelled"
    <3>1. CASE x = s
      BY <1>1, <1>3, <1>6, <1>8, <2>1, <3>1 DEF FlagPart, r
    <3>2. CASE x # s
      BY <1>1, <1>8, <1>9, <2>2, <3>2 DEF FlagPart
    <3> QED
      BY <3>1, <3>2
  <2> QED
    BY <2>2 DEF FlagPart
<1>17. JobPart(pending', epoch', sections')
  <2>1. ASSUME NEW j \in DOMAIN pending, Accepted(pending[j], epoch, sections')
        PROVE  /\ Accepted(pending[j], epoch, sections) /\ ~pending[j].cancelled
               /\ sections'[pending[j].section].content = sections[pending[j].section].content
               /\ sections'[pending[j].section].cached = None
               /\ ~sections'[pending[j].section].dirty
    <3>1. pending[j] \in Tasks /\ pending[j].section \in Sections
      BY <1>2, FieldTypes
    <3>2. Accepted(pending[j], epoch, sections)
      BY <1>10, <2>1, <3>1
    <3>3. /\ ~pending[j].cancelled /\ sections[pending[j].section].cached = None
          /\ ~sections[pending[j].section].dirty
      BY <1>1, <3>2 DEF JobPart
    <3>4. CASE pending[j].section = s
      <4>1. ~queue
        BY <1>7, <3>2, <3>4
      <4> QED
        BY <1>8, <3>2, <3>3, <3>4, <4>1 DEF r
    <3>5. CASE pending[j].section # s
      BY <1>8, <3>1, <3>2, <3>3, <3>5
    <3> QED
      BY <3>4, <3>5
  <2>2. pending' = pending /\ epoch' = epoch /\ JobPart(pending, epoch, sections)
    BY <1>1, <1>4 DEF source
  <2>3. JobPart(pending, epoch, sections')
    BY <2>1, <2>2, JobsStay
  <2> QED
    BY <2>2, <2>3
<1>18. HeapPart(heap', sections')
  BY <1>4, <1>10 DEF source
<1> QED
  BY <1>12, <1>13, <1>14, <1>15, <1>16, <1>17, <1>18, Parts

-----------------------------------------------------------------------------
(* drive.                                                                  *)

(* The jobs left after one was taken out.                                  *)
LEMMA Taken ==
  ASSUME NEW p \in Seq(Tasks), NEW i \in 1..Len(p), NEW e, NEW S, NEW S2, NEW n,
         JobPart(p, e, S), \A k \in DOMAIN p : p[k].revision <= n,
         \A k \in DOMAIN p : k # i /\ Accepted(p[k], e, S2) =>
           /\ Accepted(p[k], e, S) /\ S2[p[k].section].content = S[p[k].section].content
           /\ S2[p[k].section].cached = None /\ ~S2[p[k].section].dirty
  PROVE  /\ SwapRemove(p, i) \in Seq(Tasks) /\ Len(SwapRemove(p, i)) <= Len(p)
         /\ \A k \in DOMAIN SwapRemove(p, i) : SwapRemove(p, i)[k].revision <= n
         /\ JobPart(SwapRemove(p, i), e, S2)
<1> DEFINE q == SwapRemove(p, i)
           o == [k \in 1..(Len(p) - 1) |-> IF k = i THEN Len(p) ELSE k]
<1>1. /\ q \in Seq(Tasks) /\ Len(q) = Len(p) - 1
      /\ \A k \in 1..(Len(p) - 1) : q[k] = IF k = i THEN p[Len(p)] ELSE p[k]
  BY SwapRemoveFacts
<1>2. Len(p) \in Nat /\ DOMAIN p = 1..Len(p)
  OBVIOUS
<1> HIDE DEF q
<1>3. DOMAIN q = 1..(Len(p) - 1)
  BY <1>1
<1>4. \A k \in DOMAIN q : o[k] \in DOMAIN p /\ o[k] # i /\ q[k] = p[o[k]]
  BY <1>1, <1>2, <1>3
<1>5. \A j, k \in DOMAIN q : o[j] = o[k] => j = k
  BY <1>2, <1>3
<1> HIDE DEF o
<1>6. \A k \in DOMAIN q : q[k].revision <= n
  BY <1>4
<1>7. ASSUME NEW j \in DOMAIN q, Accepted(q[j], e, S2)
      PROVE  /\ Accepted(p[o[j]], e, S) /\ ~q[j].cancelled
             /\ S2[q[j].section].content = S[q[j].section].content
             /\ S2[q[j].section].cached = None /\ ~S2[q[j].section].dirty
  <2>1. o[j] \in DOMAIN p /\ o[j] # i /\ q[j] = p[o[j]]
    BY <1>4
  <2>2. /\ Accepted(p[o[j]], e, S) /\ S2[q[j].section].content = S[q[j].section].content
        /\ S2[q[j].section].cached = None /\ ~S2[q[j].section].dirty
    BY <1>7, <2>1
  <2>3. ~p[o[j]].cancelled
    BY <2>1, <2>2 DEF JobPart
  <2> QED
    BY <2>1, <2>2, <2>3
<1>8. \A j \in DOMAIN q : /\ o[j] \in DOMAIN p /\ q[j].section = p[o[j]].section
                          /\ q[j].input = p[o[j]].input
  BY <1>4
<1>9. JobPart(q, e, S2)
  BY <1>5, <1>7, <1>8, JobsKept
<1> QED
  BY <1>1, <1>2, <1>6, <1>9 DEF q

(* A completion whose section is gone or has moved on is dropped.          *)
LEMMA TakeStaleInv ==
  ASSUME PreparationInv, NEW i \in 1..Len(pending), pending' = SwapRemove(pending, i),
         UNCHANGED <<source, sections, dirty, cacheOrder, drive, orphans, poolClosed>>
  PROVE  PreparationInv'
<1>1. /\ TypeOK /\ HeapPart(heap, sections) /\ QueuePart(dirty, cacheOrder, sections)
      /\ RevisionPart(nextRevision, pending, sections) /\ CachePart(epoch, sections)
      /\ JobPart(pending, epoch, sections) /\ FlagPart(sections) /\ CountPart(pending, sections)
  BY Parts
<1>2. pending \in Seq(Tasks)
  BY <1>1 DEF TypeOK
<1>3. /\ pending' \in Seq(Tasks) /\ Len(pending') <= Len(pending)
      /\ \A k \in DOMAIN pending' : pending'[k].revision <= nextRevision
      /\ JobPart(pending', epoch, sections)
  <2>1. \A k \in DOMAIN pending : pending[k].revision <= nextRevision
    BY <1>1 DEF RevisionPart
  <2>2. \A k \in DOMAIN pending : k # i /\ Accepted(pending[k], epoch, sections) =>
          /\ Accepted(pending[k], epoch, sections)
          /\ sections[pending[k].section].content = sections[pending[k].section].content
          /\ sections[pending[k].section].cached = None /\ ~sections[pending[k].section].dirty
    BY <1>1 DEF JobPart
  <2>3. JobPart(pending, epoch, sections)
    BY <1>1
  <2> QED
    BY <1>2, <2>1, <2>2, <2>3, Taken
<1>4. TypeOK'
  BY <1>1, <1>3 DEF TypeOK, source
<1>5. RevisionPart(nextRevision', pending', sections') /\ CountPart(pending', sections')
  <2>1. Len(pending') <= MaxPending
    BY <1>1, <1>2, <1>3, Limits DEF CountPart
  <2> QED
    BY <1>1, <1>3, <2>1 DEF RevisionPart, CountPart, source
<1> QED
  BY <1>1, <1>3, <1>4, <1>5, Parts DEF source

(* publish of a failure, the second alternative of TakeStep.               *)
TakeFailed(i) ==
  /\ pending' = SwapRemove(pending, i) /\ IsCurrent(pending[i])
  /\ sections' = [sections EXCEPT ![pending[i].section].failure =
                    IF pending[i].cancelled THEN "cancelled" ELSE "error"]
  /\ UNCHANGED <<source, dirty, cacheOrder, drive, orphans, poolClosed>>

(* A failed job leaves its error; a job that is accepted is not cancelled. *)
LEMMA TakeFailedInv ==
  ASSUME PreparationInv, NEW i \in 1..Len(pending), TakeFailed(i)
  PROVE  PreparationInv'
<1> DEFINE s == pending[i].section
           old == sections[s]
           n == [old EXCEPT !.failure = "error"]
<1>1. /\ TypeOK /\ HeapPart(heap, sections) /\ QueuePart(dirty, cacheOrder, sections)
      /\ RevisionPart(nextRevision, pending, sections) /\ CachePart(epoch, sections)
      /\ JobPart(pending, epoch, sections) /\ FlagPart(sections) /\ CountPart(pending, sections)
  BY Parts
<1>2. pending \in Seq(Tasks) /\ sections \in SectionStates
  BY <1>1 DEF TypeOK, SectionStates
<1>3. /\ s \in Sections /\ Accepted(pending[i], epoch, sections) /\ ~pending[i].cancelled
      /\ i \in DOMAIN pending
  <2>1. i \in DOMAIN pending /\ pending[i] \in Tasks
    BY <1>2
  <2>2. Accepted(pending[i], epoch, sections)
    BY AcceptedMeans DEF TakeFailed
  <2> QED
    BY <1>1, <2>1, <2>2, FieldTypes DEF JobPart
<1>4. old # None /\ old \in ResidentSections /\ s \in In(sections)
  BY <1>2, <1>3 DEF Accepted, SectionStates, In
<1>5. /\ n \in ResidentSections /\ n.size = old.size /\ n.content = old.content
      /\ n.revision = old.revision /\ n.generation = old.generation /\ n.cached = old.cached
      /\ n.dirty = old.dirty /\ n.wanted = old.wanted /\ n.failure = "error"
  BY <1>4 DEF ResidentSections
<1>6. sections' = [sections EXCEPT ![s] = n]
  BY <1>2, <1>3 DEF SectionStates, TakeFailed
<1>a. pending' = SwapRemove(pending, i)
  BY DEF TakeFailed
<1>b. /\ UNCHANGED <<dirty, cacheOrder, drive, orphans, poolClosed>>
      /\ UNCHANGED <<epoch, nextGeneration, nextRevision, heap, chunks>>
  BY DEF TakeFailed, source
<1> HIDE DEF n, old, s
<1>7. /\ sections' \in SectionStates /\ sections'[s] = n
      /\ \A x \in Sections : x # s => sections'[x] = sections[x]
  BY <1>2, <1>3, <1>5, <1>6 DEF SectionStates
<1>8. In(sections') = In(sections) /\ \A x \in In(sections) : x \in Sections
  BY <1>4, <1>5, <1>7, FieldTypes DEF In
<1>9. \A x \in In(sections) :
        /\ sections'[x].size = sections[x].size /\ sections'[x].content = sections[x].content
        /\ sections'[x].revision = sections[x].revision
        /\ sections'[x].generation = sections[x].generation
        /\ sections'[x].cached = sections[x].cached /\ sections'[x].dirty = sections[x].dirty
        /\ sections'[x].wanted = sections[x].wanted
        /\ sections'[x].failure \in {"error", sections[x].failure}
  BY <1>5, <1>7, <1>8 DEF old
<1>10. /\ HeapPart(heap, sections')
       /\ \A t \in Tasks : Accepted(t, epoch, sections') <=> Accepted(t, epoch, sections)
  BY <1>1, <1>2, <1>7, <1>8, <1>9, SourcesStay
<1>11. /\ pending' \in Seq(Tasks) /\ Len(pending') <= Len(pending)
       /\ \A k \in DOMAIN pending' : pending'[k].revision <= nextRevision
       /\ JobPart(pending', epoch, sections')
  <2>1. \A k \in DOMAIN pending : pending[k].revision <= nextRevision
    BY <1>1 DEF RevisionPart
  <2>2. ASSUME NEW k \in DOMAIN pending, k # i, Accepted(pending[k], epoch, sections')
        PROVE  /\ Accepted(pending[k], epoch, sections)
               /\ sections'[pending[k].section].content = sections[pending[k].section].content
               /\ sections'[pending[k].section].cached = None
               /\ ~sections'[pending[k].section].dirty
    <3>1. pending[k] \in Tasks /\ pending[k].section \in Sections
      BY <1>2, FieldTypes
    <3>2. Accepted(pending[k], epoch, sections) /\ pending[k].section \in In(sections)
      BY <1>10, <2>2, <3>1 DEF Accepted, In
    <3> QED
      BY <1>1, <1>9, <3>2 DEF JobPart
  <2>3. JobPart(pending, epoch, sections)
    BY <1>1
  <2> QED
    BY <1>2, <1>a, <2>1, <2>2, <2>3, Taken
<1>12. TypeOK'
  BY <1>1, <1>7, <1>11, <1>b DEF TypeOK, SectionStates
<1>13. QueuePart(dirty', cacheOrder', sections')
  <2>1. /\ {x \in In(sections') : sections'[x].cached # None}
             = {x \in In(sections) : sections[x].cached # None}
        /\ {x \in In(sections') : sections'[x].dirty} = {x \in In(sections) : sections[x].dirty}
    BY <1>8, <1>9
  <2> QED
    BY <1>1, <1>b, <2>1 DEF QueuePart
<1>14. CountPart(pending', sections') /\ RevisionPart(nextRevision', pending', sections')
  <2>1. Len(pending') <= MaxPending
    BY <1>1, <1>2, <1>11, Limits DEF CountPart
  <2>2. nextRevision' = nextRevision
    BY <1>b
  <2> QED
    BY <1>1, <1>8, <1>9, <1>11, <2>1, <2>2 DEF RevisionPart, CountPart
<1>15. CachePart(epoch', sections')
  <2>1. CachePart(epoch, sections')
    BY <1>1, <1>8, <1>9, CacheStay
  <2> QED
    BY <1>b, <2>1
<1>16. FlagPart(sections')
  BY <1>1, <1>8, <1>9 DEF FlagPart
<1> QED
  BY <1>10, <1>11, <1>12, <1>13, <1>14, <1>15, <1>16, <1>b, Parts

(* publish of a success, the last alternative of TakeStep.                 *)
TakePublished(i) ==
  /\ pending' = SwapRemove(pending, i) /\ IsCurrent(pending[i]) /\ pending[i].ok
  /\ PublishCached(pending[i])
  /\ UNCHANGED <<source, dirty, drive, orphans, poolClosed>>

(* The accepted job was its section's only answer: its bytes go behind the *)
(* others, and at the limit the oldest leave, which are another section's. *)
LEMMA TakePublishedInv ==
  ASSUME PreparationInv, NEW i \in 1..Len(pending), TakePublished(i)
  PROVE  PreparationInv'
<1> DEFINE t == pending[i]
           s == t.section
           old == sections[s]
           full == Len(cacheOrder) = MaxCached
           first == Head(cacheOrder)
           kept == IF full THEN Tail(cacheOrder) ELSE cacheOrder
<1>1. /\ TypeOK /\ HeapPart(heap, sections) /\ QueuePart(dirty, cacheOrder, sections)
      /\ RevisionPart(nextRevision, pending, sections) /\ CachePart(epoch, sections)
      /\ JobPart(pending, epoch, sections) /\ FlagPart(sections) /\ CountPart(pending, sections)
  BY Parts
<1>2. pending \in Seq(Tasks) /\ sections \in SectionStates /\ cacheOrder \in Seq(Sections)
  BY <1>1 DEF TypeOK, SectionStates
<1>3. /\ t \in Tasks /\ s \in Sections /\ i \in DOMAIN pending /\ t.ok
      /\ Accepted(t, epoch, sections)
  BY <1>2, FieldTypes, AcceptedMeans DEF TakePublished
<1>4. /\ t.input = old.content /\ ~t.cancelled /\ old.cached = None /\ ~old.dirty
      /\ \A j \in DOMAIN pending :
           pending[j].section = s /\ Accepted(pending[j], epoch, sections) => j = i
  BY <1>1, <1>3 DEF JobPart
<1>5. old # None /\ old \in ResidentSections /\ s \in In(sections)
  BY <1>2, <1>3 DEF Accepted, SectionStates, In
<1>6. /\ sections' = [x \in Sections |->
             IF x = s THEN [old EXCEPT !.cached = t, !.failure = None]
             ELSE IF full /\ x = first THEN [sections[x] EXCEPT !.cached = None]
             ELSE sections[x]]
      /\ cacheOrder' = Append(kept, s)
  BY <1>4 DEF TakePublished, PublishCached
<1>7. /\ pending' = SwapRemove(pending, i)
      /\ UNCHANGED <<epoch, nextGeneration, nextRevision, heap, chunks, dirty, drive,
                     orphans, poolClosed>>
  BY DEF TakePublished, source
<1>8. /\ Elements(cacheOrder) = {x \in In(sections) : sections[x].cached # None}
      /\ Distinct(cacheOrder) /\ Len(cacheOrder) <= MaxCached /\ Len(cacheOrder) \in Nat
      /\ s \notin Elements(cacheOrder)
  BY <1>1, <1>2, <1>4 DEF QueuePart
<1>9. full => /\ cacheOrder # <<>> /\ Tail(cacheOrder) \in Seq(Sections)
              /\ Distinct(Tail(cacheOrder)) /\ first \in Elements(cacheOrder)
              /\ first \in Sections
              /\ Elements(Tail(cacheOrder)) = Elements(cacheOrder) \ {first}
              /\ Len(Tail(cacheOrder)) = Len(cacheOrder) - 1
  <2> SUFFICES ASSUME full PROVE /\ cacheOrder # <<>> /\ Tail(cacheOrder) \in Seq(Sections)
              /\ Distinct(Tail(cacheOrder)) /\ first \in Elements(cacheOrder)
              /\ first \in Sections
              /\ Elements(Tail(cacheOrder)) = Elements(cacheOrder) \ {first}
              /\ Len(Tail(cacheOrder)) = Len(cacheOrder) - 1
    OBVIOUS
  <2>1. cacheOrder # <<>>
    BY Limits
  <2> QED
    BY <1>2, <1>8, <2>1, QueueEnds
<1>10. /\ kept \in Seq(Sections) /\ Distinct(kept) /\ Len(kept) + 1 <= MaxCached /\ s \notin Elements(kept)
       /\ Elements(kept) = IF full THEN Elements(cacheOrder) \ {first} ELSE Elements(cacheOrder)
  <2>1. CASE full
    BY <1>8, <1>9, <2>1, Limits
  <2>2. CASE ~full
    BY <1>2, <1>8, <2>2, Limits
  <2> QED
    BY <2>1, <2>2
<1> HIDE DEF kept
<1>11. /\ cacheOrder' \in Seq(Sections) /\ Distinct(cacheOrder') /\ Len(cacheOrder') <= MaxCached
       /\ Elements(cacheOrder') = Elements(kept) \cup {s}
  <2>1. /\ Append(kept, s) \in Seq(Sections) /\ Distinct(Append(kept, s))
        /\ Len(Append(kept, s)) = Len(kept) + 1
        /\ Elements(Append(kept, s)) = Elements(kept) \cup {s}
    BY <1>3, <1>10, QueueEnds
  <2> QED
    BY <1>6, <1>10, <2>1
<1>12. full => first # s /\ first \in In(sections)
  BY <1>8, <1>9
<1> DEFINE evicted(x) == full /\ x = first
<1>13. /\ sections'[s] \in ResidentSections /\ sections'[s].cached = t
       /\ sections'[s].failure = None /\ sections'[s].dirty = old.dirty
       /\ sections'[s].wanted = old.wanted /\ sections'[s].size = old.size
       /\ sections'[s].content = old.content /\ sections'[s].revision = old.revision
       /\ sections'[s].generation = old.generation
  <2>1. sections'[s] = [old EXCEPT !.cached = t, !.failure = None]
    BY <1>3, <1>6
  <2> HIDE DEF old, t
  <2> QED
    BY <1>3, <1>5, <2>1 DEF ResidentSections
<1>14. ASSUME NEW x \in In(sections), x # s
       PROVE  /\ sections'[x] \in ResidentSections
              /\ sections'[x].cached = IF evicted(x) THEN None ELSE sections[x].cached
              /\ sections'[x].failure = sections[x].failure /\ sections'[x].dirty = sections[x].dirty
              /\ sections'[x].wanted = sections[x].wanted /\ sections'[x].size = sections[x].size
              /\ sections'[x].content = sections[x].content
              /\ sections'[x].revision = sections[x].revision
              /\ sections'[x].generation = sections[x].generation
  <2>1. x \in Sections /\ sections[x] \in ResidentSections
    BY <1>2 DEF In, SectionStates
  <2>2. sections'[x] = IF evicted(x) THEN [sections[x] EXCEPT !.cached = None] ELSE sections[x]
    BY <1>6, <1>14, <2>1
  <2> HIDE DEF evicted
  <2> QED
    BY <2>1, <2>2 DEF ResidentSections
<1>15. \A x \in Sections : x \notin In(sections) => sections'[x] = None
  BY <1>5, <1>6, <1>12 DEF In
<1> HIDE DEF evicted, full, first
<1>16. sections' \in SectionStates /\ In(sections') = In(sections)
  <2>1. \A x \in In(sections) : sections'[x] \in ResidentSections /\ x \in Sections
    BY <1>13, <1>14 DEF In
  <2>2. In(sections') = In(sections)
    BY <1>15, <2>1, FieldTypes DEF In
  <2>3. sections' = [x \in Sections |-> sections'[x]]
    BY <1>6
  <2>4. \A x \in Sections : sections'[x] \in ResidentSections \cup {None}
    BY <1>15, <2>1
  <2> QED
    BY <2>2, <2>3, <2>4 DEF SectionStates
<1>17. \A x \in In(sections) :
         /\ sections'[x].size = sections[x].size /\ sections'[x].content = sections[x].content
         /\ sections'[x].revision = sections[x].revision
         /\ sections'[x].generation = sections[x].generation
         /\ sections'[x].dirty = sections[x].dirty /\ sections'[x].wanted = sections[x].wanted
         /\ sections'[x].failure \in {None, sections[x].failure}
         /\ sections'[x].cached = IF x = s THEN t ELSE IF evicted(x) THEN None
                                  ELSE sections[x].cached
  BY <1>13, <1>14
<1> HIDE DEF old
<1>18. /\ HeapPart(heap, sections')
       /\ \A u \in Tasks : Accepted(u, epoch, sections') <=> Accepted(u, epoch, sections)
  BY <1>1, <1>2, <1>16, <1>17, SourcesStay
<1>19. /\ pending' \in Seq(Tasks) /\ Len(pending') <= Len(pending)
       /\ \A k \in DOMAIN pending' : pending'[k].revision <= nextRevision
       /\ JobPart(pending', epoch, sections')
  <2>1. \A k \in DOMAIN pending : pending[k].revision <= nextRevision
    BY <1>1 DEF RevisionPart
  <2>2. ASSUME NEW k \in DOMAIN pending, k # i, Accepted(pending[k], epoch, sections')
        PROVE  /\ Accepted(pending[k], epoch, sections)
               /\ sections'[pending[k].section].content = sections[pending[k].section].content
               /\ sections'[pending[k].section].cached = None
               /\ ~sections'[pending[k].section].dirty
    <3>1. pending[k] \in Tasks /\ pending[k].section \in Sections
      BY <1>2, FieldTypes
    <3>2. Accepted(pending[k], epoch, sections) /\ pending[k].section \in In(sections)
      BY <1>18, <2>2, <3>1 DEF Accepted, In
    <3>3. pending[k].section # s
      BY <1>4, <2>2, <3>2
    <3>4. sections[pending[k].section].cached = None /\ ~sections[pending[k].section].dirty
      BY <1>1, <3>2 DEF JobPart
    <3> QED
      BY <1>17, <3>2, <3>3, <3>4
  <2>3. JobPart(pending, epoch, sections)
    BY <1>1
  <2> QED
    BY <1>2, <1>7, <2>1, <2>2, <2>3, Taken
<1>20. TypeOK'
  BY <1>1, <1>7, <1>11, <1>16, <1>19 DEF TypeOK, SectionStates
<1>21. QueuePart(dirty', cacheOrder', sections')
  <2>1. {x \in In(sections') : sections'[x].dirty} = {x \in In(sections) : sections[x].dirty}
    BY <1>16, <1>17
  <2>2. t # None
    BY <1>3, FieldTypes
  <2>3. {x \in In(sections') : sections'[x].cached # None}
          = {x \in In(sections) : sections[x].cached # None /\ ~evicted(x)} \cup {s}
    BY <1>5, <1>16, <1>17, <2>2
  <2>4. Elements(kept) = {x \in In(sections) : sections[x].cached # None /\ ~evicted(x)}
    BY <1>8, <1>10 DEF evicted
  <2> QED
    BY <1>1, <1>7, <1>11, <2>1, <2>3, <2>4 DEF QueuePart
<1>22. CountPart(pending', sections') /\ RevisionPart(nextRevision', pending', sections')
  <2>1. Len(pending') <= MaxPending
    BY <1>1, <1>2, <1>19, Limits DEF CountPart
  <2> QED
    BY <1>1, <1>7, <1>16, <1>17, <1>19, <2>1 DEF RevisionPart, CountPart
<1>23. CachePart(epoch', sections')
  <2>1. ASSUME NEW x \in In(sections), sections'[x].cached # None
        PROVE  /\ sections'[x].cached.input = sections'[x].content
               /\ sections'[x].cached.section = x /\ sections'[x].cached.epoch = epoch
               /\ sections'[x].cached.revision = sections'[x].revision
               /\ sections'[x].cached.generation = sections'[x].generation
               /\ sections'[x].cached.ok /\ ~sections'[x].cached.cancelled
    <3>1. CASE x = s
      <4>1. /\ sections'[x].cached = t /\ sections'[x].content = old.content
            /\ sections'[x].revision = old.revision /\ sections'[x].generation = old.generation
        BY <1>13, <3>1
      <4>2. /\ t.section = x /\ t.epoch = epoch /\ t.revision = old.revision
            /\ t.generation = old.generation
        BY <1>3, <3>1 DEF Accepted, old
      <4> HIDE DEF t
      <4> QED
        BY <1>3, <1>4, <4>1, <4>2
    <3>2. CASE x # s
      <4>1. sections'[x].cached = sections[x].cached
        BY <1>17, <2>1, <3>2
      <4> QED
        BY <1>1, <1>17, <2>1, <4>1 DEF CachePart
    <3> QED
      BY <3>1, <3>2
  <2> QED
    BY <1>7, <1>16, <2>1 DEF CachePart
<1>24. FlagPart(sections')
  <2>1. None # "cancelled"
    BY NoneAssumption
  <2>2. \A x \in In(sections) : sections[x].dirty => x # s
    BY <1>4 DEF old
  <2> QED
    BY <1>1, <1>16, <1>17, <2>1, <2>2 DEF FlagPart
<1> QED
  BY <1>7, <1>18, <1>19, <1>20, <1>21, <1>22, <1>23, <1>24, Parts

(* One turn of the first loop.                                             *)
LEMMA TakeStepInv ==
  ASSUME PreparationInv, TakeStep
  PROVE  PreparationInv'
<1> DEFINE i == drive.index
           t == pending[i]
<1>1. TypeOK
  BY Parts
<1>2. drive \in Drives /\ i <= Len(pending) /\ UNCHANGED <<source, dirty, orphans, poolClosed>>
  BY <1>1 DEF TakeStep, TypeOK
<1>3. i \in 1..Len(pending)
  <2>1. i \in Nat \ {0} /\ Len(pending) \in Nat
    BY <1>1, <1>2 DEF Drives, TypeOK
  <2> QED
    BY <1>2, <2>1
<1>4. CASE ~t.ready
  <2>1. drive' = [drive EXCEPT !.index = i + 1] /\ UNCHANGED <<sections, pending, cacheOrder>>
    BY <1>4 DEF TakeStep
  <2>2. drive' \in Drives
    BY <1>2, <2>1 DEF Drives
  <2>3. TypeOK'
    BY <1>1, <1>2, <2>1, <2>2 DEF TypeOK, source
  <2> QED
    BY <1>2, <2>1, <2>3, Untouched DEF source
<1>5. CASE t.ready
  <2>1. /\ pending' = SwapRemove(pending, i) /\ UNCHANGED drive
        /\ CASE ~IsCurrent(t) -> UNCHANGED <<sections, cacheOrder>>
             [] IsCurrent(t) /\ (t.cancelled \/ ~t.ok) ->
                  /\ sections' = [sections EXCEPT ![t.section].failure =
                                    IF t.cancelled THEN "cancelled" ELSE "error"]
                  /\ UNCHANGED cacheOrder
             [] OTHER -> PublishCached(t)
    BY <1>5 DEF TakeStep
  <2>2. CASE ~IsCurrent(t)
    <3>1. UNCHANGED <<sections, cacheOrder>>
      BY <2>1, <2>2
    <3> QED
      BY <1>2, <1>3, <2>1, <3>1, TakeStaleInv
  <2>3. CASE IsCurrent(t) /\ (t.cancelled \/ ~t.ok)
    <3>1. TakeFailed(i)
      BY <1>2, <2>1, <2>3 DEF TakeFailed
    <3> QED
      BY <1>3, <3>1, TakeFailedInv
  <2>4. CASE IsCurrent(t) /\ ~(t.cancelled \/ ~t.ok)
    <3>1. PublishCached(t) /\ t.ok
      BY <2>1, <2>4
    <3>2. TakePublished(i)
      BY <1>2, <2>1, <2>4, <3>1 DEF TakePublished
    <3> QED
      BY <1>3, <3>2, TakePublishedInv
  <2> QED
    BY <2>2, <2>3, <2>4
<1> QED
  BY <1>4, <1>5

(* A submitted job is its section's first for this revision: the section   *)
(* was queued, so it had neither bytes nor an accepted job.                *)
LEMMA SubmitStepInv ==
  ASSUME PreparationInv, SubmitStep
  PROVE  PreparationInv'
<1> DEFINE s == Head(dirty)
           old == sections[s]
           u == [section |-> s, epoch |-> epoch, revision |-> old.revision,
                 generation |-> old.generation, input |-> old.content,
                 cancelled |-> FALSE, ready |-> FALSE, ok |-> FALSE]
           n == [old EXCEPT !.dirty = FALSE]
<1>1. /\ TypeOK /\ HeapPart(heap, sections) /\ QueuePart(dirty, cacheOrder, sections)
      /\ RevisionPart(nextRevision, pending, sections) /\ CachePart(epoch, sections)
      /\ JobPart(pending, epoch, sections) /\ FlagPart(sections) /\ CountPart(pending, sections)
  BY Parts
<1>2. /\ pending \in Seq(Tasks) /\ sections \in SectionStates /\ dirty \in Seq(Sections)
      /\ epoch \in 0..MaxEpoch
  BY <1>1 DEF TypeOK, SectionStates
<1>3. /\ dirty # <<>> /\ Len(pending) # MaxPending /\ pending' = Append(pending, u)
      /\ dirty' = Tail(dirty) /\ sections' = [sections EXCEPT ![s].dirty = FALSE]
  BY DEF SubmitStep
<1>4. UNCHANGED <<epoch, nextGeneration, nextRevision, heap, chunks, cacheOrder, drive,
                  orphans, poolClosed>>
  BY DEF SubmitStep, source
<1>5. Elements(dirty) = {x \in In(sections) : sections[x].dirty} /\ Distinct(dirty)
  BY <1>1 DEF QueuePart
<1>6. /\ dirty' \in Seq(Sections) /\ Distinct(dirty') /\ s \in Elements(dirty) /\ s \in Sections
      /\ Elements(dirty') = Elements(dirty) \ {s}
  BY <1>2, <1>3, <1>5, QueueEnds
<1>7. s \in In(sections) /\ old.dirty /\ old \in ResidentSections
  BY <1>2, <1>5, <1>6 DEF In, SectionStates
<1>8. old.wanted /\ old.cached = None
  BY <1>1, <1>7 DEF FlagPart
<1>9. /\ u \in Tasks /\ u.section = s /\ u.epoch = epoch /\ u.revision = old.revision
      /\ u.generation = old.generation /\ u.input = old.content /\ ~u.cancelled
  <2>1. /\ old.revision \in 1..MaxRevision /\ old.generation \in 1..MaxGeneration
        /\ old.content \in Contents
    BY <1>7, FieldTypes
  <2> HIDE DEF old, s
  <2> QED
    BY <1>2, <1>6, <2>1 DEF Tasks
<1>10. /\ n \in ResidentSections /\ n.size = old.size /\ n.content = old.content
       /\ n.revision = old.revision /\ n.generation = old.generation /\ n.cached = old.cached
       /\ n.dirty = FALSE /\ n.wanted = old.wanted /\ n.failure = old.failure
  <2> HIDE DEF old
  <2> QED
    BY <1>7 DEF ResidentSections
<1>11. sections' = [sections EXCEPT ![s] = n]
  BY <1>2, <1>3, <1>6 DEF SectionStates
<1> HIDE DEF u, n, s
<1>12. /\ sections' \in SectionStates /\ sections'[s] = n
       /\ \A x \in Sections : x # s => sections'[x] = sections[x]
  BY <1>2, <1>6, <1>10, <1>11 DEF SectionStates
<1>13. In(sections') = In(sections) /\ \A x \in In(sections) : x \in Sections
  BY <1>7, <1>10, <1>12, FieldTypes DEF In
<1>14. \A x \in In(sections) :
         /\ sections'[x].size = sections[x].size /\ sections'[x].content = sections[x].content
         /\ sections'[x].revision = sections[x].revision
         /\ sections'[x].generation = sections[x].generation
         /\ sections'[x].cached = sections[x].cached /\ sections'[x].wanted = sections[x].wanted
         /\ sections'[x].failure = sections[x].failure
         /\ sections'[x].dirty = IF x = s THEN FALSE ELSE sections[x].dirty
  BY <1>10, <1>12, <1>13
<1>15. /\ HeapPart(heap, sections')
       /\ \A t \in Tasks : Accepted(t, epoch, sections') <=> Accepted(t, epoch, sections)
  <2>1. HeapPart(heap, sections)
    BY <1>1
  <2> QED
    BY <1>2, <1>12, <1>13, <1>14, <2>1, SourcesStay
<1>16. /\ pending' \in Seq(Tasks) /\ Len(pending') = Len(pending) + 1 /\ Len(pending) \in Nat
       /\ DOMAIN pending = 1..Len(pending) /\ DOMAIN pending' = 1..(Len(pending) + 1)
       /\ pending'[Len(pending) + 1] = u /\ \A k \in 1..Len(pending) : pending'[k] = pending[k]
  BY <1>2, <1>3, <1>9
<1>17. TypeOK'
  BY <1>1, <1>4, <1>6, <1>12, <1>16 DEF TypeOK, SectionStates
<1>18. QueuePart(dirty', cacheOrder', sections')
  <2>1. {x \in In(sections') : sections'[x].cached # None}
          = {x \in In(sections) : sections[x].cached # None}
    BY <1>13, <1>14
  <2>2. {x \in In(sections') : sections'[x].dirty} = {x \in In(sections) : sections[x].dirty} \ {s}
    BY <1>13, <1>14
  <2> QED
    BY <1>1, <1>4, <1>5, <1>6, <2>1, <2>2 DEF QueuePart
<1>19. CountPart(pending', sections')
  BY <1>1, <1>3, <1>13, <1>16, Limits DEF CountPart
<1>20. RevisionPart(nextRevision', pending', sections')
  <2>1. \A x \in In(sections') : sections'[x].revision <= nextRevision
    BY <1>1, <1>13, <1>14 DEF RevisionPart
  <2>2. ASSUME NEW k \in DOMAIN pending' PROVE pending'[k].revision <= nextRevision
    <3>1. CASE k \in 1..Len(pending)
      BY <1>1, <1>16, <3>1 DEF RevisionPart
    <3>2. CASE k = Len(pending) + 1
      BY <1>1, <1>7, <1>9, <1>16, <3>2 DEF RevisionPart
    <3> QED
      BY <1>16, <3>1, <3>2
  <2> QED
    BY <1>4, <2>1, <2>2 DEF RevisionPart
<1>21. CachePart(epoch', sections')
  <2>1. CachePart(epoch, sections)
    BY <1>1
  <2>2. \A x \in In(sections') :
          /\ x \in In(sections) /\ sections'[x].cached = sections[x].cached
          /\ sections'[x].content = sections[x].content
          /\ sections'[x].revision = sections[x].revision
          /\ sections'[x].generation = sections[x].generation
    BY <1>13, <1>14
  <2>3. CachePart(epoch, sections')
    BY <2>1, <2>2, CacheStay
  <2> QED
    BY <1>4, <2>3
<1>22. FlagPart(sections')
  BY <1>1, <1>13, <1>14 DEF FlagPart
<1>23. JobPart(pending', epoch', sections')
  <2>1. \A k \in DOMAIN pending : pending[k].section = s => ~Accepted(pending[k], epoch, sections)
    BY <1>1, <1>7 DEF JobPart
  <2>2. \A k \in 1..Len(pending) :
          /\ pending[k].section \in Sections
          /\ Accepted(pending[k], epoch, sections') => Accepted(pending[k], epoch, sections)
    BY <1>2, <1>15, FieldTypes
  <2>3. \A k \in 1..Len(pending) : Accepted(pending[k], epoch, sections') =>
          /\ pending[k].section # s
          /\ sections'[pending[k].section] = sections[pending[k].section]
    BY <1>12, <1>16, <2>1, <2>2
  <2> DEFINE Sound(k) == /\ pending'[k].input = sections'[pending'[k].section].content
                         /\ ~pending'[k].cancelled
                         /\ sections'[pending'[k].section].cached = None
                         /\ ~sections'[pending'[k].section].dirty
                         /\ \A j \in DOMAIN pending' :
                              pending'[j].section = pending'[k].section
                                /\ Accepted(pending'[j], epoch, sections') => j = k
  <2>4. ASSUME NEW k \in DOMAIN pending', Accepted(pending'[k], epoch, sections')
        PROVE  Sound(k)
    <3>1. CASE k = Len(pending) + 1
      <4>1. pending'[k] = u
        BY <1>16, <3>1
      <4>2. ASSUME NEW j \in DOMAIN pending', pending'[j].section = s,
                   Accepted(pending'[j], epoch, sections')
            PROVE  j = k
        BY <1>16, <2>3, <3>1, <4>2
      <4>3. /\ sections'[s].content = old.content /\ sections'[s].cached = None
            /\ sections'[s].dirty = FALSE
        BY <1>8, <1>10, <1>12
      <4> QED
        BY <1>9, <4>1, <4>2, <4>3
    <3>2. CASE k \in 1..Len(pending)
      <4>1. pending'[k] = pending[k]
        BY <1>16, <3>2
      <4>2. /\ Accepted(pending[k], epoch, sections) /\ pending[k].section # s
            /\ sections'[pending[k].section] = sections[pending[k].section]
        BY <2>2, <2>3, <2>4, <3>2, <4>1
      <4>3. /\ pending[k].input = sections[pending[k].section].content /\ ~pending[k].cancelled
            /\ sections[pending[k].section].cached = None /\ ~sections[pending[k].section].dirty
            /\ \A j \in DOMAIN pending :
                 pending[j].section = pending[k].section /\ Accepted(pending[j], epoch, sections) => j = k
        BY <1>1, <1>16, <3>2, <4>2 DEF JobPart
      <4>4. ASSUME NEW j \in DOMAIN pending', pending'[j].section = pending[k].section,
                   Accepted(pending'[j], epoch, sections')
            PROVE  j = k
        <5>1. j # Len(pending) + 1
          BY <1>9, <1>16, <4>2, <4>4
        <5>2. j \in 1..Len(pending) /\ pending'[j] = pending[j]
          BY <1>16, <5>1
        <5> QED
          BY <1>16, <2>2, <4>3, <4>4, <5>2
      <4> QED
        BY <4>1, <4>2, <4>3, <4>4
    <3> QED
      BY <1>16, <3>1, <3>2
  <2> QED
    BY <1>4, <2>4 DEF JobPart
<1> QED
  BY <1>4, <1>15, <1>17, <1>18, <1>19, <1>20, <1>21, <1>22, <1>23, Parts

(* Evicting the oldest bytes for a slot.                                   *)
LEMMA EvictStepInv ==
  ASSUME PreparationInv, EvictStep
  PROVE  PreparationInv'
<1> DEFINE s == Head(cacheOrder)
           old == sections[s]
           n == [old EXCEPT !.cached = None]
<1>1. /\ TypeOK /\ HeapPart(heap, sections) /\ QueuePart(dirty, cacheOrder, sections)
      /\ RevisionPart(nextRevision, pending, sections) /\ CachePart(epoch, sections)
      /\ JobPart(pending, epoch, sections) /\ FlagPart(sections) /\ CountPart(pending, sections)
  BY Parts
<1>2. pending \in Seq(Tasks) /\ sections \in SectionStates /\ cacheOrder \in Seq(Sections)
  BY <1>1 DEF TypeOK, SectionStates
<1>3. /\ cacheOrder # <<>> /\ cacheOrder' = Tail(cacheOrder)
      /\ sections' = [sections EXCEPT ![s].cached = None]
  BY DEF EvictStep
<1>4. UNCHANGED <<epoch, nextGeneration, nextRevision, heap, chunks, pending, dirty, drive,
                  orphans, poolClosed>>
  BY DEF EvictStep, source
<1>5. /\ Elements(cacheOrder) = {x \in In(sections) : sections[x].cached # None}
      /\ Distinct(cacheOrder) /\ Len(cacheOrder) <= MaxCached
  BY <1>1 DEF QueuePart
<1>6. /\ cacheOrder' \in Seq(Sections) /\ Distinct(cacheOrder') /\ s \in Elements(cacheOrder)
      /\ s \in Sections /\ Elements(cacheOrder') = Elements(cacheOrder) \ {s}
      /\ Len(cacheOrder') = Len(cacheOrder) - 1
  BY <1>2, <1>3, <1>5, QueueEnds
<1>7. s \in In(sections) /\ old \in ResidentSections
  BY <1>2, <1>5, <1>6 DEF In, SectionStates
<1>8. /\ n \in ResidentSections /\ n.size = old.size /\ n.content = old.content
      /\ n.revision = old.revision /\ n.generation = old.generation /\ n.cached = None
      /\ n.dirty = old.dirty /\ n.wanted = old.wanted /\ n.failure = old.failure
  <2> HIDE DEF old
  <2> QED
    BY <1>7 DEF ResidentSections
<1>9. sections' = [sections EXCEPT ![s] = n]
  BY <1>2, <1>3, <1>6 DEF SectionStates
<1> HIDE DEF n, s
<1>10. /\ sections' \in SectionStates /\ sections'[s] = n
       /\ \A x \in Sections : x # s => sections'[x] = sections[x]
  BY <1>2, <1>6, <1>8, <1>9 DEF SectionStates
<1>11. In(sections') = In(sections) /\ \A x \in In(sections) : x \in Sections
  BY <1>7, <1>8, <1>10, FieldTypes DEF In
<1>12. \A x \in In(sections) :
         /\ sections'[x].size = sections[x].size /\ sections'[x].content = sections[x].content
         /\ sections'[x].revision = sections[x].revision
         /\ sections'[x].generation = sections[x].generation
         /\ sections'[x].dirty = sections[x].dirty /\ sections'[x].wanted = sections[x].wanted
         /\ sections'[x].failure = sections[x].failure
         /\ sections'[x].cached = IF x = s THEN None ELSE sections[x].cached
  BY <1>8, <1>10, <1>11
<1>13. /\ HeapPart(heap, sections')
       /\ \A t \in Tasks : Accepted(t, epoch, sections') <=> Accepted(t, epoch, sections)
  <2>1. HeapPart(heap, sections)
    BY <1>1
  <2> QED
    BY <1>2, <1>10, <1>11, <1>12, <2>1, SourcesStay
<1>14. TypeOK'
  BY <1>1, <1>4, <1>6, <1>10 DEF TypeOK, SectionStates
<1>15. QueuePart(dirty', cacheOrder', sections')
  <2>1. {x \in In(sections') : sections'[x].cached # None}
          = {x \in In(sections) : sections[x].cached # None} \ {s}
    BY <1>11, <1>12
  <2>2. {x \in In(sections') : sections'[x].dirty} = {x \in In(sections) : sections[x].dirty}
    BY <1>11, <1>12
  <2>3. Len(cacheOrder') <= MaxCached
    BY <1>2, <1>5, <1>6, Limits
  <2> QED
    BY <1>1, <1>4, <1>6, <2>1, <2>2, <2>3 DEF QueuePart
<1>16. CountPart(pending', sections') /\ RevisionPart(nextRevision', pending', sections')
  BY <1>1, <1>4, <1>11, <1>12 DEF CountPart, RevisionPart
<1>17. CachePart(epoch', sections')
  <2>1. CachePart(epoch, sections)
    BY <1>1
  <2>2. CachePart(epoch, sections')
    BY <1>11, <1>12, <2>1, CacheStay
  <2> QED
    BY <1>4, <2>2
<1>18. FlagPart(sections')
  BY <1>1, <1>11, <1>12 DEF FlagPart
<1>19. JobPart(pending', epoch', sections')
  <2>1. ASSUME NEW j \in DOMAIN pending, Accepted(pending[j], epoch, sections')
        PROVE  /\ Accepted(pending[j], epoch, sections) /\ ~pending[j].cancelled
               /\ sections'[pending[j].section].content = sections[pending[j].section].content
               /\ sections'[pending[j].section].cached = None
               /\ ~sections'[pending[j].section].dirty
    <3>1. pending[j] \in Tasks /\ pending[j].section \in Sections
      BY <1>2, FieldTypes
    <3>2. Accepted(pending[j], epoch, sections) /\ pending[j].section \in In(sections)
      BY <1>13, <2>1, <3>1 DEF Accepted, In
    <3>3. /\ ~pending[j].cancelled /\ sections[pending[j].section].cached = None
          /\ ~sections[pending[j].section].dirty
      BY <1>1, <3>2 DEF JobPart
    <3> QED
      BY <1>12, <3>2, <3>3
  <2>2. JobPart(pending, epoch, sections)
    BY <1>1
  <2>3. JobPart(pending, epoch, sections')
    BY <2>1, <2>2, JobsStay
  <2> QED
    BY <1>4, <2>3
<1> QED
  BY <1>4, <1>13, <1>14, <1>15, <1>16, <1>17, <1>18, <1>19, Parts

(* A worker ends a job; its identity and its input stay.                   *)
LEMMA FinishInv ==
  ASSUME PreparationInv, NEW i, NEW ok \in BOOLEAN, Finish(i, ok)
  PROVE  PreparationInv'
<1>1. /\ TypeOK /\ HeapPart(heap, sections) /\ QueuePart(dirty, cacheOrder, sections)
      /\ RevisionPart(nextRevision, pending, sections) /\ CachePart(epoch, sections)
      /\ JobPart(pending, epoch, sections) /\ FlagPart(sections) /\ CountPart(pending, sections)
  BY Parts
<1>2. pending \in Seq(Tasks) /\ i \in DOMAIN pending /\ i \in 1..Len(pending) /\ Len(pending) \in Nat
  BY <1>1 DEF TypeOK, Finish
<1>3. pending' = [pending EXCEPT ![i].ready = TRUE, ![i].ok = ok]
        /\ UNCHANGED <<epoch, nextGeneration, nextRevision, heap, chunks, sections, dirty,
                       cacheOrder, drive, orphans, poolClosed>>
  BY DEF Finish, source
<1> DEFINE t == pending[i]
           u == [t EXCEPT !.ready = TRUE, !.ok = ok]
<1>4. t \in Tasks
  BY <1>2
<1>5. /\ u \in Tasks /\ u.section = t.section /\ u.epoch = t.epoch /\ u.revision = t.revision
      /\ u.generation = t.generation /\ u.input = t.input /\ u.cancelled = t.cancelled
  <2> HIDE DEF t
  <2> QED
    BY <1>4 DEF Tasks
<1>6. pending' = [pending EXCEPT ![i] = u]
  BY <1>2, <1>3, <1>4 DEF Tasks
<1> HIDE DEF u
<1>7. /\ pending' \in Seq(Tasks) /\ Len(pending') = Len(pending) /\ DOMAIN pending' = DOMAIN pending
      /\ pending'[i] = u /\ \A k \in DOMAIN pending : k # i => pending'[k] = pending[k]
  BY <1>2, <1>5, <1>6
<1>8. \A k \in DOMAIN pending :
        /\ pending'[k].section = pending[k].section /\ pending'[k].epoch = pending[k].epoch
        /\ pending'[k].revision = pending[k].revision
        /\ pending'[k].generation = pending[k].generation
        /\ pending'[k].input = pending[k].input /\ pending'[k].cancelled = pending[k].cancelled
  BY <1>5, <1>7
<1>9. TypeOK'
  BY <1>1, <1>3, <1>7 DEF TypeOK
<1>10. CountPart(pending', sections') /\ RevisionPart(nextRevision', pending', sections')
  BY <1>1, <1>3, <1>7, <1>8 DEF CountPart, RevisionPart
<1>11. JobPart(pending', epoch', sections')
  <2>1. \A k \in DOMAIN pending :
          Accepted(pending'[k], epoch, sections) <=> Accepted(pending[k], epoch, sections)
    BY <1>8 DEF Accepted
  <2>2. \A k \in DOMAIN pending : Accepted(pending'[k], epoch, sections) =>
          /\ Accepted(pending[k], epoch, sections) /\ ~pending'[k].cancelled
          /\ sections[pending[k].section].content = sections[pending[k].section].content
          /\ sections[pending[k].section].cached = None /\ ~sections[pending[k].section].dirty
    BY <1>1, <1>8, <2>1 DEF JobPart
  <2>3. JobPart(pending', epoch, sections)
    BY <1>1, <1>7, <1>8, <2>2, JobsStay
  <2> QED
    BY <1>3, <2>3
<1> QED
  BY <1>1, <1>3, <1>9, <1>10, <1>11, Parts

-----------------------------------------------------------------------------
(* The invariant, and what it says.                                        *)

(* Every step of the owner, a worker or the server keeps the invariant.    *)
LEMMA PreparationKept == PreparationInv /\ [Next]_vars => PreparationInv'
<1> SUFFICES ASSUME PreparationInv, [Next]_vars PROVE PreparationInv'
  OBVIOUS
<1>1. CASE \E c \in Chunks : load_chunk(c) \/ unload_chunk(c)
  BY <1>1, QuietInv, unload_chunkInv
<1>2. CASE \E s \in Sections :
             \/ request(s)
             \/ \E v \in Contents, size \in Sizes : load_section(s, v, size) \/ Write(s, v, size)
  BY <1>2, requestInv, load_sectionInv, WriteInv
<1>3. CASE reload \/ BeginDrive \/ DriveStep
  BY <1>3, reloadInv, QuietInv, TakeStepInv, SubmitStepInv, EvictStepInv DEF DriveStep
<1>4. CASE \E i \in 1..MaxPending, ok \in BOOLEAN : Finish(i, ok)
  BY <1>4, FinishInv
<1>5. CASE FinishOrphan \/ ClosePool \/ UNCHANGED vars
  BY <1>5, QuietInv
<1> QED
  BY <1>1, <1>2, <1>3, <1>4, <1>5 DEF Next

(* PreparationInv holds in every reachable state of the section owner of   *)
(* world/preparation.rs: its counters, queues and flags agree and every    *)
(* job or cached completion is accounted for.                              *)
THEOREM PreparationInvariant == Spec => []PreparationInv
BY PreparationStart, PreparationKept, PTL DEF Spec

(* Cached network bytes are always those of the section as it is now: no   *)
(* write, unload, reload or late completion leaves older ones behind.      *)
THEOREM PreparationCurrent == Spec => []CachedIsCurrent
<1>1. PreparationInv => CachedIsCurrent
  BY DEF PreparationInv
<1> QED
  BY <1>1, PreparationInvariant, PTL

(* The dirty and cache queues are the flags, without repetition and within *)
(* the capacity reserved for them, and source_heap_bytes is the sum of the *)
(* loaded palettes.                                                        *)
THEOREM PreparationBookkeeping == Spec => []BookkeepingExact
<1>1. ASSUME PreparationInv PROVE BookkeepingExact
  <2>1. /\ TypeOK /\ heap = SumFunctionOnSet(SizeOf, Loaded)
        /\ Elements(dirty) = {s \in Loaded : sections[s].dirty} /\ Distinct(dirty)
        /\ Elements(cacheOrder) = {s \in Loaded : sections[s].cached # None}
        /\ Distinct(cacheOrder) /\ Len(cacheOrder) <= MaxCached /\ Len(pending) <= MaxPending
        /\ Cardinality(Loaded) <= MaxSections
    BY <1>1 DEF PreparationInv, QueuesExact
  <2>2. dirty \in Seq(Sections) /\ cacheOrder \in Seq(Sections)
    BY <2>1 DEF TypeOK
  <2>3. /\ Cardinality(Elements(dirty)) = Len(dirty)
        /\ Cardinality(Elements(cacheOrder)) = Len(cacheOrder)
    BY <2>1, <2>2, DistinctLength
  <2>4. Cardinality(Elements(dirty)) <= Cardinality(Loaded)
    <3>1. Loaded \in SUBSET Sections /\ Elements(dirty) \in SUBSET Loaded
      BY <2>1 DEF Loaded
    <3> QED
      BY <3>1, PreparationAssumption, FS_Subset
  <2>5. Cardinality(Loaded) \in Nat
    <3>1. Loaded \in SUBSET Sections
      BY DEF Loaded
    <3> QED
      BY <3>1, PreparationAssumption, FS_Subset, FS_CardinalityType
  <2>6. Len(dirty) <= MaxSections
    BY <2>1, <2>2, <2>3, <2>4, <2>5, Limits
  <2> QED
    BY <2>1, <2>3, <2>6 DEF BookkeepingExact
<1> QED
  BY <1>1, PreparationInvariant, PTL

(* A section's present revision is prepared by at most one job, which is   *)
(* never cancelled, and not again while its bytes are cached or the        *)
(* section is still queued.                                                *)
THEOREM PreparationCoalesces == Spec => []WorkCoalesces
<1>1. ASSUME PreparationInv PROVE WorkCoalesces
  <2>1. TypeOK /\ JobsCurrent /\ FlagsExact
    BY <1>1 DEF PreparationInv
  <2>2. CurrentWorkNotCancelled
    BY <2>1 DEF JobsCurrent, FlagsExact, CurrentWorkNotCancelled
  <2>3. ASSUME NEW s \in Loaded
        PROVE  LET jobs == {i \in PendingOf(s) : IsCurrent(pending[i])}
               IN  /\ Cardinality(jobs) <= 1
                   /\ jobs # {} => sections[s].cached = None /\ ~sections[s].dirty
    <3> DEFINE jobs == {i \in PendingOf(s) : IsCurrent(pending[i])}
    <3>1. \A i, j \in jobs : j = i
      BY <2>1 DEF JobsCurrent, PendingOf
    <3>2. \A i \in jobs : sections[s].cached = None /\ ~sections[s].dirty
      BY <2>1 DEF JobsCurrent, PendingOf
    <3> HIDE DEF jobs
    <3>3. CASE jobs = {}
      <4>1. Cardinality(jobs) = 0
        BY <3>3, FS_EmptySet
      <4> QED
        BY <3>3, <4>1 DEF jobs
    <3>4. CASE jobs # {}
      <4>1. PICK i \in jobs : jobs = {i}
        BY <3>1, <3>4
      <4>2. Cardinality({i}) = 1
        BY FS_Singleton
      <4>3. Cardinality(jobs) <= 1 /\ sections[s].cached = None /\ ~sections[s].dirty
        BY <3>2, <4>1, <4>2
      <4> QED
        BY <4>3 DEF jobs
    <3> QED
      BY <3>3, <3>4
  <2> QED
    BY <2>2, <2>3 DEF WorkCoalesces, NoDuplicateWork
<1> QED
  BY <1>1, PreparationInvariant, PTL
=============================================================================
