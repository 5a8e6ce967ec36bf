--------------------------- MODULE ScheduledTicks ---------------------------
(***************************************************************************)
(* The scheduled tick owner of world/ticks.rs (ScheduledTickOwner): per    *)
(* chunk and domain a queue of ticks with the set of identities that keeps *)
(* duplicates out, saved entries that wait to be unpacked, a scheduling    *)
(* index from a chunk to the time of its first tick, and the phase that    *)
(* selects due ticks chunk by chunk and hands them out one by one.         *)
(*                                                                         *)
(* A queue is a bag of ticks: which of two ticks with equal keys its heap  *)
(* pops first is open here (TickHeap, TickIndex and TickCounts model the   *)
(* heaps and hash tables).                                                 *)
(* Positions are points of a line, a chunk is ChunkWidth of them, an area  *)
(* an interval. A caller may act between any two calls, callbacks of a     *)
(* running phase included; begin_phase alone takes several steps, during   *)
(* which the owner is inside the call.                                     *)
(***************************************************************************)
EXTENDS Integers, SequencesExt, Bags, Queues

CONSTANTS
  Domains,       \* Block and Fluid
  ChunkWidth,    \* 16
  Addresses,     \* addresses of chunks callers register
  Types,         \* type ids below block_types and fluid_types
  Eligibilities, \* addresses with the eligibility callers give them
  Requests,      \* what callers schedule
  Loads,         \* saved chunks callers load, a list per domain
  Clears,        \* areas <<min, max>> callers clear, with a domain
  Copies,        \* areas and offsets of copies, with a domain
  ForeignCopies, \* snapshots of another owner's area, to be copied here
  Caps,          \* max_ticks arguments of begin_phase
  MaxChunks, QueuedPerChunk, SelectedPerPhase, AllocationBytes, \* TickLimits
  ChunkBytes,    \* bytes of the two empty queues of a chunk
  DelayHalf,     \* 2^31: a delay is an i32
  MaxTime,       \* bound on the game time
  MaxOrder,      \* bound on next_sub_tick
  None

(* SavedTick and ScheduledTick, and the locals of begin_phase. Times and   *)
(* sub orders (i64) are unbounded.                                         *)
Delays == -DelayHalf .. DelayHalf - 1
SavedTicks == [pos : Int, type : Nat, delay : Delays, priority : -3 .. 3]
Ticks == [pos : Int, type : Nat, trigger : Int, priority : -3 .. 3, order : Int]
Drains == [max : Nat, ready : SUBSET Addresses, candidate : Addresses \cup {None}]

ASSUME TickAssumption ==
  /\ IsFiniteSet(Domains) /\ IsFiniteSet(Addresses)
  /\ Addresses \subseteq Int /\ Types \subseteq Nat
  /\ ChunkWidth \in Nat \ {0} /\ DelayHalf \in Nat \ {0}
  /\ Eligibilities \subseteq Addresses \X BOOLEAN
  /\ Requests \subseteq [domain : Domains, pos : Int, type : Types, delay : Delays,
                         priority : -3 .. 3]
  /\ Loads \subseteq [chunk : Addresses, lists : [Domains -> Seq(SavedTicks)]]
  /\ Clears \subseteq [domain : Domains, area : Int \X Int]
  /\ Copies \subseteq [domain : Domains, area : Int \X Int, offset : Int]
  /\ \A x \in Clears \cup Copies : x.area[1] <= x.area[2]
  /\ ForeignCopies \subseteq [domain : Domains, snapshot : Seq(Ticks), offset : Int]
  /\ Caps \subseteq 0 .. SelectedPerPhase
  /\ {MaxChunks, QueuedPerChunk, SelectedPerPhase, AllocationBytes, ChunkBytes,
      MaxTime, MaxOrder} \subseteq Nat
  /\ None \notin Int \cup Domains \cup Seq(SavedTicks) \cup Drains

VARIABLES
  chunks,       \* the ChunkQueues that are present, by address
  index,        \* per domain, the scheduling index: chunk to time
  nextOrder,    \* next_sub_tick, shared by the domains
  active,       \* the domain of the running phase or None
  selected, cursor,
  selectedIds,  \* the lazily built will-tick set
  remaining,    \* RemainingCounts: identities still to be handed out
  drain,        \* the owner is inside begin_phase: its locals, or None
  scratch,      \* capacities of the operation scratch
  allocated,    \* allocated_bytes beyond what new() takes
  now,          \* the game time callers pass
  cleared       \* history: members of the will-tick set that were cleared

phase == <<active, selected, cursor, selectedIds, remaining, cleared>>
vars == <<chunks, index, nextOrder, phase, drain, scratch, allocated, now>>

Chunk(p) == p \div ChunkWidth
Identity(t) == [pos |-> t.pos, type |-> t.type]

(* The order of a queue, and of the first ticks of ready chunks.           *)
Precedes(t, u) ==
  \/ t.trigger < u.trigger
  \/ t.trigger = u.trigger /\ t.priority < u.priority
  \/ t.trigger = u.trigger /\ t.priority = u.priority /\ t.order < u.order
WithinTick(t, u) ==
  \/ t.priority < u.priority
  \/ t.priority = u.priority /\ t.order < u.order

Inside(area, p) == area[1] <= p /\ p <= area[2]
ContainsChunk(area, c) == Chunk(area[1]) <= c /\ c <= Chunk(area[2])

Present == DOMAIN chunks
Registered == {c \in Present : chunks[c].registered}

(* peek: the ticks a heap can have first; they agree on every key field.   *)
Heads(heap) == {t \in BagToSet(heap) : \A u \in BagToSet(heap) : ~Precedes(u, t)}
Head1(heap) == CHOOSE t \in Heads(heap) : TRUE
Pending(q) == IF q.pending = None THEN <<>> ELSE q.pending
Count(q) == SumFunction(q.heap) + Len(Pending(q))
One(t) == SetToBag({t})

(* An entry put into or dropped from the chunks or a scheduling index.     *)
Put(idx, c, time) == [x \in DOMAIN idx \cup {c} |-> IF x = c THEN time ELSE idx[x]]
Drop(idx, cs) == [x \in DOMAIN idx \ cs |-> idx[x]]

(* The index after ticks were pushed on the heap old of c, giving new: a   *)
(* tick that becomes the first one puts its time.                          *)
Pushed(idx, c, old, new) ==
  IF new # old /\ (old = EmptyBag \/ Precedes(Head1(new), Head1(old)))
  THEN Put(idx, c, Head1(new).trigger) ELSE idx

EmptyQueue == [heap |-> EmptyBag, ids |-> {}, pending |-> None, clean |-> TRUE]

(* heap_bytes of a chunk, one byte a saved entry.                          *)
Bytes(ch) == ChunkBytes + SumFunction([d \in Domains |-> Len(Pending(ch.queue[d]))])

-----------------------------------------------------------------------------
(* Containers. Calls that return an error change nothing and are left out. *)

register_chunk(c, eligible) ==
  LET known == c \in Present
      new == IF known THEN [chunks[c] EXCEPT !.registered = TRUE, !.eligible = eligible]
             ELSE [registered |-> TRUE, eligible |-> eligible,
                   queue |-> [d \in Domains |-> EmptyQueue]]
  IN  /\ drain = None
      /\ c \notin Registered
      /\ known \/ (/\ Cardinality(Present) < MaxChunks
                   /\ ChunkBytes <= AllocationBytes - allocated)
      /\ chunks' = Put(chunks, c, new)
      /\ index' = [d \in Domains |->
                     IF new.queue[d].heap = EmptyBag THEN index[d]
                     ELSE Put(index[d], c, Head1(new.queue[d].heap).trigger)]
      /\ allocated' = IF known THEN allocated ELSE allocated + ChunkBytes
      /\ UNCHANGED <<nextOrder, phase, drain, scratch, now>>

(* A queue whose saved entries wait; clean is history: no identity twice.  *)
LoadedQueue(list) ==
  LET ids == {Identity(list[i]) : i \in DOMAIN list}
  IN  [heap |-> EmptyBag, ids |-> ids, pending |-> list,
       clean |-> Cardinality(ids) = Len(list)]

load_pending_chunk(c, lists) ==
  LET inside(d) == {t \in Elements(lists[d]) : Chunk(t.pos) = c}
      kept == [d \in Domains |-> Retain(lists[d], inside(d))]
      new == [registered |-> FALSE, eligible |-> FALSE,
              queue |-> [d \in Domains |-> LoadedQueue(kept[d])]]
  IN  /\ drain = None
      /\ c \notin Present
      /\ Cardinality(Present) < MaxChunks
      /\ \A d \in Domains : /\ Len(kept[d]) <= QueuedPerChunk
                            /\ \A i \in DOMAIN kept[d] : kept[d][i].type \in Types
      /\ Bytes(new) <= AllocationBytes - allocated
      /\ chunks' = Put(chunks, c, new)
      /\ allocated' = allocated + Bytes(new)
      /\ UNCHANGED <<index, nextOrder, phase, drain, scratch, now>>

(* Saved entry i of a list, live at time: orders -N .. -1.                 *)
Live(list, i, time) ==
  [pos |-> list[i].pos, type |-> list[i].type, trigger |-> time + list[i].delay,
   priority |-> list[i].priority, order |-> i - 1 - Len(list)]
LiveBag(list, time) == SetToBag({Live(list, i, time) : i \in DOMAIN list})

unpack_chunk(c) ==
  LET q(d) == chunks[c].queue[d]
      heap(d) == q(d).heap (+) LiveBag(Pending(q(d)), now)
  IN  /\ drain = None
      /\ c \in Present
      /\ \E d \in Domains : q(d).pending # None
      /\ chunks' = [chunks EXCEPT ![c].queue =
           [d \in Domains |-> [q(d) EXCEPT !.heap = heap(d), !.pending = None]]]
      /\ index' = [d \in Domains |->
                     IF chunks[c].registered THEN Pushed(index[d], c, q(d).heap, heap(d))
                     ELSE index[d]]
      /\ allocated' = allocated - (Bytes(chunks[c]) - ChunkBytes)
      /\ UNCHANGED <<nextOrder, phase, drain, scratch, now>>

set_eligible(c, eligible) ==
  /\ drain = None
  /\ c \in Registered
  /\ chunks' = [chunks EXCEPT ![c].eligible = eligible]
  /\ UNCHANGED <<index, nextOrder, phase, drain, scratch, allocated, now>>

detach_chunk(c) ==
  /\ drain = None
  /\ c \in Registered
  /\ chunks' = [chunks EXCEPT ![c].registered = FALSE]
  /\ index' = [d \in Domains |-> Drop(index[d], {c})]
  /\ UNCHANGED <<nextOrder, phase, drain, scratch, allocated, now>>

discard_detached_chunk(c) ==
  /\ drain = None
  /\ c \in Present \ Registered
  /\ chunks' = Drop(chunks, {c})
  /\ allocated' = allocated - Bytes(chunks[c])
  /\ UNCHANGED <<index, nextOrder, phase, drain, scratch, now>>

(* A queue with the ticks of a bag added, their identities noted, and one  *)
(* with ticks removed, their identities forgotten.                         *)
Added(q, ticks) ==
  [q EXCEPT !.heap = @ (+) ticks, !.ids = @ \cup {Identity(t) : t \in BagToSet(ticks)}]
Removed(q, ticks) ==
  [q EXCEPT !.heap = @ (-) ticks, !.ids = @ \ {Identity(t) : t \in BagToSet(ticks)}]

-----------------------------------------------------------------------------
(* Scheduling.                                                             *)

(* schedule_created for a tick whose identity is new and that fits.        *)
schedule_created(d, t) ==
  LET c == Chunk(t.pos)
      old == chunks[c].queue[d]
      new == Added(old, One(t))
  IN  /\ chunks' = [chunks EXCEPT ![c].queue[d] = new]
      /\ index' = [index EXCEPT ![d] = Pushed(@, c, old.heap, new.heap)]

(* The order number is used up even when nothing is added: without a       *)
(* container, for a duplicate, or by a full queue.                         *)
schedule(r) ==
  LET d == r.domain
      c == Chunk(r.pos)
      t == [pos |-> r.pos, type |-> r.type, trigger |-> now + r.delay,
            priority |-> r.priority, order |-> nextOrder]
      admitted == /\ c \in Registered
                  /\ Identity(t) \notin chunks[c].queue[d].ids
                  /\ Count(chunks[c].queue[d]) < QueuedPerChunk
  IN  /\ drain = None
      /\ nextOrder < MaxOrder
      /\ nextOrder' = nextOrder + 1
      /\ \/ admitted /\ schedule_created(d, t)
         \/ ~admitted /\ UNCHANGED <<chunks, index>>
      /\ UNCHANGED <<phase, drain, scratch, allocated, now>>

-----------------------------------------------------------------------------
(* A phase. begin_phase scans the index, then drains ready chunks.         *)

Due(d, c) == LET heap == chunks[c].queue[d].heap
             IN  heap # EmptyBag /\ Head1(heap).trigger <= now

(* Chunks whose entry the scan removes, moves to a later time or collects. *)
begin_phase(d, max) ==
  LET seen == {c \in DOMAIN index[d] : index[d][c] <= now}
      gone == {c \in seen : c \notin Registered \/ chunks[c].queue[d].heap = EmptyBag}
      ready == {c \in seen \ gone : Due(d, c) /\ chunks[c].eligible}
      late == {c \in seen \ gone : ~Due(d, c)}
  IN  /\ drain = None
      /\ active = None
      /\ active' = d
      /\ drain' = [max |-> max, ready |-> ready, candidate |-> None]
      /\ index' = [index EXCEPT ![d] =
           [c \in DOMAIN @ \ (gone \cup ready) |->
              IF c \in late THEN Head1(chunks[c].queue[d].heap).trigger ELSE @[c]]]
      /\ UNCHANGED <<chunks, nextOrder, selected, cursor, selectedIds, remaining,
                     cleared, scratch, allocated, now>>

FirstOf(c) == Head1(chunks[c].queue[active].heap)

(* ready.pop.                                                              *)
PopReady ==
  /\ drain # None
  /\ drain.candidate = None /\ Len(selected) < drain.max
  /\ \E c \in drain.ready :
       /\ \A e \in drain.ready : ~WithinTick(FirstOf(e), FirstOf(c))
       /\ drain' = [drain EXCEPT !.ready = @ \ {c}, !.candidate = c]
  /\ UNCHANGED <<chunks, index, nextOrder, phase, scratch, allocated, now>>

(* Mutant: a chunk keeps its turn while it has due ticks.                  *)
KeepsTurnAlways(c, heap, full) ==
  /\ heap # EmptyBag /\ ~full /\ Head1(heap).trigger <= now

(* The inner loop goes on with chunk c, whose heap is left as given.       *)
KeepsTurn(c, heap, full) ==
  /\ heap # EmptyBag /\ ~full /\ Head1(heap).trigger <= now
  /\ \A e \in drain.ready : ~WithinTick(FirstOf(e), Head1(heap))

(* One turn of the inner loop, and what follows its last turn: the chunk   *)
(* goes back to the ready heap or to the index.                            *)
TakeTick ==
  /\ drain # None
  /\ drain.candidate # None
  /\ LET c == drain.candidate
         q == chunks[c].queue[active]
         full == Len(selected) + 1 = drain.max
     IN  \E t \in Heads(q.heap) :
           LET heap == q.heap (-) One(t)
               again == KeepsTurn(c, heap, full)
               due == heap # EmptyBag /\ ~full /\ Head1(heap).trigger <= now
           IN  /\ chunks' = [chunks EXCEPT ![c].queue[active] = Removed(q, One(t))]
               /\ selected' = Append(selected, t)
               /\ remaining' = remaining (+) One(Identity(t))
               /\ drain' = [drain EXCEPT !.candidate = IF again THEN c ELSE None,
                                         !.ready = IF due /\ ~again THEN @ \cup {c} ELSE @]
               /\ index' = IF heap = EmptyBag \/ due THEN index
                           ELSE [index EXCEPT ![active] = Put(@, c, Head1(heap).trigger)]
  /\ UNCHANGED <<nextOrder, active, cursor, selectedIds, cleared, scratch, allocated, now>>

(* Mutant: ready chunks left over stay out of the index.                   *)
LeftoversDropped ==
  /\ drain # None
  /\ drain.candidate = None
  /\ drain.ready = {} \/ Len(selected) >= drain.max
  /\ drain' = None
  /\ UNCHANGED <<index, chunks, nextOrder, phase, scratch, allocated, now>>

(* begin_phase returns; ready chunks left over go back to the index.       *)
EndBegin ==
  /\ drain # None
  /\ drain.candidate = None
  /\ drain.ready = {} \/ Len(selected) >= drain.max
  /\ drain' = None
  /\ index' = [index EXCEPT ![active] =
       [c \in DOMAIN @ \cup drain.ready |->
          IF c \in drain.ready THEN FirstOf(c).trigger ELSE @[c]]]
  /\ UNCHANGED <<chunks, nextOrder, phase, scratch, allocated, now>>

(* will_tick_this_phase fills the set when it is empty and ticks remain.   *)
will_tick_this_phase ==
  /\ drain = None
  /\ active # None
  /\ selectedIds = {} /\ cursor < Len(selected)
  /\ selectedIds' = BagToSet(remaining)
  /\ UNCHANGED <<chunks, index, nextOrder, active, selected, cursor, remaining,
                 cleared, drain, scratch, allocated, now>>

next_due ==
  /\ drain = None
  /\ active # None
  /\ cursor < Len(selected)
  /\ cursor' = cursor + 1
  /\ remaining' = remaining (-) One(Identity(selected[cursor + 1]))
  /\ selectedIds' = selectedIds \ {Identity(selected[cursor + 1])}
  /\ cleared' = cleared \ {Identity(selected[cursor + 1])}
  /\ UNCHANGED <<chunks, index, nextOrder, active, selected, drain, scratch,
                 allocated, now>>

finish_phase ==
  /\ drain = None
  /\ active # None
  /\ cursor = Len(selected)
  /\ selected' = <<>> /\ selectedIds' = {} /\ remaining' = EmptyBag
  /\ cursor' = 0 /\ active' = None /\ cleared' = {}
  /\ UNCHANGED <<chunks, index, nextOrder, drain, scratch, allocated, now>>

-----------------------------------------------------------------------------
(* Areas: clear, copy and their scratch.                                   *)

(* The ticks of a bag or sequence inside an area.                          *)
Within(heap, area) == [t \in {u \in BagToSet(heap) : Inside(area, u.pos)} |-> heap[t]]
Selected(d) == IF active = d THEN selected ELSE <<>>

(* The cursor after the ticks of an area left the selected list.           *)
CursorAfter(area) ==
  cursor - Cardinality({i \in 1 .. cursor : Inside(area, selected[i].pos)})

(* Live queues in registered chunks and the selected list lose the area's  *)
(* ticks; saved entries and an already built will-tick set keep them.      *)
clear_area(d, area) ==
  LET hit == {c \in Registered : ContainsChunk(area, c)}
      heap(c) == chunks[c].queue[d].heap
      lost(c) == Within(heap(c), area)
      left(c) == heap(c) (-) lost(c)
      moved == {c \in hit : Heads(left(c)) # Heads(heap(c))}
      outside == {t \in Elements(selected) : ~Inside(area, t.pos)}
      unsent == {i \in cursor + 1 .. Len(selected) : Inside(area, selected[i].pos)}
  IN  /\ drain = None
      /\ chunks' = [c \in Present |->
           IF c \notin hit THEN chunks[c]
           ELSE [chunks[c] EXCEPT !.queue[d] = Removed(@, lost(c))]]
      /\ index' = [index EXCEPT ![d] =
           [c \in (DOMAIN @ \cup moved) \ {e \in moved : left(e) = EmptyBag} |->
              IF c \in moved THEN Head1(left(c)).trigger ELSE @[c]]]
      /\ \/ /\ active = d
            /\ selected' = Retain(selected, outside)
            /\ cursor' = CursorAfter(area)
            /\ remaining' = remaining (-)
                 [x \in {Identity(selected[i]) : i \in unsent} |->
                    Cardinality({i \in unsent : Identity(selected[i]) = x})]
            /\ cleared' = selectedIds \cap
                 (cleared \cup {Identity(selected[i]) : i \in unsent})
         \/ active # d /\ UNCHANGED <<selected, cursor, remaining, cleared>>
      /\ UNCHANGED <<nextOrder, active, selectedIds, drain, scratch, allocated, now>>

NoScratch == [ticks |-> 0, ids |-> 0, counts |-> 0]

(* ensure_operation_scratch for needed > 0: every buffer that grows is     *)
(* admitted while the old ones are still charged.                          *)
ensure_operation_scratch(needed, copying) ==
  LET count == IF copying THEN Cardinality(Present) ELSE 0
      want == [ticks |-> needed, ids |-> IF copying THEN needed ELSE 0, counts |-> count]
      grown == {f \in DOMAIN want : want[f] > scratch[f]}
      fresh == SumFunctionOnSet(want, grown)
      freed == SumFunctionOnSet(scratch, grown)
  IN  /\ needed <= MaxChunks * QueuedPerChunk + SelectedPerPhase
      /\ fresh <= AllocationBytes - allocated
      /\ scratch' = [f \in DOMAIN want |-> IF f \in grown THEN want[f] ELSE scratch[f]]
      /\ allocated' = allocated + fresh - freed

release_operation_scratch ==
  /\ drain = None
  /\ scratch # NoScratch
  /\ scratch' = NoScratch
  /\ allocated' = allocated - SumFunction(scratch)
  /\ UNCHANGED <<chunks, index, nextOrder, phase, drain, now>>

(* commit_copy: the snapshot front (a sequence, in order) then rest (ticks *)
(* in any order) moved by offset with orders after the snapshot's last.    *)
(* Of several ticks that land on one identity the first counts. The whole  *)
(* batch is admitted before a queue changes: an invalid type or a full     *)
(* queue leaves them as they were.                                         *)
commit_copy(d, front, rest, offset) ==
  LET all == Elements(front) \cup rest
      low == Min({t.order : t \in all})
      high == Max({t.order : t \in all})
      moved(t) == [t EXCEPT !.pos = @ + offset, !.order = @ - low + high + 1]
      target(t) == Chunk(t.pos + offset)
      landing == {t \in all : target(t) \in Registered}
      fresh == {t \in landing : Identity(moved(t)) \notin chunks[target(t)].queue[d].ids}
      first(x) == LET at == {i \in DOMAIN front : Identity(front[i]) = x}
                  IN  IF at # {} THEN {front[Min(at)]}
                      ELSE {t \in rest : Identity(t) = x}
      ids(c) == {Identity(t) : t \in {u \in fresh : target(u) = c}}
      fits == /\ \A t \in landing : t.type \in Types
              /\ \A c \in Registered :
                   Count(chunks[c].queue[d]) + Cardinality(ids(c)) <= QueuedPerChunk
  IN  /\ high - low + high + 1 <= MaxOrder
      /\ \/ ~fits /\ UNCHANGED <<chunks, index>>
         \/ /\ fits
            /\ \E win \in [{Identity(t) : t \in fresh} -> fresh] :
                 LET batch(c) == SetToBag({moved(win[x]) : x \in ids(c)})
                     new(c) == Added(chunks[c].queue[d], batch(c))
                 IN  /\ \A x \in DOMAIN win : win[x] \in first(x)
                     /\ chunks' = [c \in Present |->
                          IF c \in Registered THEN [chunks[c] EXCEPT !.queue[d] = new(c)]
                          ELSE chunks[c]]
                     /\ index' = [index EXCEPT ![d] =
                          LET heap(c) == chunks[c].queue[d].heap
                              into == {c \in Registered : ids(c) # {}}
                          IN  [c \in DOMAIN @ \cup into |->
                                IF c \in into THEN Pushed(@, c, heap(c), new(c).heap)[c]
                                ELSE @[c]]]

copy_area(d, area, offset) ==
  LET inside == {t \in Elements(Selected(d)) : Inside(area, t.pos)}
      front == Retain(Selected(d), inside)
      found == [c \in {e \in Registered : ContainsChunk(area, e)} |->
                  Within(chunks[c].queue[d].heap, area)]
      rest == UNION {BagToSet(found[c]) : c \in DOMAIN found}
      needed == Len(front) + SumFunction([c \in DOMAIN found |-> SumFunction(found[c])])
  IN  /\ drain = None
      /\ needed > 0
      /\ ensure_operation_scratch(needed, TRUE)
      /\ commit_copy(d, front, rest, offset)
      /\ UNCHANGED <<nextOrder, phase, drain, now>>

(* The snapshot is another owner's, with its own type registry.            *)
copy_area_from(d, snapshot, offset) ==
  /\ drain = None
  /\ snapshot # <<>>
  /\ ensure_operation_scratch(Len(snapshot), TRUE)
  /\ commit_copy(d, snapshot, {}, offset)
  /\ UNCHANGED <<nextOrder, phase, drain, now>>

(* Mutant: the ticks in whatever order the array has.                      *)
Unsorted(heap) == SetToSeqs(BagToSet(heap))

(* The ticks of a heap as pack_chunk sorts them: by sub order, ties in any *)
(* order (equal ticks count once).                                         *)
Sorted(heap) ==
  {s \in SetToSeqs(BagToSet(heap)) :
     \A i, j \in DOMAIN s : i < j => s[i].order <= s[j].order}

(* as i32: a difference of times loses what 32 bits do not hold.           *)
CutDelay(x) == ((x + DelayHalf) % (2 * DelayHalf)) - DelayHalf

(* What pack_chunk writes: saved entries as they are, then live ticks with *)
(* the time left, cut to an i32.                                           *)
Packed(q, s, time) ==
  Pending(q) \o [i \in DOMAIN s |->
                   [pos |-> s[i].pos, type |-> s[i].type,
                    delay |-> CutDelay(s[i].trigger - time),
                    priority |-> s[i].priority]]

(* pack_chunk reads the queue; only its sort scratch changes.              *)
pack_chunk(c, d) ==
  /\ drain = None
  /\ c \in Present
  /\ chunks[c].queue[d].heap # EmptyBag
  /\ ensure_operation_scratch(SumFunction(chunks[c].queue[d].heap), FALSE)
  /\ UNCHANGED <<chunks, index, nextOrder, phase, drain, now>>

(* The caller's clock, which does not move during a phase.                 *)
Tick ==
  /\ drain = None /\ active = None
  /\ now < MaxTime
  /\ now' = now + 1
  /\ UNCHANGED <<chunks, index, nextOrder, phase, drain, scratch, allocated>>

-----------------------------------------------------------------------------
Init ==
  /\ chunks = [c \in {} |-> None]
  /\ index = [d \in Domains |-> EmptyBag]
  /\ nextOrder = 0
  /\ active = None /\ selected = <<>> /\ cursor = 0
  /\ selectedIds = {} /\ remaining = EmptyBag /\ cleared = {}
  /\ drain = None
  /\ scratch = NoScratch
  /\ allocated = 0
  /\ now = 0

Container ==
  \/ \E x \in Eligibilities : register_chunk(x[1], x[2]) \/ set_eligible(x[1], x[2])
  \/ \E c \in Addresses :
       \/ unpack_chunk(c) \/ detach_chunk(c) \/ discard_detached_chunk(c)
       \/ \E d \in Domains : pack_chunk(c, d)
  \/ \E x \in Loads : load_pending_chunk(x.chunk, x.lists)

Phase ==
  \/ \E d \in Domains, max \in Caps : begin_phase(d, max)
  \/ PopReady \/ TakeTick \/ EndBegin
  \/ will_tick_this_phase \/ next_due \/ finish_phase

Area ==
  \/ \E x \in Clears : clear_area(x.domain, x.area)
  \/ \E x \in Copies : copy_area(x.domain, x.area, x.offset)
  \/ \E x \in ForeignCopies : copy_area_from(x.domain, x.snapshot, x.offset)
  \/ release_operation_scratch

Next == Container \/ (\E r \in Requests : schedule(r)) \/ Phase \/ Area \/ Tick

Spec == Init /\ [][Next]_vars

-----------------------------------------------------------------------------
(* Between calls the scheduling index holds exactly the registered chunks  *)
(* with a live tick, each at the time of its first tick: a due tick is     *)
(* never passed over by a scan, whatever was scheduled, unpacked, copied,  *)
(* cleared, detached or left over by a full phase before.                  *)
IndexExact ==
  drain = None =>
    \A d \in Domains :
      index[d] = [c \in {e \in Registered : chunks[e].queue[d].heap # EmptyBag} |->
                    Head1(chunks[c].queue[d].heap).trigger]

(* What begin_phase has selected when it returns: due ticks only, at most  *)
(* max; of one chunk in queue order; and a tick of one chunk never before  *)
(* one of another whose turn comes first by priority and sub order. A      *)
(* phase with room leaves no due tick in an eligible chunk.                *)
TakenInOrder(sel, left) ==
  \A i \in DOMAIN sel : \A c \in Addresses :
    LET later == {j \in i + 1 .. Len(sel) : Chunk(sel[j].pos) = c}
        next == IF later # {} THEN {sel[Min(later)]} ELSE left[c]
    IN  \A t \in next : IF c = Chunk(sel[i].pos) THEN ~Precedes(t, sel[i])
                        ELSE ~WithinTick(t, sel[i])
PhaseComplete(sel, max) ==
  LET left == [c \in Addresses |->
                 IF c \in Registered /\ chunks[c].eligible /\ Due(active, c)
                 THEN {Head1(chunks[c].queue[active].heap)} ELSE {}]
  IN  /\ Len(sel) <= max
      /\ \A i \in DOMAIN sel : sel[i].trigger <= now
      /\ TakenInOrder(sel, left)
      /\ Len(sel) < max => \A c \in Addresses : left[c] = {}
PhaseOrder ==
  [][drain # None /\ drain' = None => PhaseComplete(selected, drain.max)]_vars

(* While a phase runs, the remaining counts are exactly the ticks not yet  *)
(* handed out, and the will-tick set never names a tick that is neither    *)
(* still to come nor cleared in this phase.                                *)
PhaseBookkeeping ==
  /\ cursor <= Len(selected)
  /\ remaining = [x \in {Identity(selected[i]) : i \in cursor + 1 .. Len(selected)} |->
       Cardinality({i \in cursor + 1 .. Len(selected) : Identity(selected[i]) = x})]
  /\ selectedIds \subseteq BagToSet(remaining) \cup cleared

(* A queue stays within its limit; its identities are all of queued ticks, *)
(* and when no duplicate was loaded every queued tick is there once and    *)
(* known. The charged bytes are what chunks, saved entries and scratch     *)
(* hold, within the budget.                                                *)
QueueAccounting ==
  /\ \A c \in Present, d \in Domains :
       LET q == chunks[c].queue[d]
           queued == {Identity(t) : t \in BagToSet(q.heap)}
                       \cup {Identity(Pending(q)[i]) : i \in DOMAIN Pending(q)}
       IN  /\ Count(q) <= QueuedPerChunk
           /\ q.ids \subseteq queued
           /\ q.clean => q.ids = queued /\ Count(q) = Cardinality(queued)
           /\ \A t \in BagToSet(q.heap) : Chunk(t.pos) = c
  /\ allocated = SumFunction([c \in Present |-> Bytes(chunks[c])]) + SumFunction(scratch)
  /\ allocated <= AllocationBytes

(* Queues, identities, charged bytes, the scheduling index and the books   *)
(* of a running phase agree.                                               *)
QueuesSound == IndexExact /\ QueueAccounting /\ PhaseBookkeeping

(* Saving a chunk with pack_chunk and loading and unpacking it again at    *)
(* the same time keeps the order in which two of its ticks run: of two     *)
(* live ticks, of two saved entries, and of a saved entry and a live tick  *)
(* whose sub order is not negative (one that schedule made). Both must run *)
(* within an i32 of now: the delay of a tick further away is cut, and the  *)
(* tick may change places.                                                 *)
SaveKeepsOrder ==
  \A c \in Present, d \in Domains :
    LET q == chunks[c].queue[d]
        n == Len(Pending(q))
    IN  \A s \in Sorted(q.heap) :
          LET list == Packed(q, s, now)
              old == [i \in DOMAIN list |-> IF i <= n THEN Live(q.pending, i, now)
                                            ELSE s[i - n]]
          IN  \A i, j \in DOMAIN list :
                /\ Precedes(old[i], old[j])
                /\ {old[i].trigger - now, old[j].trigger - now} \subseteq Delays
                /\ (i > n <=> j > n) \/ old[i].order >= 0 \/ old[j].order >= 0
                => Precedes(Live(list, i, now), Live(list, j, now))
=============================================================================
