# A TLA+ model of Arrow-MC

Arrow-MC is a Minecraft server foundation in Rust. Its hard part is not what it
computes but who owns what while it does: canonical chunks, light and section
bytes live with single-threaded owners, all heavy work runs on one bounded CPU
pool, results come back late, out of order or not at all, and every byte in
between is charged to a budget. The modules here model that ownership and the
algorithms it rests on; TLC checks them on small instances and TLAPS proves the
safety of the pool, of chunk loading, light publication and section preparation,
of the chunk sender, of a connection from login to configuration, of connection
admission, of the light storage, of a player's view and of the scheduled ticks
for every instance.

Paths below are relative to the repository; `src/src/...` in `PROJECT.json` is
the crate's own `src/`.

## The system

| Component | State it keeps | Operations | What makes it correct |
|---|---|---|---|
| CPU pool (`runtime/mod.rs`, `storage.rs`, `lighting.rs`, `packet.rs`) | FIFO queue, closed flag, slot and byte ledger, worker threads, one-shot results, resident ledgers | reserve, submit, cancel, take, drop, adopt, resume, close, join | every buffer is charged while owned and refunded once; nothing queued is lost; cancellation wins over publication; shutdown returns |
| Chunk loading owner (`world/loading.rs`) | demand slots (epoch, generation), canonical residents, metadata charge, source revision | request, publish, remove, reload, snapshot, prepare and accept a section | only the read made for the present demand becomes canonical; every change fences captured revisions; budgets equal what is alive |
| Chunk store (`world/storage/mod.rs`) | I/O permits, blocking threads, decode jobs | read | an abandoned read keeps its permit exactly as long as its thread works |
| Lighting domain (`world/lighting/owner.rs`, `source.rs`) | stamp of the latest begin, accepted completion | begin, accept, cancel, ready | light handed out was computed from what is canonical now |
| Section preparation (`world/preparation.rs`) | sections with revisions, dirty queue, pending jobs, cache order | load, unload, set, request, drive, take, reload | cached bytes are current; work coalesces; demand is answered |
| Chunk sender (`server/chunk_sender.rs`) | pending positions (open addressing), rate, quota, window, delivery groups | mark, drop, acknowledge, begin tick, admit, packet written, fail | the client converges to the view within quota, window and byte limits |
| Connection (`server/transport.rs`, `login/`, `configuration/`) | stream, ciphers, compression, read progress, login phase and clock, configuration stage, keepalive | read, write, encrypt, compress, log in, configure, disconnect | both ends decode every frame; no byte after a torn frame; no answer lost to a deadline; nothing hangs |
| Server (`server/mod.rs`, `population.rs`) | task records, leases, identities, session UUID, login slots | accept, refuse, join, maintain, abort, shut down | leases and slots counted exactly; one UUID for all who are connected; shutdown joins all |
| Scheduled ticks (`world/ticks.rs`, `ticks/heap.rs`, `order_index.rs`, `remaining.rs`) | per-chunk heaps and identity sets, saved entries, scheduling index, running phase | load, unpack, make eligible, schedule, begin and run a phase, clear, copy, save, detach | no due tick is missed, ticks run once and in key order, at most the limit; the saved order is the run order |
| Light engines and storage (`world/lighting/{block,sky,storage,queue,work,sources}.rs`) | terrain, sky edges, increase and decrease queues, layers shared with snapshots, notices | check a block, step a unit, grow, restore, publish, take a snapshot | light equals its fixed point, whatever the slicing; support and snapshots keep layers; no notice is lost |
| View (`world/view.rs`) | the view handed out, the difference still to come | request, next event, acknowledge | event by event the client's set becomes the new view, also across the wrap |
| Heightmaps (`world/heightmap.rs`) | packed words per kind | restore, prime, update | the words say what the blocks say |
| Sections (`world/section.rs`, `section/`) | palettes and packed indices | get, set, encode | incremental equals recomputed |
| Region files, compression, NBT, SNBT, wire | none (codecs with limits) | parse, write | limits hold before allocation |

The parts meet in four ways. Owners submit jobs to the **pool** and poll
completions that carry the pool's lease. A completion that becomes long-lived is
**adopted** into a resident ledger, which overlaps the two charges. Lighting and
preparation hold **snapshots** (`Arc`s) of the loading owner's residents, which
stay charged after the owner lets go. The chunk sender receives immutable
encoded packets and feeds one ordered **connection**, whose client answers each
batch. The behaviours that make this hard (late, duplicated and cancelled
results, lost wake-ups, limits at their exact boundary, torn writes, clocks
racing answers) are listed line by line under `hazards` in `PROJECT.json`.

## The modules

### CpuPool, CpuPoolProofs

`CpuPool` is `CpuPoolShared` with its clients and workers. One action is one
critical section of the pool's mutex, one atomic access to a cancellation flag
or channel, or one condition-variable call, so the gap between the unlock and
the `notify_one` of `enqueue` (and the `notify_all` of `close`) is a state of
its own (`unnotified`, `notifyAll`). The five job kinds differ in control in
three ways and are modelled as three groups: `Section` (mutex slot, lease kept
on every outcome), the one-shot kinds `Packet`, `VerifyLoginKey`, `DecodeChunk`
(lease given back before an error is sent), and `Lighting` (lease kept, may be
resumed under it). `stage[j]` says who owns a job and how far it is; `lease` is
the set of `Lease` values alive, beside the counters `inFlight` and `bytes` that
the code keeps, so that the two can be compared. Peaks and the completed count
only feed `stats()` and are left out. What a kernel computes is one of the
outcomes ok, paused, error, cancelled.

### ChunkLoading

The owner's methods take `&mut self`: one action each. `ChunkStore::read` is an
async future over a permit, a blocking thread and a decode job; its caller may
drop it between any two of its steps (`Abandon`), and the thread goes on. A key
is (address, epoch, generation, owner); a chunk records the demand and context it
was read for, which the code does not keep: the properties compare that history
with the code's checks. Height and registry digests are one `context`.
`Arc<()>` identities (the source revision) come from a finite set; a new one is
any identity nobody holds, chosen with `CHOOSE`, which loses nothing because
identities are only compared for equality and the freed ones are
indistinguishable. `finish_without_chunk` takes a bare key, so any ticket may be
finished, also one that belongs to a demand that is gone.

### LightingPublication, LightingPublicationProofs

Extends `ChunkLoading`: a lighting domain captures snapshots and the revision of
the owner while it goes on publishing. A source is the only thing in the crate
that clones the revision (`source_revision` is called by `source.rs` alone), so
`pinned` is empty in `ChunkLoading` by itself and here it is, with `shots`,
exactly what live sources hold (`Hold`, `from_canonical`). What a source answers
about single blocks is in `LightWorld`; `from_sections`, which validates sections
a producer owns, is not modelled.

### SectionPreparation, SectionPreparationProofs

The owner runs on one thread, so its methods are actions, except `drive`:
workers finish jobs and free slots while it loops, so each turn of its take and
submit loops is a step. Of the pool only its slots remain (`CpuPool` justifies
them: a lease is held until taken or dropped). Contents are values, and a cached
completion records the input it was computed from, which the code does not keep.
Cancelling superseded work at once means the identity check on publication is a
second line of defence; the mutants that break `CachedIsCurrent` therefore
weaken what `set` does to running work. `Queues` has `retain`, which the view's
difference uses too.

### ChunkSender, PendingPositions, BoundedSet, ChunkSelection

`ChunkSender` is scheduler, flow control and delivery queue with the client at
the other end. A `TickPlan` borrows the sender mutably, so only admissions,
writes and failures may happen while it lives. Rates and quota are fixed-point
numbers (`One` is 1.0). `pending` is a set there and the candidate list is any
list sorted by distance. The other three modules justify both abstractions:
`PendingPositions` is the open-addressing table (probing, backward-shift
deletion, growth, shrinkage, the zero flag) and is shown to implement
`BoundedSet`; `ChunkSelection` is the bounded collector with its pivot loop and
the bottom-up merge, compared over every reachable table with "the nearest
`count`" and "stably sorted".

### PlayerView

The owner of one player's view. Coordinates are numbers of the width `2 * Half`
that wrap as an `i32` does; centres whose bounds leave that range are refused, as
`checked_sub` does. A `ViewDifference` holds copies of both views, so here it is the
sequence of changes still to come; the view is only taken on when the last of
them has been acknowledged and the update finished; another one may not begin
before.

### ScheduledTicks, ScheduledTicksProofs, TickHeap, TickIndex, TickCounts

`ScheduledTicks` is the whole owner: chunks with saved entries and their
unpacking, eligibility, the index from a chunk to the time of its first tick,
scheduling, area operations, saving, detachment and the phases of both domains.
A queue is a bag of ticks. `begin_phase` is the one call that takes several
steps (take the due chunks, select chunk by chunk, put back what is left);
callers act between any two other calls, callbacks of a running phase included.
Positions lie on a line and an area is an interval. The three small modules are
what stands behind the bags and sets: the array heaps with their removal by
predicate and its second visits (`Revisits`), the scheduling index whose current
entry may be removed during a scan, and the identity set and remaining counts.

### LightWorld, BlockLight, SkyLight, LightingWork

The world is cut to the plane z = 0: a block has four neighbours instead of six,
a face is shut in whole, half or not at all, and a section is a square. What is
cut changes no control: every direction loop, the cross-section hand-over, the
edges of a sky column and its neighbours, the plan of sky rows, and the block
readers with their missing chunks are there. `BlockLight` and `SkyLight` are the
engines: one unit of work (one check, one decrease, one increase, one row) is an
action, because `step` may return after any unit. A unit that finds a queue full
is refused before it changes anything, so it is no step, and `Grow` is what the
owner does about it. `LightingWork` runs the phases of a domain: support,
restored rows, sources, propagation. The host that edits a block, tells the
engines, or saves light and restores it is external (`Edit`, `Tell`, `Restore`).

A work stages whatever rows a chunk was saved with, and only afterwards looks at
the chunk's flag. So `Restore` takes the two apart: a save names the chunks whose
flag is true, the fields of the captured layers that were kept, and rows that came
before them, for sections that get another row later or have no support at all.
`Supported` gives a section its layer as `create_layer` does: the queued one, or
for sky light the bottom plane of the nearest layer above it, which happens only
with partial rows, or else the light of its column.

### LightStorage

One column of sections with its two neighbours above and below. A layer is an
allocation with a name, so that sharing (`Arc`), copying on write and the byte
budget are visible: two sections, a queued row and a snapshot may hold the same
one. A layer has two planes, the bottom and the rest, which is what
`repeat_first_layer` tells apart. An operation that a limit refuses changes nothing.

### Heightmaps

The kinds, the packed words with their padding (`WordBits`), restoring from
stored arrays, priming from the sections and updating after one block. A stored
array of the wrong length is primed instead, as in the code.

### MCTables

`PendingPositions`, `TickHeap`, `TickIndex`, `TickCounts`, `LightStorage`,
`PlayerView` and `Heightmaps` are sequential value types. `MCTables` puts them
side by side, and a variable `focus` picks the one that a behaviour uses.

### Connection, ConnectionProofs

One task owns a connection from login to the end of configuration, so its state
is the await it stands at (`pc`) and an action is what the code does from there
to the next await. At an await the login clock, the keepalive deadline, the
shutdown, a transport failure or an abort may drop the pending future. What is
lost then depends on how far it was: a write has taken stream and cipher out of
the transport (`StartWrite`, `Encoded`, `Written`), a read has left its progress
in it (`ReadByte`, `ReadHeader`, `ReadBody`, `Deliver`). The outcomes of the key
job, of `has_joined`, of the access check and of parsing a packet's fields are
free choices. `Farewell` is the one disconnect packet of `run_login` and of
`configuration::run`; `Shut` is everything both do as they return.

Frames are their kind and the modes they were framed in, with a flag for "all
bytes are out". The client is external: it answers what it is asked, when it
likes, switches modes where the protocol says so, may send other packets
(`MaxStrays`), and notes whether it could read what it got (`garbled`). A login
disconnect that crosses its own Key or acknowledgement is not held against the
server: no order of the code could avoid that.

A keepalive's time is that of its queueing, not of its writing (`age`), as in
the code, so a write that takes a whole interval times out a client that would
have answered; the model has that behaviour and no property denies it. Left out:
`WaitingForDuplicate`, which `login_flow` never enters, and the size errors of
encoding packets from the server's own configuration.

### ConnectionServer, ConnectionServerProofs

`Server::run` with its drain, its select and its final join, and of each
connection what it owns: a lease, perhaps a login slot, and the session UUID it
was told. Task records outlive tasks until they are joined (`joinable`), and
`run_login` drops its lease before the slot goes (`ended`). Handshake and status
are their outcomes. A task that panics would make `run` return an error through
the same path as `Break`; it is not a separate action.

## Runs

| Run | Question | Instance |
|---|---|---|
| `pool_safety` | Do ledger, queue, threads and cancellation agree through every order of reservation, submission, cancellation, drop, adoption, resumption, close and join? | 4 jobs (all three groups), 2 workers, 2 slots, 4 bytes, 1 resident byte per ledger |
| `pool_liveness` | Is a wake-up ever lost, and does shutdown return while clients keep results? | 2 jobs, 2 workers, fair |
| `pool_counts` | Does `in_flight` count running work, as the comment on `max_jobs` says? (violated, see below) | 2 jobs |
| `loading` | Are permits, leases, resident bytes and metadata exact, does anything late, repeated or foreign become canonical or get accepted, do abandoned reads end? | 2 addresses, 2 reads, 1 permit, 1 decode slot, 2 generations, a reload |
| `lighting_domain` | Is light handed out only for the chunks, dimension and request of now, does every change fence the revisions captured before it, and do captured chunks stay charged? | 2 addresses, 1 read, 2 lighting jobs, 2 contexts with different sky |
| `preparation` | Are cached bytes current, is work coalesced, is demand kept and answered? | 2 sections of 2 chunks, 1 cache place, 2 slots |
| `sender` | Does the client converge to the view within quota, window and bytes? | 2 positions, 2 centres, rates 0.5 and 2 |
| `tables` | Is each sequential table, store and view what it stands for, after every bounded history of calls? | see below |
| `ticks` | Does the index miss no due tick, do phases run in order and within limits, does a save keep the order and the bytes? | both domains, 2 chunks of 2 positions, queues of 2, phases of 2 |
| `light` | Does stepped work end, and does it end at the light the terrain explains? | 3 chunks by 3 section rows, 4 terrains, with and without sky, 1 edit or 1 restoration in 8 forms |
| `connection` | Interrupted at any await, does a connection keep both ends in step, lose no answer, write nothing after a torn frame, and end? | online and offline, with and without compression, 2 registries, 2 ticks, 1 stray packet |
| `connection_server` | Are leases and slots exact, is the UUID shared, does shutdown join everything? | 4 peers, 3 connections, 2 slots, 4 identities |

What the larger properties say:

* `tables`: `ImplementsSet` is the refinement of `BoundedSet` by the
  open-addressing table, and `SelectionSound` compares the collector and the
  merge with "the nearest `count`, stably sorted" in every reachable table.
  `TickTablesSound` says that heap, index and identity counts hold what was put
  in and not removed, and that a scan which removes misses no entry.
  `StorageExact` ties support, stored sections, removals and the published map
  together. `ReadersServed` and `SupportKeepsLight` are about steps: a snapshot
  keeps its levels and no notice is lost before it is acknowledged; terrain that
  enters or leaves a section changes no level that is read. `ViewExact` follows
  the client through an update, chunk by chunk, and compares the outcome with the
  view's definition; `HeightsExact` compares every word with a scan of the blocks.
* `ticks`: `QueuesSound` is the agreement of queues, identities, bytes, index and
  the books of a running phase. `PhaseOrder` is about the moment a phase has been
  selected: it holds at most the limit, only due ticks, none that should have come
  after one left behind, and leaves none behind below the limit. `SaveKeepsOrder`
  says that saving a chunk and loading it again at that time keeps the order in
  which it runs, of two live ticks, two saved entries, or one of each when the live
  one's sub-order is not negative (saved entries get negative ones when they are
  unpacked). `pack_chunk` casts a delay to an `i32`, so both ticks have to lie
  within that width of the time, which is a hypothesis of the formula.
* `light`: `LightSound` compares both layers of a finished domain with the levels
  that its sources and dampening explain, defined without queues, and the sky
  edges with the terrain. A restored domain is compared when all of its light was
  saved (whatever the flags), or none and no flag: from partial light the engines do
  not compute the rest, and light saved above an edge that a fresh scan does not
  find is not lit again. In every case the packet views show the published layers
  and, beyond them, the last layer saved for a section without support, no level is
  below the saved one until a block is edited, nothing is left queued and no
  retention stays. Sky light may enter from the side of a section that stores none, but
  need not: the column beside it passes light on only where the block above was
  darker. `WorkEnds` says that work that is stepped ends, unless a
  unit waits for a larger queue (`Starved`).

`PROJECT.json` gives, for every property, a mutant of the code that breaks it.

### Bounds, and why they are enough

* `pool_safety`: with two slots, four bytes and jobs of 1, 1, 2 and 3 bytes, the
  slot limit and the byte limit each refuse a job the other would admit, and two
  results compete for one resident byte. Two workers make every race between a
  pop, a publish and a wait; a third worker repeats one of them. Workers are
  symmetric. Nothing is capped artificially: jobs are reused for ever.
* `loading`, `lighting_domain`: `MaxGeneration` and `MaxEpoch` stand for
  `u64::MAX`, so exhaustion is reached. In `loading`, drafts of (1 row, 2 bytes)
  and (2 rows, 1 byte) make the metadata and the resident limit bind
  independently, and two reads compete for one permit and one decode slot. There
  are enough `Revisions` and `Stamps` for every holder the instance can have.
* `preparation`: one cache place and two pool slots make cached bytes hold what
  new jobs need. Revisions and generations run out, which the code treats as an
  error and the run includes.
* `sender`: `One = 2` lets the slowest client ask for half a chunk per tick, so a
  quota must accumulate. `MaxStrays` bounds the answers nobody asked for.
* `tables`: six positions force growth and shrinkage of tables of 4 to 16
  buckets; one of the three hashes sends everything to the last bucket, so that
  clusters wrap. The selection's iteration limit is checked with the code's
  factor 3 and with 1, so that it is really reached. Seven heap entries, some
  with equal keys, are the fewest with which a removal moves an entry up past
  the scan. The column has five sections, seven layers and six calls: enough to
  support, queue, publish, withdraw and snapshot. The world is 24 chunks wide and
  distances go from 2 to 4, so views overlap, lie apart and cross the wrap. Three
  columns of four blocks are edited twice.
* `ticks`: two positions per chunk and queues of two fill up; with more ticks
  due than a phase of one or two takes there is a remainder; `MaxOrder` bounds the sub-order counter
  and `MaxTime` the clock. A saved delay has the four values -2 to 1
  (`DelayHalf` = 2 stands for 2^31), and a tick is scheduled with the least of
  them, so that one packed a tick later is cut: without its hypothesis
  `SaveKeepsOrder` fails here.
* `light`: sections of side 2 in three chunks let light cross two borders; the
  terrains have water, a roof, bedrock and a lantern that is shut on one side. The
  queues start with room for 2 and 4 entries, so that units are refused and the
  queues must grow. The saves are all rows with all, no or one flag true (once after
  rows that are replaced or unsupported), no rows with and without flags, the
  block layers alone, some sky layers high up, and some sections of both. The
  invariant also holds with `MaxTurns` = 2, an edit of restored light or a
  restoration of edited light, in a run without `WorkEnds` that takes longer than
  a run here should.
* `connection`: two login ticks stand for 600, so the limit falls at every await.
  Two registries give a first, a middle and a last piece of content. Times stop
  at the interval, because only "has it passed" is asked. Deadlines of single
  reads and writes strike at any time.
* `connection_server`: one peer more than connections and one connection more
  than slots make both limits refuse; four identities (`MaxId` is `u64::MAX`)
  run out. There is always a UUID nobody was told, for random ones do not repeat.

Deadlock is not checked: in every run there is a state in which all actors may
rightly be idle (clients owe nothing, a light domain is done, a bounded history
is over). Progress is stated where the code promises it.

### Fairness

* Pool: threads that exist are scheduled (workers, and callers of `enqueue` and
  `close` between unlock and notify; the joining thread). Clients have none: they
  may never poll, take or drop.
* Loading: only blocking threads and CPU jobs go on (`ThreadStep`); callers may
  drop futures or never poll them.
* Preparation: the owner's tick keeps calling `drive` and workers finish jobs.
* Sender: the owner ticks and ends its plans, written packets make progress.
  Strong fairness only where a plan comes and goes: a client's answer is handled
  between two plans, and an owner with all candidates ready does not pass every
  chance to admit them.
* Connection: the task is scheduled, CPU jobs finish, the clocks run, and a write
  ends with its timeout at the latest. The client has none: it may fall silent.
* Light: the owner keeps stepping a work that is not done (`Work`). Nothing makes
  it grow a queue, and the host that edits or restores has no fairness.
* Server: the loop is scheduled, aborted tasks are dropped at their awaits and
  joined. Peers may stay for ever, and the accept and maintenance arms may starve.

## Proofs

`CpuPoolProofs` proves, from `PoolAssumption` alone (finite jobs and workers, at
least one worker and one slot, natural sizes and limits), for any number of
workers and jobs:

| Theorem | States |
|---|---|
| `PoolInvariant` | `Spec => []PoolInv` |
| `LeaseSafety` | `Spec => []ChargedWhileOwned` |
| `CapacitySafety` | `Spec => []CapacityBound` |
| `DrainSafety` | `Spec => []DrainedOnExit` |
| `CancelSafety` | `Spec => CancelSuppresses` |
| `AccountingSafety` | `Spec => []AccountingExact` |

`PoolInv` is the inductive invariant, six named parts:

* `QueueExact`: the queue holds each queued job once, and `queued` is its length.
  Needed to know that a popped job is in stage `queued` and leaves it.
* `WorkersExact`: every job on a worker belongs to exactly one busy worker, and
  `running` counts those not yet through `finish_job`. Without it the decrement
  of `running` could underflow.
* `LeaseExact`: which stages and outcomes own a lease, and
  `inFlight = Cardinality(lease)`. This is the heart: a settled one-shot job owns
  its lease only with a result, the other kinds always.
* `LifeExact`: nothing is accepted before all threads run or after the close, and
  no thread leaves a queue behind.
* `WithinLimits`, and `TypeOK`.

`CapacityBound` follows because queued jobs and one pending job are distinct
leases, so the queue is strictly shorter than `MaxJobs` (a cardinality argument
over the injection from queue places to leases). `CancelSafety` needs the outcome
`try_take` computes from the handle at that very step.

`ConnectionServerProofs` proves, from `ServerAssumption` (finitely many peers, at
least one connection, and a UUID that no task was told), `AdmissionSafety`
(`Spec => []AdmissionExact`) and `SessionSafety` (`Spec => []SessionShared`).
The two invariants are inductive only together (`ServerInv`): `maintain` forgets
the UUID when `active` is 0, and that nobody holds a lease then is what
`AdmissionExact` says. Its part `Ownership` ties each lease and slot to the stage
of its task. Most steps replace one task's record, and one lemma (`OneTask`)
turns that into the change of the three cardinalities.

`AccountingSafety` needs sums: the ledgers are sums over the jobs that own
something. `DataFacts` has the lemmas for that (a sum is a number, an element adds
or takes its weight, disjoint parts add up), for the sums of this module and of
five others, those about queues (what `Retain` keeps, and at which place), and
those about the cells of a grid. A sum is defined by recursion over a set, and the
provers cannot instantiate an induction theorem. The lemmas therefore argue by a smallest
counterexample: the strict subset order on a finite set is well founded, so a
family of sets on which a statement fails has a member without a failing proper
subset. Queues are done the same way with the least index.

`LightingPublicationProofs`, on `ChunkLoading`, from `LoadingAssumption` (finite addresses, reads and
revisions, natural limits, a metadata limit that covers the empty slots):

| Theorem | States |
|---|---|
| `LoadingInvariant` | `Spec => []LoadingInv` |
| `LoadingExact` | `Spec => []LoadingAccounting` |
| `LoadingCurrent` | `Spec => []NothingStale` |
| `LoadingFenced` | `Spec => ChangesFenced` |

The accounting alone is not inductive: a publication charges a chunk, and that
nobody was charged for the same chunk before follows from the keys. So
`LoadingInv` adds `KeysIssued` (no key is ahead of the counters), `ReadsTicketed`
(a read keeps the key its demand had), `KeyNamesChunk` (two chunks with one key
are one chunk) and `ResidentMatchesDemand`. Removal, reload and the drop of a
snapshot are one argument, `FreedExactly`: when the holders of a resident change,
what nobody holds any more is freed and nothing else. `LoadingFenced` needs that
a new revision is none that is held (`RenewFresh`), and that each owner method
either leaves the canonical chunks alone or renews the revision.

The same module, on `LightingPublication`, from `LightingAssumption` and the above:

| Theorem | States |
|---|---|
| `LightingInvariant` | `LightingSpec => []LightingInv` |
| `LightingCurrent` | `LightingSpec => []LightIsCurrent` |
| `LightingExact` | `LightingSpec => []LightingAccounting` |
| `LightingFenced` | `LightingSpec => ChangesFenced` |

The owner's steps keep `LoadingInv` by the lemmas of the first part. What is
added is the link of the two components: `HoldersExact` (live sources hold exactly
the pinned revisions and chunks), so that a change takes a revision that differs
from that of every live source, and `SourcesCurrent` (a source that still compares
equal was captured from what is canonical now).

`SectionPreparationProofs`, from `PreparationAssumption` (finite sections and
chunks, positive limits, no more cache places than sections, as the constructor
demands):

| Theorem | States |
|---|---|
| `PreparationInvariant` | `Spec => []PreparationInv` |
| `PreparationCurrent` | `Spec => []CachedIsCurrent` |
| `PreparationBookkeeping` | `Spec => []BookkeepingExact` |
| `PreparationCoalesces` | `Spec => []WorkCoalesces` |

`PreparationInv` has `QueuesExact` (the dirty queue and the cache order repeat
nothing and tell the same as the flags: what `swap_remove`, `retain` and the
eviction of the oldest rely on), `RevisionsIssued` (a new revision is nobody's, so
a write makes every running job of the section obsolete), `JobsCurrent` (a job
that would be published works on the present content, lives, and is the only one)
and `FlagsExact` (a dirty section is wanted and has no bytes). `Retain` is a
recursive function: the library's `SelectSeq` has a local recursive definition the
prover cannot expand. `RetainFacts` says what it keeps, and that it keeps the
order and adds no repetition.

`ConnectionProofs`, from `ConnectionAssumption` (at least one registry, one login
tick and one unit of the keepalive interval) and `NoneAssumption` (`None` is no
packet), for any number of registries, ticks and stray packets:

| Theorem | States |
|---|---|
| `TransportInvariant` | `Spec => []TransportInv` |
| `WritesSafety` | `Spec => []WritesSound` |
| `AnswersSafety` | `Spec => []AnswersConserved` |
| `ModesInvariant` | `Spec => []ModesInv` |
| `FramesSafety` | `Spec => []FramesReadable` |

The invariants are three layers, each inductive with those below it.

* `TransportInv` is what the task's own code relies on at each await: who has the
  stream (`StreamOwned`), which phases and packets belong to the await
  (`PhaseOfTask`), both cipher halves wherever they are, in a write or in a read
  job included (`CiphersPaired`), that the frame on the socket is the last one of
  the wire (`TornTracked`), and how stage, cursor and keepalive go together
  (`ContentOrder`). An interruption at any of the awaits is one of two steps,
  `Shut` or `Farewell`, and one lemma each.
* `AnswersConserved` counts answers on the wire, with the client, in the socket
  and in the read. It needs `TransportInv` to know that a packet which asks is
  only written when its answer is not yet waited for: a keepalive is queued only
  while none is pending, and content 2 is the one before `AwaitingKnownPacks`.
  The lemmas on `Places` say how a count changes when a sequence is appended to,
  loses its head, or has its last element completed.
* `ModesInv` relates frames that are still on their way to switches that have not
  happened yet: a frame's compression is what the client will have when it gets
  there (`WireModes`), nothing but a login disconnect follows a Challenge or Login
  Finished until it is answered (`SwitchOnAnswer`), each phase knows the modes of
  the other end (`ModesOfPhase`), and the pieces of configuration on the wire are
  the next ones without a gap (`ContentNumbered`). That an answer on the wire is
  alone there, which `AnswersConserved` says, is used in most steps.

`WorldProofs`, on `ChunkSender`, from `SenderAssumption` (finite positions, positive sizes,
rates and limits, 1.0 between the slowest and the fastest rate), for remote and
memory connections, any distances and any rates a client asks for:

| Theorem | States |
|---|---|
| `SenderInvariant` | `Spec => []SenderInv` |
| `SenderBounded` | `Spec => []DeliveryBounded` |
| `SenderConverges` | `Spec => []ClientConverges` |

`SenderInv` adds what a later step relies on: `PlanSound` (until a plan admits, its
candidates are pending, the window has room for a batch and a remote client's
quota pays for all of them; nothing can disturb that because the plan borrows the
sender), `pending` inside the view (so an admission brings exactly wanted chunks),
and `QueueSound` (only the front group is half written, and the client has what of
it was written, so its completion loses nothing). Queue positions shift when the
front group leaves: `HeapTail`, `BatchesTail` and `TailNames` say that bytes,
batches and the last word on each position survive that.

The same module, on `LightStorage`, from `StorageAssumption` (natural limits, well
formed queued layers, sections below the number that stands for "no top"), for any
set of sections that may hold terrain:

| Theorem | States |
|---|---|
| `StorageIsExact` | `StorageSpec => []StorageExact` |
| `StorageServesReaders` | `StorageSpec => ReadersServed` |
| `SupportChangesNoLight` | `StorageSpec => SupportKeepsLight` |

`StorageInv` states the parts of `StorageExact` for every integer section, not just
for those with an entry, because an entry may appear or be pruned in any step, and
adds the types. The action properties follow from it. A layer that a snapshot or the
published map refers to is in `Referenced`, so it is never allocated again and is
copied before a write. For `SupportKeepsLight`, `Reads` gives what `get_level`
returns as a function of the stored planes alone: a section without a layer reads
the bottom plane of the nearest one above. A new layer repeats exactly that plane
(`CreatedReads`), so adding it changes what nobody reads (`ReadsExtended`); the
centre and its two neighbours are added one by one, as the code plans them
(`MadeReads`).

The same module, on `PlayerView`, from `ViewAssumption` (positive distances whose
views fit twice into the width of a coordinate), proves `ViewIsExact`
(`ViewSpec => []ViewExact`) for every width. Inside the bounds of a view the wrapping
distance is the plain one, so the scan finds the chunks of the definition. A scan
lists each cell once (division and remainder by the width of the bounds are a
bijection), so the events tell each change once (`Tells`). `ViewInv` says that the
events still to come tell what separates the consumer from the next view, the new
centre first, whether the difference came from one scan or from two.

`ScheduledTicksProofs`, from `TickAssumption` (finitely many domains and chunk
addresses, natural limits, areas that are not reversed, saved entries and
snapshots of well-formed ticks), for any loads, requests, areas, offsets, limits
and times:

| Theorem | States |
|---|---|
| `TicksInvariant` | `Spec => []TickInv` |
| `QueuesAreSound` | `Spec => []QueuesSound` |
| `PhasesInOrder` | `Spec => PhaseOrder` |
| `SavingKeepsOrder` | `Spec => []SaveKeepsOrder` |

`QueuesSound` speaks of the index between calls only, and `begin_phase` takes
entries out of it one at a time. `TickInv` says where they are meanwhile.

* `ChunksInv` gives every queue of every chunk its `QueueInv`: within its limit,
  in its chunk, with identities of queued ticks only and, as long as no duplicate
  was loaded, each identity once (`NoTwice`). A loaded list may repeat an identity,
  as the code allows; the queue is then no longer `clean`, and nothing is claimed
  of it that a duplicate breaks.
* `BytesPart`: the charge is the sum over chunks and scratch buffers. `ChunkSumPlus`
  and `ChunkSumSet` say how it changes when a chunk comes, goes or is rewritten.
* `IndexPart`: the index has, for each registered chunk with live ticks, the trigger
  of the first one, except for the chunks that `begin_phase` holds (`Held`).
  `IndexPushed` is the argument of `schedule_created` and `commit_copy`: a pushed
  tick changes the index only when it becomes the first one.
* `DrainPart`: what is held has a due tick; while there is room, every eligible
  chunk with a due tick is held; the candidate comes before the others; and
  `TakenInOrder` holds of the ticks selected so far and the first one left in each
  chunk. The last is what makes `PhaseOrder` inductive: a tick that is taken now
  has to come after those already taken, of its own chunk and of others
  (`TakenAppend`).
* The books of a phase: `Rest` is the bag of identities still to be handed out.
  `clear_area` removes from the middle of the selected list while a phase runs, and
  moves the cursor; that the two fit together is a count of what `Retain` keeps
  before a place (`RetainPlaces`, `AheadRetain`, `CursorPlace`).

`SavingKeepsOrder` follows from the same invariant: entries that wait to be
unpacked get sub-orders below zero in the order of their list, and the cut delay of
a live tick within its width gives back the trigger at the same time (`CutFacts`),
for every width.

Only model-checked: all liveness (`PoolProgress`, `AbandonedReadEnds`, `WorkEnds`,
`SettledViewArrives`, `ConnectionEnds`, `ServerStops`, and `RequestsServed` as a
whole, for its liveness part), and what rests on recursive definitions over data, which
the prover cannot take apart: the position table and its refinement
(`ImplementsSet`), the selection (`SelectionSound`), heap, index and count tables
(`TickTablesSound`), heightmap words (`HeightsExact`) and the fixed point of the
light engines (`LightSound`).

## Finding

`pool_counts` is violated. The comment on `CpuPoolConfig::max_jobs`
(`src/runtime/mod.rs`) says it "counts reservations, queued/running work and
retained completions together". The one-shot runners drop their lease on the
error and abandon paths before `finish_job`, so for a moment `queued + running`
exceeds `in_flight`, and a slot is granted while the previous job's worker is
still inside it. `CapacityBound` shows that this does not break the queue's
preallocation.

## Not modelled, and the plan

Inside modelled components, these are left out:

* `from_sections` of the lighting source, the limit of the check queue itself, and
  the refusals of a new lighting work (invalid limits, a chunk without a saved-light
  record, allocation): they leave no work behind;
* in section preparation, a pool that cannot allocate a job's buffers: `drive` ends
  as it does when the pool is closed, and changes nothing else;
* in the light storage, more than one column, and the limits on columns and on
  metadata bytes; nibble packing;
* the refusals of malformed heightmap calls (another context, a column or a y
  outside the chunk), and registries in which air itself has one of the tags a
  kind counts: priming skips literal air, an update does not;
* the wrap at 2^63 of the tick owner's sub-order counter, of triggers and of the
  game time;
* the text of login and configuration packets.

Next, in this order:

1. **Sections and packed storage**: palette transitions against a plain array.
2. **Region files**: header and stream limits.

Left out for good: HTTP, cryptography and sockets (their outcomes are inputs of
the login session), static configuration and Unicode data, the text of NBT and
SNBT and of packets, the command line, and file layout.
