---------------------------- MODULE ChunkLoading ----------------------------
(***************************************************************************)
(* The canonical chunk owner (world/loading.rs: ChunkLoadingOwner), the    *)
(* disk reads it asks for (world/storage/mod.rs: ChunkStore::read) and the *)
(* resident ledger it publishes into (ResidentChunkBudget).                *)
(*                                                                         *)
(* The owner's methods take &mut self, so each is one action. A read is    *)
(* an async future over a blocking thread and a CPU job: its caller may    *)
(* drop it between any two of its steps, and may run several reads of one  *)
(* request. Results a method returns without changing state (Pending,      *)
(* Resident, every error) are not actions.                                 *)
(*                                                                         *)
(* Addresses are the coordinates valid_coordinate accepts. The height and  *)
(* registry digests publish compares are one "context" value.              *)
(***************************************************************************)
EXTENDS Naturals, FiniteSets, FiniteSetsExt

CONSTANTS
  Addresses,      \* chunk positions callers demand
  Contexts,       \* (height, registries) pairs
  Reads,          \* read futures that may be in flight together
  Drafts,         \* what a decode may yield: [rows, bytes]
  Revisions,      \* identities an Arc<()> revision can have
  MaxChunks,      \* LoadingLimits.max_chunks
  SlotsCharge,    \* metadata charged for the slot vector itself
  MetadataLimit,  \* LoadingLimits.metadata_bytes
  ResidentLimit,  \* resident_bytes of the owner's ResidentChunkBudget
  Permits,        \* io_concurrency of the store
  CpuSlots,       \* decode leases the CPU pool can grant
  MaxGeneration,  \* u64::MAX, where next_generation is exhausted
  MaxEpoch,       \* u64::MAX, where epoch is exhausted
  None

ASSUME LoadingAssumption ==
  /\ IsFiniteSet(Addresses) /\ IsFiniteSet(Reads) /\ IsFiniteSet(Revisions)
  /\ Contexts # {} /\ Revisions # {}
  /\ Drafts \subseteq [rows : Nat, bytes : Nat]
  /\ MaxChunks \in Nat \ {0}
  /\ {SlotsCharge, MetadataLimit, ResidentLimit, Permits, CpuSlots} \subseteq Nat
  /\ {MaxGeneration, MaxEpoch} \subseteq Nat
  /\ SlotsCharge <= MetadataLimit

VARIABLES
  epoch,          \* ChunkLoadingOwner.epoch
  nextGeneration, \* ChunkLoadingOwner.next_generation
  context,        \* ChunkLoadingOwner.registries and height
  slots,          \* ChunkLoadingOwner.slots: per address, the demand or None
  metadata,       \* ChunkLoadingOwner.metadata_bytes
  revision,       \* ChunkLoadingOwner.source_revision
  used,           \* ResidentStats.used_bytes
  tickets,        \* keys of the LoadingReadRequest tokens handed out
  reads,          \* the read futures
  ioFree,         \* free permits of ChunkStore.io_slots
  cpuUsed,        \* decode leases held in the CPU pool
  pinned,         \* revisions a LightingSource holds a clone of (LightingPublication)
  shots,          \* residents a client holds an Arc of (snapshot_data)
  prepared        \* a section prepared from a resident, or None

owner == <<epoch, nextGeneration, context, slots, metadata, revision, used, tickets>>
store == <<reads, ioFree, cpuUsed>>
clients == <<pinned, shots, prepared>>
vars == <<owner, store, clients>>

Keys == [epoch : 0..MaxEpoch, address : Addresses, generation : 1..MaxGeneration]
Chunks == {[key |-> k, context |-> c, rows |-> d.rows, bytes |-> d.bytes] :
             k \in Keys, c \in Contexts, d \in Drafts}

Slots == [key : Keys, chunk : Chunks \cup {None}]
Sections == [key : Keys, ours : BOOLEAN, from : Chunks \cup {None}]

(* None is none of the values it stands in for.                            *)
ASSUME NoneAssumption == None \notin Chunks \cup Slots \cup Sections

(* Stages of a read: no future; the blocking thread looks the chunk up;    *)
(* it reads into the reserved job; the closure has returned; the CPU       *)
(* decodes; the caller has the output; the caller has anything else.       *)
Stages == {"free", "locating", "fetching", "fetched", "decoding", "decoded", "absent"}
OnDisk == {"locating", "fetching"}
Leased == {"fetching", "fetched", "decoding", "decoded"}
ReadRecords == [stage : Stages, key : Keys \cup {None}, context : Contexts \cup {None},
                draft : Drafts \cup {None}, ours : BOOLEAN, awaited : BOOLEAN]
NoRead == [stage |-> "free", key |-> None, context |-> None, draft |-> None,
           ours |-> TRUE, awaited |-> FALSE]

Demanded == {a \in Addresses : slots[a] # None}
Canonical(a) == IF slots[a] = None THEN None ELSE slots[a].chunk
CanonicalChunks == {Canonical(a) : a \in Addresses} \ {None}

SumOf(weight, S) == SumFunctionOnSet(weight, S)
ChunkBytes == [c \in Chunks |-> c.bytes]
ChunkRows == [c \in Chunks |-> c.rows]

(* Dropping the Arcs in S frees those nobody else holds.                   *)
FreedBytes(S, others) == SumOf(ChunkBytes, S \ others)

-----------------------------------------------------------------------------
(* The owner.                                                              *)

(* source_revision = Arc::new(()): an identity no live clone has. Which    *)
(* one it is can not be told apart, so one is chosen.                      *)
RenewRevision ==
  LET unheld == Revisions \ (pinned \cup {revision})
  IN  unheld # {} /\ revision' = CHOOSE r \in unheld : TRUE

(* A free slot and generation: LoadDemand::Read.                           *)
request(a) ==
  LET key == [epoch |-> epoch, address |-> a, generation |-> nextGeneration + 1]
  IN  /\ slots[a] = None
      /\ Cardinality(Demanded) # MaxChunks
      /\ nextGeneration < MaxGeneration
      /\ slots' = [slots EXCEPT ![a] = [key |-> key, chunk |-> None]]
      /\ nextGeneration' = nextGeneration + 1
      /\ tickets' = tickets \cup {key}
      /\ UNCHANGED <<epoch, context, metadata, revision, used, store, clients>>

(* Mutant: the row map of a removed resident stays charged.                *)
RemoveKeepsRows(a) ==
  LET gone == {Canonical(a)} \ {None}
  IN  /\ slots[a] # None
      /\ slots' = [slots EXCEPT ![a] = None]
      /\ used' = used - FreedBytes(gone, shots)
      /\ RenewRevision
      /\ UNCHANGED <<epoch, nextGeneration, context, metadata, tickets, store,
                     clients>>

remove_demand(a) ==
  LET gone == {Canonical(a)} \ {None}
  IN  /\ slots[a] # None
      /\ slots' = [slots EXCEPT ![a] = None]
      /\ metadata' = metadata - SumOf(ChunkRows, gone)
      /\ used' = used - FreedBytes(gone, shots)
      /\ RenewRevision
      /\ UNCHANGED <<epoch, nextGeneration, context, tickets, store, clients>>

check_pending(key) ==
  LET slot == slots[key.address]
  IN  /\ slot # None
      /\ key = slot.key /\ key.epoch = epoch
      /\ slot.chunk = None

reload(c) ==
  /\ epoch < MaxEpoch
  /\ epoch' = epoch + 1
  /\ context' = c
  /\ slots' = [a \in Addresses |-> None]
  /\ metadata' = SlotsCharge
  /\ used' = used - FreedBytes(CanonicalChunks, shots)
  /\ RenewRevision
  /\ UNCHANGED <<nextGeneration, tickets, store, clients>>

(* Mutant: light captured before the chunk appeared stays current.         *)
PublishSilently(r) ==
  LET read == reads[r]
      chunk == [key |-> read.key, context |-> read.context,
                rows |-> read.draft.rows, bytes |-> read.draft.bytes]
  IN  /\ read.stage = "decoded" /\ read.ours /\ check_pending(read.key)
      /\ read.context = context
      /\ chunk.rows <= MetadataLimit - metadata
      /\ chunk.bytes <= ResidentLimit - used
      /\ used' = used + chunk.bytes
      /\ metadata' = metadata + chunk.rows
      /\ slots' = [slots EXCEPT ![read.key.address].chunk = chunk]
      /\ reads' = [reads EXCEPT ![r] = NoRead]
      /\ cpuUsed' = cpuUsed - 1
      /\ UNCHANGED <<epoch, nextGeneration, context, revision, tickets, ioFree,
                     clients>>

(* The guards in the code's order: ForeignRead, check_pending,             *)
(* ContextMismatch, MetadataLimit, ResidentLimit.                          *)
publish(r) ==
  LET read == reads[r]
      chunk == [key |-> read.key, context |-> read.context,
                rows |-> read.draft.rows, bytes |-> read.draft.bytes]
  IN  /\ read.stage = "decoded"
      /\ read.ours
      /\ check_pending(read.key)
      /\ read.context = context
      /\ chunk.rows <= MetadataLimit - metadata
      /\ chunk.bytes <= ResidentLimit - used
      /\ used' = used + chunk.bytes
      /\ metadata' = metadata + chunk.rows
      /\ slots' = [slots EXCEPT ![read.key.address].chunk = chunk]
      /\ RenewRevision
      /\ reads' = [reads EXCEPT ![r] = NoRead]
      /\ cpuUsed' = cpuUsed - 1
      /\ UNCHANGED <<epoch, nextGeneration, context, tickets, ioFree, clients>>

(* The caller reports a read that produced no chunk; a stale report only   *)
(* ends the read.                                                          *)
finish_without_chunk(r) ==
  LET key == reads[r].key
  IN  /\ reads[r].stage = "absent" /\ reads[r].ours
      /\ slots' = IF check_pending(key)
                  THEN [slots EXCEPT ![key.address] = None] ELSE slots
      /\ reads' = [reads EXCEPT ![r] = NoRead]
      /\ UNCHANGED <<epoch, nextGeneration, context, metadata, revision, used,
                     tickets, ioFree, cpuUsed, clients>>

-----------------------------------------------------------------------------
(* ChunkStore::read. A read that ends goes to its caller if it is still    *)
(* awaited, and frees what it holds in any case.                           *)

Ended(read) == IF read.awaited THEN [read EXCEPT !.stage = "absent"] ELSE NoRead

(* The caller picks the store, so the context; IoBusy is an early error.   *)
read(r, key, c) ==
  LET new == [NoRead EXCEPT !.key = key, !.context = c, !.awaited = TRUE]
  IN  /\ reads[r] = NoRead
      /\ IF ioFree = 0
         THEN /\ reads' = [reads EXCEPT ![r] = [new EXCEPT !.stage = "absent"]]
              /\ UNCHANGED ioFree
         ELSE /\ reads' = [reads EXCEPT ![r] = [new EXCEPT !.stage = "locating"]]
              /\ ioFree' = ioFree - 1
      /\ UNCHANGED <<owner, cpuUsed, clients>>

(* Missing, Unavailable, a region error or a refused decode reservation.   *)
LocateNothing(r) ==
  /\ reads[r].stage = "locating"
  /\ reads' = [reads EXCEPT ![r] = Ended(@)]
  /\ ioFree' = ioFree + 1
  /\ UNCHANGED <<owner, cpuUsed, clients>>

LocatePresent(r) ==
  /\ reads[r].stage = "locating"
  /\ cpuUsed < CpuSlots
  /\ cpuUsed' = cpuUsed + 1
  /\ reads' = [reads EXCEPT ![r].stage = "fetching"]
  /\ UNCHANGED <<owner, ioFree, clients>>

(* read_into returned: the closure drops its permit; its result is dropped *)
(* too when nobody awaits it or the read failed.                           *)
Fetched(r, ok) ==
  LET kept == ok /\ reads[r].awaited
  IN  /\ reads[r].stage = "fetching"
      /\ ioFree' = ioFree + 1
      /\ IF kept THEN /\ reads' = [reads EXCEPT ![r].stage = "fetched"]
                      /\ UNCHANGED cpuUsed
                 ELSE /\ reads' = [reads EXCEPT ![r] = Ended(@)]
                      /\ cpuUsed' = cpuUsed - 1
      /\ UNCHANGED <<owner, clients>>

(* The caller polls on: submit to the pool, or Closed.                     *)
Submit(r, ok) ==
  /\ reads[r].stage = "fetched"
  /\ IF ok THEN /\ reads' = [reads EXCEPT ![r].stage = "decoding"]
                /\ UNCHANGED cpuUsed
           ELSE /\ reads' = [reads EXCEPT ![r] = Ended(@)]
                /\ cpuUsed' = cpuUsed - 1
  /\ UNCHANGED <<owner, ioFree, clients>>

Decoded(r, d) ==
  /\ reads[r].stage = "decoding" /\ reads[r].awaited
  /\ reads' = [reads EXCEPT ![r].stage = "decoded", ![r].draft = d]
  /\ UNCHANGED <<owner, ioFree, cpuUsed, clients>>

(* Mutant: a worker waits for the receiver to come back.                   *)
DecodeEndsAwaited(r) ==
  /\ reads[r].stage = "decoding" /\ reads[r].awaited
  /\ reads' = [reads EXCEPT ![r] = Ended(@)]
  /\ cpuUsed' = cpuUsed - 1
  /\ UNCHANGED <<owner, ioFree, clients>>

(* A decode error, or a receiver that is gone: the job's lease goes first. *)
DecodeEnds(r) ==
  /\ reads[r].stage = "decoding"
  /\ reads' = [reads EXCEPT ![r] = Ended(@)]
  /\ cpuUsed' = cpuUsed - 1
  /\ UNCHANGED <<owner, ioFree, clients>>

(* The caller drops the future or the output. What a blocking thread or a  *)
(* worker still uses stays charged until that thread is done.              *)
Abandon(r) ==
  /\ reads[r].awaited
  /\ IF reads[r].stage \in OnDisk \cup {"decoding"}
     THEN /\ reads' = [reads EXCEPT ![r].awaited = FALSE]
          /\ UNCHANGED cpuUsed
     ELSE /\ reads' = [reads EXCEPT ![r] = NoRead]
          /\ cpuUsed' = IF reads[r].stage \in Leased THEN cpuUsed - 1 ELSE cpuUsed
  /\ UNCHANGED <<owner, ioFree, clients>>

(* External: an output of another owner whose key has the same numbers.    *)
ForeignOutput(r, key, d) ==
  /\ reads[r] = NoRead /\ cpuUsed < CpuSlots
  /\ cpuUsed' = cpuUsed + 1
  /\ reads' = [reads EXCEPT ![r] = [stage |-> "decoded", key |-> key,
                 context |-> context, draft |-> d, ours |-> FALSE, awaited |-> TRUE]]
  /\ UNCHANGED <<owner, ioFree, clients>>

-----------------------------------------------------------------------------
(* Clients of the published chunks.                                        *)

snapshot_data(a) ==
  /\ Canonical(a) \notin shots \cup {None}
  /\ shots' = shots \cup {Canonical(a)}
  /\ UNCHANGED <<owner, store, pinned, prepared>>

DropSnapshot(c) ==
  /\ c \in shots
  /\ shots' = shots \ {c}
  /\ used' = used - FreedBytes({c}, CanonicalChunks)
  /\ UNCHANGED <<epoch, nextGeneration, context, slots, metadata, revision,
                 tickets, store, pinned, prepared>>

(* A section job keyed by the resident's identity; from is its input.      *)
prepare_section(a) ==
  /\ prepared = None /\ Canonical(a) # None
  /\ prepared' = [key |-> Canonical(a).key, ours |-> TRUE, from |-> Canonical(a)]
  /\ UNCHANGED <<owner, store, pinned, shots>>

ForeignPrepared(key) ==
  /\ prepared = None
  /\ prepared' = [key |-> key, ours |-> FALSE, from |-> None]
  /\ UNCHANGED <<owner, store, pinned, shots>>

DropPrepared ==
  /\ prepared # None
  /\ prepared' = None
  /\ UNCHANGED <<owner, store, pinned, shots>>

(* Mutant: an address that is resident again is taken for the same chunk.  *)
AcceptByAddress(p) == p.ours /\ Canonical(p.key.address) # None

(* accept_prepared would hand p's bytes out.                               *)
accept_prepared(p) ==
  LET chunk == Canonical(p.key.address)
  IN  /\ p.ours
      /\ chunk # None
      /\ p.key.epoch = chunk.key.epoch /\ p.key.generation = chunk.key.generation

-----------------------------------------------------------------------------
Init ==
  /\ epoch = 0 /\ nextGeneration = 0 /\ context \in Contexts
  /\ slots = [a \in Addresses |-> None]
  /\ metadata = SlotsCharge /\ revision = CHOOSE r \in Revisions : TRUE
  /\ used = 0
  /\ tickets = {} /\ reads = [r \in Reads |-> NoRead]
  /\ ioFree = Permits /\ cpuUsed = 0
  /\ pinned = {} /\ shots = {} /\ prepared = None

OwnerStep ==
  \/ \E a \in Addresses : request(a) \/ remove_demand(a)
  \/ \E c \in Contexts : reload(c)
  \/ \E r \in Reads : publish(r) \/ finish_without_chunk(r)

(* Steps of the store's blocking threads and of the CPU workers.           *)
ThreadStep(r) ==
  \/ LocateNothing(r) \/ LocatePresent(r)
  \/ \E ok \in BOOLEAN : Fetched(r, ok)
  \/ \E d \in Drafts : Decoded(r, d)
  \/ DecodeEnds(r)

CallerStep(r) ==
  \/ \E key \in tickets, c \in Contexts : read(r, key, c)
  \/ \E ok \in BOOLEAN : Submit(r, ok)
  \/ Abandon(r)
  \/ \E key \in tickets, d \in Drafts : ForeignOutput(r, key, d)

ClientStep ==
  \/ \E a \in Addresses : snapshot_data(a) \/ prepare_section(a)
  \/ \E c \in shots : DropSnapshot(c)
  \/ \E key \in tickets : ForeignPrepared(key)
  \/ DropPrepared

Next ==
  \/ OwnerStep \/ ClientStep
  \/ \E r \in Reads : ThreadStep(r) \/ CallerStep(r)

Spec == Init /\ [][Next]_vars

FairSpec == Spec /\ \A r \in Reads : WF_vars(ThreadStep(r))

-----------------------------------------------------------------------------
(* Type invariant; the counters stay inside their pools.                   *)
TypeOK ==
  /\ epoch \in 0..MaxEpoch /\ nextGeneration \in 0..MaxGeneration
  /\ context \in Contexts
  /\ slots \in [Addresses -> Slots \cup {None}]
  /\ metadata \in SlotsCharge..MetadataLimit
  /\ used \in 0..ResidentLimit
  /\ revision \in Revisions
  /\ tickets \in SUBSET Keys
  /\ reads \in [Reads -> ReadRecords]
  /\ ioFree \in 0..Permits /\ cpuUsed \in 0..CpuSlots
  /\ pinned \in SUBSET Revisions /\ shots \in SUBSET Chunks
  /\ prepared \in Sections \cup {None}

(* Row maps of canonical chunks plus the slot vector.                      *)
MetadataExact == metadata = SlotsCharge + SumOf(ChunkRows, CanonicalChunks)

(* Bytes of residents still held by the owner or by a snapshot that        *)
(* outlived removal or reload.                                             *)
ResidentExact ==
  IsFiniteSet(shots) /\ used = SumOf(ChunkBytes, CanonicalChunks \cup shots)

(* Permits of threads still on the disk, their caller gone or not.         *)
OnDiskReads == {r \in Reads : reads[r].stage \in OnDisk}
PermitsExact == ioFree + Cardinality(OnDiskReads) = Permits

(* Leases of unfinished reads and of outputs not yet published.            *)
LeasedReads == {r \in Reads : reads[r].stage \in Leased}
LeasesExact == cpuUsed = Cardinality(LeasedReads)

(* Every budget keeps to its limit and equals what is alive, through       *)
(* dropped futures, failed reads, removals, reloads and snapshots.         *)
LoadingAccounting ==
  TypeOK /\ MetadataExact /\ ResidentExact /\ PermitsExact /\ LeasesExact

(* A late, repeated or foreign read never gets into the wrong demand: what *)
(* is canonical was read for exactly this demand, in this epoch and under  *)
(* the owner's present height and registries, and no two demands share an  *)
(* identity.                                                               *)
ResidentMatchesDemand ==
  \A a \in Demanded :
    /\ slots[a].key.address = a /\ slots[a].key.epoch = epoch
    /\ slots[a].key.generation <= nextGeneration
    /\ slots[a].chunk # None =>
         slots[a].chunk.key = slots[a].key /\ slots[a].chunk.context = context
    /\ \A b \in Demanded \ {a} :
         slots[a].key.generation # slots[b].key.generation

(* "publication accepts only the first current result": while a demand     *)
(* keeps its identity its resident is never replaced, although several     *)
(* reads of the same request may complete.                                 *)
ChunkStays ==
  \A a \in Demanded :
    slots[a].chunk # None /\ slots'[a] # None /\ slots'[a].key = slots[a].key
      => slots'[a].chunk = slots[a].chunk

(* "Any owner publication/removal/reload invalidates the stamp": whenever  *)
(* the canonical chunks or the context change, no revision captured before *)
(* compares equal to the owner's again while it is held.                   *)
ChangeRevokes ==
  (\E a \in Addresses : Canonical(a)' # Canonical(a)) \/ context' # context
    => revision' \notin pinned \cup {revision}

(* Prepared section bytes are only accepted while the very chunk they were *)
(* made from is canonical: removal and re-reading, reload and other owners *)
(* with the same numbers all lead to a refusal.                            *)
PreparedIsCurrent ==
  prepared # None /\ accept_prepared(prepared)
    => prepared.from = Canonical(prepared.key.address)

(* Dropping a read future never strands its permit or lease: the threads   *)
(* that use them finish and free the read.                                 *)
AbandonedReadEnds ==
  \A r \in Reads :
    reads[r].stage # "free" /\ ~reads[r].awaited ~> reads[r] = NoRead

(* Keys are issued once: whatever carries one was made for a demand that   *)
(* this owner has registered.                                              *)
Issued(key) == key \in Keys /\ key.generation <= nextGeneration

KeysIssued ==
  /\ \A key \in tickets : Issued(key)
  /\ \A c \in shots : Issued(c.key)
  /\ prepared # None => Issued(prepared.key)

(* A read is for a handed-out ticket, in the context of the store it was   *)
(* started on, and has an output once it is decoded.                       *)
Ticketed(rd) ==
  /\ rd.stage # "free" => rd.key \in tickets /\ rd.context \in Contexts
  /\ rd.stage = "decoded" => rd.draft \in Drafts

ReadsTicketed == \A r \in Reads : Ticketed(reads[r])

(* One key, one chunk: what was ever canonical for the key of a live       *)
(* demand is what is canonical for it now.                                 *)
KeyNamesChunk ==
  /\ \A a \in Demanded, c \in shots : c.key = slots[a].key => c = slots[a].chunk
  /\ prepared # None /\ prepared.ours =>
       /\ prepared.from # None /\ prepared.from.key = prepared.key
       /\ \A a \in Demanded :
            prepared.key = slots[a].key => prepared.from = slots[a].chunk

(* What the owner holds and accepts is of now: the canonical chunk of a    *)
(* demand was read for it, in this epoch and context, and section bytes    *)
(* are taken only for the chunk they were made from.                       *)
NothingStale == ResidentMatchesDemand /\ PreparedIsCurrent

(* The inductive invariant behind both.                                    *)
LoadingInv ==
  /\ LoadingAccounting /\ ResidentMatchesDemand
  /\ KeysIssued /\ ReadsTicketed /\ KeyNamesChunk

(* A canonical chunk changes only with its demand, and every change is     *)
(* seen by whoever captured a revision before it.                          *)
ChangesFenced == [][ChunkStays /\ ChangeRevokes]_vars
=============================================================================
