---------------------- MODULE LightingPublicationProofs ----------------------
(***************************************************************************)
(* Proofs about ChunkLoading and LightingPublication, from their           *)
(* assumptions on the constants alone.                                     *)
(*                                                                         *)
(* ChunkLoading: the ledgers are sums over what is alive (DataFacts); a    *)
(* step replaces one read, one slot or the holders of residents, and a     *)
(* lemma for each of these forms turns that into the change of the counts. *)
(* LoadingInv adds to the accounting what makes late results harmless:     *)
(* keys are issued once (KeysIssued), a read keeps the key of its ticket   *)
(* (ReadsTicketed), and a key names one chunk (KeyNamesChunk).             *)
(*                                                                         *)
(* LightingPublication: light that a domain hands out is that of the       *)
(* present world, and the bytes of residents stay exact when lighting work *)
(* holds them past their removal. The owner's and the store's steps keep   *)
(* LoadingInv by the lemmas of the first part. What is new is the link     *)
(* between the two components: a live source pins the revision it was      *)
(* captured under (HoldersExact), so a step that changes a chunk renews    *)
(* the revision to one that no live source has (ChangeRevokes), and a      *)
(* source that still compares equal was captured from what is canonical    *)
(* now (SourcesCurrent).                                                   *)
(***************************************************************************)
EXTENDS LightingPublication, DataFacts

(* A canonical chunk is a chunk, and there are finitely many.              *)
LEMMA CanonicalFacts ==
  ASSUME TypeOK
  PROVE  /\ CanonicalChunks \in SUBSET Chunks
         /\ IsFiniteSet(CanonicalChunks)
         /\ \A a \in Addresses : Canonical(a) \in Chunks \cup {None}
<1>1. \A a \in Addresses : Canonical(a) \in Chunks \cup {None}
  BY DEF TypeOK, Canonical, Slots
<1> DEFINE f == [a \in Addresses |-> Canonical(a)]
           image == {Canonical(a) : a \in Addresses}
<1>2. f \in Surjection(Addresses, image)
  BY DEF Surjection
<1>3. IsFiniteSet(image)
  <2> HIDE DEF f, image
  <2> QED
    BY <1>2, FS_Surjection, LoadingAssumption
<1>4. CanonicalChunks \in SUBSET image
  BY DEF CanonicalChunks
<1>5. IsFiniteSet(CanonicalChunks)
  <2> HIDE DEF image
  <2> QED
    BY <1>3, <1>4, FS_Subset
<1>6. CanonicalChunks \in SUBSET Chunks
  BY <1>1 DEF CanonicalChunks
<1> QED
  BY <1>1, <1>5, <1>6

(* What a chunk weighs.                                                    *)
LEMMA Weights ==
  \A c \in Chunks : /\ ChunkBytes[c] = c.bytes /\ c.bytes \in Nat
                    /\ ChunkRows[c] = c.rows /\ c.rows \in Nat
                    /\ c.key \in Keys /\ c.context \in Contexts
BY LoadingAssumption DEF Chunks, ChunkBytes, ChunkRows

(* A step that replaces one read changes the two counts by that read.      *)
LEMMA OneRead ==
  ASSUME TypeOK, NEW r \in Reads, \A q \in Reads \ {r} : reads'[q] = reads[q]
  PROVE  /\ Cardinality(OnDiskReads) \in Nat /\ Cardinality(LeasedReads) \in Nat
         /\ Cardinality(OnDiskReads') =
              Cardinality(OnDiskReads) + (IF reads'[r].stage \in OnDisk THEN 1 ELSE 0)
                                       - (IF reads[r].stage \in OnDisk THEN 1 ELSE 0)
         /\ Cardinality(LeasedReads') =
              Cardinality(LeasedReads) + (IF reads'[r].stage \in Leased THEN 1 ELSE 0)
                                       - (IF reads[r].stage \in Leased THEN 1 ELSE 0)
<1>1. IsFiniteSet(OnDiskReads) /\ IsFiniteSet(LeasedReads)
  BY LoadingAssumption, FS_Subset DEF OnDiskReads, LeasedReads
<1>2. /\ OnDiskReads' = IF reads'[r].stage \in OnDisk THEN OnDiskReads \cup {r} ELSE OnDiskReads \ {r}
      /\ LeasedReads' = IF reads'[r].stage \in Leased THEN LeasedReads \cup {r} ELSE LeasedReads \ {r}
      /\ r \in OnDiskReads <=> reads[r].stage \in OnDisk
      /\ r \in LeasedReads <=> reads[r].stage \in Leased
  BY DEF TypeOK, OnDiskReads, LeasedReads
<1>3. /\ Cardinality(OnDiskReads) \in Nat /\ Cardinality(LeasedReads) \in Nat
  BY <1>1, FS_CardinalityType
<1>4. /\ Cardinality(OnDiskReads \cup {r}) =
           Cardinality(OnDiskReads) + (IF r \in OnDiskReads THEN 0 ELSE 1)
      /\ Cardinality(OnDiskReads \ {r}) =
           Cardinality(OnDiskReads) - (IF r \in OnDiskReads THEN 1 ELSE 0)
      /\ Cardinality(LeasedReads \cup {r}) =
           Cardinality(LeasedReads) + (IF r \in LeasedReads THEN 0 ELSE 1)
      /\ Cardinality(LeasedReads \ {r}) =
           Cardinality(LeasedReads) - (IF r \in LeasedReads THEN 1 ELSE 0)
  BY <1>1, CountOne
<1> QED
  BY <1>2, <1>3, <1>4

(* The store's part of the invariant, over a step that replaces one read.  *)
LEMMA ReadsStep ==
  ASSUME LoadingInv, tickets' = tickets,
         NEW r \in Reads, reads' \in [Reads -> ReadRecords],
         \A q \in Reads \ {r} : reads'[q] = reads[q],
         Ticketed(reads'[r]),
         ioFree' = ioFree - (IF reads'[r].stage \in OnDisk THEN 1 ELSE 0)
                          + (IF reads[r].stage \in OnDisk THEN 1 ELSE 0),
         cpuUsed' = cpuUsed + (IF reads'[r].stage \in Leased THEN 1 ELSE 0)
                            - (IF reads[r].stage \in Leased THEN 1 ELSE 0),
         ioFree' >= 0, cpuUsed' <= CpuSlots
  PROVE  /\ PermitsExact' /\ LeasesExact' /\ ReadsTicketed'
         /\ ioFree' \in 0..Permits /\ cpuUsed' \in 0..CpuSlots
<1> USE DEF LoadingInv, LoadingAccounting
<1>1. /\ Cardinality(OnDiskReads) \in Nat /\ Cardinality(LeasedReads) \in Nat
      /\ Cardinality(OnDiskReads') =
            Cardinality(OnDiskReads) + (IF reads'[r].stage \in OnDisk THEN 1 ELSE 0)
                                     - (IF reads[r].stage \in OnDisk THEN 1 ELSE 0)
      /\ Cardinality(LeasedReads') =
            Cardinality(LeasedReads) + (IF reads'[r].stage \in Leased THEN 1 ELSE 0)
                                     - (IF reads[r].stage \in Leased THEN 1 ELSE 0)
  BY OneRead
<1>2. /\ Permits \in Nat /\ CpuSlots \in Nat
      /\ ioFree \in Nat /\ cpuUsed \in Nat
  BY LoadingAssumption DEF TypeOK
<1>3. Cardinality(OnDiskReads') \in Nat /\ Cardinality(LeasedReads') \in Nat
  <2>1. IsFiniteSet(OnDiskReads') /\ IsFiniteSet(LeasedReads')
    BY LoadingAssumption, FS_Subset DEF OnDiskReads, LeasedReads
  <2> QED
    BY <2>1, FS_CardinalityType
<1>4. /\ PermitsExact' /\ LeasesExact'
      /\ ioFree' \in 0..Permits /\ cpuUsed' \in 0..CpuSlots
  BY <1>1, <1>2, <1>3 DEF PermitsExact, LeasesExact
<1>5. ReadsTicketed'
  BY DEF ReadsTicketed, Ticketed, TypeOK
<1> QED
  BY <1>4, <1>5

(* Steps of reads alone leave the owner's part of the invariant as it is.  *)
LEMMA StoreStep ==
  ASSUME LoadingInv, UNCHANGED <<owner, clients>>,
         NEW r \in Reads, reads' \in [Reads -> ReadRecords],
         \A q \in Reads \ {r} : reads'[q] = reads[q],
         Ticketed(reads'[r]),
         ioFree' = ioFree - (IF reads'[r].stage \in OnDisk THEN 1 ELSE 0)
                          + (IF reads[r].stage \in OnDisk THEN 1 ELSE 0),
         cpuUsed' = cpuUsed + (IF reads'[r].stage \in Leased THEN 1 ELSE 0)
                            - (IF reads[r].stage \in Leased THEN 1 ELSE 0),
         ioFree' >= 0, cpuUsed' <= CpuSlots
  PROVE  LoadingInv'
<1> USE DEF LoadingInv, LoadingAccounting
<1>1. /\ UNCHANGED <<epoch, nextGeneration, context, slots, metadata, revision, used, tickets>>
      /\ UNCHANGED <<pinned, shots, prepared>>
  BY DEF owner, clients
<1>2. /\ PermitsExact' /\ LeasesExact' /\ ReadsTicketed'
      /\ ioFree' \in 0..Permits /\ cpuUsed' \in 0..CpuSlots
  BY <1>1, ReadsStep
<1>3. TypeOK'
  BY <1>1, <1>2 DEF TypeOK
<1>4. MetadataExact' /\ ResidentExact' /\ ResidentMatchesDemand' /\ KeysIssued' /\ KeyNamesChunk'
  <2>1. CanonicalChunks' = CanonicalChunks /\ Demanded' = Demanded
    BY <1>1 DEF CanonicalChunks, Canonical, Demanded
  <2>2. MetadataExact'
    BY <1>1, <2>1 DEF MetadataExact
  <2>3. ResidentExact'
    BY <1>1, <2>1 DEF ResidentExact
  <2> QED
    BY <1>1, <2>1, <2>2, <2>3 DEF ResidentMatchesDemand, KeysIssued, Issued, KeyNamesChunk
<1> QED
  BY <1>2, <1>3, <1>4

(* The values reads take, and the numbers in the store.                    *)
LEMMA ReadFacts ==
  ASSUME LoadingInv, NEW r \in Reads
  PROVE  /\ reads[r] \in ReadRecords
         /\ Ticketed(reads[r])
         /\ NoRead \in ReadRecords /\ NoRead.stage = "free"
         /\ Ended(reads[r]) \in ReadRecords
         /\ Ended(reads[r]).stage \in {"absent", "free"}
         /\ reads[r].stage # "free" => Ticketed(Ended(reads[r]))
         /\ ioFree \in Nat /\ cpuUsed \in Nat /\ cpuUsed <= CpuSlots /\ CpuSlots \in Nat
         /\ tickets \in SUBSET Keys
<1>1. /\ reads[r] \in ReadRecords
      /\ Ticketed(reads[r])
  BY DEF LoadingInv, LoadingAccounting, TypeOK, ReadsTicketed, ReadRecords
<1>2. NoRead \in ReadRecords /\ NoRead.stage = "free"
  BY DEF NoRead, ReadRecords, Stages
<1>3. /\ Ended(reads[r]) \in ReadRecords
      /\ Ended(reads[r]).stage \in {"absent", "free"}
      /\ reads[r].stage # "free" => Ticketed(Ended(reads[r]))
  BY <1>1, <1>2 DEF Ended, ReadRecords, Stages, Ticketed
<1>4. /\ ioFree \in Nat /\ cpuUsed \in Nat /\ cpuUsed <= CpuSlots /\ CpuSlots \in Nat
      /\ tickets \in SUBSET Keys
  BY LoadingAssumption DEF LoadingInv, LoadingAccounting, TypeOK
<1> QED
  BY <1>1, <1>2, <1>3, <1>4

USE DEF OnDisk, Leased

(* A new read takes a permit, or is refused at once.                       *)
LEMMA readInv ==
  ASSUME LoadingInv, NEW r \in Reads, NEW key \in tickets, NEW c \in Contexts,
         read(r, key, c)
  PROVE  LoadingInv'
<1>1. CASE ioFree = 0
  <2>1. /\ reads' = [reads EXCEPT ![r] = [NoRead EXCEPT !.key = key, !.context = c, !.awaited = TRUE, !.stage = "absent"]]
         /\ reads[r].stage = "free" /\ ioFree' = ioFree /\ cpuUsed' = cpuUsed
         /\ UNCHANGED <<owner, clients>>
    BY <1>1 DEF read, NoRead
  <2>2. [NoRead EXCEPT !.key = key, !.context = c, !.awaited = TRUE, !.stage = "absent"] \in ReadRecords /\ ([NoRead EXCEPT !.key = key, !.context = c, !.awaited = TRUE, !.stage = "absent"]).stage = "absent" /\ Ticketed([NoRead EXCEPT !.key = key, !.context = c, !.awaited = TRUE, !.stage = "absent"])
    BY <2>1, ReadFacts DEF ReadRecords, Stages, NoRead, Ticketed
  <2>3. /\ reads' \in [Reads -> ReadRecords]
         /\ reads'[r] = [NoRead EXCEPT !.key = key, !.context = c, !.awaited = TRUE, !.stage = "absent"]
         /\ \A q \in Reads \ {r} : reads'[q] = reads[q]
    BY <2>1, <2>2 DEF LoadingInv, LoadingAccounting, TypeOK
  <2> QED
    BY <2>1, <2>2, <2>3, ReadFacts, StoreStep
<1>2. CASE ioFree # 0
  <2>1. /\ reads' = [reads EXCEPT ![r] = [NoRead EXCEPT !.key = key, !.context = c, !.awaited = TRUE, !.stage = "locating"]]
         /\ reads[r].stage = "free" /\ ioFree' = ioFree - 1 /\ cpuUsed' = cpuUsed
         /\ UNCHANGED <<owner, clients>>
    BY <1>2 DEF read, NoRead
  <2>2. [NoRead EXCEPT !.key = key, !.context = c, !.awaited = TRUE, !.stage = "locating"] \in ReadRecords /\ ([NoRead EXCEPT !.key = key, !.context = c, !.awaited = TRUE, !.stage = "locating"]).stage = "locating" /\ Ticketed([NoRead EXCEPT !.key = key, !.context = c, !.awaited = TRUE, !.stage = "locating"])
    BY <2>1, ReadFacts DEF ReadRecords, Stages, NoRead, Ticketed
  <2>3. /\ reads' \in [Reads -> ReadRecords]
         /\ reads'[r] = [NoRead EXCEPT !.key = key, !.context = c, !.awaited = TRUE, !.stage = "locating"]
         /\ \A q \in Reads \ {r} : reads'[q] = reads[q]
    BY <2>1, <2>2 DEF LoadingInv, LoadingAccounting, TypeOK
  <2> QED
    BY <1>2, <2>1, <2>2, <2>3, ReadFacts, StoreStep
<1> QED
  BY <1>1, <1>2

(* The blocking thread finds nothing and gives its permit back.            *)
LEMMA LocateNothingInv ==
  ASSUME LoadingInv, NEW r \in Reads, LocateNothing(r)
  PROVE  LoadingInv'
<1>1. /\ reads' = [reads EXCEPT ![r] = Ended(reads[r])]
       /\ reads[r].stage = "locating" /\ ioFree' = ioFree + 1 /\ cpuUsed' = cpuUsed
       /\ UNCHANGED <<owner, clients>>
  BY DEF LocateNothing
<1>2. Ended(reads[r]) \in ReadRecords /\ Ended(reads[r]).stage \in {"absent", "free"} /\ Ticketed(Ended(reads[r]))
  BY <1>1, ReadFacts
<1>3. /\ reads' \in [Reads -> ReadRecords]
       /\ reads'[r] = Ended(reads[r])
       /\ \A q \in Reads \ {r} : reads'[q] = reads[q]
  BY <1>1, <1>2 DEF LoadingInv, LoadingAccounting, TypeOK
<1> QED
  BY <1>1, <1>2, <1>3, ReadFacts, StoreStep

(* It finds the chunk and reserves the decode.                             *)
LEMMA LocatePresentInv ==
  ASSUME LoadingInv, NEW r \in Reads, LocatePresent(r)
  PROVE  LoadingInv'
<1>1. /\ reads' = [reads EXCEPT ![r] = [reads[r] EXCEPT !.stage = "fetching"]]
       /\ reads[r].stage = "locating" /\ ioFree' = ioFree /\ cpuUsed' = cpuUsed + 1 /\ cpuUsed < CpuSlots
       /\ UNCHANGED <<owner, clients>>
  BY DEF LocatePresent
<1>2. [reads[r] EXCEPT !.stage = "fetching"] \in ReadRecords /\ ([reads[r] EXCEPT !.stage = "fetching"]).stage = "fetching" /\ Ticketed([reads[r] EXCEPT !.stage = "fetching"])
  BY <1>1, ReadFacts DEF ReadRecords, Stages, NoRead, Ticketed
<1>3. /\ reads' \in [Reads -> ReadRecords]
       /\ reads'[r] = [reads[r] EXCEPT !.stage = "fetching"]
       /\ \A q \in Reads \ {r} : reads'[q] = reads[q]
  BY <1>1, <1>2 DEF LoadingInv, LoadingAccounting, TypeOK
<1> QED
  BY <1>1, <1>2, <1>3, ReadFacts, StoreStep

(* The disk is done with: the permit goes back, with the lease or not.     *)
LEMMA FetchedInv ==
  ASSUME LoadingInv, NEW r \in Reads, NEW ok \in BOOLEAN, Fetched(r, ok)
  PROVE  LoadingInv'
<1>1. CASE ok /\ reads[r].awaited
  <2>1. /\ reads' = [reads EXCEPT ![r] = [reads[r] EXCEPT !.stage = "fetched"]]
         /\ reads[r].stage = "fetching" /\ ioFree' = ioFree + 1 /\ cpuUsed' = cpuUsed
         /\ UNCHANGED <<owner, clients>>
    BY <1>1 DEF Fetched
  <2>2. [reads[r] EXCEPT !.stage = "fetched"] \in ReadRecords /\ ([reads[r] EXCEPT !.stage = "fetched"]).stage = "fetched" /\ Ticketed([reads[r] EXCEPT !.stage = "fetched"])
    BY <2>1, ReadFacts DEF ReadRecords, Stages, NoRead, Ticketed
  <2>3. /\ reads' \in [Reads -> ReadRecords]
         /\ reads'[r] = [reads[r] EXCEPT !.stage = "fetched"]
         /\ \A q \in Reads \ {r} : reads'[q] = reads[q]
    BY <2>1, <2>2 DEF LoadingInv, LoadingAccounting, TypeOK
  <2> QED
    BY <2>1, <2>2, <2>3, ReadFacts, StoreStep
<1>2. CASE ~(ok /\ reads[r].awaited)
  <2>1. /\ reads' = [reads EXCEPT ![r] = Ended(reads[r])]
         /\ reads[r].stage = "fetching" /\ ioFree' = ioFree + 1 /\ cpuUsed' = cpuUsed - 1
         /\ UNCHANGED <<owner, clients>>
    BY <1>2 DEF Fetched
  <2>2. Ended(reads[r]) \in ReadRecords /\ Ended(reads[r]).stage \in {"absent", "free"} /\ Ticketed(Ended(reads[r]))
    BY <2>1, ReadFacts
  <2>3. /\ reads' \in [Reads -> ReadRecords]
         /\ reads'[r] = Ended(reads[r])
         /\ \A q \in Reads \ {r} : reads'[q] = reads[q]
    BY <2>1, <2>2 DEF LoadingInv, LoadingAccounting, TypeOK
  <2> QED
    BY <2>1, <2>2, <2>3, ReadFacts, StoreStep
<1> QED
  BY <1>1, <1>2

(* The pool takes the job or is closed.                                    *)
LEMMA SubmitInv ==
  ASSUME LoadingInv, NEW r \in Reads, NEW ok \in BOOLEAN, Submit(r, ok)
  PROVE  LoadingInv'
<1>1. CASE ok
  <2>1. /\ reads' = [reads EXCEPT ![r] = [reads[r] EXCEPT !.stage = "decoding"]]
         /\ reads[r].stage = "fetched" /\ ioFree' = ioFree /\ cpuUsed' = cpuUsed
         /\ UNCHANGED <<owner, clients>>
    BY <1>1 DEF Submit
  <2>2. [reads[r] EXCEPT !.stage = "decoding"] \in ReadRecords /\ ([reads[r] EXCEPT !.stage = "decoding"]).stage = "decoding" /\ Ticketed([reads[r] EXCEPT !.stage = "decoding"])
    BY <2>1, ReadFacts DEF ReadRecords, Stages, NoRead, Ticketed
  <2>3. /\ reads' \in [Reads -> ReadRecords]
         /\ reads'[r] = [reads[r] EXCEPT !.stage = "decoding"]
         /\ \A q \in Reads \ {r} : reads'[q] = reads[q]
    BY <2>1, <2>2 DEF LoadingInv, LoadingAccounting, TypeOK
  <2> QED
    BY <2>1, <2>2, <2>3, ReadFacts, StoreStep
<1>2. CASE ~ok
  <2>1. /\ reads' = [reads EXCEPT ![r] = Ended(reads[r])]
         /\ reads[r].stage = "fetched" /\ ioFree' = ioFree /\ cpuUsed' = cpuUsed - 1
         /\ UNCHANGED <<owner, clients>>
    BY <1>2 DEF Submit
  <2>2. Ended(reads[r]) \in ReadRecords /\ Ended(reads[r]).stage \in {"absent", "free"} /\ Ticketed(Ended(reads[r]))
    BY <2>1, ReadFacts
  <2>3. /\ reads' \in [Reads -> ReadRecords]
         /\ reads'[r] = Ended(reads[r])
         /\ \A q \in Reads \ {r} : reads'[q] = reads[q]
    BY <2>1, <2>2 DEF LoadingInv, LoadingAccounting, TypeOK
  <2> QED
    BY <2>1, <2>2, <2>3, ReadFacts, StoreStep
<1> QED
  BY <1>1, <1>2

(* The decoded output keeps the lease.                                     *)
LEMMA DecodedInv ==
  ASSUME LoadingInv, NEW r \in Reads, NEW d \in Drafts, Decoded(r, d)
  PROVE  LoadingInv'
<1>1. /\ reads' = [reads EXCEPT ![r] = [reads[r] EXCEPT !.stage = "decoded", !.draft = d]]
       /\ reads[r].stage = "decoding" /\ ioFree' = ioFree /\ cpuUsed' = cpuUsed
       /\ UNCHANGED <<owner, clients>>
  BY DEF Decoded
<1>2. [reads[r] EXCEPT !.stage = "decoded", !.draft = d] \in ReadRecords /\ ([reads[r] EXCEPT !.stage = "decoded", !.draft = d]).stage = "decoded" /\ Ticketed([reads[r] EXCEPT !.stage = "decoded", !.draft = d])
  BY <1>1, ReadFacts DEF ReadRecords, Stages, NoRead, Ticketed
<1>3. /\ reads' \in [Reads -> ReadRecords]
       /\ reads'[r] = [reads[r] EXCEPT !.stage = "decoded", !.draft = d]
       /\ \A q \in Reads \ {r} : reads'[q] = reads[q]
  BY <1>1, <1>2 DEF LoadingInv, LoadingAccounting, TypeOK
<1> QED
  BY <1>1, <1>2, <1>3, ReadFacts, StoreStep

(* A decode that fails or that nobody awaits gives it back.                *)
LEMMA DecodeEndsInv ==
  ASSUME LoadingInv, NEW r \in Reads, DecodeEnds(r)
  PROVE  LoadingInv'
<1>1. /\ reads' = [reads EXCEPT ![r] = Ended(reads[r])]
       /\ reads[r].stage = "decoding" /\ ioFree' = ioFree /\ cpuUsed' = cpuUsed - 1
       /\ UNCHANGED <<owner, clients>>
  BY DEF DecodeEnds
<1>2. Ended(reads[r]) \in ReadRecords /\ Ended(reads[r]).stage \in {"absent", "free"} /\ Ticketed(Ended(reads[r]))
  BY <1>1, ReadFacts
<1>3. /\ reads' \in [Reads -> ReadRecords]
       /\ reads'[r] = Ended(reads[r])
       /\ \A q \in Reads \ {r} : reads'[q] = reads[q]
  BY <1>1, <1>2 DEF LoadingInv, LoadingAccounting, TypeOK
<1> QED
  BY <1>1, <1>2, <1>3, ReadFacts, StoreStep

(* A dropped future keeps what a thread still uses, and frees the rest.    *)
LEMMA AbandonInv ==
  ASSUME LoadingInv, NEW r \in Reads, Abandon(r)
  PROVE  LoadingInv'
<1>0. UNCHANGED <<owner, clients>> /\ ioFree' = ioFree
  BY DEF Abandon
<1>1. CASE reads[r].stage \in OnDisk \cup {"decoding"}
  <2>1. reads' = [reads EXCEPT ![r] = [reads[r] EXCEPT !.awaited = FALSE]] /\ cpuUsed' = cpuUsed
    BY <1>1 DEF Abandon
  <2>2. /\ [reads[r] EXCEPT !.awaited = FALSE] \in ReadRecords
        /\ ([reads[r] EXCEPT !.awaited = FALSE]).stage = reads[r].stage
        /\ Ticketed([reads[r] EXCEPT !.awaited = FALSE])
    BY ReadFacts DEF ReadRecords, Ticketed
  <2>3. /\ reads' \in [Reads -> ReadRecords]
        /\ reads'[r] = [reads[r] EXCEPT !.awaited = FALSE]
        /\ \A q \in Reads \ {r} : reads'[q] = reads[q]
    BY <2>1, <2>2 DEF LoadingInv, LoadingAccounting, TypeOK
  <2> QED
    <3>1. reads'[r].stage = reads[r].stage /\ Ticketed(reads'[r])
      BY <2>2, <2>3
    <3>2. /\ ioFree' = ioFree - (IF reads'[r].stage \in OnDisk THEN 1 ELSE 0)
                              + (IF reads[r].stage \in OnDisk THEN 1 ELSE 0)
          /\ cpuUsed' = cpuUsed + (IF reads'[r].stage \in Leased THEN 1 ELSE 0)
                                - (IF reads[r].stage \in Leased THEN 1 ELSE 0)
          /\ ioFree' >= 0 /\ cpuUsed' <= CpuSlots
      BY <1>0, <2>1, <3>1, ReadFacts
    <3> QED
      BY <1>0, <2>3, <3>1, <3>2, StoreStep
<1>2. CASE reads[r].stage \notin OnDisk \cup {"decoding"}
  <2>1. /\ reads' = [reads EXCEPT ![r] = NoRead]
        /\ cpuUsed' = IF reads[r].stage \in Leased THEN cpuUsed - 1 ELSE cpuUsed
    BY <1>2 DEF Abandon
  <2>2. NoRead \in ReadRecords /\ NoRead.stage = "free" /\ Ticketed(NoRead)
    BY ReadFacts DEF Ticketed
  <2>3. /\ reads' \in [Reads -> ReadRecords]
        /\ reads'[r] = NoRead
        /\ \A q \in Reads \ {r} : reads'[q] = reads[q]
    BY <2>1, <2>2 DEF LoadingInv, LoadingAccounting, TypeOK
  <2> QED
    BY <1>0, <1>2, <2>1, <2>2, <2>3, ReadFacts, StoreStep
<1> QED
  BY <1>1, <1>2

(* An output of another owner holds a lease like any other.                *)
LEMMA ForeignOutputInv ==
  ASSUME LoadingInv, NEW r \in Reads, NEW key \in tickets, NEW d \in Drafts,
         ForeignOutput(r, key, d)
  PROVE  LoadingInv'
<1> DEFINE new == [stage |-> "decoded", key |-> key, context |-> context,
                   draft |-> d, ours |-> FALSE, awaited |-> TRUE]
<1>1. /\ reads' = [reads EXCEPT ![r] = new]
      /\ reads[r].stage = "free" /\ ioFree' = ioFree
      /\ cpuUsed' = cpuUsed + 1 /\ cpuUsed < CpuSlots
      /\ UNCHANGED <<owner, clients>>
  BY DEF ForeignOutput, NoRead
<1>2. new \in ReadRecords /\ new.stage = "decoded" /\ Ticketed(new)
  BY ReadFacts DEF ReadRecords, Stages, Ticketed, LoadingInv, LoadingAccounting, TypeOK
<1>3. /\ reads' \in [Reads -> ReadRecords]
      /\ reads'[r] = new
      /\ \A q \in Reads \ {r} : reads'[q] = reads[q]
  BY <1>1, <1>2 DEF LoadingInv, LoadingAccounting, TypeOK
<1> HIDE DEF new
<1> QED
  BY <1>1, <1>2, <1>3, ReadFacts, StoreStep

-----------------------------------------------------------------------------
(* The owner and its clients.                                              *)

(* What a slot says of its demand and of the chunk that is canonical in it *)
(* and in no other.                                                        *)
LEMMA SlotFacts ==
  ASSUME LoadingInv, NEW a \in Addresses
  PROVE  /\ slots[a] # None => slots[a] \in Slots /\ slots[a].key.address = a
         /\ Canonical(a) # None =>
              /\ slots[a] # None /\ Canonical(a) = slots[a].chunk
              /\ Canonical(a) \in Chunks /\ Canonical(a) \in CanonicalChunks
              /\ Canonical(a).key = slots[a].key /\ Canonical(a).key.address = a
              /\ Issued(Canonical(a).key) /\ Canonical(a).context = context
         /\ \A b \in Addresses : Canonical(b) # None /\ Canonical(a) = Canonical(b) => a = b
<1> USE DEF LoadingInv, LoadingAccounting
<1>1. \A b \in Addresses : slots[b] # None => /\ slots[b] \in Slots /\ slots[b].key \in Keys
                                              /\ slots[b].key.address = b
                                              /\ slots[b].key.generation <= nextGeneration
  BY DEF TypeOK, Slots, ResidentMatchesDemand, Demanded
<1>2. \A b \in Addresses :
        Canonical(b) # None =>
              /\ slots[b] # None /\ Canonical(b) = slots[b].chunk
              /\ Canonical(b) \in Chunks /\ Canonical(b) \in CanonicalChunks
              /\ Canonical(b).key = slots[b].key
              /\ Canonical(b).context = context
  BY CanonicalFacts DEF Canonical, CanonicalChunks, ResidentMatchesDemand, Demanded
<1> QED
  BY <1>1, <1>2 DEF Issued

(* Writing one slot.                                                       *)
LEMMA SlotStep ==
  ASSUME LoadingInv, NEW a \in Addresses, NEW new \in Slots \cup {None},
         slots' = [slots EXCEPT ![a] = new]
  PROVE  /\ slots' \in [Addresses -> Slots \cup {None}]
         /\ slots'[a] = new /\ \A b \in Addresses \ {a} : slots'[b] = slots[b]
         /\ Demanded' = IF new = None THEN Demanded \ {a} ELSE Demanded \cup {a}
         /\ CanonicalChunks' = (CanonicalChunks \ {Canonical(a)})
                                 \cup (IF new = None THEN {} ELSE {new.chunk} \ {None})
<1>1. slots \in [Addresses -> Slots \cup {None}]
  BY DEF LoadingInv, LoadingAccounting, TypeOK
<1>2. /\ slots' \in [Addresses -> Slots \cup {None}]
      /\ slots'[a] = new /\ \A b \in Addresses \ {a} : slots'[b] = slots[b]
  BY <1>1
<1>3. Demanded' = IF new = None THEN Demanded \ {a} ELSE Demanded \cup {a}
  BY <1>2 DEF Demanded
<1>4. /\ Canonical(a)' = IF new = None THEN None ELSE new.chunk
      /\ \A b \in Addresses \ {a} : Canonical(b)' = Canonical(b)
  BY <1>2 DEF Canonical
<1>5. CanonicalChunks' = (CanonicalChunks \ {Canonical(a)})
                           \cup (IF new = None THEN {} ELSE {new.chunk} \ {None})
  <2>1. CanonicalChunks' = {Canonical(b)' : b \in Addresses} \ {None}
    BY DEF CanonicalChunks
  <2>2. \A b \in Addresses \ {a} : Canonical(b) # None => Canonical(b) # Canonical(a)
    BY SlotFacts
  <2>3. ASSUME NEW x, x # None
        PROVE  x \in CanonicalChunks <=> \E b \in Addresses : x = Canonical(b)
    BY <2>3 DEF CanonicalChunks
  <2>4. ASSUME NEW x, x # None
        PROVE  x \in CanonicalChunks' <=> x = Canonical(a)' \/ \E b \in Addresses \ {a} : x = Canonical(b)
    BY <2>1, <2>4, <1>4
  <2>5. None \notin CanonicalChunks' /\ None \notin CanonicalChunks
    BY <2>1 DEF CanonicalChunks
  <2> QED
    BY <2>2, <2>3, <2>4, <2>5, <1>4
<1> QED
  BY <1>2, <1>3, <1>5

(* The owner's and the clients' steps leave the store's counts alone.      *)
LEMMA StoreSame ==
  ASSUME LoadingInv, UNCHANGED store, tickets \subseteq tickets'
  PROVE  PermitsExact' /\ LeasesExact' /\ ReadsTicketed'
<1>1. UNCHANGED <<reads, ioFree, cpuUsed>>
  BY DEF store
<1>2. OnDiskReads' = OnDiskReads /\ LeasedReads' = LeasedReads
  BY <1>1 DEF OnDiskReads, LeasedReads
<1> QED
  BY <1>1, <1>2 DEF LoadingInv, LoadingAccounting, PermitsExact, LeasesExact,
                    ReadsTicketed, Ticketed

(* The sums over canonical and held chunks are numbers.                    *)
LEMMA ChunkSets ==
  ASSUME LoadingInv
  PROVE  /\ IsFiniteSet(CanonicalChunks) /\ IsFiniteSet(CanonicalChunks \cup shots)
         /\ CanonicalChunks \cup shots \in SUBSET Chunks
         /\ \A c \in CanonicalChunks \cup shots : ChunkBytes[c] \in Nat /\ ChunkRows[c] \in Nat
<1> USE DEF LoadingInv, LoadingAccounting
<1>1. /\ IsFiniteSet(CanonicalChunks) /\ IsFiniteSet(CanonicalChunks \cup shots)
      /\ CanonicalChunks \cup shots \in SUBSET Chunks
  BY CanonicalFacts, FS_Union DEF ResidentExact, TypeOK
<1> QED
  BY <1>1, Weights

(* A new demand gets a generation no key had before.                       *)
LEMMA requestInv ==
  ASSUME LoadingInv, NEW a \in Addresses, request(a)
  PROVE  LoadingInv'
<1> USE DEF LoadingInv, LoadingAccounting
<1> DEFINE key == [epoch |-> epoch, address |-> a, generation |-> nextGeneration + 1]
           new == [key |-> key, chunk |-> None]
<1>1. /\ slots[a] = None /\ nextGeneration < MaxGeneration
      /\ slots' = [slots EXCEPT ![a] = new] /\ nextGeneration' = nextGeneration + 1
      /\ tickets' = tickets \cup {key}
      /\ UNCHANGED <<epoch, context, metadata, revision, used, store, clients>>
  BY DEF request
<1>2. UNCHANGED <<reads, ioFree, cpuUsed, pinned, shots, prepared>>
  BY <1>1 DEF store, clients
<1>3. key \in Keys /\ nextGeneration' \in 0..MaxGeneration /\ nextGeneration \in Nat
  BY <1>1, LoadingAssumption DEF TypeOK, Keys
<1>4. new \in Slots /\ new # None
  BY <1>3, NoneAssumption DEF Slots
<1>5. /\ slots' \in [Addresses -> Slots \cup {None}]
      /\ slots'[a] = new /\ \A b \in Addresses \ {a} : slots'[b] = slots[b]
      /\ Demanded' = Demanded \cup {a}
      /\ CanonicalChunks' = CanonicalChunks
  <2>1. Canonical(a) = None /\ None \notin CanonicalChunks
    BY <1>1 DEF Canonical, CanonicalChunks
  <2>2. new.chunk = None /\ slots' = [slots EXCEPT ![a] = new]
    BY <1>1
  <2> HIDE DEF new, LoadingInv, LoadingAccounting
  <2>3. /\ slots' \in [Addresses -> Slots \cup {None}]
        /\ slots'[a] = new /\ \A b \in Addresses \ {a} : slots'[b] = slots[b]
        /\ Demanded' = IF new = None THEN Demanded \ {a} ELSE Demanded \cup {a}
        /\ CanonicalChunks' = (CanonicalChunks \ {Canonical(a)})
                                 \cup (IF new = None THEN {} ELSE {new.chunk} \ {None})
    BY <1>4, <2>2, SlotStep
  <2> QED
    BY <1>4, <2>1, <2>2, <2>3
<1>6. TypeOK'
  BY <1>1, <1>2, <1>3, <1>5 DEF TypeOK
<1>7. MetadataExact' /\ ResidentExact'
  BY <1>1, <1>2, <1>5 DEF MetadataExact, ResidentExact
<1>8. PermitsExact' /\ LeasesExact' /\ ReadsTicketed'
  BY <1>1, StoreSame
<1>9. \A k \in Keys : Issued(k) => Issued(k)' /\ k # key
  BY <1>1, <1>3 DEF Issued, Keys
<1>10. KeysIssued'
  BY <1>1, <1>2, <1>3, <1>9 DEF KeysIssued, Issued, Keys
<1>11. \A b \in Demanded : b # a /\ slots[b].key \in Keys /\ slots[b].key.generation <= nextGeneration
  BY <1>1 DEF Demanded, ResidentMatchesDemand, TypeOK, Slots
<1>12. ResidentMatchesDemand'
  <2> SUFFICES ASSUME NEW b \in Demanded'
               PROVE  /\ slots'[b].key.address = b /\ slots'[b].key.epoch = epoch'
                      /\ slots'[b].key.generation <= nextGeneration'
                      /\ slots'[b].chunk # None =>
                           slots'[b].chunk.key = slots'[b].key /\ slots'[b].chunk.context = context'
                      /\ \A d \in Demanded' \ {b} :
                           slots'[b].key.generation # slots'[d].key.generation
    BY DEF ResidentMatchesDemand
  <2>0. Demanded \subseteq Addresses
    BY DEF Demanded
  <2>1. \A d \in Demanded : slots[d].key.generation \in Nat
    BY <1>11 DEF Keys
  <2>2. CASE b = a
    BY <1>1, <1>3, <1>5, <1>11, <2>0, <2>1, <2>2
  <2>3. CASE b \in Demanded
    <3>1. b # a /\ slots'[b] = slots[b]
      BY <1>5, <1>11, <2>0, <2>3
    <3>2. \A d \in Demanded' \ {b} : slots[b].key.generation # slots'[d].key.generation
      BY <1>3, <1>5, <1>11, <2>0, <2>1, <2>3 DEF ResidentMatchesDemand
    <3> QED
      BY <1>1, <1>3, <2>1, <2>3, <3>1, <3>2 DEF ResidentMatchesDemand
  <2> QED
    BY <1>5, <2>2, <2>3
<1>13. KeyNamesChunk'
  <2>1. /\ \A c \in shots : c.key \in Keys /\ c.key # key
        /\ prepared # None => prepared.key # key
    BY <1>9 DEF KeysIssued, Issued
  <2>2. \A b \in Demanded : slots'[b] = slots[b]
    BY <1>5, <1>11 DEF Demanded
  <2> QED
    BY <1>2, <1>5, <2>1, <2>2 DEF KeyNamesChunk
<1> QED
  BY <1>6, <1>7, <1>8, <1>10, <1>12, <1>13

(* A resident leaves with its row map, and with its bytes unless somebody  *)
(* still holds it.                                                         *)
LEMMA remove_demandInv ==
  ASSUME LoadingInv, NEW a \in Addresses, remove_demand(a)
  PROVE  LoadingInv'
<1> USE DEF LoadingInv, LoadingAccounting
<1> DEFINE gone == {Canonical(a)} \ {None}
<1>1. /\ slots' = [slots EXCEPT ![a] = None]
      /\ metadata' = metadata - SumOf(ChunkRows, gone)
      /\ used' = used - SumOf(ChunkBytes, gone \ shots)
      /\ UNCHANGED <<epoch, nextGeneration, context, tickets, store, clients>>
  BY DEF remove_demand, FreedBytes
<1>2. /\ UNCHANGED <<reads, ioFree, cpuUsed, pinned, shots, prepared>>
      /\ revision' \in Revisions
  BY <1>1 DEF store, clients, remove_demand, RenewRevision
<1>3. /\ slots' \in [Addresses -> Slots \cup {None}]
      /\ slots'[a] = None /\ \A b \in Addresses \ {a} : slots'[b] = slots[b]
      /\ Demanded' = Demanded \ {a}
      /\ CanonicalChunks' = CanonicalChunks \ gone
  <2>1. CanonicalChunks \ {Canonical(a)} = CanonicalChunks \ gone
    BY DEF CanonicalChunks
  <2> HIDE DEF gone
  <2> QED
    BY <1>1, <2>1, SlotStep
<1>4. gone \in SUBSET CanonicalChunks
  BY DEF CanonicalChunks
<1>5. MetadataExact' /\ metadata' \in SlotsCharge..MetadataLimit
  <2> HIDE DEF gone
  <2>1. /\ SumOf(ChunkRows, CanonicalChunks \ gone) = SumOf(ChunkRows, CanonicalChunks) - SumOf(ChunkRows, gone)
        /\ SumOf(ChunkRows, CanonicalChunks \ gone) \in Nat
        /\ SumOf(ChunkRows, CanonicalChunks \ gone) <= SumOf(ChunkRows, CanonicalChunks)
    BY <1>4, ChunkSets, SumWithout DEF SumOf
  <2>2. SumOf(ChunkRows, CanonicalChunks) \in Nat /\ SumOf(ChunkRows, gone) \in Nat
    BY <1>4, ChunkSets, SumNat, FS_Subset DEF SumOf
  <2>3. SlotsCharge \in Nat /\ MetadataLimit \in Nat
    BY LoadingAssumption
  <2>4. metadata = SlotsCharge + SumOf(ChunkRows, CanonicalChunks) /\ metadata <= MetadataLimit
    BY DEF MetadataExact, TypeOK
  <2> HIDE DEF LoadingInv, LoadingAccounting
  <2> QED
    BY <1>1, <1>3, <2>1, <2>2, <2>3, <2>4 DEF MetadataExact
<1>6. ResidentExact' /\ used' \in 0..ResidentLimit
  <2> DEFINE all == CanonicalChunks \cup shots
             out == gone \ shots
  <2>1. CanonicalChunks' \cup shots' = all \ out
    BY <1>2, <1>3
  <2>2. /\ SumOf(ChunkBytes, all \ out) = SumOf(ChunkBytes, all) - SumOf(ChunkBytes, out)
        /\ SumOf(ChunkBytes, all \ out) \in Nat
        /\ SumOf(ChunkBytes, all \ out) <= SumOf(ChunkBytes, all)
    <3>1. out \in SUBSET all
      BY <1>4
    <3> HIDE DEF out, all
    <3> QED
      BY <3>1, ChunkSets, SumWithout DEF SumOf, all
  <2>3. SumOf(ChunkBytes, all) = used /\ used \in 0..ResidentLimit /\ ResidentLimit \in Nat
    BY LoadingAssumption DEF ResidentExact, TypeOK
  <2>4. IsFiniteSet(shots') /\ used' = used - SumOf(ChunkBytes, out)
    BY <1>1, <1>2 DEF ResidentExact
  <2> HIDE DEF LoadingInv, LoadingAccounting, out, all
  <2> QED
    BY <2>1, <2>2, <2>3, <2>4 DEF ResidentExact
<1>7. TypeOK'
  BY <1>1, <1>2, <1>3, <1>5, <1>6 DEF TypeOK
<1>8. PermitsExact' /\ LeasesExact' /\ ReadsTicketed'
  BY <1>1, StoreSame
<1>9. Demanded' \subseteq Demanded /\ \A b \in Demanded' : slots'[b] = slots[b]
  BY <1>3 DEF Demanded
<1>10. KeysIssued' /\ ResidentMatchesDemand' /\ KeyNamesChunk'
  BY <1>1, <1>2, <1>9 DEF KeysIssued, Issued, ResidentMatchesDemand, KeyNamesChunk
<1> QED
  BY <1>5, <1>6, <1>7, <1>8, <1>10

(* A reload forgets every demand; what clients hold stays charged.         *)
LEMMA reloadInv ==
  ASSUME LoadingInv, NEW c \in Contexts, reload(c)
  PROVE  LoadingInv'
<1> USE DEF LoadingInv, LoadingAccounting
<1>1. /\ epoch < MaxEpoch /\ epoch' = epoch + 1 /\ context' = c
      /\ slots' = [a \in Addresses |-> None] /\ metadata' = SlotsCharge
      /\ used' = used - SumOf(ChunkBytes, CanonicalChunks \ shots)
      /\ UNCHANGED <<nextGeneration, tickets, store, clients>>
  BY DEF reload, FreedBytes
<1>2. /\ UNCHANGED <<reads, ioFree, cpuUsed, pinned, shots, prepared>>
      /\ revision' \in Revisions
  BY <1>1 DEF store, clients, reload, RenewRevision
<1>3. Demanded' = {} /\ CanonicalChunks' = {}
  BY <1>1 DEF Demanded, CanonicalChunks, Canonical
<1>4. MetadataExact'
  BY <1>1, <1>3, SumEmpty, LoadingAssumption DEF MetadataExact, SumOf
<1>5. ResidentExact' /\ used' \in 0..ResidentLimit
  <2> DEFINE all == CanonicalChunks \cup shots
             out == CanonicalChunks \ shots
  <2>1. CanonicalChunks' \cup shots' = all \ out
    BY <1>2, <1>3
  <2>2. /\ SumOf(ChunkBytes, all \ out) = SumOf(ChunkBytes, all) - SumOf(ChunkBytes, out)
        /\ SumOf(ChunkBytes, all \ out) \in Nat
        /\ SumOf(ChunkBytes, all \ out) <= SumOf(ChunkBytes, all)
    <3>1. out \in SUBSET all
      OBVIOUS
    <3> HIDE DEF out, all
    <3> QED
      BY <3>1, ChunkSets, SumWithout DEF SumOf, all
  <2>3. SumOf(ChunkBytes, all) = used /\ used \in 0..ResidentLimit /\ ResidentLimit \in Nat
    BY LoadingAssumption DEF ResidentExact, TypeOK
  <2>4. IsFiniteSet(shots') /\ used' = used - SumOf(ChunkBytes, out)
    BY <1>1, <1>2 DEF ResidentExact
  <2> HIDE DEF LoadingInv, LoadingAccounting, out, all
  <2> QED
    BY <2>1, <2>2, <2>3, <2>4 DEF ResidentExact
<1>6. TypeOK'
  BY <1>1, <1>2, <1>5, LoadingAssumption DEF TypeOK
<1>7. PermitsExact' /\ LeasesExact' /\ ReadsTicketed'
  BY <1>1, StoreSame
<1>8. KeysIssued' /\ ResidentMatchesDemand' /\ KeyNamesChunk'
  BY <1>1, <1>2, <1>3 DEF KeysIssued, Issued, ResidentMatchesDemand, KeyNamesChunk
<1> QED
  BY <1>4, <1>5, <1>6, <1>7, <1>8

(* The read a caller hands in is for a demand that still waits: its slot   *)
(* bears the read's own key and has no chunk.                              *)
LEMMA PendingFacts ==
  ASSUME LoadingInv, NEW key \in Keys, check_pending(key)
  PROVE  /\ key.address \in Addresses /\ key.address \in Demanded
         /\ slots[key.address] \in Slots /\ slots[key.address].key = key
         /\ slots[key.address].chunk = None /\ Canonical(key.address) = None
<1>1. key.address \in Addresses
  BY DEF Keys
<1> QED
  BY <1>1, SlotFacts DEF check_pending, Demanded, Canonical

(* Ending read r returns its lease if it has one.                          *)
LEMMA EndRead ==
  ASSUME LoadingInv, tickets' = tickets, NEW r \in Reads,
         reads[r].stage \notin OnDisk,
         reads' = [reads EXCEPT ![r] = NoRead], ioFree' = ioFree,
         cpuUsed' = IF reads[r].stage \in Leased THEN cpuUsed - 1 ELSE cpuUsed
  PROVE  /\ reads' \in [Reads -> ReadRecords]
         /\ PermitsExact' /\ LeasesExact' /\ ReadsTicketed'
         /\ ioFree' \in 0..Permits /\ cpuUsed' \in 0..CpuSlots
<1>1. NoRead \in ReadRecords /\ NoRead.stage = "free" /\ Ticketed(NoRead)
  BY ReadFacts DEF Ticketed
<1>2. /\ reads' \in [Reads -> ReadRecords] /\ reads'[r] = NoRead
      /\ \A q \in Reads \ {r} : reads'[q] = reads[q]
  BY <1>1 DEF LoadingInv, LoadingAccounting, TypeOK
<1> QED
  BY <1>1, <1>2, ReadFacts, ReadsStep

(* A published chunk is charged once: nobody held it before.               *)
LEMMA publishInv ==
  ASSUME LoadingInv, NEW r \in Reads, publish(r)
  PROVE  LoadingInv'
<1> USE DEF LoadingInv, LoadingAccounting
<1> DEFINE key == reads[r].key
           a == key.address
           chunk == [key |-> key, context |-> reads[r].context,
                     rows |-> reads[r].draft.rows, bytes |-> reads[r].draft.bytes]
           new == [slots[a] EXCEPT !.chunk = chunk]
<1>1. /\ reads[r].stage = "decoded" /\ check_pending(key) /\ chunk.context = context
      /\ chunk.rows <= MetadataLimit - metadata /\ chunk.bytes <= ResidentLimit - used
      /\ used' = used + chunk.bytes /\ metadata' = metadata + chunk.rows
      /\ slots' = [slots EXCEPT ![a] = new]
      /\ reads' = [reads EXCEPT ![r] = NoRead] /\ cpuUsed' = cpuUsed - 1
      /\ UNCHANGED <<epoch, nextGeneration, context, tickets, ioFree, clients>>
  BY DEF publish
<1>2. /\ UNCHANGED <<pinned, shots, prepared>>
      /\ revision' \in Revisions
  BY <1>1 DEF clients, publish, RenewRevision
<1>3. chunk \in Chunks /\ chunk # None /\ key \in Keys
  BY <1>1, ReadFacts, NoneAssumption DEF Ticketed, Chunks
<1>4. /\ a \in Addresses /\ a \in Demanded /\ slots[a] \in Slots /\ slots[a].key = key
      /\ slots[a].chunk = None /\ Canonical(a) = None
  BY <1>1, <1>3, PendingFacts
<1>5. new \in Slots /\ new # None /\ new.chunk = chunk /\ new.key = key
  BY <1>3, <1>4, NoneAssumption DEF Slots
<1>6. /\ chunk.key = key /\ chunk.rows \in Nat /\ chunk.bytes \in Nat
      /\ ChunkRows[chunk] = chunk.rows /\ ChunkBytes[chunk] = chunk.bytes
  BY <1>3, Weights
<1> HIDE DEF new, chunk
<1>7. /\ slots' \in [Addresses -> Slots \cup {None}]
      /\ slots'[a] = new /\ \A b \in Addresses \ {a} : slots'[b] = slots[b]
      /\ Demanded' = Demanded
      /\ CanonicalChunks' = CanonicalChunks \cup {chunk}
  <2>1. /\ slots' \in [Addresses -> Slots \cup {None}]
        /\ slots'[a] = new /\ \A b \in Addresses \ {a} : slots'[b] = slots[b]
        /\ Demanded' = IF new = None THEN Demanded \ {a} ELSE Demanded \cup {a}
        /\ CanonicalChunks' = (CanonicalChunks \ {Canonical(a)})
                                 \cup (IF new = None THEN {} ELSE {new.chunk} \ {None})
    BY <1>1, <1>4, <1>5, SlotStep
  <2>2. None \notin CanonicalChunks
    BY DEF CanonicalChunks
  <2> QED
    BY <1>3, <1>4, <1>5, <2>1, <2>2
<1>8. chunk \notin CanonicalChunks \cup shots
  <2>1. ASSUME chunk \in CanonicalChunks PROVE FALSE
    <3>1. PICK b \in Addresses : chunk = Canonical(b)
      BY <2>1 DEF CanonicalChunks
    <3>2. b = a
      BY <1>3, <1>6, <3>1, SlotFacts
    <3> QED
      BY <1>3, <1>4, <3>1, <3>2
  <2>2. chunk \notin shots
    BY <1>3, <1>4, <1>6 DEF KeyNamesChunk
  <2> QED
    BY <2>1, <2>2
<1>9. MetadataExact' /\ metadata' \in SlotsCharge..MetadataLimit
  <2>1. SumOf(ChunkRows, CanonicalChunks') = chunk.rows + SumOf(ChunkRows, CanonicalChunks)
    <3>1. \A c \in CanonicalChunks \cup {chunk} : ChunkRows[c] \in Nat
      BY <1>6, ChunkSets
    <3> QED
      BY <1>6, <1>7, <1>8, <3>1, ChunkSets, SumAdd DEF SumOf
  <2>2. SumOf(ChunkRows, CanonicalChunks) \in Nat
    BY ChunkSets, SumNat DEF SumOf
  <2>3. /\ metadata = SlotsCharge + SumOf(ChunkRows, CanonicalChunks)
        /\ metadata \in SlotsCharge..MetadataLimit
    BY DEF MetadataExact, TypeOK
  <2> HIDE DEF LoadingInv, LoadingAccounting
  <2> QED
    BY <1>1, <1>6, <2>1, <2>2, <2>3, LoadingAssumption DEF MetadataExact
<1>10. ResidentExact' /\ used' \in 0..ResidentLimit
  <2>1. CanonicalChunks' \cup shots' = (CanonicalChunks \cup shots) \cup {chunk}
    BY <1>2, <1>7
  <2>2. SumOf(ChunkBytes, CanonicalChunks' \cup shots') =
          chunk.bytes + SumOf(ChunkBytes, CanonicalChunks \cup shots)
    <3> DEFINE all == CanonicalChunks \cup shots
    <3>1. /\ \A c \in all \cup {chunk} : ChunkBytes[c] \in Nat
          /\ IsFiniteSet(all) /\ chunk \notin all
      BY <1>6, <1>8, ChunkSets
    <3> HIDE DEF all
    <3>2. SumOf(ChunkBytes, all \cup {chunk}) = chunk.bytes + SumOf(ChunkBytes, all)
      BY <1>6, <3>1, SumAdd DEF SumOf
    <3> QED
      BY <2>1, <3>2 DEF all
  <2>3. /\ SumOf(ChunkBytes, CanonicalChunks \cup shots) = used
        /\ used \in 0..ResidentLimit /\ ResidentLimit \in Nat
    BY LoadingAssumption DEF ResidentExact, TypeOK
  <2>4. IsFiniteSet(shots')
    BY <1>2 DEF ResidentExact
  <2> HIDE DEF LoadingInv, LoadingAccounting
  <2> QED
    BY <1>1, <1>6, <2>2, <2>3, <2>4 DEF ResidentExact
<1>11. /\ reads' \in [Reads -> ReadRecords]
       /\ PermitsExact' /\ LeasesExact' /\ ReadsTicketed'
       /\ ioFree' \in 0..Permits /\ cpuUsed' \in 0..CpuSlots
  <2>1. reads[r].stage \notin OnDisk /\ reads[r].stage \in Leased
    BY <1>1
  <2> HIDE DEF LoadingInv, LoadingAccounting
  <2> QED
    BY <1>1, <2>1, EndRead
<1>12. TypeOK'
  BY <1>1, <1>2, <1>7, <1>9, <1>10, <1>11 DEF TypeOK
<1>13. \A b \in Demanded : slots'[b].key = slots[b].key /\ (b # a => slots'[b] = slots[b])
  BY <1>4, <1>5, <1>7 DEF Demanded
<1>14. ResidentMatchesDemand'
  BY <1>1, <1>5, <1>6, <1>7, <1>13 DEF ResidentMatchesDemand
<1>15. KeysIssued'
  BY <1>1, <1>2 DEF KeysIssued, Issued
<1>16. KeyNamesChunk'
  <2>1. \A c \in shots : c # None
    BY NoneAssumption DEF TypeOK
  <2>2. \A c \in shots : c.key # slots[a].key
    BY <1>4, <2>1 DEF KeyNamesChunk
  <2>3. prepared # None /\ prepared.ours => prepared.key # slots[a].key
    BY <1>4 DEF KeyNamesChunk
  <2> QED
    BY <1>2, <1>7, <1>13, <2>2, <2>3 DEF KeyNamesChunk
<1> QED
  BY <1>9, <1>10, <1>11, <1>12, <1>14, <1>15, <1>16

(* A read without a chunk ends its demand, if that still waits for it.     *)
LEMMA finish_without_chunkInv ==
  ASSUME LoadingInv, NEW r \in Reads, finish_without_chunk(r)
  PROVE  LoadingInv'
<1> USE DEF LoadingInv, LoadingAccounting
<1> DEFINE key == reads[r].key
<1>1. /\ reads[r].stage = "absent"
      /\ slots' = IF check_pending(key) THEN [slots EXCEPT ![key.address] = None] ELSE slots
      /\ reads' = [reads EXCEPT ![r] = NoRead]
      /\ UNCHANGED <<epoch, nextGeneration, context, metadata, revision, used,
                     tickets, ioFree, cpuUsed, clients>>
  BY DEF finish_without_chunk
<1>2. UNCHANGED <<pinned, shots, prepared>>
  BY <1>1 DEF clients
<1>3. key \in Keys
  BY <1>1, ReadFacts DEF Ticketed
<1>4. /\ slots' \in [Addresses -> Slots \cup {None}]
      /\ CanonicalChunks' = CanonicalChunks
      /\ Demanded' \subseteq Demanded
      /\ \A b \in Demanded' : slots'[b] = slots[b]
  <2>1. CASE check_pending(key)
    <3>1. key.address \in Addresses /\ Canonical(key.address) = None
      BY <1>3, <2>1, PendingFacts
    <3>2. slots' = [slots EXCEPT ![key.address] = None]
      BY <1>1, <2>1
    <3>3. None \notin CanonicalChunks
      BY DEF CanonicalChunks
    <3> HIDE DEF LoadingInv, LoadingAccounting, key
    <3>4. /\ slots' \in [Addresses -> Slots \cup {None}]
          /\ \A b \in Addresses \ {key.address} : slots'[b] = slots[b]
          /\ Demanded' = Demanded \ {key.address}
          /\ CanonicalChunks' = (CanonicalChunks \ {Canonical(key.address)}) \cup {}
      BY <3>1, <3>2, SlotStep
    <3> QED
      BY <3>1, <3>3, <3>4 DEF Demanded
  <2>2. CASE ~check_pending(key)
    BY <1>1, <2>2 DEF TypeOK, CanonicalChunks, Canonical, Demanded
  <2> QED
    BY <2>1, <2>2
<1>5. /\ reads' \in [Reads -> ReadRecords]
      /\ PermitsExact' /\ LeasesExact' /\ ReadsTicketed'
      /\ ioFree' \in 0..Permits /\ cpuUsed' \in 0..CpuSlots
  <2>1. reads[r].stage \notin OnDisk /\ reads[r].stage \notin Leased
    BY <1>1
  <2> HIDE DEF LoadingInv, LoadingAccounting
  <2> QED
    BY <1>1, <2>1, EndRead
<1>6. TypeOK'
  BY <1>1, <1>2, <1>4, <1>5 DEF TypeOK
<1>7. MetadataExact' /\ ResidentExact'
  BY <1>1, <1>2, <1>4 DEF MetadataExact, ResidentExact
<1>8. KeysIssued' /\ ResidentMatchesDemand' /\ KeyNamesChunk'
  BY <1>1, <1>2, <1>4 DEF KeysIssued, Issued, ResidentMatchesDemand, KeyNamesChunk
<1> QED
  BY <1>5, <1>6, <1>7, <1>8

(* When the holders of C stay and those of S become those of T, exactly    *)
(* what nobody holds any more is freed.                                    *)
LEMMA FreedExactly ==
  ASSUME NEW C, NEW S, NEW T \in SUBSET (C \cup S),
         C \cup S \in SUBSET Chunks, IsFiniteSet(C \cup S)
  PROVE  /\ SumOf(ChunkBytes, C \cup T) = SumOf(ChunkBytes, C \cup S) - FreedBytes(S \ T, C)
         /\ SumOf(ChunkBytes, C \cup T) \in Nat
         /\ SumOf(ChunkBytes, C \cup T) <= SumOf(ChunkBytes, C \cup S)
<1> DEFINE all == C \cup S
           out == (S \ T) \ C
<1>1. C \cup T = all \ out /\ out \in SUBSET all
  OBVIOUS
<1>2. IsFiniteSet(all) /\ \A c \in all : ChunkBytes[c] \in Nat
  BY Weights
<1>3. FreedBytes(S \ T, C) = SumOf(ChunkBytes, out)
  BY DEF FreedBytes
<1> HIDE DEF all, out
<1>4. /\ SumOf(ChunkBytes, all \ out) = SumOf(ChunkBytes, all) - SumOf(ChunkBytes, out)
      /\ SumOf(ChunkBytes, all \ out) \in Nat
      /\ SumOf(ChunkBytes, all \ out) <= SumOf(ChunkBytes, all)
  BY <1>1, <1>2, SumWithout DEF SumOf
<1> QED
  BY <1>1, <1>3, <1>4 DEF all

(* Clients hold other residents than before, each one held or canonical    *)
(* until now: what loses its last holder by it is uncharged.               *)
LEMMA HoldersStep ==
  ASSUME LoadingInv, shots' \in SUBSET (CanonicalChunks \cup shots),
         used' = used - FreedBytes(shots \ shots', CanonicalChunks),
         pinned' \in SUBSET Revisions,
         UNCHANGED <<epoch, nextGeneration, context, slots, metadata, revision,
                     tickets, store, prepared>>
  PROVE  LoadingInv'
<1> USE DEF LoadingInv, LoadingAccounting
<1>1. UNCHANGED <<reads, ioFree, cpuUsed>>
  BY DEF store
<1>2. CanonicalChunks' = CanonicalChunks /\ Demanded' = Demanded
  BY DEF CanonicalChunks, Canonical, Demanded
<1>3. shots' \in SUBSET Chunks /\ IsFiniteSet(shots')
  BY ChunkSets, FS_Subset
<1>4. ResidentExact' /\ used' \in 0..ResidentLimit
  <2>1. /\ SumOf(ChunkBytes, CanonicalChunks \cup shots')
             = SumOf(ChunkBytes, CanonicalChunks \cup shots) - FreedBytes(shots \ shots', CanonicalChunks)
        /\ SumOf(ChunkBytes, CanonicalChunks \cup shots') \in Nat
        /\ SumOf(ChunkBytes, CanonicalChunks \cup shots') <= SumOf(ChunkBytes, CanonicalChunks \cup shots)
    <3> HIDE DEF LoadingInv, LoadingAccounting
    <3> QED
      BY ChunkSets, FreedExactly
  <2>2. /\ SumOf(ChunkBytes, CanonicalChunks \cup shots) = used
        /\ used \in 0..ResidentLimit /\ ResidentLimit \in Nat
    BY LoadingAssumption DEF ResidentExact, TypeOK
  <2> HIDE DEF LoadingInv, LoadingAccounting
  <2> QED
    BY <1>2, <1>3, <2>1, <2>2 DEF ResidentExact
<1>5. TypeOK'
  BY <1>1, <1>3, <1>4 DEF TypeOK
<1>6. MetadataExact'
  BY <1>2 DEF MetadataExact
<1>7. PermitsExact' /\ LeasesExact' /\ ReadsTicketed'
  BY StoreSame
<1>8. \A c \in shots' \ shots : \E a \in Addresses : c = Canonical(a) /\ c # None
  BY DEF CanonicalChunks
<1>9. KeysIssued'
  <2>1. \A c \in shots' : Issued(c.key)
    BY <1>8, SlotFacts DEF KeysIssued
  <2> QED
    BY <2>1 DEF KeysIssued, Issued
<1>10. KeyNamesChunk'
  <2>1. ASSUME NEW a \in Demanded, NEW c \in shots', c.key = slots[a].key
        PROVE  c = slots[a].chunk
    <3>1. CASE c \in shots
      BY <2>1, <3>1 DEF KeyNamesChunk
    <3>2. CASE c \notin shots
      <4>1. PICK b \in Addresses : c = Canonical(b) /\ c # None
        BY <1>8, <3>2
      <4>2. a \in Addresses /\ slots[a] # None
        BY DEF Demanded
      <4>3. a = b
        BY <2>1, <4>1, <4>2, SlotFacts
      <4> QED
        BY <4>1, <4>2, <4>3, SlotFacts
    <3> QED
      BY <3>1, <3>2
  <2> QED
    BY <1>2, <2>1 DEF KeyNamesChunk
<1>11. ResidentMatchesDemand'
  BY <1>2 DEF ResidentMatchesDemand
<1> QED
  BY <1>4, <1>5, <1>6, <1>7, <1>9, <1>10, <1>11

(* A snapshot is one more holder of a canonical resident.                  *)
LEMMA snapshot_dataInv ==
  ASSUME LoadingInv, NEW a \in Addresses, snapshot_data(a)
  PROVE  LoadingInv'
<1>1. /\ Canonical(a) # None /\ shots' = shots \cup {Canonical(a)}
      /\ UNCHANGED <<epoch, nextGeneration, context, slots, metadata, revision, used,
                     tickets, store, pinned, prepared>>
  BY DEF snapshot_data, owner
<1>2. Canonical(a) \in CanonicalChunks
  BY <1>1, SlotFacts
<1>3. (shots \ shots') \ CanonicalChunks = {}
  BY <1>1
<1>4. used \in Nat /\ pinned \in SUBSET Revisions
  BY LoadingAssumption DEF LoadingInv, LoadingAccounting, TypeOK
<1>5. used' = used - FreedBytes(shots \ shots', CanonicalChunks)
  BY <1>1, <1>3, <1>4, SumEmpty DEF FreedBytes, SumOf
<1> QED
  BY <1>1, <1>2, <1>4, <1>5, HoldersStep

(* Dropping it uncharges a resident the owner has let go of.               *)
LEMMA DropSnapshotInv ==
  ASSUME LoadingInv, NEW c \in shots, DropSnapshot(c)
  PROVE  LoadingInv'
<1>1. /\ shots' = shots \ {c} /\ used' = used - FreedBytes({c}, CanonicalChunks)
      /\ UNCHANGED <<epoch, nextGeneration, context, slots, metadata, revision,
                     tickets, store, pinned, prepared>>
  BY DEF DropSnapshot
<1>2. shots \ shots' = {c}
  BY <1>1
<1>3. pinned \in SUBSET Revisions
  BY DEF LoadingInv, LoadingAccounting, TypeOK
<1>4. used' = used - FreedBytes(shots \ shots', CanonicalChunks)
  BY <1>1, <1>2
<1> QED
  BY <1>1, <1>3, <1>4, HoldersStep

(* Steps that only change the section prepared by a client.                *)
LEMMA PreparedStep ==
  ASSUME LoadingInv, UNCHANGED <<owner, store, pinned, shots>>,
         prepared' \in Sections \cup {None},
         prepared' # None => Issued(prepared'.key),
         prepared' # None /\ prepared'.ours =>
           \E a \in Addresses : /\ prepared'.from = Canonical(a) /\ Canonical(a) # None
                                /\ prepared'.key = Canonical(a).key
  PROVE  LoadingInv'
<1> USE DEF LoadingInv, LoadingAccounting
<1>1. UNCHANGED <<epoch, nextGeneration, context, slots, metadata, revision, used, tickets,
                  reads, ioFree, cpuUsed, pinned, shots>>
  BY DEF owner, store
<1>2. CanonicalChunks' = CanonicalChunks /\ Demanded' = Demanded
  BY <1>1 DEF CanonicalChunks, Canonical, Demanded
<1>3. TypeOK'
  BY <1>1 DEF TypeOK
<1>4. MetadataExact' /\ ResidentExact'
  BY <1>1, <1>2 DEF MetadataExact, ResidentExact
<1>5. PermitsExact' /\ LeasesExact' /\ ReadsTicketed'
  BY <1>1, StoreSame
<1>6. KeysIssued'
  BY <1>1 DEF KeysIssued, Issued
<1>7. ResidentMatchesDemand'
  BY <1>1, <1>2 DEF ResidentMatchesDemand
<1>8. KeyNamesChunk'
  <2>1. ASSUME prepared' # None, prepared'.ours
        PROVE  /\ prepared'.from # None /\ prepared'.from.key = prepared'.key
               /\ \A b \in Demanded : prepared'.key = slots[b].key => prepared'.from = slots[b].chunk
    <3>1. PICK a \in Addresses : /\ prepared'.from = Canonical(a) /\ Canonical(a) # None
                                 /\ prepared'.key = Canonical(a).key
      BY <2>1
    <3>2. ASSUME NEW b \in Demanded, prepared'.key = slots[b].key
          PROVE  prepared'.from = slots[b].chunk
      <4>1. b \in Addresses /\ slots[b] # None
        BY DEF Demanded
      <4>2. Canonical(a).key.address = a /\ slots[b].key.address = b
        BY <3>1, <4>1, SlotFacts
      <4>3. a = b
        BY <3>1, <3>2, <4>2
      <4> QED
        BY <3>1, <4>3, SlotFacts
    <3> QED
      BY <3>1, <3>2
  <2> QED
    BY <1>1, <1>2, <2>1 DEF KeyNamesChunk
<1> QED
  BY <1>3, <1>4, <1>5, <1>6, <1>7, <1>8

(* Sections prepared by this owner's clients, by another's, and dropped.   *)
LEMMA PreparedInv ==
  ASSUME LoadingInv,
         \/ \E a \in Addresses : prepare_section(a)
         \/ \E key \in tickets : ForeignPrepared(key)
         \/ DropPrepared
  PROVE  LoadingInv'
<1>1. ASSUME NEW a \in Addresses, prepare_section(a) PROVE LoadingInv'
  <2>1. /\ Canonical(a) # None
        /\ prepared' = [key |-> Canonical(a).key, ours |-> TRUE, from |-> Canonical(a)]
        /\ UNCHANGED <<owner, store, pinned, shots>>
    BY <1>1 DEF prepare_section
  <2>2. Canonical(a) \in Chunks /\ Issued(Canonical(a).key)
    BY <2>1, SlotFacts
  <2>3. prepared' \in Sections
    BY <2>1, <2>2, Weights DEF Sections
  <2> QED
    BY <2>1, <2>2, <2>3, PreparedStep
<1>2. ASSUME NEW key \in tickets, ForeignPrepared(key) PROVE LoadingInv'
  <2>1. /\ prepared' = [key |-> key, ours |-> FALSE, from |-> None]
        /\ UNCHANGED <<owner, store, pinned, shots>>
    BY <1>2 DEF ForeignPrepared
  <2>2. key \in Keys /\ Issued(key)
    BY DEF LoadingInv, LoadingAccounting, TypeOK, KeysIssued
  <2>3. prepared' \in Sections
    BY <2>1, <2>2 DEF Sections
  <2> QED
    BY <2>1, <2>2, <2>3, PreparedStep
<1>3. ASSUME DropPrepared PROVE LoadingInv'
  BY <1>3, PreparedStep DEF DropPrepared
<1> QED
  BY <1>1, <1>2, <1>3

-----------------------------------------------------------------------------
(* The owner that has been built owes nothing.                             *)
LEMMA LoadingStart == Init => LoadingInv
<1> SUFFICES ASSUME Init PROVE LoadingInv
  OBVIOUS
<1> USE DEF Init
<1>1. Demanded = {} /\ CanonicalChunks = {}
  BY DEF Demanded, CanonicalChunks, Canonical
<1>2. OnDiskReads = {} /\ LeasedReads = {}
  BY DEF OnDiskReads, LeasedReads, NoRead
<1>3. NoRead \in ReadRecords /\ NoRead.stage = "free"
  BY DEF NoRead, ReadRecords, Stages
<1>4. TypeOK
  BY <1>3, LoadingAssumption DEF TypeOK
<1>5. MetadataExact /\ ResidentExact
  <2>1. IsFiniteSet({})
    BY FS_EmptySet
  <2> QED
    BY <1>1, <2>1, SumEmpty, LoadingAssumption DEF MetadataExact, ResidentExact, SumOf
<1>6. PermitsExact /\ LeasesExact
  BY <1>2, FS_EmptySet, LoadingAssumption DEF PermitsExact, LeasesExact
<1>7. ResidentMatchesDemand /\ KeysIssued /\ ReadsTicketed /\ KeyNamesChunk
  BY <1>1, <1>3 DEF ResidentMatchesDemand, KeysIssued, ReadsTicketed, Ticketed, KeyNamesChunk
<1> QED
  BY <1>4, <1>5, <1>6, <1>7 DEF LoadingInv, LoadingAccounting

(* Steps of the owner, of the store's threads and of the callers.          *)
LEMMA OwnerStepInv == LoadingInv /\ OwnerStep => LoadingInv'
BY requestInv, remove_demandInv, reloadInv, publishInv, finish_without_chunkInv DEF OwnerStep

(* The store's threads keep the invariant.                                 *)
LEMMA ThreadStepInv ==
  ASSUME LoadingInv, NEW r \in Reads, ThreadStep(r)
  PROVE  LoadingInv'
BY LocateNothingInv, LocatePresentInv, FetchedInv, DecodedInv, DecodeEndsInv DEF ThreadStep

(* So do the callers of read and submit, who may drop a read at any time.  *)
LEMMA CallerStepInv ==
  ASSUME LoadingInv, NEW r \in Reads, CallerStep(r)
  PROVE  LoadingInv'
BY readInv, SubmitInv, AbandonInv, ForeignOutputInv DEF CallerStep

(* So do the holders of snapshots and of prepared sections.                *)
LEMMA ClientStepInv == LoadingInv /\ ClientStep => LoadingInv'
BY snapshot_dataInv, DropSnapshotInv, PreparedInv DEF ClientStep

(* Nor does a step of somebody else.                                       *)
LEMMA LoadingStutter == LoadingInv /\ UNCHANGED vars => LoadingInv'
<1> SUFFICES ASSUME LoadingInv, UNCHANGED vars PROVE LoadingInv'
  OBVIOUS
<1>1. UNCHANGED <<epoch, nextGeneration, context, slots, metadata, revision, used, tickets,
                  reads, ioFree, cpuUsed, pinned, shots, prepared>>
  BY DEF vars, owner, store, clients
<1> QED
  BY <1>1 DEF LoadingInv, LoadingAccounting, TypeOK, MetadataExact, ResidentExact,
              PermitsExact, LeasesExact, OnDiskReads, LeasedReads, CanonicalChunks,
              Canonical, Demanded, ResidentMatchesDemand, KeysIssued, Issued,
              ReadsTicketed, Ticketed, KeyNamesChunk

(* No step of the specification loses the invariant.                       *)
LEMMA LoadingKept == LoadingInv /\ [Next]_vars => LoadingInv'
BY LoadingStutter, OwnerStepInv, ThreadStepInv, CallerStepInv, ClientStepInv DEF Next

(* The loading owner, its store and its clients keep the invariant.        *)
THEOREM LoadingInvariant == Spec => []LoadingInv
BY LoadingStart, LoadingKept, PTL DEF Spec

(* Every budget of the loading path (the owner's row maps, the resident    *)
(* bytes, the store's disk permits, the pool's decode leases) equals what  *)
(* is alive, in every state, whatever reads are dropped, fail or come late.*)
THEOREM LoadingExact == Spec => []LoadingAccounting
<1>1. LoadingInv => LoadingAccounting
  BY DEF LoadingInv
<1> QED
  BY <1>1, LoadingInvariant, PTL

(* Section bytes pass accept_prepared only for the chunk they were made of.*)
LEMMA PreparedCurrent == LoadingInv => PreparedIsCurrent
<1> SUFFICES ASSUME LoadingInv, prepared # None, accept_prepared(prepared)
             PROVE  prepared.from = Canonical(prepared.key.address)
  BY DEF PreparedIsCurrent
<1> DEFINE a == prepared.key.address
<1>1. prepared.key \in Keys /\ a \in Addresses /\ prepared.ours
  BY DEF LoadingInv, KeysIssued, Issued, Keys, accept_prepared
<1>2. /\ Canonical(a) # None /\ prepared.key.epoch = Canonical(a).key.epoch
      /\ prepared.key.generation = Canonical(a).key.generation
  BY DEF accept_prepared
<1>3. /\ Canonical(a) = slots[a].chunk /\ slots[a] # None
      /\ Canonical(a).key = slots[a].key /\ slots[a].key.address = a
      /\ slots[a].key \in Keys
  BY <1>1, <1>2, SlotFacts DEF Issued
<1>4. prepared.key = slots[a].key
  BY <1>1, <1>2, <1>3 DEF Keys
<1> QED
  BY <1>1, <1>3, <1>4 DEF LoadingInv, KeyNamesChunk, Demanded

(* What the owner holds and accepts is of now: a late, repeated or foreign *)
(* read never becomes canonical for another demand, epoch or context.      *)
THEOREM LoadingCurrent == Spec => []NothingStale
<1>1. LoadingInv => NothingStale
  BY PreparedCurrent DEF LoadingInv, NothingStale
<1> QED
  BY <1>1, LoadingInvariant, PTL

-----------------------------------------------------------------------------
(* An Arc made while the others live is none of them.                      *)
LEMMA RenewFresh == RenewRevision => revision' \notin pinned \cup {revision}
<1> DEFINE unheld == Revisions \ (pinned \cup {revision})
<1> SUFFICES ASSUME RenewRevision PROVE revision' \notin pinned \cup {revision}
  OBVIOUS
<1>1. unheld # {} /\ revision' = CHOOSE r \in unheld : TRUE
  BY DEF RenewRevision
<1>2. revision' \in unheld
  BY <1>1
<1> QED
  BY <1>2

(* Each owner method either leaves the canonical chunks alone or renews    *)
(* the revision.                                                           *)
LEMMA OwnerStepFenced ==
  ASSUME LoadingInv, OwnerStep
  PROVE  ChunkStays /\ ChangeRevokes
<1>0. /\ slots \in [Addresses -> Slots \cup {None}] /\ Demanded \subseteq Addresses
      /\ \A a \in Demanded : slots[a] # None
      /\ \A r \in Reads : reads[r].stage # "free" => reads[r].key \in Keys
  <2>1. slots \in [Addresses -> Slots \cup {None}]
    BY DEF LoadingInv, LoadingAccounting, TypeOK
  <2> QED
    BY <2>1, ReadFacts DEF Ticketed, Demanded
<1>1. ASSUME NEW a \in Addresses, request(a) PROVE ChunkStays /\ ChangeRevokes
  <2>1. slots[a] = None /\ context' = context /\ \A b \in Addresses \ {a} : slots'[b] = slots[b]
    BY <1>0, <1>1 DEF request
  <2>2. slots'[a] # None => slots'[a].chunk = None
    BY <1>0, <1>1 DEF request
  <2> QED
    BY <1>0, <2>1, <2>2 DEF ChunkStays, ChangeRevokes, Canonical
<1>2. ASSUME NEW a \in Addresses, remove_demand(a) PROVE ChunkStays /\ ChangeRevokes
  <2>1. slots'[a] = None /\ \A b \in Addresses \ {a} : slots'[b] = slots[b]
    BY <1>0, <1>2 DEF remove_demand
  <2>2. RenewRevision
    BY <1>2 DEF remove_demand
  <2> QED
    BY <1>0, <2>1, <2>2, RenewFresh DEF ChunkStays, ChangeRevokes
<1>3. ASSUME NEW c \in Contexts, reload(c) PROVE ChunkStays /\ ChangeRevokes
  <2>1. RenewRevision /\ \A b \in Addresses : slots'[b] = None
    BY <1>3 DEF reload
  <2> QED
    BY <1>0, <2>1, RenewFresh DEF ChunkStays, ChangeRevokes
<1>4. ASSUME NEW r \in Reads, publish(r) PROVE ChunkStays /\ ChangeRevokes
  <2>1. RenewRevision /\ reads[r].key \in Keys /\ check_pending(reads[r].key)
    BY <1>0, <1>4 DEF publish
  <2>2. /\ reads[r].key.address \in Addresses /\ slots[reads[r].key.address].chunk = None
    BY <2>1, PendingFacts
  <2>3. \A b \in Addresses \ {reads[r].key.address} : slots'[b] = slots[b]
    BY <1>0, <1>4, <2>2 DEF publish
  <2> QED
    BY <1>0, <2>1, <2>2, <2>3, RenewFresh DEF ChunkStays, ChangeRevokes
<1>5. ASSUME NEW r \in Reads, finish_without_chunk(r) PROVE ChunkStays /\ ChangeRevokes
  <2>0. context' = context
    BY <1>5 DEF finish_without_chunk
  <2>1. CASE check_pending(reads[r].key)
    <3>1. reads[r].key \in Keys
      BY <1>0, <1>5 DEF finish_without_chunk
    <3>2. reads[r].key.address \in Addresses /\ Canonical(reads[r].key.address) = None
      BY <2>1, <3>1, PendingFacts
    <3>3. /\ \A b \in Addresses \ {reads[r].key.address} : slots'[b] = slots[b]
          /\ slots'[reads[r].key.address] = None
      BY <1>0, <1>5, <2>1, <3>2 DEF finish_without_chunk
    <3> QED
      BY <1>0, <2>0, <3>2, <3>3 DEF ChunkStays, ChangeRevokes, Canonical
  <2>2. CASE ~check_pending(reads[r].key)
    BY <1>5, <2>0, <2>2 DEF finish_without_chunk, ChunkStays, ChangeRevokes, Canonical
  <2> QED
    BY <2>1, <2>2
<1> QED
  BY <1>1, <1>2, <1>3, <1>4, <1>5 DEF OwnerStep

(* Every other step leaves the slots and the context alone.                *)
LEMMA ApartFenced == slots' = slots /\ context' = context => ChunkStays /\ ChangeRevokes
BY DEF ChunkStays, ChangeRevokes, Canonical

(* Threads, callers and clients write no slot.                             *)
LEMMA ThreadsApart ==
  ASSUME NEW r \in Reads, ThreadStep(r) \/ CallerStep(r)
  PROVE  slots' = slots /\ context' = context
<1>1. ASSUME ThreadStep(r) PROVE UNCHANGED owner
  BY <1>1 DEF ThreadStep, LocateNothing, LocatePresent, Fetched, Decoded, DecodeEnds
<1>2. ASSUME CallerStep(r) PROVE UNCHANGED owner
  BY <1>2 DEF CallerStep, read, Submit, Abandon, ForeignOutput
<1> QED
  BY <1>1, <1>2 DEF owner

(* Holders of snapshots and sections never touch what is canonical.        *)
LEMMA ClientsApart == ClientStep => slots' = slots /\ context' = context
BY DEF ClientStep, snapshot_data, prepare_section, DropSnapshot, ForeignPrepared,
       DropPrepared, owner

(* Whoever captured a revision learns of every change: a canonical chunk   *)
(* changes only with its demand, and no publication, removal or reload     *)
(* leaves a captured revision looking current.                             *)
THEOREM LoadingFenced == Spec => ChangesFenced
<1>1. LoadingInv /\ [Next]_vars => [ChunkStays /\ ChangeRevokes]_vars
  BY OwnerStepFenced, ApartFenced, ThreadsApart, ClientsApart DEF Next
<1> QED
  BY <1>1, LoadingInvariant, PTL DEF Spec, ChangesFenced

-----------------------------------------------------------------------------
(* LightingPublication.                                                    *)

(* The sources jobs and a completion hold.                                 *)
LEMMA HeldSources ==
  ASSUME NEW w, NEW done
  PROVE  \A s : s \in HeldBy(w, done) <=>
                  \/ \E i \in Works : w[i] # None /\ s = w[i].source
                  \/ s = done /\ done # None
BY DEF HeldBy

(* They are well formed, and what they hold is among the clients' Arcs.    *)
LEMMA SourceFacts ==
  ASSUME LightingInv, NEW s \in HeldBy(works, completion)
  PROVE  s \in Sources /\ s.revision \in pinned /\ s.chunks \subseteq shots
<1>1. s \in Sources
  BY HeldSources DEF LightingInv, LightingTypeOK, Jobs
<1> QED
  BY <1>1 DEF LightingInv, HoldersExact

(* An owner method keeps the revision or takes one nobody holds.           *)
LEMMA RevisionMoves ==
  ASSUME OwnerStep
  PROVE  revision' = revision \/ revision' \notin pinned
<1>1. ASSUME NEW a \in Addresses, request(a) \/ remove_demand(a)
      PROVE  revision' = revision \/ RenewRevision
  BY <1>1 DEF request, remove_demand
<1>2. ASSUME NEW c \in Contexts, reload(c) PROVE RenewRevision
  BY <1>2 DEF reload
<1>3. ASSUME NEW r \in Reads, publish(r) \/ finish_without_chunk(r)
      PROVE  revision' = revision \/ RenewRevision
  BY <1>3 DEF publish, finish_without_chunk
<1> QED
  BY <1>1, <1>2, <1>3, RenewFresh DEF OwnerStep

(* Owner and store leave the clients' Arcs to the clients.                 *)
LEMMA WorldClients ==
  ASSUME WorldStep
  PROVE  UNCHANGED <<pinned, shots, prepared, works, current, completion>>
<1>1. ASSUME OwnerStep PROVE UNCHANGED clients
  BY <1>1 DEF OwnerStep, request, remove_demand, reload, publish, finish_without_chunk
<1>2. ASSUME NEW r \in Reads, ThreadStep(r) PROVE UNCHANGED clients
  BY <1>2 DEF ThreadStep, LocateNothing, LocatePresent, Fetched, Decoded, DecodeEnds
<1>3. ASSUME NEW r \in Reads, CallerStep(r) PROVE UNCHANGED clients
  BY <1>3 DEF CallerStep, read, Submit, Abandon, ForeignOutput
<1> QED
  BY <1>1, <1>2, <1>3 DEF WorldStep, CallerStep, clients, lighting

(* A step of the world is one of ChunkLoading.                             *)
LEMMA WorldSteps ==
  ASSUME WorldStep
  PROVE  OwnerStep \/ \E r \in Reads : ThreadStep(r) \/ CallerStep(r)
BY DEF WorldStep, CallerStep

(* The world moves on under live sources.                                  *)
LEMMA WorldStepInv ==
  ASSUME LightingInv, WorldStep
  PROVE  LightingInv'
<1>1. UNCHANGED <<pinned, shots, works, current, completion>>
  BY WorldClients
<1>2. LoadingInv
  BY DEF LightingInv
<1>3. LoadingInv'
  BY <1>2, WorldSteps, OwnerStepInv, ThreadStepInv, CallerStepInv
<1>4. LightingTypeOK' /\ HoldersExact' /\ CompletionIsLatest'
  BY <1>1 DEF LightingInv, LightingTypeOK, HoldersExact, HeldBy, CompletionIsLatest
<1>5. /\ revision' = revision \/ revision' \notin pinned
      /\ ChangeRevokes
  <2>1. CASE OwnerStep
    BY <1>2, <2>1, RevisionMoves, OwnerStepFenced
  <2>2. ASSUME NEW r \in Reads, ThreadStep(r) \/ CallerStep(r)
        PROVE  revision' = revision /\ ChangeRevokes
    <3>1. UNCHANGED owner
      BY <2>2 DEF ThreadStep, CallerStep, LocateNothing, LocatePresent, Fetched, Decoded,
                  DecodeEnds, read, Submit, Abandon, ForeignOutput
    <3> QED
      BY <2>2, <3>1, ThreadsApart, ApartFenced DEF owner
  <2> QED
    BY <2>1, <2>2, WorldSteps
<1>6. SourcesCurrent'
  <2> SUFFICES ASSUME NEW s \in HeldBy(works, completion), s.revision = revision'
               PROVE  s.chunks \subseteq CanonicalChunks' /\ s.context = context'
    BY <1>1 DEF SourcesCurrent, HeldBy, is_current
  <2>1. s.revision = revision /\ revision' = revision
    BY <1>5, SourceFacts
  <2>2. context' = context /\ \A a \in Addresses : Canonical(a)' = Canonical(a)
    BY <1>5, <2>1 DEF ChangeRevokes
  <2>3. CanonicalChunks' = CanonicalChunks
    BY <2>2 DEF CanonicalChunks
  <2> QED
    BY <2>1, <2>2, <2>3 DEF LightingInv, SourcesCurrent, is_current
<1> QED
  BY <1>3, <1>4, <1>6 DEF LightingInv

(* A step of the domain: the sources alive after it were alive before or   *)
(* have just been captured, and hold what the clients' Arcs now hold.      *)
LEMMA DomainStep ==
  ASSUME LightingInv, LightingTypeOK', CompletionIsLatest',
         UNCHANGED <<OwnerApart, store, prepared>>,
         Hold(HeldBy(works', completion')),
         \A s \in HeldBy(works', completion') :
           \/ s \in HeldBy(works, completion)
           \/ /\ s \in Sources /\ is_current(s)
              /\ s.chunks \subseteq CanonicalChunks /\ s.context = context
  PROVE  LightingInv'
<1> DEFINE alive == HeldBy(works', completion')
<1>1. /\ UNCHANGED <<epoch, nextGeneration, context, slots, metadata, revision,
                     tickets, store, prepared>>
  BY DEF OwnerApart
<1>2. /\ pinned' = {s.revision : s \in alive} /\ shots' = UNION {s.chunks : s \in alive}
      /\ used' = used - FreedBytes(shots \ shots', CanonicalChunks)
  BY DEF Hold
<1>3. HoldersExact'
  BY <1>2 DEF HoldersExact, HeldBy
<1>4. \A s \in alive : s \in Sources /\ s.chunks \subseteq CanonicalChunks \cup shots
  BY SourceFacts
<1>5. shots' \in SUBSET (CanonicalChunks \cup shots) /\ pinned' \in SUBSET Revisions
  BY <1>2, <1>4 DEF Sources
<1>6. LoadingInv'
  BY <1>1, <1>2, <1>5, HoldersStep DEF LightingInv
<1>7. SourcesCurrent'
  <2> SUFFICES ASSUME NEW s \in alive, s.revision = revision'
               PROVE  s.chunks \subseteq CanonicalChunks' /\ s.context = context'
    BY DEF SourcesCurrent, HeldBy, is_current
  <2>1. CanonicalChunks' = CanonicalChunks /\ revision' = revision /\ context' = context
    BY <1>1 DEF CanonicalChunks, Canonical
  <2> QED
    BY <2>1 DEF LightingInv, SourcesCurrent, is_current
<1> QED
  BY <1>3, <1>6, <1>7 DEF LightingInv

(* begin, whether it captures or fails, first revokes the old completion.  *)
LEMMA BeginFailsInv ==
  ASSUME LightingInv, BeginFails
  PROVE  LightingInv'
<1>1. /\ current' = None /\ completion' = None /\ works' = works
      /\ Hold(HeldBy(works', completion'))
      /\ UNCHANGED <<OwnerApart, store, prepared>>
  BY DEF BeginFails, cancel
<1>2. LightingTypeOK' /\ CompletionIsLatest'
  BY <1>1 DEF LightingInv, LightingTypeOK, CompletionIsLatest
<1>3. HeldBy(works', completion') \subseteq HeldBy(works, completion)
  BY <1>1 DEF HeldBy
<1> QED
  BY <1>1, <1>2, <1>3, DomainStep

(* begin captures what is canonical and pins the revision of now.          *)
LEMMA beginInv ==
  ASSUME LightingInv, NEW w \in Works, NEW A \in SUBSET Addresses, begin(w, A)
  PROVE  LightingInv'
<1> DEFINE new == from_canonical(A, current')
<1>1. /\ \A a \in A : Canonical(a) # None
      /\ current' \in Stamps
      /\ works' = [works EXCEPT ![w] = [source |-> new, complete |-> FALSE]]
      /\ completion' = None /\ Hold(HeldBy(works', completion'))
      /\ UNCHANGED <<OwnerApart, store, prepared>>
  <2>1. FreshStamps # {} /\ current' = CHOOSE s \in FreshStamps : TRUE
    BY DEF begin
  <2>2. current' \in FreshStamps
    BY <2>1
  <2> QED
    BY <2>2 DEF begin, FreshStamps
<1>2. LoadingInv
  BY DEF LightingInv
<1>3. {Canonical(a) : a \in A} \subseteq CanonicalChunks /\ CanonicalChunks \in SUBSET Chunks
  BY <1>1, <1>2, CanonicalFacts DEF CanonicalChunks, LoadingInv, LoadingAccounting
<1>4. /\ new \in Sources /\ is_current(new) /\ new.chunks \subseteq CanonicalChunks
      /\ new.context = context
  BY <1>1, <1>2, <1>3, LightingAssumption
     DEF from_canonical, Sources, is_current, LoadingInv, LoadingAccounting, TypeOK
<1> HIDE DEF new
<1>5. LightingTypeOK' /\ CompletionIsLatest'
  BY <1>1, <1>4 DEF LightingInv, LightingTypeOK, Jobs, CompletionIsLatest
<1>6. ASSUME NEW s \in HeldBy(works', completion')
      PROVE  s = new \/ s \in HeldBy(works, completion)
  <2>1. PICK i \in Works : works'[i] # None /\ s = works'[i].source
    BY <1>1 DEF HeldBy
  <2>2. CASE i = w
    BY <1>1, <2>1, <2>2 DEF LightingInv, LightingTypeOK
  <2>3. CASE i # w
    BY <1>1, <2>1, <2>3, HeldSources DEF LightingInv, LightingTypeOK
  <2> QED
    BY <2>2, <2>3
<1> QED
  BY <1>1, <1>4, <1>5, <1>6, DomainStep

(* A job that completes or is accepted keeps its source alive.             *)
LEMMA CompleteInv ==
  ASSUME LightingInv, NEW w \in Works, Complete(w)
  PROVE  LightingInv'
<1>1. /\ works[w] # None /\ works' = [works EXCEPT ![w] = [works[w] EXCEPT !.complete = TRUE]]
      /\ current' = current /\ completion' = completion /\ UNCHANGED vars
  BY DEF Complete
<1>2. /\ works[w] \in Jobs /\ [works[w] EXCEPT !.complete = TRUE] \in Jobs
      /\ ([works[w] EXCEPT !.complete = TRUE]).source = works[w].source
      /\ [works[w] EXCEPT !.complete = TRUE] # None
  BY <1>1, NoLightAssumption DEF LightingInv, LightingTypeOK, Jobs
<1>3. LightingTypeOK'
  BY <1>1, <1>2 DEF LightingInv, LightingTypeOK
<1>4. HeldBy(works', completion') = HeldBy(works, completion)
  <2>1. \A i \in Works : /\ works'[i] # None <=> works[i] # None
                         /\ works[i] # None => works'[i].source = works[i].source
    BY <1>1, <1>2 DEF LightingInv, LightingTypeOK
  <2> QED
    BY <1>1, <2>1 DEF HeldBy
<1>5. LoadingInv'
  BY <1>1, LoadingStutter DEF LightingInv
<1>6. UNCHANGED <<pinned, shots, revision, slots, context>>
  BY <1>1 DEF vars, owner, clients
<1>7. HoldersExact' /\ SourcesCurrent' /\ CompletionIsLatest'
  <2>1. CanonicalChunks' = CanonicalChunks
    BY <1>6 DEF CanonicalChunks, Canonical
  <2>2. HeldBy(works, completion)' = HeldBy(works, completion)
    BY <1>4 DEF HeldBy
  <2> QED
    BY <1>1, <1>6, <2>1, <2>2
       DEF LightingInv, HoldersExact, SourcesCurrent, is_current, CompletionIsLatest
<1> QED
  BY <1>3, <1>5, <1>7 DEF LightingInv

(* accept keeps a job's source as the completion, or drops it.             *)
LEMMA acceptInv ==
  ASSUME LightingInv, NEW w \in Works, accept(w)
  PROVE  LightingInv'
<1>1. /\ works[w] # None /\ completion = None
      /\ works[w].source.stamp = current
      /\ completion' = works[w].source /\ works' = [works EXCEPT ![w] = None]
      /\ current' = current /\ UNCHANGED vars
  BY DEF accept, validate
<1>2. works[w].source \in Sources /\ works[w].source # None
  BY <1>1, NoLightAssumption DEF LightingInv, LightingTypeOK, Jobs
<1>3. LightingTypeOK' /\ CompletionIsLatest'
  BY <1>1, <1>2 DEF LightingInv, LightingTypeOK, CompletionIsLatest
<1>4. HeldBy(works', completion') = HeldBy(works, completion)
  <2>1. /\ works'[w] = None
        /\ \A i \in Works \ {w} : works'[i] = works[i]
    BY <1>1 DEF LightingInv, LightingTypeOK
  <2>2. ASSUME NEW s PROVE s \in HeldBy(works', completion') <=> s \in HeldBy(works, completion)
    BY <1>1, <1>2, <2>1 DEF HeldBy
  <2> QED
    BY <2>2
<1>5. LoadingInv'
  BY <1>1, LoadingStutter DEF LightingInv
<1>6. UNCHANGED <<pinned, shots, revision, slots, context>>
  BY <1>1 DEF vars, owner, clients
<1>7. HoldersExact' /\ SourcesCurrent'
  <2>1. CanonicalChunks' = CanonicalChunks
    BY <1>6 DEF CanonicalChunks, Canonical
  <2>2. HeldBy(works, completion)' = HeldBy(works, completion)
    BY <1>4 DEF HeldBy
  <2> QED
    BY <1>1, <1>6, <2>1, <2>2
       DEF LightingInv, HoldersExact, SourcesCurrent, is_current
<1> QED
  BY <1>3, <1>5, <1>7 DEF LightingInv

(* A dropped job gives its Arcs back.                                      *)
LEMMA DropWorkInv ==
  ASSUME LightingInv, NEW w \in Works, DropWork(w)
  PROVE  LightingInv'
<1>1. /\ works' = [works EXCEPT ![w] = None]
      /\ current' = current /\ completion' = completion
      /\ Hold(HeldBy(works', completion'))
      /\ UNCHANGED <<OwnerApart, store, prepared>>
  BY DEF DropWork
<1>2. LightingTypeOK' /\ CompletionIsLatest'
  BY <1>1 DEF LightingInv, LightingTypeOK, CompletionIsLatest
<1>3. \A s \in HeldBy(works', completion') : s \in HeldBy(works, completion)
  <2>1. \A i \in Works : works'[i] # None => works'[i] = works[i]
    BY <1>1 DEF LightingInv, LightingTypeOK
  <2> QED
    BY <1>1, <2>1 DEF HeldBy
<1> QED
  BY <1>1, <1>2, <1>3, DomainStep

-----------------------------------------------------------------------------
(* The invariant holds at the start and is kept by every step.             *)
LEMMA LightingStart == LightingInit => LightingInv
<1> SUFFICES ASSUME LightingInit PROVE LightingInv
  OBVIOUS
<1>1. LoadingInv
  BY LoadingStart DEF LightingInit
<1>2. HeldBy(works, completion) = {}
  BY DEF LightingInit, HeldBy
<1> QED
  BY <1>1, <1>2 DEF LightingInv, LightingInit, Init, LightingTypeOK, HoldersExact,
                    SourcesCurrent, CompletionIsLatest

(* Every step, of the world or of the domain, keeps the invariant.         *)
LEMMA LightingKept == LightingInv /\ [LightingNext]_allVars => LightingInv'
<1> SUFFICES ASSUME LightingInv, [LightingNext]_allVars PROVE LightingInv'
  OBVIOUS
<1>1. CASE UNCHANGED allVars
  <2>1. UNCHANGED vars /\ UNCHANGED <<works, current, completion>>
    BY <1>1 DEF allVars, lighting
  <2>2. LoadingInv'
    BY <2>1, LoadingStutter DEF LightingInv
  <2>3. UNCHANGED <<pinned, shots, revision, slots, context>>
    BY <2>1 DEF vars, owner, clients
  <2> QED
    BY <2>1, <2>2, <2>3 DEF LightingInv, LightingTypeOK, HoldersExact, HeldBy, SourcesCurrent,
                            is_current, CanonicalChunks, Canonical, CompletionIsLatest
<1> QED
  BY <1>1, WorldStepInv, BeginFailsInv, beginInv, CompleteInv, acceptInv, DropWorkInv
     DEF LightingNext, LightingStep

(* World and lighting domain together keep the inductive invariant.        *)
THEOREM LightingInvariant == LightingSpec => []LightingInv
BY LightingStart, LightingKept, PTL DEF LightingSpec

(* Light that ready hands out was computed from the chunks, the dimension  *)
(* and the request of now, for any number of jobs, chunks and reloads.     *)
THEOREM LightingCurrent == LightingSpec => []LightIsCurrent
<1>1. LightingInv => LightIsCurrent
  <2> SUFFICES ASSUME LightingInv PROVE LightIsCurrent
    OBVIOUS
  <2>1. ASSUME ready
        PROVE  /\ completion.context = context
               /\ \A c \in completion.chunks : c = Canonical(c.key.address) /\ c.context = context
    <3>1. completion \in HeldBy(works, completion) /\ is_current(completion)
      BY <2>1, HeldSources DEF ready
    <3>2. completion.chunks \subseteq CanonicalChunks /\ completion.context = context
      BY <3>1 DEF LightingInv, SourcesCurrent
    <3>3. ASSUME NEW c \in CanonicalChunks
          PROVE  c = Canonical(c.key.address) /\ c.context = context
      <4>1. PICK a \in Addresses : c = Canonical(a) /\ c # None
        BY DEF CanonicalChunks
      <4> QED
        BY <4>1, SlotFacts DEF LightingInv
    <3> QED
      BY <3>2, <3>3
  <2> QED
    BY <2>1 DEF LightIsCurrent, ReadyIsCurrent, LightingInv
<1> QED
  BY <1>1, LightingInvariant, PTL

(* The resident ledger stays exact while captured light holds residents    *)
(* that the owner has removed or reloaded.                                 *)
THEOREM LightingExact == LightingSpec => []LightingAccounting
<1>1. LightingInv => LightingAccounting
  BY LoadingAssumption DEF LightingInv, LoadingInv, LoadingAccounting, ResidentExact, TypeOK,
                           HoldersExact, LightingAccounting
<1> QED
  BY <1>1, LightingInvariant, PTL

(* With lighting work in flight, too, every change of a canonical chunk is *)
(* seen by whoever captured a revision before it.                          *)
THEOREM LightingFenced == LightingSpec => ChangesFenced
<1>1. LightingInv /\ [LightingNext]_allVars => [ChunkStays /\ ChangeRevokes]_vars
  <2> SUFFICES ASSUME LightingInv, [LightingNext]_allVars
               PROVE  [ChunkStays /\ ChangeRevokes]_vars
    OBVIOUS
  <2>1. CASE UNCHANGED allVars
    BY <2>1 DEF allVars
  <2>2. CASE WorldStep
    BY <2>2, WorldSteps, OwnerStepFenced, ThreadsApart, ApartFenced DEF LightingInv
  <2>3. CASE LightingStep
    <3>1. UNCHANGED OwnerApart \/ UNCHANGED vars
      BY <2>3 DEF LightingStep, BeginFails, begin, Complete, DropWork, accept
    <3> QED
      BY <3>1, ApartFenced DEF OwnerApart
  <2> QED
    BY <2>1, <2>2, <2>3 DEF LightingNext
<1> QED
  BY <1>1, LightingInvariant, PTL DEF LightingSpec, ChangesFenced
==============================================================================
