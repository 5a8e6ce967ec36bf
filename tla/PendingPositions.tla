-------------------------- MODULE PendingPositions --------------------------
(***************************************************************************)
(* The open-addressing table behind ChunkSender.pending (server/           *)
(* chunk_sender.rs: PendingPositions): linear probing, deletion by         *)
(* shifting entries back, growth and shrinkage into a spare table that was *)
(* allocated once, and the key 0 (the packed position 0,0) kept in a flag  *)
(* because 0 marks an empty slot.                                          *)
(*                                                                         *)
(* The table is owned by one thread: each method is one action. The 64-bit *)
(* mixing of home() is an arbitrary hash, chosen once. The physical size   *)
(* follows from the limit as in ChunkSender::new; of both tables only the  *)
(* first "buckets" places of the current one are kept, because rehash      *)
(* clears what it fills and nothing reads the rest.                        *)
(***************************************************************************)
EXTENDS Naturals, Sequences, FiniteSets, FiniteSetsExt, SequencesExt

CONSTANTS
  Keys,            \* non-zero packed positions
  Hashes,          \* candidate mixing functions [Keys -> Nat]
  Limit,           \* SenderLimits.max_pending
  InitialBuckets   \* INITIAL_BUCKETS

VARIABLES
  hash,     \* the mixing function
  slots,    \* PendingPositions.slots, the logical part
  buckets,  \* PendingPositions.buckets
  len,      \* PendingPositions.len
  zero,     \* PendingPositions.zero
  answer    \* what the last insert or remove returned

vars == <<hash, slots, buckets, len, zero, answer>>

PowersOfTwo == {2^i : i \in 0..8}

(* next_power_of_two of four buckets per three positions, at least the     *)
(* initial size.                                                           *)
Physical ==
  Max({InitialBuckets, Min({b \in PowersOfTwo : b >= ((Limit + 2) \div 3) * 4})})

ASSUME PositionsAssumption ==
  /\ Keys \subseteq Nat \ {0} /\ IsFiniteSet(Keys)
  /\ Hashes \subseteq [Keys -> Nat]
  /\ Limit \in Nat \ {0}
  /\ InitialBuckets \in PowersOfTwo

home(key, size) == hash[key] % size

(* The first place of the probe of key in table t that holds one of stops. *)
Probe(t, key, size, stops) ==
  LET at(i) == (home(key, size) + i) % size
  IN  at(Min({i \in 0..size - 1 : t[at(i)] \in stops}))

bucket(key) == Probe(slots, key, buckets, {0, key})

contains(key) == IF key = 0 THEN zero ELSE slots[bucket(key)] # 0

(* rehash: the entries move in descending bucket order.                    *)
Rehashed(old, size, newSize) ==
  LET entries == SelectSeq([i \in 1..size |-> old[size - i]], LAMBDA e : e # 0)
      place(t, key) == [t EXCEPT ![Probe(t, key, newSize, {0})] = key]
  IN  FoldLeft(place, [i \in 0..newSize - 1 |-> 0], entries)

(* Store the new table, moved to another size when the length asks for it. *)
Store(table, n, size) ==
  /\ len' = n
  /\ buckets' = size
  /\ slots' = IF size = buckets THEN table ELSE Rehashed(table, buckets, size)

GrowTo(n) == IF n > (buckets * 3) \div 4 THEN buckets * 2 ELSE buckets

ShrinkTo(n) ==
  IF buckets > InitialBuckets /\ n < (buckets * 3) \div 16 THEN buckets \div 2 ELSE buckets

insert(key) ==
  /\ UNCHANGED hash
  /\ IF contains(key) THEN answer' = "present" /\ UNCHANGED <<slots, buckets, len, zero>>
     ELSE IF len = Limit THEN answer' = "full" /\ UNCHANGED <<slots, buckets, len, zero>>
     ELSE /\ answer' = "inserted"
          /\ zero' = (zero \/ key = 0)
          /\ Store(IF key = 0 THEN slots ELSE [slots EXCEPT ![bucket(key)] = key],
                   len + 1, GrowTo(len + 1))

(* Mutant: every entry behind the hole is moved, also off its probe.       *)
MovesAlways(hole, scan, home_) == TRUE

(* Whether an entry found at scan may fill the hole: its probe passes it.  *)
Moves(hole, scan, home_) ==
  (hole + buckets - home_) % buckets < (scan + buckets - home_) % buckets

(* The loop of remove: shift entries back until an empty place, and empty  *)
(* the last hole.                                                          *)
RECURSIVE ShiftBack(_, _, _)
ShiftBack(t, hole, scan) ==
  IF t[scan] = 0 THEN [t EXCEPT ![hole] = 0]
  ELSE IF Moves(hole, scan, home(t[scan], buckets))
  THEN ShiftBack([t EXCEPT ![hole] = t[scan]], scan, (scan + 1) % buckets)
  ELSE ShiftBack(t, hole, (scan + 1) % buckets)

remove(key) ==
  /\ UNCHANGED hash
  /\ IF ~contains(key) THEN answer' = "absent" /\ UNCHANGED <<slots, buckets, len, zero>>
     ELSE /\ answer' = "removed"
          /\ zero' = (zero /\ key # 0)
          /\ Store(IF key = 0 THEN slots
                   ELSE ShiftBack(slots, bucket(key), (bucket(key) + 1) % buckets),
                   len - 1, ShrinkTo(len - 1))

Init ==
  /\ hash \in Hashes
  /\ slots = [i \in 0..InitialBuckets - 1 |-> 0]
  /\ buckets = InitialBuckets /\ len = 0 /\ zero = FALSE /\ answer = "none"

Next == \E key \in Keys \cup {0} : insert(key) \/ remove(key)

Spec == Init /\ [][Next]_vars

-----------------------------------------------------------------------------
Live == 0..buckets - 1

(* stream: the zero key first, then the buckets ascending.                 *)
stream ==
  (IF zero THEN <<0>> ELSE <<>>)
    \o SelectSeq([i \in 1..buckets |-> slots[i - 1]], LAMBDA e : e # 0)

(* The table stays inside its one allocation, which no debug assertion     *)
(* guards: the logical size never passes the physical one, and a free      *)
(* place remains, so that every probe loop ends.                           *)
TableFits ==
  /\ buckets \in PowersOfTwo /\ InitialBuckets <= buckets /\ buckets <= Physical
  /\ slots \in [Live -> Keys \cup {0}]
  /\ \E i \in Live : slots[i] = 0

(* The stream hands each held position to the scheduler exactly once.      *)
StreamComplete ==
  /\ Len(stream) = len
  /\ ToSet(stream) = {k \in Keys \cup {0} : contains(k)}

(* The table is whole and shows what it holds after any history.           *)
PositionsSound == TableFits /\ StreamComplete

Abstract == INSTANCE BoundedSet
  WITH Elements <- Keys \cup {0}, members <- {k \in Keys \cup {0} : contains(k)}

(* The table implements a bounded set, answers included, through every     *)
(* history of growth, shrinkage and deletion.                              *)
ImplementsSet == Abstract!Spec
=============================================================================
