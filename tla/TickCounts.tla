----------------------------- MODULE TickCounts -----------------------------
(***************************************************************************)
(* The two identity tables of the tick owner: Identities (world/ticks.rs), *)
(* a set that closes the gap of a removal by inserting the rest of the     *)
(* cluster again, and RemainingCounts (world/ticks/remaining.rs), a bag    *)
(* whose entries lie densely in an array that a second table points into.  *)
(* Both are driven here by the same additions and removals.                *)
(*                                                                         *)
(* The hashes are arbitrary, chosen once; both tables are given the same.  *)
(***************************************************************************)
EXTENDS Naturals, SequencesExt

CONSTANTS
  Idents,        \* identities
  IdentHashes,   \* candidate hash functions
  IdentLimit,    \* the capacity both were made for
  NoIdent        \* None, and usize::MAX

ASSUME IdentAssumption ==
  IdentHashes \subseteq [Idents -> Nat] /\ IdentLimit \in Nat \ {0}

VARIABLES
  identHash,
  members,     \* Identities: its slots
  entries,     \* RemainingCounts: its dense array
  lookup,      \* RemainingCounts: per bucket an index of entries
  counted      \* history: how often each identity was added

countVars == <<identHash, members, entries, lookup, counted>>

(* Twice the capacity, rounded up to a power of two.                       *)
Slots == Min({n \in {2^i : i \in 0 .. 8} : n >= 2 * IdentLimit})
Bucket(x) == identHash[x] % Slots
After(b) == (b + 1) % Slots

(* The bucket where the probe for x ends, in a table where at[b] is what b *)
(* holds.                                                                  *)
ProbeEnd(at, x) ==
  LET b(i) == (Bucket(x) + i) % Slots
  IN  b(Min({i \in 0 .. Slots - 1 : at[b(i)] \in {NoIdent, x}}))

(* Identities: insert and remove, which reinserts the cluster.             *)
IdInsert(t, x) == [t EXCEPT ![ProbeEnd(t, x)] = x]

RECURSIVE Reinsert(_, _)
Reinsert(t, b) ==
  IF t[b] = NoIdent THEN t
  ELSE Reinsert(IdInsert([t EXCEPT ![b] = NoIdent], t[b]), After(b))

IdRemove(t, x) ==
  LET b == ProbeEnd(t, x)
  IN  IF t[b] = NoIdent THEN t ELSE Reinsert([t EXCEPT ![b] = NoIdent], After(b))

(* RemainingCounts: what its buckets point at, find and the repair of      *)
(* probe paths behind a hole.                                              *)
Pointed(table, dense) ==
  [b \in 0 .. Slots - 1 |-> IF table[b] = NoIdent THEN NoIdent ELSE dense[table[b]].id]

RECURSIVE CloseGap(_, _, _)
CloseGap(table, hole, at) ==
  LET away(i) == (i + Slots - Bucket(entries[table[at]].id)) % Slots
  IN  IF table[at] = NoIdent THEN table
      ELSE IF away(hole) < away(at)
      THEN CloseGap([table EXCEPT ![hole] = table[at], ![at] = NoIdent], at, After(at))
      ELSE CloseGap(table, hole, After(at))

(* swap_remove moves the last entry to index; its bucket follows.          *)
Repoint(table, dense, index) ==
  IF index = Len(dense) THEN table
  ELSE [table EXCEPT ![ProbeEnd(Pointed(table, dense), dense[Len(dense)].id)] = index]

add(x) ==
  LET b == ProbeEnd(Pointed(lookup, entries), x)
  IN  /\ IF lookup[b] # NoIdent
         THEN entries' = [entries EXCEPT ![lookup[b]].count = @ + 1] /\ UNCHANGED lookup
         ELSE /\ Len(entries) < IdentLimit
              /\ lookup' = [lookup EXCEPT ![b] = Len(entries) + 1]
              /\ entries' = Append(entries, [id |-> x, count |-> 1])
      /\ members' = IdInsert(members, x)
      /\ counted' = [counted EXCEPT ![x] = @ + 1]
      /\ UNCHANGED identHash

(* The set loses x with its first removal, the bag with its last.          *)
remove_one(x) ==
  LET b == ProbeEnd(Pointed(lookup, entries), x)
      index == lookup[b]
      closed == CloseGap([lookup EXCEPT ![b] = NoIdent], b, After(b))
      last == entries[Len(entries)]
  IN  /\ index # NoIdent
      /\ IF entries[index].count > 1
         THEN entries' = [entries EXCEPT ![index].count = @ - 1] /\ UNCHANGED lookup
         ELSE /\ lookup' = Repoint(closed, entries, index)
              /\ entries' = Front([entries EXCEPT ![index] = last])
      /\ members' = IdRemove(members, x)
      /\ counted' = [counted EXCEPT ![x] = @ - 1]
      /\ UNCHANGED identHash

clear ==
  /\ members' = [b \in 0 .. Slots - 1 |-> NoIdent]
  /\ lookup' = [b \in 0 .. Slots - 1 |-> NoIdent]
  /\ entries' = <<>>
  /\ counted' = [x \in Idents |-> 0]
  /\ UNCHANGED identHash

CountInit ==
  /\ identHash \in IdentHashes
  /\ members = [b \in 0 .. Slots - 1 |-> NoIdent]
  /\ lookup = [b \in 0 .. Slots - 1 |-> NoIdent]
  /\ entries = <<>>
  /\ counted = [x \in Idents |-> 0]

CountNext ==
  \/ \E x \in Idents : counted[x] < 2 /\ add(x)
  \/ \E x \in Idents : remove_one(x)
  \/ clear

-----------------------------------------------------------------------------
(* The counts table is exactly the bag of additions less removals, its     *)
(* array dense and its buckets pointing at it; the set finds each of its   *)
(* members on its probe path, holds none twice, and holds only identities  *)
(* still counted.                                                          *)
TablesSound ==
  LET live == {x \in Idents : counted[x] > 0}
      held == {members[b] : b \in 0 .. Slots - 1} \ {NoIdent}
  IN  /\ Len(entries) = Cardinality(live)
      /\ \A x \in live :
           LET i == lookup[ProbeEnd(Pointed(lookup, entries), x)]
           IN  i # NoIdent /\ entries[i] = [id |-> x, count |-> counted[x]]
      /\ Cardinality({b \in 0 .. Slots - 1 : lookup[b] # NoIdent}) = Len(entries)
      /\ held \subseteq live
      /\ \A x \in Idents : (members[ProbeEnd(members, x)] = x) <=> x \in held
      /\ Cardinality({b \in 0 .. Slots - 1 : members[b] # NoIdent}) = Cardinality(held)
=============================================================================
