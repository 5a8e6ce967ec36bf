------------------------------ MODULE TickIndex ------------------------------
(***************************************************************************)
(* The scheduling index of world/ticks/order_index.rs (SchedulingIndex): a *)
(* hash table from a chunk key to a time, with the key 0 outside the       *)
(* buckets, growth and shrinkage by rehash, and a scan in descending       *)
(* bucket order during which the current entry may be removed. A removal   *)
(* shifts later entries back; one that crosses bucket 0 would land behind  *)
(* the cursor, so its key is visited at the end instead.                   *)
(*                                                                         *)
(* mix is an arbitrary hash, chosen once. Physical tables are not modelled:*)
(* new sizes them for max_keys.                                            *)
(***************************************************************************)
EXTENDS Naturals, SequencesExt

CONSTANTS
  IndexKeys,    \* non-zero chunk keys
  IndexMixes,   \* candidate mix functions
  Times,        \* times an entry may have, by key
  MaxKeys,      \* max_keys
  InitialCapacity,
  NoEntry       \* None

ASSUME IndexAssumption ==
  /\ IndexKeys \subseteq Nat \ {0} /\ IndexMixes \subseteq [IndexKeys -> Nat]
  /\ MaxKeys \in Nat \ {0}
  /\ InitialCapacity \in {4, 8, 16, 32}

VARIABLES
  mix,
  buckets_,  \* the logical table: per bucket [key, time], key 0 for empty
  capacity, count,
  zeroTime,  \* the time of key 0 or NoEntry
  scan,      \* the running scan or NoEntry
  wrapped,   \* keys to visit after the buckets
  contents,  \* history: the map the operations describe
  visited    \* history: the entries this scan has returned, and its start

indexVars == <<mix, buckets_, capacity, count, zeroTime, scan, wrapped, contents, visited>>

Empty == [key |-> 0, time |-> 0]
max_fill(c) == (c \div 4) * 3
HomeOf(key, c) == mix[key] % c

(* find_bucket in table t of c buckets: the place of the key or a free one.*)
find_bucket(t, key, c) ==
  LET at(i) == (HomeOf(key, c) + i) % c
  IN  at(Min({i \in 0 .. c - 1 : t[at(i)].key \in {0, key}}))

get(key) == IF key = 0 THEN zeroTime
            ELSE LET e == buckets_[find_bucket(buckets_, key, capacity)]
                 IN  IF e.key = key THEN e.time ELSE NoEntry

(* rehash moves the entries in descending bucket order.                    *)
Rehash(t, old, new) ==
  LET entries == SelectSeq([i \in 1 .. old |-> t[old - i]], LAMBDA e : e.key # 0)
      place(acc, e) == [acc EXCEPT ![find_bucket(acc, e.key, new)] = e]
  IN  FoldLeft(place, [i \in 0 .. new - 1 |-> Empty], entries)

(* put of a key already there, allowed during a scan.                      *)
Overwrite(key, time) ==
  /\ get(key) # NoEntry
  /\ IF key = 0 THEN zeroTime' = time /\ UNCHANGED buckets_
     ELSE /\ buckets_' = [buckets_ EXCEPT ![find_bucket(buckets_, key, capacity)].time = time]
          /\ UNCHANGED zeroTime
  /\ contents' = [contents EXCEPT ![key] = time]
  /\ UNCHANGED <<mix, capacity, count, scan, wrapped, visited>>

(* put of a new key; outside a scan.                                       *)
Insert(key, time) ==
  LET table == IF key = 0 THEN buckets_
               ELSE [buckets_ EXCEPT ![find_bucket(buckets_, key, capacity)] =
                       [key |-> key, time |-> time]]
      grows == count + 1 > max_fill(capacity)
  IN  /\ get(key) = NoEntry
      /\ scan = NoEntry
      /\ count < MaxKeys
      /\ zeroTime' = IF key = 0 THEN time ELSE zeroTime
      /\ count' = count + 1
      /\ capacity' = IF grows THEN capacity * 2 ELSE capacity
      /\ buckets_' = IF grows THEN Rehash(table, capacity, capacity * 2) ELSE table
      /\ contents' = [k \in DOMAIN contents \cup {key} |->
                        IF k = key THEN time ELSE contents[k]]
      /\ UNCHANGED <<mix, scan, wrapped, visited>>

(* Whether moving the entry at bucket at into the hole takes it from the   *)
(* unvisited buckets to the visited ones.                                  *)
Passed(hole, at) == at < hole

(* close_hole: t with the hole closed, and the keys that crossed bucket 0. *)
RECURSIVE close_hole(_, _, _, _)
close_hole(t, hole, at, crossed) ==
  LET e == t[at]
      distance(i) == (i + capacity - HomeOf(e.key, capacity)) % capacity
      next == (at + 1) % capacity
  IN  IF e.key = 0 THEN [table |-> [t EXCEPT ![hole] = Empty], crossed |-> crossed]
      ELSE IF distance(hole) < distance(at)
      THEN close_hole([t EXCEPT ![hole] = e], at, next,
                      IF Passed(hole, at) THEN Append(crossed, e.key) ELSE crossed)
      ELSE close_hole(t, hole, next, crossed)

Closed(hole) == close_hole(buckets_, hole, (hole + 1) % capacity, <<>>)

(* remove_key of a key that is there: its hole is closed, the table may    *)
(* shrink by one step.                                                     *)
remove_key(key) ==
  LET table == IF key = 0 THEN buckets_
               ELSE Closed(find_bucket(buckets_, key, capacity)).table
      shrinks == capacity > InitialCapacity /\ count - 1 < max_fill(capacity) \div 4
  IN  /\ zeroTime' = IF key = 0 THEN NoEntry ELSE zeroTime
      /\ count' = count - 1
      /\ capacity' = IF shrinks THEN capacity \div 2 ELSE capacity
      /\ buckets_' = IF shrinks THEN Rehash(table, capacity, capacity \div 2) ELSE table
      /\ contents' = [k \in DOMAIN contents \ {key} |-> contents[k]]

(* remove, outside a scan.                                                 *)
remove_outside(key) ==
  /\ scan = NoEntry
  /\ get(key) # NoEntry
  /\ remove_key(key)
  /\ UNCHANGED <<mix, scan, wrapped, visited>>

begin_scan ==
  /\ scan = NoEntry
  /\ wrapped' = <<>>
  /\ scan' = [remaining |-> count, before |-> capacity, zero |-> zeroTime # NoEntry,
              next |-> 1, current |-> NoEntry]
  /\ visited' = [all |-> DOMAIN contents, seen |-> <<>>]
  /\ UNCHANGED <<mix, buckets_, capacity, count, zeroTime, contents>>

(* next_entry: key 0, then buckets downwards, then the wrapped keys.       *)
next_entry ==
  LET below == {i \in 0 .. scan.before - 1 : buckets_[i].key # 0}
      at == Max(below)
      found == IF scan.zero THEN [kind |-> "zero", key |-> 0]
               ELSE IF below # {} THEN [kind |-> "bucket", key |-> buckets_[at].key, at |-> at]
               ELSE [kind |-> "wrapped", key |-> wrapped[scan.next]]
  IN  /\ scan # NoEntry
      /\ scan.remaining > 0
      /\ scan' = [remaining |-> scan.remaining - 1, zero |-> FALSE, current |-> found,
                  before |-> IF found.kind = "zero" THEN scan.before
                             ELSE IF found.kind = "bucket" THEN at ELSE 0,
                  next |-> IF found.kind = "wrapped" THEN scan.next + 1 ELSE scan.next]
      /\ visited' = [visited EXCEPT !.seen = Append(@, <<found.key, get(found.key)>>)]
      /\ UNCHANGED <<mix, buckets_, capacity, count, zeroTime, wrapped, contents>>

remove_current ==
  /\ scan # NoEntry
  /\ scan.current # NoEntry
  /\ scan' = [scan EXCEPT !.current = NoEntry]
  /\ IF scan.current.kind = "bucket"
     THEN LET closed == Closed(scan.current.at)
          IN  /\ buckets_' = closed.table
              /\ wrapped' = wrapped \o closed.crossed
              /\ count' = count - 1
              /\ contents' = [k \in DOMAIN contents \ {scan.current.key} |-> contents[k]]
              /\ UNCHANGED <<capacity, zeroTime>>
     ELSE IF scan.current.kind = "zero"
     THEN /\ zeroTime' = NoEntry /\ count' = count - 1
          /\ contents' = [k \in DOMAIN contents \ {0} |-> contents[k]]
          /\ UNCHANGED <<buckets_, capacity, wrapped>>
     ELSE remove_key(scan.current.key) /\ UNCHANGED wrapped
  /\ UNCHANGED <<mix, visited>>

finish_scan ==
  /\ scan # NoEntry
  /\ scan.remaining = 0
  /\ scan' = NoEntry
  /\ wrapped' = <<>>
  /\ visited' = [all |-> {}, seen |-> <<>>]
  /\ UNCHANGED <<mix, buckets_, capacity, count, zeroTime, contents>>

IndexInit ==
  /\ mix \in IndexMixes
  /\ buckets_ = [i \in 0 .. InitialCapacity - 1 |-> Empty]
  /\ capacity = InitialCapacity /\ count = 0 /\ zeroTime = NoEntry
  /\ scan = NoEntry /\ wrapped = <<>>
  /\ contents = [k \in {} |-> 0] /\ visited = [all |-> {}, seen |-> <<>>]

IndexNext ==
  \/ \E k \in IndexKeys \cup {0} : \E t \in Times[k] : Overwrite(k, t) \/ Insert(k, t)
  \/ \E k \in IndexKeys \cup {0} : remove_outside(k)
  \/ begin_scan \/ next_entry \/ remove_current \/ finish_scan

-----------------------------------------------------------------------------
(* The table answers as the map its operations describe, through growth,   *)
(* shrinkage and shifts, and a bucket stays free so that every probe ends. *)
(* A scan returns each entry that was there at its start exactly once,     *)
(* with its present time, whatever it removes on the way.                  *)
IndexSound ==
  /\ count = Cardinality(DOMAIN contents)
  /\ \A k \in IndexKeys \cup {0} :
       get(k) = IF k \in DOMAIN contents THEN contents[k] ELSE NoEntry
  /\ \E i \in 0 .. capacity - 1 : buckets_[i].key = 0
  /\ scan # NoEntry =>
       LET keys == [i \in DOMAIN visited.seen |-> visited.seen[i][1]]
       IN  /\ IsInjective(keys)
           /\ ToSet(keys) \subseteq visited.all
           /\ scan.remaining = 0 => ToSet(keys) = visited.all
           /\ \A i \in DOMAIN keys : visited.seen[i][2] # NoEntry
           /\ visited.all \ ToSet(keys) \subseteq DOMAIN contents
=============================================================================
