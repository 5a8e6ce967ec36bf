--------------------------- MODULE ChunkSelection ---------------------------
(***************************************************************************)
(* How begin_tick picks candidates from the pending table (server/         *)
(* chunk_sender.rs: Least and stable_sort over PendingPositions::stream).  *)
(* The collector keeps up to twice "count" positions and, when that buffer *)
(* is full, partitions it around pivots until the nearest count are in     *)
(* front; the sort is a bottom-up stable merge. Both are pure functions of *)
(* the stream, and are compared here with what they stand for in           *)
(* ChunkSender (Sorted and Nearest) over every table history.              *)
(*                                                                         *)
(* A distance wraps like Java's int, so that it may be any integer.        *)
(* Indices are the code's plus one.                                        *)
(***************************************************************************)
EXTENDS PendingPositions, Integers

CONSTANTS
  Centers,     \* distances of all positions from some centres
  Counts,      \* how many candidates a quota may ask for
  Factors,     \* iteration limits per bit of trim; the code uses 3
  MinDistance  \* i32::MIN

ASSUME SelectionAssumption ==
  /\ Centers \subseteq [Keys \cup {0} -> Int]
  /\ \A dist \in Centers, k \in Keys \cup {0} : MinDistance <= dist[k]
  /\ Counts \subseteq Nat \ {0} /\ Factors \subseteq Nat \ {0}

-----------------------------------------------------------------------------
LeftFirst(l, r, dist) == dist[l] <= dist[r]

RECURSIVE Merge(_, _, _)
Merge(s, t, dist) ==
  IF s = <<>> THEN t
  ELSE IF t = <<>> \/ LeftFirst(Head(s), Head(t), dist)
  THEN <<Head(s)>> \o Merge(Tail(s), t, dist)
  ELSE <<Head(t)>> \o Merge(s, Tail(t), dist)

(* One pass merges neighbouring runs of the given width; widths double.    *)
RECURSIVE SortRuns(_, _, _)
SortRuns(q, width, dist) ==
  LET n == Len(q)
      middle(start) == Min({start + width, n})
      end(start) == Min({middle(start) + width, n})
      starts == [i \in 1..(n + 2 * width - 1) \div (2 * width) |-> (i - 1) * 2 * width]
      merged(start) == Merge(SubSeq(q, start + 1, middle(start)),
                             SubSeq(q, middle(start) + 1, end(start)), dist)
  IN  IF width >= n THEN q
      ELSE SortRuns(FoldLeft(LAMBDA acc, s : acc \o merged(s), <<>>, starts),
                    2 * width, dist)

stable_sort(q, dist) == SortRuns(q, 1, dist)

-----------------------------------------------------------------------------
Swapped(q, i, j) == [q EXCEPT ![i] = q[j], ![j] = q[i]]

(* Move the pivot's smaller entries of q[l..r] in front of it.             *)
Partition(q, l, r, dist) ==
  LET pivot == (l + r + 1) \div 2
      value == q[pivot]
      step(acc, scan) ==
        IF dist[acc.q[scan]] < dist[value]
        THEN [q |-> Swapped(acc.q, scan, acc.boundary), boundary |-> acc.boundary + 1]
        ELSE acc
      done == FoldLeft(step, [q |-> [q EXCEPT ![pivot] = q[r]], boundary |-> l],
                       [i \in 1..r - l |-> l + i - 1])
  IN  [q |-> [done.q EXCEPT ![r] = done.q[done.boundary], ![done.boundary] = value],
       boundary |-> done.boundary]

BitLength(n) == Min({k \in 0..n + 1 : 2^k > n})

SortedPart(q, l, r, dist) ==
  SubSeq(q, 1, l - 1) \o stable_sort(SubSeq(q, l, r), dist) \o SubSeq(q, r + 1, Len(q))

(* Mutant: the iteration limit ends the search without sorting the rest.   *)
GiveUpUnsorted(q, l, r, dist) == q

GiveUp(q, l, r, dist) == SortedPart(q, l, r, dist)

(* The loop of trim: q[l..r] still straddles the first count places; start *)
(* is where the threshold's maximum has to be looked for.                  *)
RECURSIVE TrimLoop(_, _, _, _, _, _, _)
TrimOn(q, l, r, start, left, count, dist) ==
  TrimLoop(IF left = 1 THEN GiveUp(q, l, r, dist) ELSE q, l, r, start, left - 1, count, dist)

TrimAt(p, l, r, start, left, count, dist) ==
  IF p.boundary = count + 1 THEN [q |-> p.q, start |-> start]
  ELSE IF p.boundary > count + 1
  THEN TrimOn(p.q, l, p.boundary - 1, start, left, count, dist)
  ELSE TrimOn(p.q, Max({p.boundary, l + 1}), r, p.boundary, left, count, dist)

TrimLoop(q, l, r, start, left, count, dist) ==
  IF l >= r \/ left = 0 THEN [q |-> q, start |-> start]
  ELSE TrimAt(Partition(q, l, r, dist), l, r, start, left, count, dist)

Kept(done, count, dist) ==
  [values |-> SubSeq(done.q, 1, count),
   threshold |-> Max({dist[done.q[i]] : i \in done.start..count})]

trim(least, count, factor, dist) ==
  LET n == Len(least.values)
  IN  Kept(TrimLoop(least.values, 1, n, 1, Max({1, factor * BitLength(n - 2)}), count, dist),
           count, dist)

offer(least, position, count, factor, dist) ==
  LET value == dist[position]
      more == [least EXCEPT !.values = Append(@, position)]
  IN  IF Len(least.values) < count
      THEN [more EXCEPT !.threshold = Max({@, value})]
      ELSE IF value >= least.threshold THEN least
      ELSE IF Len(more.values) = 2 * count THEN trim(more, count, factor, dist)
      ELSE more

FirstOf(sorted, count) == SubSeq(sorted, 1, Min({Len(sorted), count}))

finish(least, count, dist) == FirstOf(stable_sort(least.values, dist), count)

(* Least::new, every streamed position offered, finish.                    *)
least_of(positions, count, factor, dist) ==
  LET collect(least, p) == offer(least, p, count, factor, dist)
  IN  finish(FoldLeft(collect, [values |-> <<>>, threshold |-> MinDistance], positions),
             count, dist)

-----------------------------------------------------------------------------
(* The full sort, used when everything pending is a candidate, is the      *)
(* stable order of the stream by distance.                                 *)
SortIsStable ==
  \A dist \in Centers :
    LET sorted == stable_sort(stream, dist)
        place(k) == CHOOSE i \in DOMAIN stream : stream[i] = k
    IN  /\ Len(sorted) = Len(stream) /\ ToSet(sorted) = ToSet(stream)
        /\ \A i, j \in DOMAIN sorted : i < j =>
             \/ dist[sorted[i]] < dist[sorted[j]]
             \/ /\ dist[sorted[i]] = dist[sorted[j]]
                /\ place(sorted[i]) < place(sorted[j])

(* With more pending than the quota, the collector hands out exactly count *)
(* different pending positions, in order, none of which is farther than    *)
(* one left out, whatever the partitioning did and wherever it gave up.    *)
SelectionNearest ==
  \A dist \in Centers, count \in Counts, factor \in Factors :
    len > count =>
      LET chosen == least_of(stream, count, factor, dist)
      IN  /\ Len(chosen) = count /\ Cardinality(ToSet(chosen)) = count
          /\ ToSet(chosen) \subseteq ToSet(stream)
          /\ \A i, j \in DOMAIN chosen : i < j => dist[chosen[i]] <= dist[chosen[j]]
          /\ \A i \in DOMAIN chosen, k \in ToSet(stream) \ ToSet(chosen) :
               dist[chosen[i]] <= dist[k]

(* Both ways to pick the positions of a batch, over a table that is whole  *)
(* and shows what it holds after any history.                              *)
SelectionSound == PositionsSound /\ SelectionNearest /\ SortIsStable
=============================================================================
