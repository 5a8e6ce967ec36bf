------------------------------ MODULE TickHeap ------------------------------
(***************************************************************************)
(* The binary heaps of world/ticks/heap.rs (Heap, ScheduledHeap, Revisits) *)
(* behind the tick queues and the ready chunks: push, pop, and removal of  *)
(* all entries of a predicate in the order of the array, with a second     *)
(* visit to entries that a repair moved in front of the cursor.            *)
(*                                                                         *)
(* Places count from 1, so the children of i are 2i and 2i + 1. An entry   *)
(* is its ordering key and a name that tells entries of one key apart.     *)
(***************************************************************************)
EXTENDS Naturals, SequencesExt

CONSTANTS
  HeapEntries, \* [key, name]: ordering keys and names of entries
  HeapLimit    \* the capacity

ASSUME HeapAssumption ==
  HeapLimit \in Nat \ {0} /\ \A e \in HeapEntries : e.key \in Nat

VARIABLE
  values  \* the array of the heap

precedes(a, b) == a.key < b.key

(* The array with the Revisits: place of each ticket, ticket of each place *)
(* (0 for none).                                                           *)
Fresh(s) == [values |-> s, positions |-> <<>>, tickets |-> [i \in 1 .. HeapLimit |-> 0]]

(* Mutant: a swap leaves the tickets with the places.                      *)
SwapValuesOnly(h, a, b) ==
  [h EXCEPT !.values = [@ EXCEPT ![a] = h.values[b], ![b] = h.values[a]]]

(* swap, reported to Revisits::swapped.                                    *)
swap(h, a, b) ==
  LET tickets == [h.tickets EXCEPT ![a] = h.tickets[b], ![b] = h.tickets[a]]
  IN  [values |-> [h.values EXCEPT ![a] = h.values[b], ![b] = h.values[a]],
       tickets |-> tickets,
       positions |-> [t \in DOMAIN h.positions |->
                        IF tickets[a] = t THEN a ELSE IF tickets[b] = t THEN b
                        ELSE h.positions[t]]]

(* raise and lower an entry; both say where it ends.                       *)
RECURSIVE raise(_, _)
raise(h, i) ==
  IF i = 1 \/ ~precedes(h.values[i], h.values[i \div 2]) THEN [heap |-> h, at |-> i]
  ELSE raise(swap(h, i, i \div 2), i \div 2)

RECURSIVE lower(_, _)
lower(h, i) ==
  LET left == 2 * i
      n == Len(h.values)
      child == IF left < n /\ precedes(h.values[left + 1], h.values[left])
               THEN left + 1 ELSE left
  IN  IF left > n \/ ~precedes(h.values[child], h.values[i]) THEN [heap |-> h, at |-> i]
      ELSE lower(swap(h, i, child), child)

(* remove_at: the last entry takes the place and is moved down or up; at   *)
(* is where it lands, 0 when the last entry itself was removed.            *)
remove_at(h, i) ==
  LET last == Len(h.values)
      swapped == swap(h, i, last)
      shorter == [swapped EXCEPT !.values = Front(@)]
      down == lower(shorter, i)
  IN  IF i = last THEN [heap |-> [h EXCEPT !.values = Front(@)], at |-> 0]
      ELSE IF down.at = i THEN raise(down.heap, i) ELSE down

(* Revisits::defer.                                                        *)
defer(h, place) == [h EXCEPT !.positions = Append(@, place),
                             !.tickets[place] = Len(h.positions) + 1]

(* The first loop of remove_if: seen is what the predicate was asked.      *)
RECURSIVE Sweep(_, _, _, _)
Sweep(h, S, cursor, seen) ==
  IF cursor > Len(h.values) THEN [heap |-> h, seen |-> seen]
  ELSE LET entry == h.values[cursor]
           cut == remove_at(h, cursor)
       IN  IF entry \notin S THEN Sweep(h, S, cursor + 1, Append(seen, entry))
           ELSE IF cut.at \in 1 .. cursor - 1
           THEN Sweep(defer(cut.heap, cut.at), S, cursor + 1, Append(seen, entry))
           ELSE Sweep(cut.heap, S, cursor, Append(seen, entry))

(* Its second loop over the tickets; take frees the ticket's place.        *)
RECURSIVE Revisit(_, _, _, _)
Revisit(h, S, ticket, seen) ==
  IF ticket > Len(h.positions) THEN [heap |-> h, seen |-> seen]
  ELSE LET place == h.positions[ticket]
           taken == [h EXCEPT !.tickets[place] = 0]
           entry == h.values[place]
       IN  Revisit(IF entry \in S THEN remove_at(taken, place).heap ELSE taken,
                   S, ticket + 1, Append(seen, entry))

(* What is left when the entries S are removed, and what the predicate was *)
(* asked.                                                                  *)
Removal(s, S) ==
  LET swept == Sweep(Fresh(s), S, 1, <<>>)
      done == Revisit(swept.heap, S, 1, swept.seen)
  IN  [values |-> done.heap.values, seen |-> done.seen]

remove_if(S) == values' = Removal(values, S).values

push(e) ==
  /\ Len(values) < HeapLimit
  /\ values' = raise(Fresh(Append(values, e)), Len(values) + 1).heap.values

pop ==
  /\ values # <<>>
  /\ values' = remove_at(Fresh(values), 1).heap.values

HeapInit == values = <<>>

HeapNext ==
  \/ \E e \in HeapEntries \ ToSet(values) : push(e)
  \/ pop
  \/ \E S \in SUBSET ToSet(values) : remove_if(S)

-----------------------------------------------------------------------------
(* The array is a heap without losing or doubling an entry; a remove_if    *)
(* asks its predicate about every entry exactly once although repairs move *)
(* entries across the cursor, and takes exactly those it accepts.          *)
HeapSound ==
  /\ IsInjective(values)
  /\ \A i \in 2 .. Len(values) : ~precedes(values[i], values[i \div 2])
  /\ \A S \in SUBSET ToSet(values) :
       LET r == Removal(values, S)
       IN  /\ IsInjective(r.seen)
           /\ ToSet(r.seen) = ToSet(values)
           /\ IsInjective(r.values)
           /\ ToSet(r.values) = ToSet(values) \ S
=============================================================================
