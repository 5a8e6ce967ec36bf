------------------------ MODULE ScheduledTicksProofs ------------------------
(***************************************************************************)
(* Accounting, order and phases of ScheduledTickOwner, for any chunks,     *)
(* domains, limits, areas and sequence of calls.                           *)
(*                                                                         *)
(* TickInv is inductive. QueuesSound is not: it speaks of the index only   *)
(* between calls, and begin_phase takes entries out of it one at a time.   *)
(* TickInv says where they are meanwhile. Every queue of every chunk is in *)
(* order (QueueInv: counted, in its chunk, its identities those of what it *)
(* holds, and of a clean queue no identity twice). The charged bytes are   *)
(* the sum over chunks and scratch buffers. The index is exact but for the *)
(* entries that begin_phase has taken out (Held). While it drains, every   *)
(* chunk it holds has a due tick, every chunk with one is held as long as  *)
(* there is room, the candidate's tick comes before those of the others,   *)
(* and no tick that is left has its turn before one that was selected      *)
(* (DrainPart). And the books of a phase count the ticks it has still to   *)
(* hand out.                                                               *)
(***************************************************************************)
EXTENDS ScheduledTicks, DataFacts

-----------------------------------------------------------------------------
(* Ticks in order, and heaps as bags of ticks.                             *)

IsHeap(h) == /\ h \in [DOMAIN h -> Nat \ {0}]
             /\ DOMAIN h \subseteq Ticks /\ IsFiniteSet(DOMAIN h)

LEMMA TickKeys ==
  ASSUME NEW t \in Ticks
  PROVE  t.pos \in Int /\ t.type \in Nat /\ t.trigger \in Int /\ t.priority \in Int /\ t.order \in Int
BY DEF Ticks

LEMMA PrecedesOrder ==
  ASSUME NEW t \in Ticks, NEW u \in Ticks, NEW v \in Ticks
  PROVE  /\ ~Precedes(t, t)
         /\ ~Precedes(t, u) /\ ~Precedes(u, v) => ~Precedes(t, v)
         /\ Precedes(t, u) => ~Precedes(u, t)
         /\ ~Precedes(t, u) /\ ~Precedes(u, t)
              => t.trigger = u.trigger /\ t.priority = u.priority /\ t.order = u.order
         /\ ~Precedes(u, t) => t.trigger <= u.trigger
BY TickKeys DEF Precedes

LEMMA EmptyHeap ==
  ASSUME NEW h, IsHeap(h)
  PROVE  h = EmptyBag <=> DOMAIN h = {}
BY DEF IsHeap, EmptyBag, SetToBag

LEMMA NoHeap == IsHeap(EmptyBag) /\ DOMAIN EmptyBag = {}
BY FS_EmptySet DEF IsHeap, EmptyBag, SetToBag

LEMMA PlusHeap ==
  ASSUME NEW h, IsHeap(h), NEW k, IsHeap(k)
  PROVE  /\ IsHeap(h (+) k)
         /\ DOMAIN (h (+) k) = DOMAIN h \cup DOMAIN k
<1>1. DOMAIN (h (+) k) = DOMAIN h \cup DOMAIN k
  BY DEF (+)
<1>2. IsFiniteSet(DOMAIN h \cup DOMAIN k)
  BY FS_Union DEF IsHeap
<1> QED
  BY <1>1, <1>2 DEF (+), IsHeap

LEMMA SetHeap ==
  ASSUME NEW S, S \subseteq Ticks, IsFiniteSet(S)
  PROVE  /\ IsHeap(SetToBag(S)) /\ DOMAIN SetToBag(S) = S
         /\ \A t \in S : SetToBag(S)[t] = 1
         /\ SumFunction(SetToBag(S)) = Cardinality(S)
<1>1. DOMAIN SetToBag(S) = S /\ \A t \in S : SetToBag(S)[t] = 1
  BY DEF SetToBag
<1>2. IsHeap(SetToBag(S))
  BY DEF SetToBag, IsHeap
<1>3. SumFunction(SetToBag(S)) = Cardinality(S)
  <2> DEFINE b == SetToBag(S)
  <2>1. SumFunction(b) = SumFunctionOnSet(b, S)
    BY <1>1 DEF SumFunction
  <2> HIDE DEF b
  <2> QED
    BY <1>1, <2>1, SumOnes DEF b
<1> QED
  BY <1>1, <1>2, <1>3

LEMMA HeapSize ==
  ASSUME NEW h, IsHeap(h)
  PROVE  SumFunction(h) \in Nat
<1>1. \A x \in DOMAIN h : h[x] \in Nat
  BY DEF IsHeap
<1> QED
  BY <1>1, SumNat DEF SumFunction, IsHeap

LEMMA PlusSize ==
  ASSUME NEW h, IsHeap(h), NEW k, IsHeap(k)
  PROVE  /\ SumFunction(h (+) k) = SumFunction(h) + SumFunction(k)
         /\ \A t \in DOMAIN (h (+) k) :
              /\ t \notin DOMAIN k => (h (+) k)[t] = h[t]
              /\ t \notin DOMAIN h => (h (+) k)[t] = k[t]
<1> DEFINE D == DOMAIN h \cup DOMAIN k
           a == [x \in D |-> IF x \in DOMAIN h THEN h[x] ELSE 0]
           b == [x \in D |-> IF x \in DOMAIN k THEN k[x] ELSE 0]
           s == h (+) k
<1>1. DOMAIN s = D /\ IsFiniteSet(D) /\ DOMAIN h \in SUBSET D /\ DOMAIN k \in SUBSET D
  BY PlusHeap DEF IsHeap
<1>2. \A x \in D : a[x] \in Nat /\ b[x] \in Nat /\ s[x] = a[x] + b[x]
  BY DEF IsHeap, (+)
<1>3. /\ \A x \in D : a[x] = IF x \in DOMAIN h THEN h[x] ELSE 0
      /\ \A x \in D : b[x] = IF x \in DOMAIN k THEN k[x] ELSE 0
      /\ \A x \in DOMAIN h : h[x] \in Nat
      /\ \A x \in DOMAIN k : k[x] \in Nat
  BY DEF IsHeap
<1>4. \A t \in D : /\ t \notin DOMAIN k => s[t] = h[t]
                   /\ t \notin DOMAIN h => s[t] = k[t]
  BY <1>3 DEF (+)
<1> HIDE DEF a, b, s, D
<1>5. SumFunctionOnSet(s, D) = SumFunctionOnSet(a, D) + SumFunctionOnSet(b, D)
  BY <1>1, <1>2, SumPlus
<1>6. SumFunctionOnSet(a, D) = SumFunctionOnSet(h, DOMAIN h)
  BY <1>1, <1>3, SumWithin
<1>7. SumFunctionOnSet(b, D) = SumFunctionOnSet(k, DOMAIN k)
  BY <1>1, <1>3, SumWithin
<1>8. SumFunction(s) = SumFunction(h) + SumFunction(k)
  BY <1>1, <1>5, <1>6, <1>7 DEF SumFunction
<1> QED
  BY <1>1, <1>4, <1>8 DEF s

(* What is taken is there.                                                 *)
LEMMA MinusHeap ==
  ASSUME NEW h, IsHeap(h), NEW k, IsHeap(k), DOMAIN k \subseteq DOMAIN h,
         \A t \in DOMAIN k : k[t] <= h[t]
  PROVE  /\ IsHeap(h (-) k)
         /\ DOMAIN (h (-) k) = {t \in DOMAIN h : t \in DOMAIN k => k[t] < h[t]}
         /\ \A t \in DOMAIN (h (-) k) : t \notin DOMAIN k => (h (-) k)[t] = h[t]
         /\ SumFunction(h (-) k) = SumFunction(h) - SumFunction(k)
<1> DEFINE D == DOMAIN h
           m == h (-) k
           M == {t \in DOMAIN h : t \in DOMAIN k => k[t] < h[t]}
           a == [x \in D |-> IF x \in M THEN m[x] ELSE 0]
           b == [x \in D |-> IF x \in DOMAIN k THEN k[x] ELSE 0]
<1>1. /\ \A x \in DOMAIN h : h[x] \in Nat /\ h[x] > 0
      /\ \A x \in DOMAIN k : k[x] \in Nat /\ k[x] > 0
  BY DEF IsHeap
<1>2. DOMAIN m = M
  BY <1>1 DEF (-)
<1>3. \A x \in M : m[x] = IF x \in DOMAIN k THEN h[x] - k[x] ELSE h[x]
  BY <1>1, <1>2 DEF (-)
<1>4. IsHeap(m)
  <2>1. \A x \in M : m[x] \in Nat \ {0}
    BY <1>1, <1>3
  <2>2. IsFiniteSet(M) /\ M \subseteq Ticks
    BY FS_Subset DEF IsHeap
  <2>3. m = [x \in M |-> m[x]]
    BY <1>2 DEF (-)
  <2> HIDE DEF M, m
  <2> QED
    BY <1>2, <2>1, <2>2, <2>3 DEF IsHeap
<1>5. \A x \in D : a[x] \in Nat /\ b[x] \in Nat /\ h[x] = a[x] + b[x]
  <2> SUFFICES ASSUME NEW x \in D PROVE a[x] \in Nat /\ b[x] \in Nat /\ h[x] = a[x] + b[x]
    OBVIOUS
  <2>1. x \in M => m[x] = IF x \in DOMAIN k THEN h[x] - k[x] ELSE h[x]
    BY <1>3
  <2> HIDE DEF m
  <2> QED
    BY <1>1, <2>1
<1>6. IsFiniteSet(D) /\ M \in SUBSET D /\ DOMAIN k \in SUBSET D
  BY DEF IsHeap
<1>7. /\ \A x \in D : a[x] = IF x \in M THEN m[x] ELSE 0
      /\ \A x \in D : b[x] = IF x \in DOMAIN k THEN k[x] ELSE 0
      /\ \A x \in M : m[x] \in Nat
  BY <1>2, <1>4 DEF IsHeap
<1> HIDE DEF a, b, m, M, D
<1>8. SumFunctionOnSet(h, D) = SumFunctionOnSet(a, D) + SumFunctionOnSet(b, D)
  BY <1>5, <1>6, SumPlus
<1>9. SumFunctionOnSet(a, D) = SumFunctionOnSet(m, M)
  BY <1>6, <1>7, SumWithin
<1>10. SumFunctionOnSet(b, D) = SumFunctionOnSet(k, DOMAIN k)
  BY <1>1, <1>6, <1>7, SumWithin
<1>11. SumFunction(m) \in Nat /\ SumFunction(k) \in Nat
  BY <1>4, HeapSize
<1>12. SumFunction(m) = SumFunction(h) - SumFunction(k)
  BY <1>2, <1>8, <1>9, <1>10, <1>11 DEF SumFunction, D
<1> QED
  BY <1>2, <1>3, <1>4, <1>12 DEF m, M

(* A heap that is not empty has a first tick.                              *)
LEMMA HeadsFacts ==
  ASSUME NEW h, IsHeap(h), h # EmptyBag
  PROVE  /\ Heads(h) # {}
         /\ \A t \in Heads(h) : /\ t \in DOMAIN h /\ t \in Ticks
                                /\ \A u \in DOMAIN h : ~Precedes(u, t)
<1> DEFINE D == DOMAIN h
           Upto(t) == {u \in D : ~Precedes(t, u)}
           F == {Upto(t) : t \in D}
<1>1. D # {} /\ IsFiniteSet(D) /\ D \subseteq Ticks
  BY EmptyHeap DEF IsHeap
<1>2. PICK T \in F : \A U \in F : U \subseteq T => U = T
  <2>1. F \in SUBSET SUBSET D /\ F # {}
    BY <1>1
  <2> HIDE DEF D, F
  <2> QED
    BY <1>1, <2>1, Smallest
<1>3. PICK t \in D : T = Upto(t)
  BY <1>2
<1>4. ASSUME NEW u \in D, Precedes(u, t) PROVE FALSE
  <2>1. t \in Ticks /\ u \in Ticks
    BY <1>1
  <2>2. ~Precedes(t, u)
    BY <1>4, <2>1, PrecedesOrder
  <2>3. Upto(u) \subseteq T
    <3> SUFFICES ASSUME NEW v \in D, ~Precedes(u, v) PROVE ~Precedes(t, v)
      BY <1>3
    <3>1. v \in Ticks
      BY <1>1
    <3> QED
      BY <2>1, <2>2, <3>1, PrecedesOrder
  <2>4. t \in Upto(u)
    <3>1. t \in T
      <4>1. ~Precedes(t, t)
        BY <2>1, PrecedesOrder
      <4> QED
        BY <1>3, <4>1
    <3>2. Upto(u) \in F
      OBVIOUS
    <3>3. Upto(u) = T
      BY <1>2, <2>3, <3>2
    <3> QED
      BY <3>1, <3>3
  <2> QED
    BY <1>4, <2>4
<1>5. t \in Heads(h)
  BY <1>3, <1>4 DEF Heads, BagToSet
<1>6. \A x \in Heads(h) : x \in DOMAIN h /\ x \in Ticks /\ \A u \in DOMAIN h : ~Precedes(u, x)
  BY <1>1 DEF Heads, BagToSet
<1> QED
  BY <1>5, <1>6

LEMMA HeadFacts ==
  ASSUME NEW h, IsHeap(h), h # EmptyBag
  PROVE  /\ Head1(h) \in DOMAIN h /\ Head1(h) \in Ticks
         /\ \A u \in DOMAIN h : ~Precedes(u, Head1(h))
         /\ Head1(h) \in Heads(h)
         /\ \A t \in Heads(h) : /\ t \in DOMAIN h /\ t \in Ticks
                                /\ \A u \in DOMAIN h : ~Precedes(u, t)
                                /\ t.trigger = Head1(h).trigger
                                /\ t.priority = Head1(h).priority
                                /\ t.order = Head1(h).order
<1>1. Head1(h) \in Heads(h)
  BY HeadsFacts DEF Head1
<1>2. /\ Head1(h) \in DOMAIN h /\ Head1(h) \in Ticks
      /\ \A u \in DOMAIN h : ~Precedes(u, Head1(h))
  BY <1>1, HeadsFacts
<1>3. ASSUME NEW t \in Heads(h)
      PROVE  /\ t \in DOMAIN h /\ t \in Ticks
             /\ \A u \in DOMAIN h : ~Precedes(u, t)
             /\ t.trigger = Head1(h).trigger
             /\ t.priority = Head1(h).priority
             /\ t.order = Head1(h).order
  <2>1. t \in DOMAIN h /\ t \in Ticks /\ \A u \in DOMAIN h : ~Precedes(u, t)
    BY HeadsFacts
  <2>2. ~Precedes(t, Head1(h)) /\ ~Precedes(Head1(h), t)
    BY <1>2, <2>1
  <2> QED
    BY <1>2, <2>1, <2>2, PrecedesOrder
<1> QED
  BY <1>1, <1>2, <1>3

(* Ticks that are pushed either lead to a new time in the index, or leave  *)
(* the time of the first tick as it was.                                   *)
LEMMA PushedFacts ==
  ASSUME NEW old, IsHeap(old), NEW new, IsHeap(new), DOMAIN old \subseteq DOMAIN new,
         NEW idx, NEW c
  PROVE  \/ /\ Pushed(idx, c, old, new) = Put(idx, c, Head1(new).trigger)
            /\ new # EmptyBag
         \/ /\ Pushed(idx, c, old, new) = idx
            /\ new # EmptyBag <=> old # EmptyBag
            /\ new # EmptyBag => Head1(new).trigger = Head1(old).trigger
<1>1. new = EmptyBag => old = EmptyBag
  BY EmptyHeap
<1>2. CASE new = old
  BY <1>2 DEF Pushed
<1>3. CASE new # old /\ old = EmptyBag
  BY <1>3 DEF Pushed
<1>4. CASE new # old /\ old # EmptyBag /\ Precedes(Head1(new), Head1(old))
  BY <1>1, <1>4 DEF Pushed
<1>5. CASE new # old /\ old # EmptyBag /\ ~Precedes(Head1(new), Head1(old))
  <2>1. Head1(old) \in DOMAIN new /\ Head1(old) \in Ticks
    BY <1>5, HeadFacts
  <2>2. Head1(new) \in Ticks /\ ~Precedes(Head1(old), Head1(new))
    BY <1>1, <1>5, <2>1, HeadFacts
  <2>3. Head1(new).trigger = Head1(old).trigger
    BY <1>5, <2>1, <2>2, PrecedesOrder
  <2> QED
    BY <1>1, <1>5, <2>3 DEF Pushed
<1> QED
  BY <1>2, <1>3, <1>4, <1>5

LEMMA PutFacts ==
  ASSUME NEW f, NEW c, NEW v
  PROVE  /\ DOMAIN Put(f, c, v) = DOMAIN f \cup {c}
         /\ Put(f, c, v)[c] = v
         /\ \A x \in DOMAIN f : x # c => Put(f, c, v)[x] = f[x]
         /\ Put(f, c, v) = [x \in DOMAIN Put(f, c, v) |-> Put(f, c, v)[x]]
BY DEF Put

LEMMA DropFacts ==
  ASSUME NEW f, NEW cs
  PROVE  /\ DOMAIN Drop(f, cs) = DOMAIN f \ cs
         /\ \A x \in DOMAIN f \ cs : Drop(f, cs)[x] = f[x]
         /\ Drop(f, cs) = [x \in DOMAIN Drop(f, cs) |-> Drop(f, cs)[x]]
BY DEF Drop

-----------------------------------------------------------------------------
(* Queues.                                                                 *)

Identities == [pos : Int, type : Nat]
Heaps == {h \in UNION {[S -> Nat \ {0}] : S \in SUBSET Ticks} : IsFiniteSet(DOMAIN h)}
QueueStates == [heap : Heaps, ids : SUBSET Identities, pending : Seq(SavedTicks) \cup {None},
                clean : BOOLEAN]

(* The identities a queue holds, live or saved.                            *)
Queued(q) == {Identity(t) : t \in DOMAIN q.heap}
               \cup {Identity(Pending(q)[i]) : i \in DOMAIN Pending(q)}

(* Without duplicates each tick and entry has an identity of its own.      *)
NoTwice(q) ==
  /\ \A t \in DOMAIN q.heap : q.heap[t] = 1
  /\ \A t, u \in DOMAIN q.heap : Identity(t) = Identity(u) => t = u
  /\ \A i, j \in DOMAIN Pending(q) :
       Identity(Pending(q)[i]) = Identity(Pending(q)[j]) => i = j
  /\ \A t \in DOMAIN q.heap, i \in DOMAIN Pending(q) : Identity(t) # Identity(Pending(q)[i])
  /\ q.ids = Queued(q)

(* What holds of a queue of chunk c.                                       *)
QueueInv(q, c) ==
  /\ q \in QueueStates
  /\ Count(q) <= QueuedPerChunk
  /\ q.ids \subseteq Queued(q)
  /\ q.clean => NoTwice(q)
  /\ \A t \in DOMAIN q.heap : Chunk(t.pos) = c
  /\ \A i \in DOMAIN Pending(q) : Chunk(Pending(q)[i].pos) = c

LEMMA SavedTickParts ==
  \A t \in SavedTicks : /\ t.pos \in Int /\ t.type \in Nat /\ t.delay \in Int
                         /\ t.priority \in -3 .. 3
<1>1. Delays \subseteq Int
  BY TickAssumption DEF Delays
<1>2. \A t \in SavedTicks : t.pos \in Int /\ t.type \in Nat /\ t.delay \in Delays
                              /\ t.priority \in -3 .. 3
  BY DEF SavedTicks
<1> QED
  BY <1>1, <1>2

LEMMA HeapSet == ASSUME NEW h PROVE h \in Heaps <=> IsHeap(h)
<1>1. ASSUME h \in Heaps PROVE IsHeap(h)
  <2>1. PICK S \in SUBSET Ticks : h \in [S -> Nat \ {0}] /\ IsFiniteSet(DOMAIN h)
    BY <1>1 DEF Heaps
  <2>2. DOMAIN h = S
    BY <2>1
  <2> QED
    BY <2>1, <2>2 DEF IsHeap
<1>2. ASSUME IsHeap(h) PROVE h \in Heaps
  <2>1. DOMAIN h \in SUBSET Ticks /\ h \in [DOMAIN h -> Nat \ {0}] /\ IsFiniteSet(DOMAIN h)
    BY <1>2 DEF IsHeap
  <2> QED
    BY <2>1 DEF Heaps
<1> QED
  BY <1>1, <1>2

LEMMA TickNumbers ==
  /\ QueuedPerChunk \in Nat /\ MaxChunks \in Nat /\ SelectedPerPhase \in Nat
  /\ AllocationBytes \in Nat /\ ChunkBytes \in Nat /\ MaxTime \in Nat /\ MaxOrder \in Nat
  /\ ChunkWidth \in Nat /\ ChunkWidth # 0
BY TickAssumption

LEMMA NoneApart ==
  /\ None \notin Int /\ None \notin Domains /\ None \notin Seq(SavedTicks) /\ None \notin Drains
BY TickAssumption

LEMMA QueueParts ==
  ASSUME NEW q \in QueueStates
  PROVE  /\ IsHeap(q.heap) /\ q.ids \subseteq Identities /\ q.clean \in BOOLEAN
         /\ q.pending \in Seq(SavedTicks) \/ q.pending = None
         /\ Pending(q) \in Seq(SavedTicks)
         /\ DOMAIN Pending(q) = 1..Len(Pending(q)) /\ Len(Pending(q)) \in Nat
         /\ SumFunction(q.heap) \in Nat
<1>1. q.heap \in Heaps /\ q.ids \subseteq Identities /\ q.clean \in BOOLEAN
  BY DEF QueueStates
<1>2. q.pending \in Seq(SavedTicks) \/ q.pending = None
  BY DEF QueueStates
<1>3. Pending(q) \in Seq(SavedTicks)
  BY <1>2 DEF Pending
<1>4. IsHeap(q.heap)
  BY <1>1, HeapSet
<1>5. SumFunction(q.heap) \in Nat
  BY <1>4, HeapSize
<1>6. DOMAIN Pending(q) = 1..Len(Pending(q)) /\ Len(Pending(q)) \in Nat
  BY <1>3
<1> QED
  BY <1>1, <1>2, <1>3, <1>4, <1>5, <1>6

LEMMA IdentityFacts ==
  /\ \A t \in Ticks : Identity(t) \in Identities
  /\ \A t \in SavedTicks : Identity(t) \in Identities
BY DEF Identity, Identities, Ticks, SavedTicks

LEMMA NoTwiceCount ==
  ASSUME NEW q \in QueueStates, NoTwice(q)
  PROVE  Count(q) = Cardinality(Queued(q))
<1> DEFINE H == DOMAIN q.heap
           P == Pending(q)
           n == Len(P)
           f == [t \in H |-> Identity(t)]
           g == [i \in 1..n |-> Identity(P[i])]
           A == {f[t] : t \in H}
           B == {g[i] : i \in 1..n}
<1>1. IsFiniteSet(H) /\ DOMAIN P = 1..n /\ n \in Nat
  BY QueueParts DEF IsHeap
<1>2. SumFunction(q.heap) = Cardinality(H)
  BY <1>1, SumOnes DEF SumFunction, NoTwice
<1>3. IsFiniteSet(A) /\ Cardinality(A) = Cardinality(H)
  <2>1. \A x, y \in H : f[x] = f[y] => x = y
    BY DEF NoTwice
  <2> HIDE DEF f, H
  <2> QED
    BY <1>1, <2>1, ImageCount
<1>4. IsFiniteSet(B) /\ Cardinality(B) = n
  <2>1. \A x, y \in 1..n : g[x] = g[y] => x = y
    BY <1>1 DEF NoTwice
  <2> DEFINE S == 1..n
  <2>2. IsFiniteSet(S) /\ Cardinality(S) = n
    BY <1>1, UptoCount
  <2>3. \A x, y \in S : g[x] = g[y] => x = y
    BY <2>1
  <2>4. B = {g[x] : x \in S}
    OBVIOUS
  <2> HIDE DEF g, n, S, B
  <2>5. IsFiniteSet({g[x] : x \in S}) /\ Cardinality({g[x] : x \in S}) = Cardinality(S)
    BY <2>2, <2>3, ImageCount
  <2> QED
    BY <2>2, <2>4, <2>5
<1>5. A \cap B = {}
  <2>1. \A t \in H, i \in 1..n : Identity(t) # Identity(P[i])
    BY <1>1 DEF NoTwice
  <2> HIDE DEF H, P, n
  <2> QED
    BY <2>1
<1>6. Queued(q) = A \cup B
  BY <1>1 DEF Queued
<1>7. Cardinality(A \cup B) = Cardinality(A) + Cardinality(B)
  <2> HIDE DEF A, B
  <2>1. Cardinality(A \cap B) = 0
    BY <1>5, FS_EmptySet
  <2>2. Cardinality(A \cup B) = Cardinality(A) + Cardinality(B) - Cardinality(A \cap B)
    BY <1>3, <1>4, FS_Union
  <2>3. Cardinality(A) \in Nat /\ Cardinality(B) \in Nat
    BY <1>3, <1>4, FS_CardinalityType
  <2> QED
    BY <2>1, <2>2, <2>3
<1> HIDE DEF A, B, H, P
<1> QED
  BY <1>2, <1>3, <1>4, <1>6, <1>7 DEF Count, P, n

LEMMA EmptyQueueInv == ASSUME NEW c PROVE QueueInv(EmptyQueue, c)
<1>1. IsHeap(EmptyBag) /\ DOMAIN EmptyBag = {} /\ SumFunction(EmptyBag) = 0
  BY SetHeap, FS_EmptySet DEF EmptyBag
<1>2. Pending(EmptyQueue) = <<>>
  BY DEF Pending, EmptyQueue
<1>3. EmptyQueue \in QueueStates
  BY <1>1, HeapSet DEF EmptyQueue, QueueStates
<1>4. Count(EmptyQueue) = 0
  BY <1>1, <1>2 DEF Count, EmptyQueue
<1>5. Queued(EmptyQueue) = {} /\ EmptyQueue.ids = {} /\ DOMAIN EmptyQueue.heap = {}
  BY <1>1, <1>2 DEF Queued, EmptyQueue
<1> QED
  BY <1>2, <1>3, <1>4, <1>5, TickNumbers DEF QueueInv, NoTwice

LEMMA LoadedInv ==
  ASSUME NEW c, NEW list \in Seq(SavedTicks), Len(list) <= QueuedPerChunk,
         \A i \in DOMAIN list : Chunk(list[i].pos) = c
  PROVE  QueueInv(LoadedQueue(list), c) /\ Pending(LoadedQueue(list)) = list
<1> DEFINE q == LoadedQueue(list)
           n == Len(list)
           ids == {Identity(list[i]) : i \in DOMAIN list}
           f == [i \in 1..n |-> Identity(list[i])]
<1>1. IsHeap(EmptyBag) /\ DOMAIN EmptyBag = {} /\ SumFunction(EmptyBag) = 0
  BY SetHeap, FS_EmptySet DEF EmptyBag
<1>2. n \in Nat /\ DOMAIN list = 1..n /\ \A i \in 1..n : list[i] \in SavedTicks
  OBVIOUS
<1>3. ids \subseteq Identities
  BY <1>2, IdentityFacts
<1>4. q = [heap |-> EmptyBag, ids |-> ids, pending |-> list, clean |-> Cardinality(ids) = n]
  BY DEF LoadedQueue
<1>5. q \in QueueStates
  <2> HIDE DEF q, ids, n
  <2> QED
    BY <1>1, <1>3, <1>4, HeapSet DEF QueueStates
<1>6. Pending(q) = list
  BY <1>4, NoneApart DEF Pending
<1>7. Count(q) = n
  BY <1>1, <1>2, <1>4, <1>6 DEF Count
<1>8. Queued(q) = ids /\ q.ids = ids /\ DOMAIN q.heap = {}
  <2>1. q.heap = EmptyBag /\ q.ids = ids
    BY <1>4
  <2>2. Queued(q) = {Identity(t) : t \in {}} \cup ids
    BY <1>1, <1>6, <2>1 DEF Queued
  <2> HIDE DEF q, ids
  <2> QED
    BY <1>1, <2>1, <2>2
<1>9. ASSUME q.clean PROVE NoTwice(q)
  <2>1. Cardinality(ids) = n
    <3>1. q.clean = (Cardinality(ids) = n)
      BY <1>4
    <3> HIDE DEF q, ids, n
    <3> QED
      BY <1>9, <3>1
  <2>2. f \in Surjection(1..n, ids)
    BY <1>2 DEF Surjection
  <2>3. IsFiniteSet(1..n) /\ Cardinality(1..n) = n
    BY <1>2, UptoCount
  <2>4. f \in Injection(1..n, ids)
    <3> HIDE DEF f, ids, n
    <3> QED
      BY <2>1, <2>2, <2>3, FS_SurjSameCardinalityImpliesInj
  <2>5. \A i, j \in 1..n : Identity(list[i]) = Identity(list[j]) => i = j
    BY <2>4 DEF Injection, IsInjective
  <2> HIDE DEF q, ids, n, f
  <2> QED
    BY <1>2, <1>6, <1>8, <2>5 DEF NoTwice
<1> HIDE DEF q, ids, n
<1>10. QueueInv(q, c)
  BY <1>5, <1>6, <1>7, <1>8, <1>9 DEF QueueInv, n
<1> QED
  BY <1>6, <1>10 DEF q

(* A saved entry that becomes a live tick keeps its place and identity.    *)
LEMMA LiveFacts ==
  ASSUME NEW list \in Seq(SavedTicks), NEW time \in Int
  PROVE  /\ \A i \in DOMAIN list : /\ Live(list, i, time) \in Ticks
                                   /\ Live(list, i, time).pos = list[i].pos
                                   /\ Identity(Live(list, i, time)) = Identity(list[i])
         /\ \A i, j \in DOMAIN list : Live(list, i, time) = Live(list, j, time) => i = j
         /\ IsHeap(LiveBag(list, time))
         /\ DOMAIN LiveBag(list, time) = {Live(list, i, time) : i \in DOMAIN list}
         /\ \A t \in DOMAIN LiveBag(list, time) : LiveBag(list, time)[t] = 1
         /\ SumFunction(LiveBag(list, time)) = Len(list)
<1> DEFINE n == Len(list)
           S == {Live(list, i, time) : i \in DOMAIN list}
           f == [i \in 1..n |-> Live(list, i, time)]
<1>1. n \in Nat /\ DOMAIN list = 1..n /\ \A i \in 1..n : list[i] \in SavedTicks
  OBVIOUS
<1>2. \A i \in DOMAIN list : /\ Live(list, i, time) \in Ticks
                             /\ Live(list, i, time).pos = list[i].pos
                             /\ Identity(Live(list, i, time)) = Identity(list[i])
  <2> HIDE DEF n
  <2> QED
    BY <1>1, SavedTickParts DEF Live, Ticks, Identity, n
<1>3. \A i, j \in 1..n : Live(list, i, time) = Live(list, j, time) => i = j
  <2>1. \A i \in 1..n : Live(list, i, time).order = i - 1 - n
    BY DEF Live
  <2> HIDE DEF n
  <2> SUFFICES ASSUME NEW i \in 1..n, NEW j \in 1..n, Live(list, i, time) = Live(list, j, time)
               PROVE  i = j
    OBVIOUS
  <2>2. i - 1 - n = j - 1 - n
    BY <2>1
  <2> QED
    BY <1>1, <2>2
<1>4. S \subseteq Ticks
  BY <1>2
<1>5. IsFiniteSet(S) /\ Cardinality(S) = n
  <2> DEFINE K == 1..n
  <2>1. IsFiniteSet(K) /\ Cardinality(K) = n
    BY <1>1, UptoCount
  <2>2. \A x, y \in K : f[x] = f[y] => x = y
    BY <1>3
  <2>3. S = {f[x] : x \in K}
    BY <1>1
  <2> HIDE DEF f, K, S, n
  <2>4. IsFiniteSet({f[x] : x \in K}) /\ Cardinality({f[x] : x \in K}) = Cardinality(K)
    BY <2>1, <2>2, ImageCount
  <2> QED
    BY <2>1, <2>3, <2>4
<1>6. /\ IsHeap(SetToBag(S)) /\ DOMAIN SetToBag(S) = S
      /\ \A t \in S : SetToBag(S)[t] = 1
      /\ SumFunction(SetToBag(S)) = Cardinality(S)
  <2> HIDE DEF S
  <2> QED
    BY <1>4, <1>5, SetHeap
<1> DEFINE L == LiveBag(list, time)
<1>7. L = SetToBag(S)
  BY DEF LiveBag
<1>8. /\ IsHeap(L) /\ DOMAIN L = S
      /\ \A t \in DOMAIN L : L[t] = 1
      /\ SumFunction(L) = n
  <2> HIDE DEF S, L, n
  <2> QED
    BY <1>5, <1>6, <1>7
<1>9. \A i, j \in DOMAIN list : Live(list, i, time) = Live(list, j, time) => i = j
  BY <1>1, <1>3
<1> HIDE DEF L
<1> QED
  BY <1>2, <1>8, <1>9 DEF L

LEMMA UnpackInv ==
  ASSUME NEW c, NEW q, QueueInv(q, c), NEW time \in Int
  PROVE  LET h == q.heap (+) LiveBag(Pending(q), time)
             r == [q EXCEPT !.heap = h, !.pending = None]
         IN  /\ IsHeap(h) /\ DOMAIN q.heap \subseteq DOMAIN h
             /\ QueueInv(r, c) /\ r.heap = h /\ Pending(r) = <<>>
<1> DEFINE P == Pending(q)
           L == LiveBag(P, time)
           h == q.heap (+) L
           r == [q EXCEPT !.heap = h, !.pending = None]
<1>1. q \in QueueStates
  BY DEF QueueInv
<1>2. IsHeap(q.heap) /\ P \in Seq(SavedTicks) /\ q.ids \in SUBSET Identities
  BY <1>1, QueueParts
<1>3. /\ \A i \in DOMAIN P : /\ Live(P, i, time) \in Ticks
                             /\ Live(P, i, time).pos = P[i].pos
                             /\ Identity(Live(P, i, time)) = Identity(P[i])
      /\ IsHeap(L)
      /\ DOMAIN L = {Live(P, i, time) : i \in DOMAIN P}
      /\ \A t \in DOMAIN L : L[t] = 1
      /\ SumFunction(L) = Len(P)
  BY <1>2, LiveFacts
<1>4. IsHeap(h) /\ DOMAIN h = DOMAIN q.heap \cup DOMAIN L
  BY <1>2, <1>3, PlusHeap
<1>5. /\ SumFunction(h) = SumFunction(q.heap) + SumFunction(L)
      /\ \A t \in DOMAIN h : /\ t \notin DOMAIN L => h[t] = q.heap[t]
                             /\ t \notin DOMAIN q.heap => h[t] = L[t]
  BY <1>2, <1>3, PlusSize
<1>6. r \in QueueStates /\ r.heap = h /\ r.ids = q.ids /\ r.pending = None /\ r.clean = q.clean
  <2> HIDE DEF h
  <2>1. h \in Heaps
    BY <1>4, HeapSet
  <2> QED
    BY <1>1, <2>1 DEF QueueStates
<1> HIDE DEF P, L, h, r
<1>7. Pending(r) = <<>>
  BY <1>6 DEF Pending
<1>8. Count(r) = Count(q)
  BY <1>2, <1>3, <1>4, <1>5, <1>6, <1>7, HeapSize DEF Count, P
<1>9. Queued(r) = Queued(q)
  BY <1>3, <1>4, <1>6, <1>7 DEF Queued, P
<1>10. ASSUME NoTwice(q) PROVE NoTwice(r)
  <2>1. \A t \in DOMAIN h :
          \/ t \in DOMAIN q.heap /\ t \notin DOMAIN L /\ h[t] = q.heap[t]
          \/ /\ t \notin DOMAIN q.heap /\ h[t] = 1
             /\ \E i \in DOMAIN P : t = Live(P, i, time) /\ Identity(t) = Identity(P[i])
    <3>1. \A t \in DOMAIN L : \E i \in DOMAIN P : t = Live(P, i, time) /\ Identity(t) = Identity(P[i])
      BY <1>3
    <3>2. \A t \in DOMAIN L : t \notin DOMAIN q.heap
      BY <1>10, <3>1 DEF NoTwice, P
    <3> QED
      BY <1>3, <1>4, <1>5, <3>1, <3>2
  <2>2. \A t \in DOMAIN h : h[t] = 1
    BY <1>10, <2>1 DEF NoTwice
  <2>3. \A t, u \in DOMAIN h : Identity(t) = Identity(u) => t = u
    <3> SUFFICES ASSUME NEW t \in DOMAIN h, NEW u \in DOMAIN h, Identity(t) = Identity(u)
                 PROVE  t = u
      OBVIOUS
    <3>1. CASE t \in DOMAIN q.heap /\ u \in DOMAIN q.heap
      BY <1>10, <3>1 DEF NoTwice
    <3>2. CASE t \notin DOMAIN q.heap /\ u \notin DOMAIN q.heap
      BY <1>10, <2>1, <3>2 DEF NoTwice, P
    <3>3. CASE t \in DOMAIN q.heap /\ u \notin DOMAIN q.heap
      BY <1>10, <2>1, <3>3 DEF NoTwice, P
    <3>4. CASE t \notin DOMAIN q.heap /\ u \in DOMAIN q.heap
      BY <1>10, <2>1, <3>4 DEF NoTwice, P
    <3> QED
      BY <3>1, <3>2, <3>3, <3>4
  <2> QED
    BY <1>6, <1>7, <1>9, <1>10, <2>2, <2>3 DEF NoTwice
<1>11. \A t \in DOMAIN h : Chunk(t.pos) = c
  BY <1>3, <1>4 DEF QueueInv, P
<1>12. QueueInv(r, c)
  BY <1>6, <1>7, <1>8, <1>9, <1>10, <1>11 DEF QueueInv
<1> QED
  BY <1>4, <1>6, <1>7, <1>12 DEF P, L, h, r

(* New ticks of chunk c, each with an identity that is new to the queue.   *)
LEMMA AddedInv ==
  ASSUME NEW c, NEW q, QueueInv(q, c), NEW S, S \subseteq Ticks, IsFiniteSet(S),
         \A t \in S : Chunk(t.pos) = c /\ Identity(t) \notin q.ids,
         \A t, u \in S : Identity(t) = Identity(u) => t = u,
         Count(q) + Cardinality(S) <= QueuedPerChunk
  PROVE  LET r == Added(q, SetToBag(S))
         IN  /\ IsHeap(q.heap) /\ IsHeap(r.heap)
             /\ DOMAIN r.heap = DOMAIN q.heap \cup S
             /\ QueueInv(r, c) /\ Pending(r) = Pending(q)
             /\ S = {} => r.heap = q.heap
<1> DEFINE B == SetToBag(S)
           h == q.heap (+) B
           N == {Identity(t) : t \in S}
           I == q.ids \cup N
           r == Added(q, SetToBag(S))
<1>1. q \in QueueStates
  BY DEF QueueInv
<1>2. /\ IsHeap(q.heap) /\ q.ids \subseteq Identities /\ SumFunction(q.heap) \in Nat
      /\ Len(Pending(q)) \in Nat
  BY <1>1, QueueParts
<1>3. /\ IsHeap(B) /\ DOMAIN B = S /\ \A t \in S : B[t] = 1
      /\ SumFunction(B) = Cardinality(S)
  BY SetHeap
<1>4. IsHeap(h) /\ DOMAIN h = DOMAIN q.heap \cup S
  BY <1>2, <1>3, PlusHeap
<1>5. /\ SumFunction(h) = SumFunction(q.heap) + SumFunction(B)
      /\ \A t \in DOMAIN h : /\ t \notin S => h[t] = q.heap[t]
                             /\ t \notin DOMAIN q.heap => h[t] = B[t]
  BY <1>2, <1>3, PlusSize
<1>6. r = [q EXCEPT !.heap = h, !.ids = I]
  BY <1>3 DEF Added, BagToSet
<1>7. /\ r \in QueueStates /\ r.heap = h /\ r.ids = I /\ r.pending = q.pending
      /\ r.clean = q.clean
  <2>1. h \in Heaps
    BY <1>4, HeapSet
  <2>2. I \in SUBSET Identities
    BY <1>2, IdentityFacts
  <2> HIDE DEF h, I, r
  <2> QED
    BY <1>1, <1>6, <2>1, <2>2 DEF QueueStates
<1>8. S = {} => h = q.heap
  <2>1. S = {} => \A t \in DOMAIN h : h[t] = q.heap[t]
    BY <1>5
  <2>2. h = [t \in DOMAIN h |-> h[t]] /\ q.heap = [t \in DOMAIN q.heap |-> q.heap[t]]
    BY <1>2, <1>4 DEF IsHeap
  <2> HIDE DEF h
  <2> QED
    BY <1>4, <2>1, <2>2
<1> HIDE DEF B, h, N, I, r
<1>9. Pending(r) = Pending(q)
  BY <1>7 DEF Pending
<1>10. Count(r) <= QueuedPerChunk
  <2>1. Count(r) = SumFunction(q.heap) + Cardinality(S) + Len(Pending(q))
    BY <1>3, <1>5, <1>7, <1>9 DEF Count
  <2>2. Count(q) = SumFunction(q.heap) + Len(Pending(q))
    BY DEF Count
  <2>3. Cardinality(S) \in Nat
    BY FS_CardinalityType
  <2> QED
    BY <1>2, <2>1, <2>2, <2>3
<1>11. Queued(r) = Queued(q) \cup N
  BY <1>4, <1>7, <1>9 DEF Queued, N
<1>12. ASSUME NoTwice(q) PROVE NoTwice(r)
  <2>1. \A t \in S : t \notin DOMAIN q.heap /\ Identity(t) \notin Queued(q)
    BY <1>12 DEF NoTwice, Queued
  <2>2. \A t \in DOMAIN h : h[t] = 1
    BY <1>3, <1>4, <1>5, <1>12, <2>1 DEF NoTwice
  <2>3. \A t \in DOMAIN q.heap : Identity(t) \in Queued(q)
    BY DEF Queued
  <2>4. \A t, u \in DOMAIN h : Identity(t) = Identity(u) => t = u
    BY <1>4, <1>12, <2>1, <2>3 DEF NoTwice
  <2>5. \A t \in DOMAIN h, i \in DOMAIN Pending(q) : Identity(t) # Identity(Pending(q)[i])
    BY <1>4, <1>12, <2>1 DEF NoTwice, Queued
  <2> QED
    BY <1>7, <1>9, <1>11, <1>12, <2>2, <2>4, <2>5 DEF NoTwice, I
<1>13. \A t \in DOMAIN h : Chunk(t.pos) = c
  BY <1>4 DEF QueueInv
<1>14. r.ids \subseteq Queued(r)
  BY <1>7, <1>11 DEF I, QueueInv
<1>15. QueueInv(r, c)
  BY <1>7, <1>9, <1>10, <1>12, <1>13, <1>14 DEF QueueInv
<1> QED
  BY <1>2, <1>4, <1>7, <1>8, <1>9, <1>15 DEF r

(* A queue that lost ticks: what is left of its heap.                      *)
Reduced(q, r, c, left) ==
  /\ IsHeap(q.heap) /\ IsHeap(left) /\ DOMAIN left \subseteq DOMAIN q.heap
  /\ QueueInv(r, c) /\ r.heap = left /\ Pending(r) = Pending(q)

(* Ticks that leave a queue take their identities with them.               *)
LEMMA RemovedInv ==
  ASSUME NEW c, NEW q, QueueInv(q, c), NEW k, IsHeap(k), DOMAIN k \subseteq DOMAIN q.heap,
         \A t \in DOMAIN k : k[t] <= q.heap[t]
  PROVE  Reduced(q, Removed(q, k), c, q.heap (-) k)
<1> DEFINE h == q.heap (-) k
           N == {Identity(t) : t \in DOMAIN k}
           I == q.ids \ N
           r == [q EXCEPT !.heap = h, !.ids = I]
<1>1. q \in QueueStates
  BY DEF QueueInv
<1>2. /\ IsHeap(q.heap) /\ q.ids \subseteq Identities /\ SumFunction(q.heap) \in Nat
      /\ Len(Pending(q)) \in Nat
  BY <1>1, QueueParts
<1>3. /\ IsHeap(h)
      /\ DOMAIN h = {t \in DOMAIN q.heap : t \in DOMAIN k => k[t] < q.heap[t]}
      /\ \A t \in DOMAIN h : t \notin DOMAIN k => h[t] = q.heap[t]
      /\ SumFunction(h) = SumFunction(q.heap) - SumFunction(k)
  BY <1>2, MinusHeap
<1>4. /\ r \in QueueStates /\ r.heap = h /\ r.ids = I /\ r.pending = q.pending
      /\ r.clean = q.clean
  <2>1. h \in Heaps
    BY <1>3, HeapSet
  <2>2. I \in SUBSET Identities
    BY <1>2
  <2> HIDE DEF h, I
  <2> QED
    BY <1>1, <2>1, <2>2 DEF QueueStates
<1>5. r = Removed(q, k)
  BY DEF Removed, BagToSet
<1> HIDE DEF h, N, I, r
<1>6. Pending(r) = Pending(q)
  BY <1>4 DEF Pending
<1>7. Count(r) <= Count(q)
  <2>1. Count(r) = SumFunction(q.heap) - SumFunction(k) + Len(Pending(q))
    BY <1>3, <1>4, <1>6 DEF Count
  <2>2. Count(q) = SumFunction(q.heap) + Len(Pending(q))
    BY DEF Count
  <2>3. SumFunction(k) \in Nat
    BY HeapSize
  <2> QED
    BY <1>2, <2>1, <2>2, <2>3
<1>8. Count(r) <= QueuedPerChunk
  <2>1. Count(q) <= QueuedPerChunk /\ Count(q) \in Nat /\ Count(r) \in Nat
    BY <1>2, <1>3, <1>4, <1>6, HeapSize DEF QueueInv, Count
  <2> QED
    BY <1>7, <2>1, TickNumbers
<1>9. I \subseteq Queued(r)
  <2> SUFFICES ASSUME NEW x \in I PROVE x \in Queued(r)
    OBVIOUS
  <2>1. x \in Queued(q) /\ x \notin N
    BY DEF I, QueueInv
  <2>2. \A t \in DOMAIN q.heap : t \notin DOMAIN h => Identity(t) \in N
    BY <1>3 DEF N
  <2> QED
    BY <1>4, <1>6, <2>1, <2>2 DEF Queued
<1>10. ASSUME NoTwice(q) PROVE NoTwice(r)
  <2>1. \A t \in DOMAIN k : k[t] = 1 /\ q.heap[t] = 1
    BY <1>10 DEF NoTwice, IsHeap
  <2>2. DOMAIN h = DOMAIN q.heap \ DOMAIN k
    BY <1>3, <2>1
  <2>3. \A t \in DOMAIN h : h[t] = 1
    BY <1>3, <1>10, <2>2 DEF NoTwice
  <2>4. \A x \in Queued(r) : x \in Queued(q) /\ x \notin N
    BY <1>4, <1>6, <1>10, <2>2 DEF Queued, N, NoTwice
  <2>5. Queued(r) \subseteq I
    BY <1>10, <2>4 DEF NoTwice, I
  <2>6. I = Queued(r)
    BY <1>9, <2>5
  <2> QED
    BY <1>4, <1>6, <1>10, <2>2, <2>3, <2>6 DEF NoTwice
<1>11. \A t \in DOMAIN h : Chunk(t.pos) = c
  BY <1>3 DEF QueueInv
<1>12. QueueInv(r, c)
  BY <1>4, <1>6, <1>8, <1>9, <1>10, <1>11 DEF QueueInv
<1> QED
  BY <1>2, <1>3, <1>4, <1>5, <1>6, <1>12 DEF h, Reduced

-----------------------------------------------------------------------------
(* The inductive invariant.                                                *)

ChunkStates == [registered : BOOLEAN, eligible : BOOLEAN, queue : [Domains -> QueueStates]]
ChunkInv(ch, c) == ch \in ChunkStates /\ \A d \in Domains : QueueInv(ch.queue[d], c)
IsMap(f) == f = [x \in DOMAIN f |-> f[x]]

(* Every present chunk is in order.                                        *)
ChunksInv(m) ==
  /\ IsMap(m) /\ DOMAIN m \subseteq Addresses
  /\ \A c \in DOMAIN m : ChunkInv(m[c], c)

(* The exact scheduling index of a domain, without the chunks of out.      *)
Listed(m, d, out) ==
  {c \in DOMAIN m : m[c].registered /\ c \notin out /\ m[c].queue[d].heap # EmptyBag}
IndexOf(m, d, out) == [c \in Listed(m, d, out) |-> Head1(m[c].queue[d].heap).trigger]

(* The chunks whose entry begin_phase holds.                               *)
Held(dr) == {c \in Addresses : c \in dr.ready \/ c = dr.candidate}
Taken(d) == IF drain # None /\ d = active THEN Held(drain) ELSE {}

(* Bytes of the chunks.                                                    *)
ChunkSum(m) == SumFunction([c \in DOMAIN m |-> Bytes(m[c])])
Buffers == {"ticks", "ids", "counts"}
Scratches == [Buffers -> Nat]

TypedPart ==
  /\ nextOrder \in Nat /\ now \in Nat /\ cursor \in Nat
  /\ active \in Domains \cup {None}
  /\ selected \in Seq(Ticks)
  /\ drain \in Drains \cup {None}
  /\ scratch \in Scratches
BytesPart ==
  /\ allocated = ChunkSum(chunks) + SumFunction(scratch)
  /\ allocated <= AllocationBytes
IndexPart == index = [d \in Domains |-> IndexOf(chunks, d, Taken(d))]

(* The first tick of a chunk; whether it is due in an eligible chunk; and  *)
(* what is left to be selected of each chunk.                              *)
First(m, d, c) == Head1(m[c].queue[d].heap)
Waits(m, d, time, c) ==
  /\ c \in DOMAIN m /\ m[c].registered /\ m[c].eligible
  /\ m[c].queue[d].heap # EmptyBag /\ First(m, d, c).trigger <= time
Left(m, d, time) == [c \in Addresses |-> IF Waits(m, d, time, c) THEN {First(m, d, c)} ELSE {}]

(* What begin_phase holds while it drains.                                 *)
TurnPart(m, d, dr, sel) ==
  dr.candidate # None => /\ Len(sel) < dr.max /\ dr.candidate \notin dr.ready
                         /\ \A e \in dr.ready :
                              ~WithinTick(First(m, d, e), First(m, d, dr.candidate))
Selecting(m, d, time, dr, sel) ==
  /\ Len(sel) <= dr.max
  /\ TurnPart(m, d, dr, sel)
  /\ \A c \in Held(dr) : Waits(m, d, time, c)
  /\ Len(sel) < dr.max => \A c \in Addresses : Waits(m, d, time, c) => c \in Held(dr)
  /\ \A i \in DOMAIN sel : sel[i].trigger <= time
  /\ TakenInOrder(sel, Left(m, d, time))
DrainPart ==
  drain # None => active \in Domains /\ Selecting(chunks, active, now, drain, selected)

IdlePart == active = None => selected = <<>> /\ drain = None

TickInv == /\ TypedPart /\ ChunksInv(chunks) /\ BytesPart /\ IndexPart
           /\ DrainPart /\ IdlePart /\ PhaseBookkeeping

-----------------------------------------------------------------------------
(* Chunks, their bytes and the index.                                      *)

LEMMA ChunkParts ==
  ASSUME NEW m, ChunksInv(m), NEW c \in DOMAIN m
  PROVE  /\ c \in Addresses /\ c \in Int /\ m[c] \in ChunkStates
         /\ m[c].registered \in BOOLEAN /\ m[c].eligible \in BOOLEAN
         /\ m[c].queue \in [Domains -> QueueStates]
         /\ \A d \in Domains : /\ QueueInv(m[c].queue[d], c) /\ m[c].queue[d] \in QueueStates
                               /\ IsHeap(m[c].queue[d].heap)
<1>1. c \in Addresses /\ c \in Int
  BY TickAssumption DEF ChunksInv
<1>2. ChunkInv(m[c], c)
  BY DEF ChunksInv
<1>3. m[c] \in ChunkStates /\ \A d \in Domains : QueueInv(m[c].queue[d], c)
  BY <1>2 DEF ChunkInv
<1>4. /\ m[c].registered \in BOOLEAN /\ m[c].eligible \in BOOLEAN
      /\ m[c].queue \in [Domains -> QueueStates]
  BY <1>3 DEF ChunkStates
<1>5. \A d \in Domains : m[c].queue[d] \in QueueStates
  BY <1>4
<1>6. \A d \in Domains : IsHeap(m[c].queue[d].heap)
  BY <1>5, QueueParts
<1> QED
  BY <1>1, <1>3, <1>4, <1>5, <1>6

LEMMA BytesFacts ==
  ASSUME NEW ch \in ChunkStates
  PROVE  /\ Bytes(ch) \in Nat /\ Bytes(ch) >= ChunkBytes
         /\ (\A d \in Domains : Pending(ch.queue[d]) = <<>>) => Bytes(ch) = ChunkBytes
<1> DEFINE w == [d \in Domains |-> Len(Pending(ch.queue[d]))]
           s == SumFunction(w)
<1>1. \A d \in Domains : ch.queue[d] \in QueueStates
  BY DEF ChunkStates
<1>2. \A d \in Domains : w[d] \in Nat
  BY <1>1, QueueParts
<1>3. IsFiniteSet(Domains) /\ DOMAIN w = Domains
  BY TickAssumption
<1>4. s = SumFunctionOnSet(w, Domains)
  BY <1>3 DEF SumFunction
<1>5. (\A d \in Domains : Pending(ch.queue[d]) = <<>>) => \A d \in Domains : w[d] = 0
  OBVIOUS
<1>6. Bytes(ch) = ChunkBytes + s
  BY DEF Bytes
<1> HIDE DEF w, s
<1>7. s \in Nat
  BY <1>2, <1>3, <1>4, SumNat
<1>8. (\A d \in Domains : Pending(ch.queue[d]) = <<>>) => s = 0
  BY <1>3, <1>4, <1>5, SumZero
<1> QED
  BY <1>6, <1>7, <1>8, TickNumbers

LEMMA BytesSame ==
  ASSUME NEW a, NEW b, \A d \in Domains : Pending(a.queue[d]) = Pending(b.queue[d])
  PROVE  Bytes(a) = Bytes(b)
<1>1. [d \in Domains |-> Len(Pending(a.queue[d]))] = [d \in Domains |-> Len(Pending(b.queue[d]))]
  OBVIOUS
<1> QED
  BY <1>1 DEF Bytes

(* The sum over the chunks, as a sum over a set.                           *)
LEMMA ChunkSumFacts ==
  ASSUME NEW m, ChunksInv(m)
  PROVE  /\ IsFiniteSet(DOMAIN m) /\ ChunkSum(m) \in Nat
         /\ \A w : (\A c \in DOMAIN m : w[c] = Bytes(m[c]))
                     => ChunkSum(m) = SumFunctionOnSet(w, DOMAIN m)
         /\ \A c \in DOMAIN m : Bytes(m[c]) \in Nat
<1>1. IsFiniteSet(DOMAIN m)
  BY TickAssumption, FS_Subset DEF ChunksInv
<1>2. \A c \in DOMAIN m : Bytes(m[c]) \in Nat
  BY ChunkParts, BytesFacts
<1> DEFINE v == [c \in DOMAIN m |-> Bytes(m[c])]
<1>3. ChunkSum(m) = SumFunctionOnSet(v, DOMAIN m)
  BY DEF ChunkSum, SumFunction
<1>4. \A c \in DOMAIN m : v[c] = Bytes(m[c])
  OBVIOUS
<1> HIDE DEF v
<1>5. ChunkSum(m) \in Nat
  BY <1>1, <1>2, <1>3, <1>4, SumNat
<1>6. ASSUME NEW w, \A c \in DOMAIN m : w[c] = Bytes(m[c])
      PROVE  ChunkSum(m) = SumFunctionOnSet(w, DOMAIN m)
  <2>1. \A c \in DOMAIN m : v[c] = w[c]
    BY <1>4, <1>6
  <2> QED
    BY <1>1, <1>3, <2>1, SumSame
<1> QED
  BY <1>1, <1>2, <1>5, <1>6

(* One more chunk.                                                         *)
LEMMA ChunkSumPlus ==
  ASSUME NEW m, ChunksInv(m), NEW n, ChunksInv(n), NEW c, c \notin DOMAIN m,
         DOMAIN n = DOMAIN m \cup {c}, \A x \in DOMAIN m : Bytes(n[x]) = Bytes(m[x])
  PROVE  ChunkSum(n) = ChunkSum(m) + Bytes(n[c])
<1> DEFINE w == [x \in DOMAIN n |-> Bytes(n[x])]
           M == DOMAIN m
           b == Bytes(n[c])
<1>1. \A x \in M \cup {c} : w[x] \in Nat
  BY ChunkSumFacts
<1>2. IsFiniteSet(M)
  BY ChunkSumFacts
<1>3. (\A x \in DOMAIN n : w[x] = Bytes(n[x])) /\ (\A x \in M : w[x] = Bytes(m[x])) /\ w[c] = b
  OBVIOUS
<1> HIDE DEF w, b
<1>4. SumFunctionOnSet(w, M \cup {c}) = w[c] + SumFunctionOnSet(w, M)
  <2> HIDE DEF M
  <2> QED
    BY <1>1, <1>2, c \notin M, SumAdd DEF M
<1>5. ChunkSum(n) = SumFunctionOnSet(w, DOMAIN n)
  BY <1>3, ChunkSumFacts
<1>6. ChunkSum(m) = SumFunctionOnSet(w, M)
  BY <1>3, ChunkSumFacts
<1>7. ChunkSum(m) \in Nat /\ b \in Nat
  BY <1>1, <1>3, ChunkSumFacts
<1> HIDE DEF M
<1>8. DOMAIN n = M \cup {c}
  BY DEF M
<1>9. ChunkSum(n) = ChunkSum(m) + b
  BY <1>3, <1>4, <1>5, <1>6, <1>7, <1>8
<1> QED
  BY <1>9 DEF b

(* The same chunks, one of them with other bytes.                          *)
LEMMA ChunkSumSet ==
  ASSUME NEW m, ChunksInv(m), NEW n, ChunksInv(n), NEW c \in DOMAIN m,
         DOMAIN n = DOMAIN m, \A x \in DOMAIN m : x # c => Bytes(n[x]) = Bytes(m[x])
  PROVE  ChunkSum(n) = ChunkSum(m) - Bytes(m[c]) + Bytes(n[c])
<1> DEFINE w == [x \in DOMAIN n |-> Bytes(n[x])]
           v == [x \in DOMAIN m |-> Bytes(m[x])]
           M == DOMAIN m
           R == M \ {c}
           b == Bytes(n[c])
           a == Bytes(m[c])
<1>1. \A x \in M : w[x] \in Nat /\ v[x] \in Nat
  BY ChunkSumFacts
<1>2. IsFiniteSet(M) /\ IsFiniteSet(R)
  BY ChunkSumFacts, FS_Subset
<1>3. /\ \A x \in DOMAIN n : w[x] = Bytes(n[x])
      /\ \A x \in DOMAIN m : v[x] = Bytes(m[x])
      /\ \A x \in R : w[x] = v[x] /\ v[x] \in Nat
      /\ w[c] = b /\ v[c] = a
  BY <1>1
<1>4. DOMAIN n = M /\ c \in M
  OBVIOUS
<1>5. ChunkSum(n) = SumFunctionOnSet(w, M)
  <2> HIDE DEF w, M
  <2> QED
    BY <1>3, <1>4, ChunkSumFacts
<1>6. ChunkSum(m) = SumFunctionOnSet(v, M)
  <2> HIDE DEF v
  <2> QED
    BY <1>3, ChunkSumFacts
<1> HIDE DEF w, v, a, b, M, R
<1>7. SumFunctionOnSet(w, M) = w[c] + SumFunctionOnSet(w, R)
  BY <1>1, <1>2, <1>4, SumRemove DEF R
<1>8. SumFunctionOnSet(v, M) = v[c] + SumFunctionOnSet(v, R)
  BY <1>1, <1>2, <1>4, SumRemove DEF R
<1>9. SumFunctionOnSet(w, R) = SumFunctionOnSet(v, R)
  BY <1>2, <1>3, SumSame
<1>10. SumFunctionOnSet(v, R) \in Nat
  BY <1>2, <1>3, SumNat
<1>11. a \in Nat /\ b \in Nat
  BY <1>1, <1>3, <1>4
<1>12. ChunkSum(n) = ChunkSum(m) - a + b
  BY <1>3, <1>5, <1>6, <1>7, <1>8, <1>9, <1>10, <1>11
<1> QED
  BY <1>12 DEF a, b

LEMMA ChunkSumSame ==
  ASSUME NEW m, ChunksInv(m), NEW n, ChunksInv(n),
         DOMAIN n = DOMAIN m, \A x \in DOMAIN m : Bytes(n[x]) = Bytes(m[x])
  PROVE  ChunkSum(n) = ChunkSum(m)
<1> DEFINE w == [x \in DOMAIN n |-> Bytes(n[x])]
<1>1. (\A x \in DOMAIN n : w[x] = Bytes(n[x])) /\ (\A x \in DOMAIN m : w[x] = Bytes(m[x]))
  OBVIOUS
<1> HIDE DEF w
<1>2. ChunkSum(n) = SumFunctionOnSet(w, DOMAIN n)
  BY <1>1, ChunkSumFacts
<1>3. ChunkSum(m) = SumFunctionOnSet(w, DOMAIN m)
  BY <1>1, ChunkSumFacts
<1> QED
  BY <1>2, <1>3

(* A map that lists the right chunks at the right times is the index.      *)
LEMMA IndexIs ==
  ASSUME NEW f, NEW m, NEW d, NEW out, IsMap(f), DOMAIN f = Listed(m, d, out),
         \A c \in Listed(m, d, out) : f[c] = Head1(m[c].queue[d].heap).trigger
  PROVE  f = IndexOf(m, d, out)
<1> DEFINE g == IndexOf(m, d, out)
           L == Listed(m, d, out)
<1>1. g = [c \in L |-> g[c]] /\ \A c \in L : g[c] = Head1(m[c].queue[d].heap).trigger
  BY DEF IndexOf
<1> HIDE DEF g, L
<1>2. f = [c \in L |-> f[c]] /\ \A c \in L : f[c] = g[c]
  BY <1>1 DEF IsMap, L
<1> QED
  BY <1>1, <1>2 DEF g

LEMMA IndexFacts ==
  ASSUME NEW m, NEW d, NEW out
  PROVE  /\ IsMap(IndexOf(m, d, out)) /\ DOMAIN IndexOf(m, d, out) = Listed(m, d, out)
         /\ \A c \in Listed(m, d, out) :
              IndexOf(m, d, out)[c] = Head1(m[c].queue[d].heap).trigger
BY DEF IndexOf, IsMap

(* Two states of the chunks that agree on a domain, and on it but for c.   *)
Agree(m, n, d) ==
  /\ DOMAIN m = DOMAIN n
  /\ \A x \in DOMAIN m : /\ n[x].registered = m[x].registered
                         /\ n[x].queue[d].heap = m[x].queue[d].heap
AgreeBut(m, n, d, c) ==
  \A x : x # c =>
    /\ x \in DOMAIN m <=> x \in DOMAIN n
    /\ x \in DOMAIN m => /\ n[x].registered = m[x].registered
                         /\ n[x].queue[d].heap = m[x].queue[d].heap

LEMMA IndexSame ==
  ASSUME NEW m, NEW n, NEW d, NEW out, Agree(m, n, d)
  PROVE  IndexOf(n, d, out) = IndexOf(m, d, out)
<1> DEFINE f == IndexOf(m, d, out)
<1>1. Listed(n, d, out) = Listed(m, d, out)
  BY DEF Listed, Agree
<1>2. IsMap(f) /\ DOMAIN f = Listed(n, d, out)
  BY <1>1, IndexFacts
<1>3. \A c \in Listed(n, d, out) : f[c] = Head1(n[c].queue[d].heap).trigger
  <2> SUFFICES ASSUME NEW c \in Listed(n, d, out)
               PROVE  f[c] = Head1(n[c].queue[d].heap).trigger
    OBVIOUS
  <2>1. f[c] = Head1(m[c].queue[d].heap).trigger
    BY <1>1, IndexFacts
  <2>2. n[c].queue[d].heap = m[c].queue[d].heap
    BY <1>1 DEF Agree, Listed
  <2> QED
    BY <2>1, <2>2
<1> HIDE DEF f
<1>4. f = IndexOf(n, d, out)
  BY <1>2, <1>3, IndexIs
<1> QED
  BY <1>4 DEF f

(* One chunk that has a first tick now.                                    *)
LEMMA IndexPut ==
  ASSUME NEW m, NEW n, NEW d, NEW c, AgreeBut(m, n, d, c), NEW out, NEW rest,
         \A x : x # c => (x \in out <=> x \in rest), c \in Listed(n, d, rest),
         NEW v, v = Head1(n[c].queue[d].heap).trigger
  PROVE  Put(IndexOf(m, d, out), c, v) = IndexOf(n, d, rest)
<1> DEFINE f == IndexOf(m, d, out)
           g == Put(f, c, v)
<1>1. /\ IsMap(f) /\ DOMAIN f = Listed(m, d, out)
      /\ \A x \in Listed(m, d, out) : f[x] = Head1(m[x].queue[d].heap).trigger
  BY IndexFacts
<1> HIDE DEF f
<1>2. /\ DOMAIN g = DOMAIN f \cup {c} /\ IsMap(g)
      /\ g[c] = v
      /\ \A x \in DOMAIN f : x # c => g[x] = f[x]
  BY DEF IsMap, Put
<1>3. \A x : x # c => (x \in Listed(n, d, rest) <=> x \in Listed(m, d, out))
  BY DEF Listed, AgreeBut
<1>4. DOMAIN g = Listed(n, d, rest)
  BY <1>1, <1>2, <1>3
<1> HIDE DEF g
<1>5. \A x \in Listed(n, d, rest) : g[x] = Head1(n[x].queue[d].heap).trigger
  <2> SUFFICES ASSUME NEW x \in Listed(n, d, rest), x # c
               PROVE  g[x] = Head1(n[x].queue[d].heap).trigger
    BY <1>2
  <2>1. x \in Listed(m, d, out)
    BY <1>3
  <2>2. n[x].queue[d].heap = m[x].queue[d].heap
    BY <2>1 DEF Listed, AgreeBut
  <2>3. g[x] = f[x]
    BY <1>1, <1>2, <2>1
  <2> QED
    BY <1>1, <2>1, <2>2, <2>3
<1>6. g = IndexOf(n, d, rest)
  BY <1>2, <1>4, <1>5, IndexIs
<1> QED
  BY <1>6 DEF f, g

(* One chunk that is not listed any more.                                  *)
LEMMA IndexDrop ==
  ASSUME NEW m, NEW n, NEW d, NEW c, AgreeBut(m, n, d, c), NEW out, NEW rest,
         \A x : x # c => (x \in out <=> x \in rest), c \notin Listed(n, d, rest)
  PROVE  Drop(IndexOf(m, d, out), {c}) = IndexOf(n, d, rest)
<1> DEFINE f == IndexOf(m, d, out)
           g == Drop(f, {c})
<1>1. /\ IsMap(f) /\ DOMAIN f = Listed(m, d, out)
      /\ \A x \in Listed(m, d, out) : f[x] = Head1(m[x].queue[d].heap).trigger
  BY IndexFacts
<1> HIDE DEF f
<1>2. /\ DOMAIN g = DOMAIN f \ {c} /\ IsMap(g)
      /\ \A x \in DOMAIN f \ {c} : g[x] = f[x]
  BY DEF IsMap, Drop
<1>3. \A x : x # c => (x \in Listed(n, d, rest) <=> x \in Listed(m, d, out))
  BY DEF Listed, AgreeBut
<1>4. DOMAIN g = Listed(n, d, rest)
  BY <1>1, <1>2, <1>3
<1> HIDE DEF g
<1>5. \A x \in Listed(n, d, rest) : g[x] = Head1(n[x].queue[d].heap).trigger
  <2> SUFFICES ASSUME NEW x \in Listed(n, d, rest)
               PROVE  g[x] = Head1(n[x].queue[d].heap).trigger
    OBVIOUS
  <2>1. x \in Listed(m, d, out) /\ x # c
    BY <1>3
  <2>2. n[x].queue[d].heap = m[x].queue[d].heap
    BY <2>1 DEF Listed, AgreeBut
  <2>3. g[x] = f[x]
    BY <1>1, <1>2, <2>1
  <2> QED
    BY <1>1, <2>1, <2>2, <2>3
<1>6. g = IndexOf(n, d, rest)
  BY <1>2, <1>4, <1>5, IndexIs
<1> QED
  BY <1>6 DEF f, g

(* One chunk that is listed neither before nor after.                      *)
LEMMA IndexKept ==
  ASSUME NEW m, NEW n, NEW d, NEW c, AgreeBut(m, n, d, c), NEW out, NEW rest,
         \A x : x # c => (x \in out <=> x \in rest),
         c \notin Listed(m, d, out), c \notin Listed(n, d, rest)
  PROVE  IndexOf(n, d, rest) = IndexOf(m, d, out)
<1> DEFINE f == IndexOf(m, d, out)
<1>1. Drop(f, {c}) = IndexOf(n, d, rest)
  BY IndexDrop
<1>2. IsMap(f) /\ DOMAIN f = Listed(m, d, out)
  BY IndexFacts
<1> HIDE DEF f
<1>3. Drop(f, {c}) = f
  BY <1>2 DEF Drop, IsMap
<1> QED
  BY <1>1, <1>3 DEF f

(* A registered chunk whose heap grew.                                     *)
LEMMA IndexPushed ==
  ASSUME NEW m, NEW n, NEW d, NEW c \in DOMAIN m, AgreeBut(m, n, d, c), c \in DOMAIN n,
         m[c].registered, n[c].registered,
         IsHeap(m[c].queue[d].heap), IsHeap(n[c].queue[d].heap),
         DOMAIN m[c].queue[d].heap \subseteq DOMAIN n[c].queue[d].heap
  PROVE  Pushed(IndexOf(m, d, {}), c, m[c].queue[d].heap, n[c].queue[d].heap)
           = IndexOf(n, d, {})
<1> DEFINE o == {}
           f == IndexOf(m, d, o)
           old == m[c].queue[d].heap
           new == n[c].queue[d].heap
<1>1. \/ /\ Pushed(f, c, old, new) = Put(f, c, Head1(new).trigger)
         /\ new # EmptyBag
      \/ /\ Pushed(f, c, old, new) = f
         /\ new # EmptyBag <=> old # EmptyBag
         /\ new # EmptyBag => Head1(new).trigger = Head1(old).trigger
  BY PushedFacts
<1>2. c \in Listed(n, d, o) <=> new # EmptyBag
  BY DEF Listed
<1>3. c \in Listed(m, d, o) <=> old # EmptyBag
  BY DEF Listed
<1> HIDE DEF o, old, new
<1> SUFFICES Pushed(f, c, old, new) = IndexOf(n, d, o)
  BY DEF o, old, new
<1>4. CASE Pushed(f, c, old, new) = Put(f, c, Head1(new).trigger) /\ new # EmptyBag
  <2>1. Put(f, c, Head1(new).trigger) = IndexOf(n, d, o)
    <3>1. c \in Listed(n, d, o)
      BY <1>2, <1>4
    <3>2. Head1(new).trigger = Head1(n[c].queue[d].heap).trigger
      BY DEF new
    <3> QED
      BY <3>1, <3>2, IndexPut
  <2> QED
    BY <1>4, <2>1
<1>5. CASE /\ Pushed(f, c, old, new) = f
           /\ new # EmptyBag <=> old # EmptyBag
           /\ new # EmptyBag => Head1(new).trigger = Head1(old).trigger
  <2>1. CASE new = EmptyBag
    <3>1. c \notin Listed(n, d, o) /\ c \notin Listed(m, d, o)
      BY <1>2, <1>3, <1>5, <2>1
    <3>2. IndexOf(m, d, o) = IndexOf(n, d, o)
      BY <3>1, IndexKept
    <3> QED
      BY <1>5, <3>2
  <2>2. CASE new # EmptyBag
    <3>1. Put(f, c, Head1(new).trigger) = IndexOf(n, d, o)
      <4>1. c \in Listed(n, d, o)
        BY <1>2, <2>2
      <4>2. Head1(new).trigger = Head1(n[c].queue[d].heap).trigger
        BY DEF new
      <4> QED
        BY <4>1, <4>2, IndexPut
    <3>2. /\ IsMap(f) /\ c \in DOMAIN f /\ f[c] = Head1(new).trigger
      BY <1>3, <1>5, <2>2, IndexFacts DEF old
    <3> HIDE DEF f
    <3>3. Put(f, c, Head1(new).trigger) = f
      BY <3>2 DEF Put, IsMap
    <3> QED
      BY <1>5, <3>1, <3>3 DEF f
  <2> QED
    BY <2>1, <2>2
<1> QED
  BY <1>1, <1>4, <1>5

(* The chunks n are m with chunk c put in.                                 *)
PutIn(m, n, c, new) ==
  /\ ChunksInv(n) /\ DOMAIN n = DOMAIN m \cup {c} /\ n[c] = new
  /\ \A x \in DOMAIN m : x # c => n[x] = m[x]
  /\ \A d : AgreeBut(m, n, d, c)

LEMMA PutChunk ==
  ASSUME NEW m, ChunksInv(m), NEW c \in Addresses, NEW new, ChunkInv(new, c),
         NEW n, n = Put(m, c, new)
  PROVE  PutIn(m, n, c, new)
<1>1. /\ DOMAIN n = DOMAIN m \cup {c} /\ n[c] = new
      /\ \A x \in DOMAIN m : x # c => n[x] = m[x]
      /\ IsMap(n)
  BY DEF IsMap, Put
<1>2. DOMAIN n \subseteq Addresses
  BY <1>1 DEF ChunksInv
<1>3. \A x \in DOMAIN n : ChunkInv(n[x], x)
  BY <1>1 DEF ChunksInv
<1>4. \A d : AgreeBut(m, n, d, c)
  BY <1>1 DEF AgreeBut
<1> QED
  BY <1>1, <1>2, <1>3, <1>4 DEF ChunksInv, PutIn

LEMMA DropChunk ==
  ASSUME NEW m, ChunksInv(m), NEW c \in DOMAIN m, NEW n, n = Drop(m, {c})
  PROVE  /\ ChunksInv(n) /\ DOMAIN n = DOMAIN m \ {c}
         /\ \A x \in DOMAIN n : n[x] = m[x]
         /\ \A d : AgreeBut(m, n, d, c)
<1>1. /\ DOMAIN n = DOMAIN m \ {c}
      /\ \A x \in DOMAIN n : n[x] = m[x]
      /\ IsMap(n)
  BY DEF IsMap, Drop
<1>2. \A d : AgreeBut(m, n, d, c)
  BY <1>1 DEF AgreeBut
<1> QED
  BY <1>1, <1>2 DEF ChunksInv

-----------------------------------------------------------------------------
(* Steps outside begin_phase.                                              *)

LEMMA BuffersFinite == IsFiniteSet(Buffers)
<1>1. IsFiniteSet({})
  BY FS_EmptySet
<1>2. IsFiniteSet({} \cup {"ticks"})
  BY <1>1, FS_AddElement
<1>3. IsFiniteSet(({} \cup {"ticks"}) \cup {"ids"})
  BY <1>2, FS_AddElement
<1>4. IsFiniteSet((({} \cup {"ticks"}) \cup {"ids"}) \cup {"counts"})
  BY <1>3, FS_AddElement
<1>5. Buffers = (({} \cup {"ticks"}) \cup {"ids"}) \cup {"counts"}
  BY DEF Buffers
<1> QED
  BY <1>4, <1>5

LEMMA ScratchSum ==
  ASSUME NEW s \in Scratches
  PROVE  /\ SumFunction(s) \in Nat /\ DOMAIN s = Buffers
         /\ SumFunction(s) = SumFunctionOnSet(s, Buffers)
<1>1. DOMAIN s = Buffers /\ \A f \in Buffers : s[f] \in Nat
  BY DEF Scratches
<1> QED
  BY <1>1, BuffersFinite, SumNat DEF SumFunction

LEMMA IdleFacts ==
  ASSUME TickInv, drain = None
  PROVE  /\ ChunksInv(chunks) /\ allocated = ChunkSum(chunks) + SumFunction(scratch)
         /\ allocated <= AllocationBytes
         /\ \A d \in Domains : index[d] = IndexOf(chunks, d, {})
         /\ index = [d \in Domains |-> index[d]]
         /\ scratch \in Scratches /\ SumFunction(scratch) \in Nat
         /\ ChunkSum(chunks) \in Nat /\ allocated \in Nat
         /\ nextOrder \in Nat /\ now \in Nat /\ cursor \in Nat
         /\ active \in Domains \cup {None} /\ selected \in Seq(Ticks)
<1>1. /\ ChunksInv(chunks) /\ allocated = ChunkSum(chunks) + SumFunction(scratch)
      /\ allocated <= AllocationBytes /\ scratch \in Scratches
      /\ nextOrder \in Nat /\ now \in Nat /\ cursor \in Nat
      /\ active \in Domains \cup {None} /\ selected \in Seq(Ticks)
  BY DEF TickInv, BytesPart, TypedPart
<1>2. \A d : Taken(d) = {}
  BY DEF Taken
<1>3. /\ \A d \in Domains : index[d] = IndexOf(chunks, d, {})
      /\ index = [d \in Domains |-> index[d]]
  BY <1>2 DEF TickInv, IndexPart
<1>4. SumFunction(scratch) \in Nat
  BY <1>1, ScratchSum
<1>5. ChunkSum(chunks) \in Nat
  BY <1>1, ChunkSumFacts
<1> QED
  BY <1>1, <1>3, <1>4, <1>5

LEMMA IdleStep ==
  ASSUME TickInv, drain = None, UNCHANGED drain,
         ChunksInv(chunks)', BytesPart',
         index' = [d \in Domains |-> IndexOf(chunks', d, {})],
         TypedPart', IdlePart', PhaseBookkeeping'
  PROVE  TickInv'
<1>1. \A d : Taken(d)' = {}
  BY DEF Taken
<1>2. IndexPart'
  BY <1>1 DEF IndexPart
<1>3. DrainPart'
  BY DEF DrainPart
<1> QED
  BY <1>2, <1>3 DEF TickInv

(* A step that leaves the phase alone.                                     *)
LEMMA ContainerStep ==
  ASSUME TickInv, drain = None, UNCHANGED <<phase, drain>>,
         ChunksInv(chunks'),
         allocated' = ChunkSum(chunks') + SumFunction(scratch'), allocated' <= AllocationBytes,
         index' = [d \in Domains |-> IndexOf(chunks', d, {})],
         nextOrder' \in Nat, now' \in Nat, scratch' \in Scratches
  PROVE  TickInv'
<1>1. BytesPart'
  BY DEF BytesPart
<1>2. TypedPart'
  BY DEF TypedPart, TickInv, phase
<1>3. IdlePart'
  BY DEF IdlePart, TickInv, phase
<1>4. PhaseBookkeeping'
  BY DEF PhaseBookkeeping, TickInv, phase
<1>5. ChunksInv(chunks)'
  BY DEF ChunksInv
<1> QED
  BY <1>1, <1>2, <1>3, <1>4, <1>5, IdleStep DEF phase

LEMMA RegisterStep ==
  ASSUME TickInv, NEW c \in Addresses, NEW eligible \in BOOLEAN, register_chunk(c, eligible)
  PROVE  TickInv'
<1> DEFINE known == c \in Present
           fresh == [registered |-> TRUE, eligible |-> eligible,
                     queue |-> [d \in Domains |-> EmptyQueue]]
           new == IF known THEN [chunks[c] EXCEPT !.registered = TRUE, !.eligible = eligible]
                  ELSE fresh
<1>1. /\ drain = None /\ c \notin Registered
      /\ known \/ ChunkBytes <= AllocationBytes - allocated
      /\ chunks' = Put(chunks, c, new)
      /\ index' = [d \in Domains |->
                     IF new.queue[d].heap = EmptyBag THEN index[d]
                     ELSE Put(index[d], c, Head1(new.queue[d].heap).trigger)]
      /\ allocated' = IF known THEN allocated ELSE allocated + ChunkBytes
      /\ UNCHANGED <<nextOrder, phase, drain, scratch, now>>
  BY DEF register_chunk
<1>2. /\ ChunksInv(chunks) /\ allocated = ChunkSum(chunks) + SumFunction(scratch)
      /\ allocated <= AllocationBytes
      /\ \A d \in Domains : index[d] = IndexOf(chunks, d, {})
      /\ scratch \in Scratches /\ SumFunction(scratch) \in Nat
      /\ ChunkSum(chunks) \in Nat /\ allocated \in Nat
      /\ nextOrder \in Nat /\ now \in Nat
  BY <1>1, IdleFacts
<1>3. known => c \in DOMAIN chunks /\ chunks[c] \in ChunkStates
  BY <1>2, ChunkParts DEF Present
<1>4. /\ ChunkInv(fresh, c)
      /\ \A d \in Domains : Pending(fresh.queue[d]) = <<>>
  <2>1. \A d \in Domains : fresh.queue[d] = EmptyQueue
    OBVIOUS
  <2>2. QueueInv(EmptyQueue, c)
    BY EmptyQueueInv
  <2>3. EmptyQueue \in QueueStates
    BY <2>2 DEF QueueInv
  <2>4. fresh \in ChunkStates
    BY <2>3 DEF ChunkStates
  <2>5. Pending(EmptyQueue) = <<>>
    BY DEF Pending, EmptyQueue
  <2> HIDE DEF fresh
  <2> QED
    BY <2>1, <2>2, <2>4, <2>5 DEF ChunkInv
<1>5. /\ new.registered
      /\ known => new.queue = chunks[c].queue
      /\ known => new \in ChunkStates
      /\ ~known => new = fresh
  <2> HIDE DEF known, fresh
  <2> QED
    BY <1>3, <1>4 DEF ChunkStates, fresh
<1> HIDE DEF new, fresh
<1>6. ChunkInv(new, c)
  <2>1. CASE known
    BY <1>2, <1>3, <1>5, <2>1, ChunkParts DEF ChunkInv
  <2>2. CASE ~known
    BY <1>4, <1>5, <2>2
  <2> QED
    BY <2>1, <2>2
<1>7. /\ ChunksInv(chunks') /\ DOMAIN chunks' = DOMAIN chunks \cup {c} /\ chunks'[c] = new
      /\ \A x \in DOMAIN chunks : x # c => chunks'[x] = chunks[x]
      /\ \A d : AgreeBut(chunks, chunks', d, c)
  <2>1. chunks' = Put(chunks, c, new) /\ ChunksInv(chunks)
    BY <1>1, <1>2
  <2>9. PutIn(chunks, chunks', c, new)
    BY <1>6, <2>1, PutChunk
  <2> QED
    BY <2>9 DEF PutIn
<1>8. index' = [d \in Domains |-> IndexOf(chunks', d, {})]
  <2> DEFINE o == {}
  <2>1. ASSUME NEW d \in Domains PROVE index'[d] = IndexOf(chunks', d, o)
    <3> DEFINE h == new.queue[d].heap
    <3>1. c \notin Listed(chunks, d, o)
      BY <1>1 DEF Listed, Registered, Present
    <3>2. c \in Listed(chunks', d, o) <=> h # EmptyBag
      BY <1>5, <1>7 DEF Listed
    <3>3. index[d] = IndexOf(chunks, d, o)
      BY <1>2
    <3>4. index'[d] = IF h = EmptyBag THEN index[d] ELSE Put(index[d], c, Head1(h).trigger)
      BY <1>1
    <3>5. h = chunks'[c].queue[d].heap
      BY <1>7
    <3> HIDE DEF h, o
    <3>6. CASE h = EmptyBag
      <4>1. IndexOf(chunks', d, o) = IndexOf(chunks, d, o)
        BY <1>7, <3>1, <3>2, <3>6, IndexKept
      <4> QED
        BY <3>3, <3>4, <3>6, <4>1
    <3>7. CASE h # EmptyBag
      <4>1. Put(IndexOf(chunks, d, o), c, Head1(h).trigger) = IndexOf(chunks', d, o)
        <5>1. AgreeBut(chunks, chunks', d, c) /\ c \in Listed(chunks', d, o)
          BY <1>7, <3>2, <3>7
        <5>2. Head1(h).trigger = Head1(chunks'[c].queue[d].heap).trigger
          BY <3>5
        <5> QED
          BY <5>1, <5>2, IndexPut
      <4> QED
        BY <3>3, <3>4, <3>7, <4>1
    <3> QED
      BY <3>6, <3>7
  <2>2. index' = [d \in Domains |-> index'[d]]
    BY <1>1
  <2> QED
    BY <2>1, <2>2
<1>9. allocated' = ChunkSum(chunks') + SumFunction(scratch') /\ allocated' <= AllocationBytes
  <2>1. CASE known
    <3>1. DOMAIN chunks' = DOMAIN chunks
      BY <1>3, <1>7, <2>1
    <3>2. Bytes(new) = Bytes(chunks[c])
      BY <1>5, <2>1, BytesSame
    <3>3. \A x \in DOMAIN chunks : Bytes(chunks'[x]) = Bytes(chunks[x])
      BY <1>7, <3>2
    <3>4. ChunkSum(chunks') = ChunkSum(chunks)
      BY <1>2, <1>7, <3>1, <3>3, ChunkSumSame
    <3> QED
      BY <1>1, <1>2, <2>1, <3>4
  <2>2. CASE ~known
    <3>1. Bytes(new) = ChunkBytes
      <4>1. fresh \in ChunkStates
        BY <1>4 DEF ChunkInv
      <4> QED
        BY <1>4, <1>5, <2>2, <4>1, BytesFacts
    <3>2. ChunkSum(chunks') = ChunkSum(chunks) + Bytes(chunks'[c])
      <4>1. c \notin DOMAIN chunks
        BY <2>2 DEF Present
      <4>2. \A x \in DOMAIN chunks : Bytes(chunks'[x]) = Bytes(chunks[x])
        BY <1>7, <4>1
      <4> QED
        BY <1>2, <1>7, <4>1, <4>2, ChunkSumPlus
    <3> QED
      BY <1>1, <1>2, <1>7, <2>2, <3>1, <3>2, TickNumbers
  <2> QED
    BY <2>1, <2>2
<1> QED
  BY <1>1, <1>2, <1>7, <1>8, <1>9, ContainerStep

LEMMA LoadStep ==
  ASSUME TickInv, NEW c \in Addresses, NEW lists \in [Domains -> Seq(SavedTicks)],
         load_pending_chunk(c, lists)
  PROVE  TickInv'
<1> DEFINE inside(d) == {t \in Elements(lists[d]) : Chunk(t.pos) = c}
           kept == [d \in Domains |-> Retain(lists[d], inside(d))]
           new == [registered |-> FALSE, eligible |-> FALSE,
                   queue |-> [d \in Domains |-> LoadedQueue(kept[d])]]
<1>1. /\ drain = None /\ c \notin Present
      /\ \A d \in Domains : Len(kept[d]) <= QueuedPerChunk
      /\ Bytes(new) <= AllocationBytes - allocated
      /\ chunks' = Put(chunks, c, new)
      /\ allocated' = allocated + Bytes(new)
      /\ UNCHANGED <<index, nextOrder, phase, drain, scratch, now>>
  BY DEF load_pending_chunk
<1>2. /\ ChunksInv(chunks) /\ allocated = ChunkSum(chunks) + SumFunction(scratch)
      /\ allocated <= AllocationBytes
      /\ \A d \in Domains : index[d] = IndexOf(chunks, d, {})
      /\ index = [d \in Domains |-> index[d]]
      /\ scratch \in Scratches /\ SumFunction(scratch) \in Nat
      /\ ChunkSum(chunks) \in Nat /\ allocated \in Nat
      /\ nextOrder \in Nat /\ now \in Nat
  BY <1>1, IdleFacts
<1>3. ASSUME NEW d \in Domains PROVE QueueInv(LoadedQueue(kept[d]), c)
  <2> DEFINE p == kept[d]
  <2>1. lists[d] \in Seq(SavedTicks) /\ p = Retain(lists[d], inside(d))
    OBVIOUS
  <2>2. p \in Seq(SavedTicks) /\ Elements(p) = Elements(lists[d]) \cap inside(d)
    <3> HIDE DEF inside, p
    <3> QED
      BY <2>1, RetainFacts
  <2>3. \A i \in DOMAIN p : Chunk(p[i].pos) = c
    <3>1. \A i \in DOMAIN p : p[i] \in Elements(p)
      BY DEF Elements
    <3> HIDE DEF p
    <3> QED
      BY <2>2, <3>1
  <2>4. Len(p) <= QueuedPerChunk
    BY <1>1
  <2> HIDE DEF p
  <2>5. QueueInv(LoadedQueue(p), c)
    BY <2>2, <2>3, <2>4, LoadedInv
  <2> QED
    BY <2>5 DEF p
<1>4. ChunkInv(new, c) /\ ~new.registered
  <2>1. \A d \in Domains : new.queue[d] = LoadedQueue(kept[d])
    OBVIOUS
  <2>2. \A d \in Domains : LoadedQueue(kept[d]) \in QueueStates
    BY <1>3 DEF QueueInv
  <2>3. new \in ChunkStates
    <3> HIDE DEF kept
    <3> QED
      BY <2>2 DEF ChunkStates
  <2>4. ~new.registered
    OBVIOUS
  <2> HIDE DEF new, kept
  <2> QED
    BY <1>3, <2>1, <2>3, <2>4 DEF ChunkInv
<1> HIDE DEF new, kept
<1>5. /\ ChunksInv(chunks') /\ DOMAIN chunks' = DOMAIN chunks \cup {c} /\ chunks'[c] = new
      /\ \A x \in DOMAIN chunks : x # c => chunks'[x] = chunks[x]
      /\ \A d : AgreeBut(chunks, chunks', d, c)
  <2>1. chunks' = Put(chunks, c, new) /\ ChunksInv(chunks)
    BY <1>1, <1>2
  <2>2. ChunkInv(new, c)
    BY <1>4
  <2>9. PutIn(chunks, chunks', c, new)
    BY <2>1, <2>2, PutChunk
  <2> QED
    BY <2>9 DEF PutIn
<1>6. index' = [d \in Domains |-> IndexOf(chunks', d, {})]
  <2> DEFINE o == {}
  <2>1. ASSUME NEW d \in Domains PROVE index[d] = IndexOf(chunks', d, o)
    <3>1. c \notin Listed(chunks, d, o)
      BY <1>1 DEF Listed, Present
    <3>2. c \notin Listed(chunks', d, o)
      BY <1>4, <1>5 DEF Listed
    <3>3. index[d] = IndexOf(chunks, d, o) /\ AgreeBut(chunks, chunks', d, c)
      BY <1>2, <1>5
    <3> HIDE DEF o
    <3>4. IndexOf(chunks', d, o) = IndexOf(chunks, d, o)
      BY <3>1, <3>2, <3>3, IndexKept
    <3> QED
      BY <3>3, <3>4
  <2> QED
    BY <1>1, <1>2, <2>1
<1>7. allocated' = ChunkSum(chunks') + SumFunction(scratch') /\ allocated' <= AllocationBytes
  <2>1. ChunkSum(chunks') = ChunkSum(chunks) + Bytes(chunks'[c])
    <3>1. c \notin DOMAIN chunks
      BY <1>1 DEF Present
    <3>2. \A x \in DOMAIN chunks : Bytes(chunks'[x]) = Bytes(chunks[x])
      BY <1>5, <3>1
    <3> QED
      BY <1>2, <1>5, <3>1, <3>2, ChunkSumPlus
  <2>2. Bytes(new) \in Nat
    BY <1>4, BytesFacts DEF ChunkInv
  <2> QED
    BY <1>1, <1>2, <1>5, <2>1, <2>2, TickNumbers
<1> QED
  BY <1>1, <1>2, <1>5, <1>6, <1>7, ContainerStep

LEMMA EligibleStep ==
  ASSUME TickInv, NEW c \in Addresses, NEW eligible \in BOOLEAN, set_eligible(c, eligible)
  PROVE  TickInv'
<1> DEFINE new == [chunks[c] EXCEPT !.eligible = eligible]
<1>1. /\ drain = None /\ c \in DOMAIN chunks
      /\ chunks' = [chunks EXCEPT ![c].eligible = eligible]
      /\ UNCHANGED <<index, nextOrder, phase, drain, scratch, allocated, now>>
  BY DEF set_eligible, Registered, Present
<1>2. /\ ChunksInv(chunks) /\ allocated = ChunkSum(chunks) + SumFunction(scratch)
      /\ allocated <= AllocationBytes
      /\ \A d \in Domains : index[d] = IndexOf(chunks, d, {})
      /\ index = [d \in Domains |-> index[d]]
      /\ scratch \in Scratches
      /\ nextOrder \in Nat /\ now \in Nat
  BY <1>1, IdleFacts
<1>3. chunks' = Put(chunks, c, new)
  <2>1. IsMap(chunks)
    BY <1>2 DEF ChunksInv
  <2> QED
    BY <1>1, <2>1 DEF Put, IsMap
<1>4. /\ ChunkInv(new, c) /\ new.queue = chunks[c].queue
      /\ new.registered = chunks[c].registered
  <2>1. chunks[c] \in ChunkStates /\ \A d \in Domains : QueueInv(chunks[c].queue[d], c)
    BY <1>1, <1>2, ChunkParts
  <2>2. new \in ChunkStates /\ new.queue = chunks[c].queue
    BY <2>1 DEF ChunkStates
  <2>3. new.registered = chunks[c].registered
    BY <2>1 DEF ChunkStates
  <2> HIDE DEF new
  <2> QED
    BY <2>1, <2>2, <2>3 DEF ChunkInv
<1> HIDE DEF new
<1>5. /\ ChunksInv(chunks') /\ DOMAIN chunks' = DOMAIN chunks \cup {c} /\ chunks'[c] = new
      /\ \A x \in DOMAIN chunks : x # c => chunks'[x] = chunks[x]
  <2>1. ChunksInv(chunks)
    BY <1>2
  <2>2. ChunkInv(new, c)
    BY <1>4
  <2>9. PutIn(chunks, chunks', c, new)
    BY <1>3, <2>1, <2>2, PutChunk
  <2> QED
    BY <2>9 DEF PutIn
<1>6. DOMAIN chunks' = DOMAIN chunks
  BY <1>1, <1>5
<1>7. \A x \in DOMAIN chunks : /\ chunks'[x].queue = chunks[x].queue
                               /\ chunks'[x].registered = chunks[x].registered
  BY <1>4, <1>5
<1>8. index' = [d \in Domains |-> IndexOf(chunks', d, {})]
  <2>1. ASSUME NEW d \in Domains PROVE index[d] = IndexOf(chunks', d, {})
    <3>1. Agree(chunks, chunks', d)
      BY <1>6, <1>7 DEF Agree
    <3>2. IndexOf(chunks', d, {}) = IndexOf(chunks, d, {})
      BY <3>1, IndexSame
    <3> QED
      BY <1>2, <3>2
  <2> QED
    BY <1>1, <1>2, <2>1
<1>9. ChunkSum(chunks') = ChunkSum(chunks)
  <2>1. \A x \in DOMAIN chunks : Bytes(chunks'[x]) = Bytes(chunks[x])
    BY <1>7, BytesSame
  <2> QED
    BY <1>2, <1>5, <1>6, <2>1, ChunkSumSame
<1> QED
  BY <1>1, <1>2, <1>5, <1>8, <1>9, ContainerStep

LEMMA DetachStep ==
  ASSUME TickInv, NEW c \in Addresses, detach_chunk(c)
  PROVE  TickInv'
<1> DEFINE new == [chunks[c] EXCEPT !.registered = FALSE]
<1>1. /\ drain = None /\ c \in DOMAIN chunks
      /\ chunks' = [chunks EXCEPT ![c].registered = FALSE]
      /\ index' = [d \in Domains |-> Drop(index[d], {c})]
      /\ UNCHANGED <<nextOrder, phase, drain, scratch, allocated, now>>
  BY DEF detach_chunk, Registered, Present
<1>2. /\ ChunksInv(chunks) /\ allocated = ChunkSum(chunks) + SumFunction(scratch)
      /\ allocated <= AllocationBytes
      /\ \A d \in Domains : index[d] = IndexOf(chunks, d, {})
      /\ scratch \in Scratches
      /\ nextOrder \in Nat /\ now \in Nat
  BY <1>1, IdleFacts
<1>3. chunks' = Put(chunks, c, new)
  <2>1. IsMap(chunks)
    BY <1>2 DEF ChunksInv
  <2> QED
    BY <1>1, <2>1 DEF Put, IsMap
<1>4. ChunkInv(new, c) /\ new.queue = chunks[c].queue /\ ~new.registered
  <2>1. chunks[c] \in ChunkStates /\ \A d \in Domains : QueueInv(chunks[c].queue[d], c)
    BY <1>1, <1>2, ChunkParts
  <2>2. new \in ChunkStates /\ new.queue = chunks[c].queue /\ ~new.registered
    BY <2>1 DEF ChunkStates
  <2> HIDE DEF new
  <2> QED
    BY <2>1, <2>2 DEF ChunkInv
<1> HIDE DEF new
<1>5. /\ ChunksInv(chunks') /\ DOMAIN chunks' = DOMAIN chunks \cup {c} /\ chunks'[c] = new
      /\ \A x \in DOMAIN chunks : x # c => chunks'[x] = chunks[x]
      /\ \A d : AgreeBut(chunks, chunks', d, c)
  <2>1. ChunksInv(chunks)
    BY <1>2
  <2>2. ChunkInv(new, c)
    BY <1>4
  <2>9. PutIn(chunks, chunks', c, new)
    BY <1>3, <2>1, <2>2, PutChunk
  <2> QED
    BY <2>9 DEF PutIn
<1>6. index' = [d \in Domains |-> IndexOf(chunks', d, {})]
  <2> DEFINE o == {}
  <2>1. ASSUME NEW d \in Domains PROVE Drop(index[d], {c}) = IndexOf(chunks', d, o)
    <3>1. c \notin Listed(chunks', d, o) /\ AgreeBut(chunks, chunks', d, c)
      BY <1>4, <1>5 DEF Listed
    <3>2. index[d] = IndexOf(chunks, d, o)
      BY <1>2
    <3> HIDE DEF o
    <3>3. Drop(IndexOf(chunks, d, o), {c}) = IndexOf(chunks', d, o)
      BY <3>1, IndexDrop
    <3> QED
      BY <3>2, <3>3
  <2> QED
    BY <1>1, <2>1
<1>7. ChunkSum(chunks') = ChunkSum(chunks)
  <2>1. \A x \in DOMAIN chunks : chunks'[x].queue = chunks[x].queue
    BY <1>4, <1>5
  <2>2. \A x \in DOMAIN chunks : Bytes(chunks'[x]) = Bytes(chunks[x])
    BY <2>1, BytesSame
  <2>3. DOMAIN chunks' = DOMAIN chunks
    BY <1>1, <1>5
  <2> QED
    BY <1>2, <1>5, <2>2, <2>3, ChunkSumSame
<1> QED
  BY <1>1, <1>2, <1>5, <1>6, <1>7, ContainerStep

LEMMA DiscardStep ==
  ASSUME TickInv, NEW c \in Addresses, discard_detached_chunk(c)
  PROVE  TickInv'
<1>1. /\ drain = None /\ c \in DOMAIN chunks /\ ~chunks[c].registered
      /\ chunks' = Drop(chunks, {c})
      /\ allocated' = allocated - Bytes(chunks[c])
      /\ UNCHANGED <<index, nextOrder, phase, drain, scratch, now>>
  BY DEF discard_detached_chunk, Registered, Present
<1>2. /\ ChunksInv(chunks) /\ allocated = ChunkSum(chunks) + SumFunction(scratch)
      /\ allocated <= AllocationBytes
      /\ \A d \in Domains : index[d] = IndexOf(chunks, d, {})
      /\ index = [d \in Domains |-> index[d]]
      /\ scratch \in Scratches /\ SumFunction(scratch) \in Nat
      /\ ChunkSum(chunks) \in Nat /\ allocated \in Nat
      /\ nextOrder \in Nat /\ now \in Nat
  BY <1>1, IdleFacts
<1>3. /\ ChunksInv(chunks') /\ DOMAIN chunks' = DOMAIN chunks \ {c}
      /\ \A x \in DOMAIN chunks' : chunks'[x] = chunks[x]
      /\ \A d : AgreeBut(chunks, chunks', d, c)
  <2>1. chunks' = Drop(chunks, {c}) /\ ChunksInv(chunks) /\ c \in DOMAIN chunks
    BY <1>1, <1>2
  <2> QED
    BY <2>1, DropChunk
<1>4. index' = [d \in Domains |-> IndexOf(chunks', d, {})]
  <2> DEFINE o == {}
  <2>1. ASSUME NEW d \in Domains PROVE index[d] = IndexOf(chunks', d, o)
    <3>1. c \notin Listed(chunks, d, o)
      BY <1>1 DEF Listed
    <3>2. c \notin Listed(chunks', d, o)
      BY <1>3 DEF Listed
    <3>3. index[d] = IndexOf(chunks, d, o) /\ AgreeBut(chunks, chunks', d, c)
      BY <1>2, <1>3
    <3> HIDE DEF o
    <3>4. IndexOf(chunks', d, o) = IndexOf(chunks, d, o)
      BY <3>1, <3>2, <3>3, IndexKept
    <3> QED
      BY <3>3, <3>4
  <2> QED
    BY <1>1, <1>2, <2>1
<1>5. ChunkSum(chunks) = ChunkSum(chunks') + Bytes(chunks[c])
  <2>1. c \notin DOMAIN chunks' /\ DOMAIN chunks = DOMAIN chunks' \cup {c}
    BY <1>1, <1>3
  <2>2. \A x \in DOMAIN chunks' : Bytes(chunks[x]) = Bytes(chunks'[x])
    BY <1>3
  <2> QED
    <3>1. ChunksInv(chunks) /\ ChunksInv(chunks')
      BY <1>2, <1>3
    <3> QED
      BY <2>1, <2>2, <3>1, ChunkSumPlus
<1>6. Bytes(chunks[c]) \in Nat /\ ChunkSum(chunks') \in Nat
  BY <1>1, <1>2, <1>3, ChunkSumFacts
<1>7. allocated' = ChunkSum(chunks') + SumFunction(scratch') /\ allocated' <= AllocationBytes
  BY <1>1, <1>2, <1>5, <1>6, TickNumbers
<1> QED
  BY <1>1, <1>2, <1>3, <1>4, <1>7, ContainerStep

LEMMA UnpackStep ==
  ASSUME TickInv, NEW c \in Addresses, unpack_chunk(c)
  PROVE  TickInv'
<1> DEFINE q(d) == chunks[c].queue[d]
           heap(d) == q(d).heap (+) LiveBag(Pending(q(d)), now)
           r(d) == [q(d) EXCEPT !.heap = heap(d), !.pending = None]
           queues == [d \in Domains |-> r(d)]
           new == [chunks[c] EXCEPT !.queue = queues]
<1>1. /\ drain = None /\ c \in DOMAIN chunks
      /\ chunks' = [chunks EXCEPT ![c].queue = queues]
      /\ index' = [d \in Domains |->
                     IF chunks[c].registered THEN Pushed(index[d], c, q(d).heap, heap(d))
                     ELSE index[d]]
      /\ allocated' = allocated - (Bytes(chunks[c]) - ChunkBytes)
      /\ UNCHANGED <<nextOrder, phase, drain, scratch, now>>
  BY DEF unpack_chunk, Present
<1>2. /\ ChunksInv(chunks) /\ allocated = ChunkSum(chunks) + SumFunction(scratch)
      /\ allocated <= AllocationBytes
      /\ \A d \in Domains : index[d] = IndexOf(chunks, d, {})
      /\ scratch \in Scratches /\ SumFunction(scratch) \in Nat
      /\ ChunkSum(chunks) \in Nat /\ allocated \in Nat
      /\ nextOrder \in Nat /\ now \in Nat
  BY <1>1, IdleFacts
<1>3. /\ chunks[c] \in ChunkStates
      /\ \A d \in Domains : QueueInv(q(d), c) /\ IsHeap(q(d).heap)
  BY <1>1, <1>2, ChunkParts
<1>4. \A d \in Domains : /\ IsHeap(heap(d)) /\ DOMAIN q(d).heap \subseteq DOMAIN heap(d)
                         /\ QueueInv(r(d), c) /\ r(d).heap = heap(d) /\ Pending(r(d)) = <<>>
  <2> SUFFICES ASSUME NEW d \in Domains
               PROVE  /\ IsHeap(heap(d)) /\ DOMAIN q(d).heap \subseteq DOMAIN heap(d)
                      /\ QueueInv(r(d), c) /\ r(d).heap = heap(d) /\ Pending(r(d)) = <<>>
    OBVIOUS
  <2>1. QueueInv(q(d), c) /\ now \in Int
    BY <1>2, <1>3
  <2> HIDE DEF q
  <2> QED
    BY <2>1, UnpackInv
<1>5. /\ \A d \in Domains : new.queue[d] = r(d)
      /\ new.registered = chunks[c].registered /\ new \in ChunkStates
  <2>1. \A d \in Domains : r(d) \in QueueStates
    BY <1>4 DEF QueueInv
  <2> HIDE DEF r
  <2>2. queues \in [Domains -> QueueStates] /\ \A d \in Domains : queues[d] = r(d)
    BY <2>1
  <2> HIDE DEF queues
  <2>3. new \in ChunkStates /\ new.queue = queues
    BY <1>3, <2>2 DEF ChunkStates
  <2>4. new.registered = chunks[c].registered
    BY <1>3 DEF ChunkStates
  <2> HIDE DEF new
  <2> QED
    BY <2>2, <2>3, <2>4
<1>6. chunks' = Put(chunks, c, new)
  <2>1. IsMap(chunks)
    BY <1>2 DEF ChunksInv
  <2> HIDE DEF queues
  <2> QED
    BY <1>1, <2>1 DEF Put, IsMap
<1> HIDE DEF new, queues, r, heap, q
<1>7. PutIn(chunks, chunks', c, new)
  <2>1. ChunksInv(chunks)
    BY <1>2
  <2>2. ChunkInv(new, c)
    BY <1>4, <1>5 DEF ChunkInv
  <2> QED
    BY <1>6, <2>1, <2>2, PutChunk
<1>8. /\ ChunksInv(chunks') /\ DOMAIN chunks' = DOMAIN chunks /\ chunks'[c] = new
      /\ \A x \in DOMAIN chunks : x # c => chunks'[x] = chunks[x]
      /\ \A d : AgreeBut(chunks, chunks', d, c)
  BY <1>1, <1>7 DEF PutIn
<1>9. index' = [d \in Domains |-> IndexOf(chunks', d, {})]
  <2> DEFINE o == {}
  <2>1. ASSUME NEW d \in Domains PROVE index'[d] = IndexOf(chunks', d, o)
    <3>1. index[d] = IndexOf(chunks, d, o) /\ AgreeBut(chunks, chunks', d, c)
      BY <1>2, <1>8
    <3>2. chunks'[c].queue[d].heap = heap(d) /\ chunks[c].queue[d].heap = q(d).heap
      BY <1>4, <1>5, <1>8 DEF q
    <3>3. CASE chunks[c].registered
      <4>1. chunks'[c].registered
        BY <1>5, <1>8, <3>3
      <4>2. Pushed(IndexOf(chunks, d, {}), c, chunks[c].queue[d].heap, chunks'[c].queue[d].heap)
              = IndexOf(chunks', d, {})
        <5>1. /\ IsHeap(chunks[c].queue[d].heap) /\ IsHeap(chunks'[c].queue[d].heap)
              /\ DOMAIN chunks[c].queue[d].heap \subseteq DOMAIN chunks'[c].queue[d].heap
          BY <1>3, <1>4, <3>2
        <5>2. c \in DOMAIN chunks /\ c \in DOMAIN chunks'
          BY <1>1, <1>8
        <5> QED
          BY <3>1, <3>3, <4>1, <5>1, <5>2, IndexPushed
      <4>3. index'[d] = Pushed(index[d], c, q(d).heap, heap(d))
        BY <1>1, <3>3
      <4> QED
        BY <3>1, <3>2, <4>2, <4>3
    <3>4. CASE ~chunks[c].registered
      <4>1. c \notin Listed(chunks, d, o) /\ c \notin Listed(chunks', d, o)
        BY <1>5, <1>8, <3>4 DEF Listed
      <4>2. index'[d] = index[d]
        BY <1>1, <3>4
      <4> HIDE DEF o
      <4>3. IndexOf(chunks', d, o) = IndexOf(chunks, d, o)
        BY <3>1, <4>1, IndexKept
      <4> QED
        BY <3>1, <4>2, <4>3
    <3> QED
      BY <3>3, <3>4
  <2>2. index' = [d \in Domains |-> index'[d]]
    BY <1>1
  <2> QED
    BY <2>1, <2>2
<1>10. ChunkSum(chunks') = ChunkSum(chunks) - Bytes(chunks[c]) + Bytes(chunks'[c])
  <2>1. \A x \in DOMAIN chunks : x # c => Bytes(chunks'[x]) = Bytes(chunks[x])
    BY <1>8
  <2> QED
    BY <1>1, <1>2, <1>8, <2>1, ChunkSumSet
<1>11. Bytes(chunks'[c]) = ChunkBytes
  BY <1>4, <1>5, <1>8, BytesFacts
<1>12. Bytes(chunks[c]) \in Nat /\ Bytes(chunks[c]) >= ChunkBytes
  BY <1>3, BytesFacts
<1>13. allocated' = ChunkSum(chunks') + SumFunction(scratch') /\ allocated' <= AllocationBytes
  BY <1>1, <1>2, <1>10, <1>11, <1>12, TickNumbers
<1> QED
  BY <1>1, <1>2, <1>8, <1>9, <1>13, ContainerStep

LEMMA ScheduleStep ==
  ASSUME TickInv, NEW x \in Requests, schedule(x)
  PROVE  TickInv'
<1> DEFINE d == x.domain
           c == Chunk(x.pos)
           t == [pos |-> x.pos, type |-> x.type, trigger |-> now + x.delay,
                 priority |-> x.priority, order |-> nextOrder]
           admitted == /\ c \in Registered
                       /\ Identity(t) \notin chunks[c].queue[d].ids
                       /\ Count(chunks[c].queue[d]) < QueuedPerChunk
           old == chunks[c].queue[d]
           r == Added(old, One(t))
           new == [chunks[c] EXCEPT !.queue[d] = r]
<1>1. /\ drain = None /\ nextOrder' = nextOrder + 1
      /\ \/ admitted /\ schedule_created(d, t)
         \/ ~admitted /\ UNCHANGED <<chunks, index>>
      /\ UNCHANGED <<phase, drain, scratch, allocated, now>>
  BY DEF schedule
<1>2. /\ ChunksInv(chunks) /\ allocated = ChunkSum(chunks) + SumFunction(scratch)
      /\ allocated <= AllocationBytes
      /\ \A e \in Domains : index[e] = IndexOf(chunks, e, {})
      /\ index = [e \in Domains |-> index[e]]
      /\ scratch \in Scratches
      /\ nextOrder \in Nat /\ now \in Nat
  BY <1>1, IdleFacts
<1>3. nextOrder' \in Nat
  BY <1>1, <1>2
<1>4. d \in Domains /\ t \in Ticks /\ t.pos = x.pos
  <2>1. x \in [domain : Domains, pos : Int, type : Types, delay : Delays, priority : -3 .. 3]
    BY TickAssumption
  <2>2. Types \subseteq Nat
    BY TickAssumption
  <2>3. x.delay \in Int
    BY <2>1, TickAssumption DEF Delays
  <2> QED
    BY <1>2, <2>1, <2>2, <2>3 DEF Ticks
<1> HIDE DEF t, d, c
<1>5. CASE ~admitted /\ UNCHANGED <<chunks, index>>
  <2>1. index' = [e \in Domains |-> IndexOf(chunks', e, {})]
    BY <1>2, <1>5
  <2> QED
    BY <1>1, <1>2, <1>3, <1>5, <2>1, ContainerStep
<1>6. CASE admitted /\ schedule_created(d, t)
  <2>1. /\ chunks' = [chunks EXCEPT ![c].queue[d] = r]
        /\ index' = [index EXCEPT ![d] = Pushed(@, c, old.heap, r.heap)]
    BY <1>4, <1>6 DEF schedule_created, c
  <2>2. c \in DOMAIN chunks /\ chunks[c].registered
    BY <1>6 DEF Registered, Present
  <2>3. /\ c \in Addresses /\ chunks[c] \in ChunkStates /\ QueueInv(old, c)
        /\ \A e \in Domains : QueueInv(chunks[c].queue[e], c)
    BY <1>2, <1>4, <2>2, ChunkParts
  <2>4. /\ IsHeap(old.heap) /\ IsHeap(r.heap)
        /\ DOMAIN r.heap = DOMAIN old.heap \cup {t}
        /\ QueueInv(r, c) /\ Pending(r) = Pending(old)
    <3> DEFINE S == {t}
    <3>1. S \subseteq Ticks /\ IsFiniteSet(S) /\ Cardinality(S) = 1
      BY <1>4, FS_Singleton
    <3>2. \A u \in S : Chunk(u.pos) = c /\ Identity(u) \notin old.ids
      BY <1>4, <1>6 DEF c
    <3>3. \A u, v \in S : Identity(u) = Identity(v) => u = v
      OBVIOUS
    <3>4. Count(old) + Cardinality(S) <= QueuedPerChunk
      <4>1. Count(old) \in Nat
        <5>1. old \in QueueStates
          BY <2>3 DEF QueueInv
        <5> QED
          BY <5>1, QueueParts DEF Count
      <4> QED
        BY <1>6, <3>1, <4>1, TickNumbers
    <3>5. r = Added(old, SetToBag(S))
      BY DEF One
    <3> HIDE DEF S, r, old
    <3> QED
      BY <2>3, <3>1, <3>2, <3>3, <3>4, <3>5, AddedInv DEF S
  <2> HIDE DEF r, old, admitted
  <2>5. /\ new \in ChunkStates /\ new.registered = chunks[c].registered
        /\ new.queue[d] = r /\ \A e \in Domains : e # d => new.queue[e] = chunks[c].queue[e]
    <3>1. r \in QueueStates
      BY <2>4 DEF QueueInv
    <3>2. chunks[c].queue \in [Domains -> QueueStates]
      BY <2>3 DEF ChunkStates
    <3>3. new \in ChunkStates /\ new.queue = [chunks[c].queue EXCEPT ![d] = r]
      BY <1>4, <2>3, <3>1, <3>2 DEF ChunkStates
    <3>4. new.registered = chunks[c].registered
      BY <2>3 DEF ChunkStates
    <3> HIDE DEF new
    <3> QED
      BY <1>4, <3>2, <3>3, <3>4
  <2>6. chunks' = Put(chunks, c, new)
    <3>1. IsMap(chunks)
      BY <1>2 DEF ChunksInv
    <3> QED
      BY <2>1, <2>2, <3>1 DEF Put, IsMap
  <2> HIDE DEF new
  <2>7. PutIn(chunks, chunks', c, new)
    <3>1. ChunksInv(chunks)
      BY <1>2
    <3>2. ChunkInv(new, c)
      BY <2>3, <2>4, <2>5 DEF ChunkInv
    <3> QED
      BY <2>3, <2>6, <3>1, <3>2, PutChunk
  <2>8. /\ ChunksInv(chunks') /\ DOMAIN chunks' = DOMAIN chunks /\ chunks'[c] = new
        /\ \A y \in DOMAIN chunks : y # c => chunks'[y] = chunks[y]
        /\ \A e : AgreeBut(chunks, chunks', e, c)
    BY <2>2, <2>7 DEF PutIn
  <2>9. ASSUME NEW e \in Domains PROVE index'[e] = IndexOf(chunks', e, {})
    <3>1. CASE e = d
      <4>1. chunks'[c].queue[d].heap = r.heap /\ chunks[c].queue[d].heap = old.heap
        BY <2>5, <2>8 DEF old
      <4>2. Pushed(IndexOf(chunks, d, {}), c, chunks[c].queue[d].heap, chunks'[c].queue[d].heap)
              = IndexOf(chunks', d, {})
        <5>1. /\ IsHeap(chunks[c].queue[d].heap) /\ IsHeap(chunks'[c].queue[d].heap)
              /\ DOMAIN chunks[c].queue[d].heap \subseteq DOMAIN chunks'[c].queue[d].heap
          BY <2>4, <4>1
        <5>2. c \in DOMAIN chunks' /\ chunks'[c].registered /\ AgreeBut(chunks, chunks', d, c)
          BY <2>2, <2>5, <2>8
        <5> QED
          BY <2>2, <5>1, <5>2, IndexPushed
      <4>3. index'[d] = Pushed(index[d], c, old.heap, r.heap)
        BY <1>2, <1>4, <2>1
      <4> QED
        BY <1>2, <1>4, <3>1, <4>1, <4>2, <4>3
    <3>2. CASE e # d
      <4>1. Agree(chunks, chunks', e)
        BY <2>5, <2>8, <3>2 DEF Agree
      <4>2. IndexOf(chunks', e, {}) = IndexOf(chunks, e, {})
        BY <4>1, IndexSame
      <4>3. index'[e] = index[e]
        BY <1>2, <2>1, <3>2
      <4> QED
        BY <1>2, <4>2, <4>3
    <3> QED
      BY <3>1, <3>2
  <2>10. index' = [e \in Domains |-> IndexOf(chunks', e, {})]
    <3>1. index' = [e \in Domains |-> index'[e]]
      BY <1>2, <2>1
    <3> QED
      BY <2>9, <3>1
  <2>11. ChunkSum(chunks') = ChunkSum(chunks)
    <3>1. \A e \in Domains : Pending(new.queue[e]) = Pending(chunks[c].queue[e])
      BY <2>4, <2>5 DEF old
    <3>2. Bytes(new) = Bytes(chunks[c])
      BY <3>1, BytesSame
    <3>3. \A y \in DOMAIN chunks : Bytes(chunks'[y]) = Bytes(chunks[y])
      BY <2>8, <3>2
    <3> QED
      BY <1>2, <2>8, <3>3, ChunkSumSame
  <2> QED
    BY <1>1, <1>2, <1>3, <2>8, <2>10, <2>11, ContainerStep
<1> QED
  BY <1>1, <1>5, <1>6

(* Scratch that grows is charged for what it gains.                        *)
LEMMA ScratchStep ==
  ASSUME scratch \in Scratches, allocated \in Nat, allocated <= AllocationBytes,
         Cardinality(Present) \in Nat, NEW needed \in Nat, NEW copying \in BOOLEAN,
         ensure_operation_scratch(needed, copying)
  PROVE  /\ scratch' \in Scratches
         /\ allocated' = allocated - SumFunction(scratch) + SumFunction(scratch')
         /\ allocated' <= AllocationBytes
<1> DEFINE count == IF copying THEN Cardinality(Present) ELSE 0
           want == [ticks |-> needed, ids |-> IF copying THEN needed ELSE 0, counts |-> count]
           grown == {f \in DOMAIN want : want[f] > scratch[f]}
           fresh == SumFunctionOnSet(want, grown)
           freed == SumFunctionOnSet(scratch, grown)
<1>1. /\ fresh <= AllocationBytes - allocated
      /\ scratch' = [f \in DOMAIN want |-> IF f \in grown THEN want[f] ELSE scratch[f]]
      /\ allocated' = allocated + fresh - freed
  BY DEF ensure_operation_scratch
<1>2. DOMAIN want = Buffers
  BY DEF Buffers
<1>3. \A f \in Buffers : want[f] \in Nat /\ scratch[f] \in Nat
  BY DEF Buffers, Scratches
<1>4. grown \in SUBSET Buffers /\ IsFiniteSet(grown) /\ IsFiniteSet(Buffers \ grown)
  BY <1>2, BuffersFinite, FS_Subset
<1> HIDE DEF want, grown
<1>5. scratch' \in Scratches
  BY <1>1, <1>2, <1>3 DEF Scratches
<1>6. /\ \A f \in grown : scratch'[f] = want[f]
      /\ \A f \in Buffers \ grown : scratch'[f] = scratch[f]
      /\ \A f \in Buffers : scratch'[f] \in Nat
  BY <1>1, <1>2, <1>3, <1>4
<1> DEFINE S(w) == SumFunctionOnSet(w, Buffers)
           G(w) == SumFunctionOnSet(w, grown)
           R(w) == SumFunctionOnSet(w, Buffers \ grown)
<1>7. S(scratch) = G(scratch) + R(scratch)
  BY <1>3, <1>4, BuffersFinite, SumParts
<1>8. S(scratch') = G(scratch') + R(scratch')
  BY <1>4, <1>6, BuffersFinite, SumParts
<1>9. G(scratch') = fresh
  BY <1>4, <1>6, SumSame
<1>10. R(scratch') = R(scratch)
  BY <1>4, <1>6, SumSame
<1>11. G(scratch) \in Nat /\ R(scratch) \in Nat /\ fresh \in Nat
  BY <1>3, <1>4, SumNat
<1>12. SumFunction(scratch) = S(scratch) /\ SumFunction(scratch') = S(scratch')
  BY <1>5, ScratchSum
<1>13. freed = G(scratch)
  OBVIOUS
<1> HIDE DEF S, G, R, fresh, freed
<1> QED
  BY <1>1, <1>5, <1>7, <1>8, <1>9, <1>10, <1>11, <1>12, <1>13, TickNumbers

LEMMA PackStep ==
  ASSUME TickInv, NEW c \in Addresses, NEW d \in Domains, pack_chunk(c, d)
  PROVE  TickInv'
<1> DEFINE n == SumFunction(chunks[c].queue[d].heap)
<1>1. /\ drain = None /\ c \in DOMAIN chunks
      /\ ensure_operation_scratch(n, FALSE)
      /\ UNCHANGED <<chunks, index, nextOrder, phase, drain, now>>
  BY DEF pack_chunk, Present
<1>2. /\ ChunksInv(chunks) /\ allocated = ChunkSum(chunks) + SumFunction(scratch)
      /\ allocated <= AllocationBytes
      /\ \A e \in Domains : index[e] = IndexOf(chunks, e, {})
      /\ index = [e \in Domains |-> index[e]]
      /\ scratch \in Scratches /\ SumFunction(scratch) \in Nat
      /\ ChunkSum(chunks) \in Nat /\ allocated \in Nat
      /\ nextOrder \in Nat /\ now \in Nat
  BY <1>1, IdleFacts
<1>3. n \in Nat
  BY <1>1, <1>2, ChunkParts, HeapSize
<1>4. Cardinality(Present) \in Nat
  BY <1>2, ChunkSumFacts, FS_CardinalityType DEF Present
<1> HIDE DEF n
<1>5. /\ scratch' \in Scratches
      /\ allocated' = allocated - SumFunction(scratch) + SumFunction(scratch')
      /\ allocated' <= AllocationBytes
  BY <1>1, <1>2, <1>3, <1>4, ScratchStep
<1>6. SumFunction(scratch') \in Nat
  BY <1>5, ScratchSum
<1>7. allocated' = ChunkSum(chunks') + SumFunction(scratch')
  BY <1>1, <1>2, <1>5, <1>6
<1>8. index' = [e \in Domains |-> IndexOf(chunks', e, {})]
  BY <1>1, <1>2
<1> QED
  BY <1>1, <1>2, <1>5, <1>7, <1>8, ContainerStep

LEMMA ReleaseStep ==
  ASSUME TickInv, release_operation_scratch
  PROVE  TickInv'
<1>1. /\ drain = None /\ scratch' = NoScratch
      /\ allocated' = allocated - SumFunction(scratch)
      /\ UNCHANGED <<chunks, index, nextOrder, phase, drain, now>>
  BY DEF release_operation_scratch
<1>2. /\ ChunksInv(chunks) /\ allocated = ChunkSum(chunks) + SumFunction(scratch)
      /\ allocated <= AllocationBytes
      /\ \A e \in Domains : index[e] = IndexOf(chunks, e, {})
      /\ index = [e \in Domains |-> index[e]]
      /\ scratch \in Scratches /\ SumFunction(scratch) \in Nat
      /\ ChunkSum(chunks) \in Nat /\ allocated \in Nat
      /\ nextOrder \in Nat /\ now \in Nat
  BY <1>1, IdleFacts
<1>3. NoScratch \in Scratches /\ SumFunction(NoScratch) = 0
  <2>1. NoScratch \in Scratches /\ \A f \in Buffers : NoScratch[f] = 0
    BY DEF NoScratch, Scratches, Buffers
  <2> QED
    BY <2>1, BuffersFinite, ScratchSum, SumZero
<1>4. allocated' = ChunkSum(chunks') + SumFunction(scratch') /\ allocated' <= AllocationBytes
  BY <1>1, <1>2, <1>3, TickNumbers
<1>5. index' = [e \in Domains |-> IndexOf(chunks', e, {})]
  BY <1>1, <1>2
<1> QED
  BY <1>1, <1>2, <1>3, <1>4, <1>5, ContainerStep

LEMMA ClockStep ==
  ASSUME TickInv, Tick
  PROVE  TickInv'
<1>1. /\ drain = None /\ now' = now + 1
      /\ UNCHANGED <<chunks, index, nextOrder, phase, drain, scratch, allocated>>
  BY DEF Tick
<1>2. /\ ChunksInv(chunks) /\ allocated = ChunkSum(chunks) + SumFunction(scratch)
      /\ allocated <= AllocationBytes
      /\ \A e \in Domains : index[e] = IndexOf(chunks, e, {})
      /\ index = [e \in Domains |-> index[e]]
      /\ scratch \in Scratches
      /\ nextOrder \in Nat /\ now \in Nat
  BY <1>1, IdleFacts
<1>3. index' = [e \in Domains |-> IndexOf(chunks', e, {})]
  BY <1>1, <1>2
<1>4. now' \in Nat
  BY <1>1, <1>2
<1> QED
  BY <1>1, <1>2, <1>3, <1>4, ContainerStep

-----------------------------------------------------------------------------
(* The books of a phase.                                                   *)

(* The ticks of an identity that are still to be handed out, and how many  *)
(* there are of each.                                                      *)
Ahead(sel, cur, x) == {i \in cur + 1 .. Len(sel) : Identity(sel[i]) = x}
Rest(sel, cur) == [x \in {Identity(sel[i]) : i \in cur + 1 .. Len(sel)} |->
                     Cardinality({i \in cur + 1 .. Len(sel) : Identity(sel[i]) = x})]

LEMMA PhaseBooks ==
  PhaseBookkeeping <=> /\ cursor <= Len(selected) /\ remaining = Rest(selected, cursor)
                       /\ selectedIds \subseteq BagToSet(remaining) \cup cleared
BY DEF PhaseBookkeeping, Rest

LEMMA RestFacts ==
  ASSUME NEW sel \in Seq(Ticks), NEW cur \in Nat
  PROVE  /\ IsMap(Rest(sel, cur))
         /\ \A x : /\ IsFiniteSet(Ahead(sel, cur, x)) /\ Cardinality(Ahead(sel, cur, x)) \in Nat
                   /\ x \in DOMAIN Rest(sel, cur) <=> Ahead(sel, cur, x) # {}
                   /\ x \in DOMAIN Rest(sel, cur) <=> Cardinality(Ahead(sel, cur, x)) > 0
                   /\ x \in DOMAIN Rest(sel, cur) =>
                        Rest(sel, cur)[x] = Cardinality(Ahead(sel, cur, x))
<1>1. IsMap(Rest(sel, cur))
  BY DEF IsMap, Rest
<1> SUFFICES ASSUME NEW x
             PROVE  /\ IsFiniteSet(Ahead(sel, cur, x)) /\ Cardinality(Ahead(sel, cur, x)) \in Nat
                    /\ x \in DOMAIN Rest(sel, cur) <=> Ahead(sel, cur, x) # {}
                    /\ x \in DOMAIN Rest(sel, cur) <=> Cardinality(Ahead(sel, cur, x)) > 0
                    /\ x \in DOMAIN Rest(sel, cur) =>
                         Rest(sel, cur)[x] = Cardinality(Ahead(sel, cur, x))
  BY <1>1
<1> DEFINE A == Ahead(sel, cur, x)
           n == Len(sel)
<1>2. n \in Nat
  OBVIOUS
<1>3. A \subseteq 1..n
  BY <1>2 DEF Ahead
<1>4. IsFiniteSet(1..n)
  <2> HIDE DEF n
  <2> QED
    BY <1>2, UptoCount
<1>5. IsFiniteSet(A)
  BY <1>3, <1>4, FS_Subset
<1>6. x \in DOMAIN Rest(sel, cur) <=> A # {}
  BY DEF Rest, Ahead
<1>7. x \in DOMAIN Rest(sel, cur) => Rest(sel, cur)[x] = Cardinality(A)
  BY DEF Rest, Ahead
<1> HIDE DEF A
<1>8. Cardinality(A) \in Nat /\ (A # {} <=> Cardinality(A) > 0)
  <2>1. Cardinality(A) \in Nat /\ (Cardinality(A) = 0 <=> A = {})
    BY <1>5, FS_CardinalityType, FS_EmptySet
  <2> QED
    BY <2>1
<1> QED
  BY <1>5, <1>6, <1>7, <1>8 DEF A

(* A map of positive counts is the rest of the phase.                      *)
LEMMA RestIs ==
  ASSUME NEW sel \in Seq(Ticks), NEW cur \in Nat, NEW f, IsMap(f),
         \A x : x \in DOMAIN f <=> Cardinality(Ahead(sel, cur, x)) > 0,
         \A x \in DOMAIN f : f[x] = Cardinality(Ahead(sel, cur, x))
  PROVE  f = Rest(sel, cur)
<1> DEFINE g == Rest(sel, cur)
<1>1. IsMap(g) /\ \A x : /\ x \in DOMAIN g <=> Cardinality(Ahead(sel, cur, x)) > 0
                         /\ x \in DOMAIN g => g[x] = Cardinality(Ahead(sel, cur, x))
  BY RestFacts
<1> HIDE DEF g
<1>2. DOMAIN f = DOMAIN g /\ \A x \in DOMAIN f : f[x] = g[x]
  BY <1>1
<1>3. f = g
  BY <1>1, <1>2 DEF IsMap
<1> QED
  BY <1>3 DEF g

LEMMA RestAppend ==
  ASSUME NEW sel \in Seq(Ticks), NEW cur \in Nat, cur <= Len(sel), NEW t \in Ticks
  PROVE  Rest(sel, cur) (+) One(Identity(t)) = Rest(Append(sel, t), cur)
<1> DEFINE s == Append(sel, t)
           y == Identity(t)
           n == Len(sel)
           R == Rest(sel, cur)
           f == R (+) One(y)
<1>1. /\ n \in Nat /\ s \in Seq(Ticks) /\ Len(s) = n + 1 /\ s[n + 1] = t
      /\ \A i \in 1..n : s[i] = sel[i]
  OBVIOUS
<1>2. ASSUME NEW x
      PROVE  Cardinality(Ahead(s, cur, x)) = Cardinality(Ahead(sel, cur, x)) + (IF x = y THEN 1 ELSE 0)
  <2>1. CASE x = y
    <3>1. Ahead(s, cur, x) = Ahead(sel, cur, x) \cup {n + 1}
      <4> HIDE DEF s, n
      <4> QED
        BY <1>1, <2>1 DEF Ahead, n
    <3>2. n + 1 \notin Ahead(sel, cur, x)
      BY <1>1 DEF Ahead
    <3>3. IsFiniteSet(Ahead(sel, cur, x))
      BY RestFacts
    <3> HIDE DEF n
    <3>4. Cardinality(Ahead(sel, cur, x) \cup {n + 1}) = Cardinality(Ahead(sel, cur, x)) + 1
      <4> DEFINE A == Ahead(sel, cur, x)
                 k == n + 1
      <4>1. IsFiniteSet(A) /\ k \notin A
        BY <3>2, <3>3
      <4> HIDE DEF A, k
      <4>2. Cardinality(A \cup {k}) = Cardinality(A) + 1
        BY <4>1, CountOne
      <4> QED
        BY <4>2 DEF A, k
    <3> QED
      BY <2>1, <3>1, <3>4
  <2>2. CASE x # y
    <3>1. Ahead(s, cur, x) = Ahead(sel, cur, x)
      <4> HIDE DEF s, n
      <4> QED
        BY <1>1, <2>2 DEF Ahead, n
    <3>2. Cardinality(Ahead(sel, cur, x)) \in Nat
      BY RestFacts
    <3> QED
      BY <2>2, <3>1, <3>2
  <2> QED
    BY <2>1, <2>2
<1>3. \A x : /\ Cardinality(Ahead(sel, cur, x)) \in Nat
             /\ x \in DOMAIN R <=> Cardinality(Ahead(sel, cur, x)) > 0
             /\ x \in DOMAIN R => R[x] = Cardinality(Ahead(sel, cur, x))
  BY RestFacts
<1>4. IsMap(f) /\ DOMAIN f = DOMAIN R \cup {y}
      /\ \A x \in DOMAIN f : f[x] = (IF x \in DOMAIN R THEN R[x] ELSE 0) + (IF x = y THEN 1 ELSE 0)
  <2> HIDE DEF R, y
  <2> QED
    BY DEF (+), One, SetToBag, IsMap
<1> HIDE DEF s, y, R, f
<1>5. \A x : x \in DOMAIN f <=> Cardinality(Ahead(s, cur, x)) > 0
  <2> SUFFICES ASSUME NEW x PROVE x \in DOMAIN f <=> Cardinality(Ahead(s, cur, x)) > 0
    OBVIOUS
  <2> DEFINE a == Cardinality(Ahead(sel, cur, x))
             b == Cardinality(Ahead(s, cur, x))
  <2>1. b = a + (IF x = y THEN 1 ELSE 0) /\ a \in Nat /\ (x \in DOMAIN R <=> a > 0)
    BY <1>2, <1>3
  <2> HIDE DEF a, b
  <2>2. x \in DOMAIN f <=> b > 0
    BY <1>4, <2>1
  <2> QED
    BY <2>2 DEF b
<1>6. \A x \in DOMAIN f : f[x] = Cardinality(Ahead(s, cur, x))
  <2> SUFFICES ASSUME NEW x \in DOMAIN f PROVE f[x] = Cardinality(Ahead(s, cur, x))
    OBVIOUS
  <2> DEFINE a == Cardinality(Ahead(sel, cur, x))
             b == Cardinality(Ahead(s, cur, x))
  <2>1. /\ b = a + (IF x = y THEN 1 ELSE 0) /\ a \in Nat /\ (x \in DOMAIN R <=> a > 0)
        /\ x \in DOMAIN R => R[x] = a
    BY <1>2, <1>3
  <2> HIDE DEF a, b
  <2>2. f[x] = b
    BY <1>4, <2>1
  <2> QED
    BY <2>2 DEF b
<1>7. f = Rest(s, cur)
  BY <1>1, <1>4, <1>5, <1>6, RestIs
<1> QED
  BY <1>7 DEF f, R, s, y

(* Counts taken from the rest, as (-) does.                                *)
LEMMA RestMinus ==
  ASSUME NEW sel \in Seq(Ticks), NEW cur \in Nat, NEW s \in Seq(Ticks), NEW k \in Nat,
         NEW b, \A x \in DOMAIN b : b[x] \in Nat,
         \A x : Cardinality(Ahead(sel, cur, x)) =
                  Cardinality(Ahead(s, k, x)) + (IF x \in DOMAIN b THEN b[x] ELSE 0)
  PROVE  Rest(sel, cur) (-) b = Rest(s, k)
<1> DEFINE R == Rest(sel, cur)
           f == R (-) b
           D == {x \in DOMAIN R : (IF x \in DOMAIN b THEN R[x] - b[x] ELSE R[x]) > 0}
<1>1. \A x : /\ Cardinality(Ahead(sel, cur, x)) \in Nat
             /\ x \in DOMAIN R <=> Cardinality(Ahead(sel, cur, x)) > 0
             /\ x \in DOMAIN R => R[x] = Cardinality(Ahead(sel, cur, x))
  BY RestFacts
<1>2. \A x : Cardinality(Ahead(s, k, x)) \in Nat
  BY RestFacts
<1>3. /\ IsMap(f) /\ DOMAIN f = D
      /\ \A x \in D : f[x] = IF x \in DOMAIN b THEN R[x] - b[x] ELSE R[x]
  <2> HIDE DEF R
  <2> QED
    BY DEF (-), IsMap
<1> HIDE DEF R, f
<1>4. ASSUME NEW x PROVE /\ x \in D <=> Cardinality(Ahead(s, k, x)) > 0
                         /\ x \in D => f[x] = Cardinality(Ahead(s, k, x))
  <2> DEFINE m == Cardinality(Ahead(sel, cur, x))
             n == Cardinality(Ahead(s, k, x))
  <2>1. /\ m \in Nat /\ n \in Nat /\ (x \in DOMAIN R <=> m > 0) /\ (x \in DOMAIN R => R[x] = m)
        /\ m = n + (IF x \in DOMAIN b THEN b[x] ELSE 0)
    BY <1>1, <1>2
  <2>2. /\ x \in D <=> x \in DOMAIN R /\ (IF x \in DOMAIN b THEN R[x] - b[x] ELSE R[x]) > 0
        /\ x \in D => f[x] = IF x \in DOMAIN b THEN R[x] - b[x] ELSE R[x]
    BY <1>3
  <2>3. x \in DOMAIN b => b[x] \in Nat
    OBVIOUS
  <2> HIDE DEF m, n, D
  <2>4. (x \in D <=> n > 0) /\ (x \in D => f[x] = n)
    BY <2>1, <2>2, <2>3
  <2> QED
    BY <2>4 DEF n
<1> HIDE DEF D
<1>5. f = Rest(s, k)
  BY <1>3, <1>4, RestIs
<1> QED
  BY <1>5 DEF f, R

LEMMA RestNext ==
  ASSUME NEW sel \in Seq(Ticks), NEW cur \in Nat, cur < Len(sel)
  PROVE  Rest(sel, cur) (-) One(Identity(sel[cur + 1])) = Rest(sel, cur + 1)
<1> DEFINE y == Identity(sel[cur + 1])
           k == cur + 1
           b == One(y)
<1>1. DOMAIN b = {y} /\ b[y] = 1
  BY DEF One, SetToBag
<1>2. ASSUME NEW x
      PROVE  Cardinality(Ahead(sel, cur, x)) =
               Cardinality(Ahead(sel, k, x)) + (IF x \in DOMAIN b THEN b[x] ELSE 0)
  <2> DEFINE A == Ahead(sel, cur, x)
             B == Ahead(sel, k, x)
  <2>1. IsFiniteSet(A) /\ Cardinality(A) \in Nat /\ IsFiniteSet(B) /\ Cardinality(B) \in Nat
    BY RestFacts
  <2>2. x = y => k \in A /\ B = A \ {k}
    BY DEF Ahead
  <2>3. x # y => A = B
    BY DEF Ahead
  <2> HIDE DEF A, B, k
  <2>4. x = y => Cardinality(B) = Cardinality(A) - 1
    BY <2>1, <2>2, CountOne
  <2> HIDE DEF b, y
  <2>5. Cardinality(A) = Cardinality(B) + (IF x \in DOMAIN b THEN b[x] ELSE 0)
    BY <1>1, <2>1, <2>3, <2>4
  <2> QED
    BY <2>5 DEF A, B
<1>3. k \in Nat /\ \A x \in DOMAIN b : b[x] \in Nat
  BY <1>1
<1> HIDE DEF b, k
<1>4. Rest(sel, cur) (-) b = Rest(sel, k)
  BY <1>2, <1>3, RestMinus
<1> QED
  BY <1>4 DEF b, k

(* A step that hands out ticks or asks, and leaves the queues alone.       *)
LEMMA HandStep ==
  ASSUME TickInv, drain = None, UNCHANGED <<chunks, index, nextOrder, drain, scratch, allocated, now>>,
         active' \in Domains \cup {None}, cursor' \in Nat, selected' \in Seq(Ticks),
         active' = None => selected' = <<>>,
         cursor' <= Len(selected'), remaining' = Rest(selected', cursor'),
         selectedIds' \subseteq BagToSet(remaining') \cup cleared'
  PROVE  TickInv'
<1>1. /\ ChunksInv(chunks) /\ allocated = ChunkSum(chunks) + SumFunction(scratch)
      /\ allocated <= AllocationBytes
      /\ \A e \in Domains : index[e] = IndexOf(chunks, e, {})
      /\ index = [e \in Domains |-> index[e]]
      /\ scratch \in Scratches
      /\ nextOrder \in Nat /\ now \in Nat
  BY IdleFacts
<1>2. index' = [e \in Domains |-> IndexOf(chunks', e, {})]
  BY <1>1
<1>3. ChunksInv(chunks)'
  BY <1>1 DEF ChunksInv
<1>4. BytesPart'
  <2>1. chunks' = chunks /\ scratch' = scratch /\ allocated' = allocated
    OBVIOUS
  <2> QED
    BY <1>1, <2>1 DEF BytesPart
<1>5. TypedPart'
  BY <1>1 DEF TypedPart
<1>6. IdlePart'
  BY DEF IdlePart
<1>7. PhaseBookkeeping'
  <2>1. remaining' = [x \in {Identity(selected'[i]) : i \in cursor' + 1 .. Len(selected')} |->
          Cardinality({i \in cursor' + 1 .. Len(selected') : Identity(selected'[i]) = x})]
    BY DEF Rest
  <2> QED
    BY <2>1 DEF PhaseBookkeeping
<1> QED
  BY <1>2, <1>3, <1>4, <1>5, <1>6, <1>7, IdleStep

LEMMA AskStep ==
  ASSUME TickInv, will_tick_this_phase
  PROVE  TickInv'
<1>1. /\ drain = None /\ active # None /\ selectedIds' = BagToSet(remaining)
      /\ UNCHANGED <<chunks, index, nextOrder, active, selected, cursor, remaining,
                     cleared, drain, scratch, allocated, now>>
  BY DEF will_tick_this_phase
<1>2. cursor \in Nat /\ active \in Domains \cup {None} /\ selected \in Seq(Ticks)
  BY <1>1, IdleFacts
<1>3. cursor <= Len(selected) /\ remaining = Rest(selected, cursor)
  BY PhaseBooks DEF TickInv
<1>4. selectedIds' \subseteq BagToSet(remaining') \cup cleared'
  BY <1>1
<1> QED
  BY <1>1, <1>2, <1>3, <1>4, HandStep

LEMMA NextStep ==
  ASSUME TickInv, next_due
  PROVE  TickInv'
<1> DEFINE y == Identity(selected[cursor + 1])
<1>1. /\ drain = None /\ active # None /\ cursor < Len(selected) /\ cursor' = cursor + 1
      /\ remaining' = remaining (-) One(y) /\ selectedIds' = selectedIds \ {y}
      /\ cleared' = cleared \ {y}
      /\ UNCHANGED <<chunks, index, nextOrder, active, selected, drain, scratch,
                     allocated, now>>
  BY DEF next_due
<1>2. cursor \in Nat /\ active \in Domains \cup {None} /\ selected \in Seq(Ticks)
  BY <1>1, IdleFacts
<1>3. /\ remaining = Rest(selected, cursor)
      /\ selectedIds \subseteq BagToSet(remaining) \cup cleared
  BY PhaseBooks DEF TickInv
<1>4. Rest(selected, cursor) (-) One(y) = Rest(selected, cursor + 1)
  BY <1>1, <1>2, RestNext
<1>5. remaining' = Rest(selected', cursor')
  BY <1>1, <1>3, <1>4
<1>6. cursor' \in Nat /\ cursor' <= Len(selected')
  BY <1>1, <1>2
<1>7. selectedIds' \subseteq BagToSet(remaining') \cup cleared'
  <2> SUFFICES ASSUME NEW x \in selectedIds', x \notin cleared' PROVE x \in DOMAIN remaining'
    BY DEF BagToSet
  <2>1. x \in DOMAIN remaining /\ x # y
    BY <1>1, <1>3 DEF BagToSet
  <2>2. x \in DOMAIN One(y) <=> x = y
    BY DEF One, SetToBag
  <2>3. Ahead(selected, cursor, x) # {}
    BY <1>2, <1>3, <2>1, RestFacts
  <2>4. Ahead(selected, cursor + 1, x) # {}
    <3>1. PICK i \in cursor + 1 .. Len(selected) : Identity(selected[i]) = x
      BY <2>3 DEF Ahead
    <3>2. i \in (cursor + 1) + 1 .. Len(selected)
      BY <1>2, <2>1, <3>1
    <3> QED
      BY <3>1, <3>2 DEF Ahead
  <2>5. cursor + 1 \in Nat
    BY <1>2
  <2>6. x \in DOMAIN Rest(selected, cursor + 1)
    BY <1>2, <2>4, <2>5, RestFacts
  <2> QED
    BY <1>1, <1>3, <1>4, <2>6
<1> HIDE DEF y
<1> QED
  BY <1>1, <1>2, <1>5, <1>6, <1>7, HandStep

LEMMA EmptyRest == Rest(<<>>, 0) = EmptyBag
<1> DEFINE D == {Identity(<<>>[i]) : i \in 0 + 1 .. Len(<<>>)}
<1>1. D = {}
  OBVIOUS
<1>2. DOMAIN Rest(<<>>, 0) = {} /\ IsMap(Rest(<<>>, 0))
  BY <1>1 DEF Rest, IsMap
<1>3. DOMAIN EmptyBag = {} /\ IsMap(EmptyBag)
  BY DEF EmptyBag, SetToBag, IsMap
<1> QED
  BY <1>2, <1>3 DEF IsMap

LEMMA FinishStep ==
  ASSUME TickInv, finish_phase
  PROVE  TickInv'
<1>1. /\ drain = None
      /\ selected' = <<>> /\ selectedIds' = {} /\ remaining' = EmptyBag
      /\ cursor' = 0 /\ active' = None /\ cleared' = {}
      /\ UNCHANGED <<chunks, index, nextOrder, drain, scratch, allocated, now>>
  BY DEF finish_phase
<1>2. remaining' = Rest(selected', cursor')
  BY <1>1, EmptyRest
<1>3. cursor' \in Nat /\ selected' \in Seq(Ticks) /\ cursor' <= Len(selected')
  BY <1>1
<1> QED
  BY <1>1, <1>2, <1>3, HandStep

(* What retain keeps of the ticks of an identity still to be handed out.   *)
LEMMA AheadRetain ==
  ASSUME NEW sel \in Seq(Ticks), NEW cur \in Nat, cur <= Len(sel), NEW S, NEW x
  PROVE  Cardinality(Ahead(Retain(sel, S), Place(sel, S, cur), x))
           = Cardinality({i \in Ahead(sel, cur, x) : sel[i] \in S})
<1> DEFINE s == Retain(sel, S)
           n == Len(sel)
           k == Place(sel, S, cur)
           A == {i \in Ahead(sel, cur, x) : sel[i] \in S}
           f == [i \in A |-> Place(sel, S, i)]
           B == Ahead(s, k, x)
<1>1. s \in Seq(Ticks) /\ KeptPlaces(s, sel, S, n) /\ n \in Nat
  BY RetainPlaces
<1> HIDE DEF s
<1>2. /\ Len(s) \in Nat
      /\ \A j \in 1..n : sel[j] \in S => Place(sel, S, j) \in 1..Len(s) /\ s[Place(sel, S, j)] = sel[j]
      /\ \A l \in 1..Len(s) : \E j \in 1..n : sel[j] \in S /\ Place(sel, S, j) = l
  BY <1>1 DEF KeptPlaces
<1>3. \A i \in A : i \in 1..n /\ i > cur /\ sel[i] \in S /\ Identity(sel[i]) = x
  BY <1>1 DEF Ahead
<1>4. k \in Nat
  BY PlaceFacts
<1>5. \A i \in A : f[i] \in B
  <2> SUFFICES ASSUME NEW i \in A PROVE Place(sel, S, i) \in B
    OBVIOUS
  <2>1. i \in 1..n /\ i \in Nat /\ i > cur /\ sel[i] \in S /\ Identity(sel[i]) = x
    BY <1>3
  <2>2. Place(sel, S, i) \in 1..Len(s) /\ s[Place(sel, S, i)] = sel[i]
    BY <1>2, <2>1
  <2>3. k < Place(sel, S, i)
    BY <2>1, PlaceOrder
  <2> HIDE DEF k
  <2>4. Place(sel, S, i) \in k + 1 .. Len(s)
    BY <1>2, <1>4, <2>2, <2>3
  <2> QED
    BY <2>1, <2>2, <2>4 DEF Ahead
<1>6. \A l \in B : \E i \in A : f[i] = l
  <2> SUFFICES ASSUME NEW l \in B PROVE \E i \in A : Place(sel, S, i) = l
    OBVIOUS
  <2>1. l \in k + 1 .. Len(s) /\ Identity(s[l]) = x
    BY DEF Ahead
  <2>2. l \in 1..Len(s) /\ l > k
    <3> HIDE DEF k
    <3> QED
      BY <1>2, <1>4, <2>1
  <2>3. PICK j \in 1..n : sel[j] \in S /\ Place(sel, S, j) = l
    BY <1>2, <2>2
  <2>4. j \in Nat /\ j > cur
    <3>1. j \in Nat /\ l \in Nat
      BY <1>2, <2>2
    <3>2. j <= cur => l <= k
      BY <2>3, <3>1, PlaceOrder
    <3> HIDE DEF k
    <3> QED
      BY <1>4, <2>2, <3>1, <3>2
  <2>5. s[l] = sel[j]
    BY <1>2, <2>3
  <2>6. j \in cur + 1 .. n
    BY <1>1, <2>4
  <2>7. j \in A
    BY <2>1, <2>3, <2>5, <2>6 DEF Ahead
  <2> QED
    BY <2>3, <2>7
<1>7. \A i, j \in A : f[i] = f[j] => i = j
  <2> SUFFICES ASSUME NEW i \in A, NEW j \in A, i # j, f[i] = f[j] PROVE FALSE
    OBVIOUS
  <2>1. i \in Nat /\ j \in Nat /\ sel[i] \in S /\ sel[j] \in S
    BY <1>1, <1>3
  <2>2. Place(sel, S, i) = Place(sel, S, j) /\ Place(sel, S, i) \in Nat
    BY <2>1, PlaceFacts
  <2>3. i < j \/ j < i
    BY <2>1
  <2>4. i < j => Place(sel, S, i) < Place(sel, S, j)
    BY <2>1, PlaceOrder
  <2>5. j < i => Place(sel, S, j) < Place(sel, S, i)
    BY <2>1, PlaceOrder
  <2> QED
    BY <2>2, <2>3, <2>4, <2>5
<1>8. IsFiniteSet(A)
  BY RestFacts, FS_Subset
<1>9. B = {f[i] : i \in A}
  <2> HIDE DEF f, A, B
  <2> QED
    BY <1>5, <1>6
<1> HIDE DEF A, f, B
<1>10. Cardinality({f[i] : i \in A}) = Cardinality(A)
  BY <1>7, <1>8, ImageCount
<1> QED
  BY <1>9, <1>10 DEF A, B, s, k

LEMMA RestRetain ==
  ASSUME NEW sel \in Seq(Ticks), NEW cur \in Nat, cur <= Len(sel), NEW S, NEW unsent,
         unsent = {i \in cur + 1 .. Len(sel) : sel[i] \notin S}
  PROVE  Rest(sel, cur) (-) [x \in {Identity(sel[i]) : i \in unsent} |->
                               Cardinality({i \in unsent : Identity(sel[i]) = x})]
           = Rest(Retain(sel, S), Place(sel, S, cur))
<1> DEFINE s == Retain(sel, S)
           k == Place(sel, S, cur)
           U(x) == {i \in unsent : Identity(sel[i]) = x}
           D == {Identity(sel[i]) : i \in unsent}
           b == [x \in D |-> Cardinality(U(x))]
<1>1. s \in Seq(Ticks) /\ k \in Nat
  BY RetainPlaces, PlaceFacts
<1>2. ASSUME NEW x
      PROVE  /\ Cardinality(U(x)) \in Nat
             /\ Cardinality(Ahead(sel, cur, x)) =
                  Cardinality(Ahead(s, k, x)) + (IF x \in D THEN b[x] ELSE 0)
  <2> DEFINE A == Ahead(sel, cur, x)
             V == U(x)
             W == {i \in A : sel[i] \in S}
  <2>1. IsFiniteSet(A) /\ Cardinality(A) \in Nat
    BY RestFacts
  <2>2. A = V \cup W /\ V \cap W = {} /\ W \subseteq A /\ V \subseteq A
    BY DEF Ahead
  <2>3. Cardinality(Ahead(s, k, x)) = Cardinality(W)
    BY AheadRetain
  <2>4. x \notin D <=> V = {}
    OBVIOUS
  <2>5. x \in D => b[x] = Cardinality(V)
    OBVIOUS
  <2> HIDE DEF A, V, W, U, b, D, s, k
  <2>6. IsFiniteSet(V) /\ IsFiniteSet(W)
    BY <2>1, <2>2, FS_Subset
  <2>7. Cardinality(V) \in Nat /\ Cardinality(W) \in Nat
    BY <2>6, FS_CardinalityType
  <2>8. Cardinality(V \cup W) = Cardinality(V) + Cardinality(W) - Cardinality(V \cap W)
    BY <2>6, FS_Union
  <2>9. Cardinality(V \cap W) = 0
    BY <2>2, FS_EmptySet
  <2>10. V = {} => Cardinality(V) = 0
    BY FS_EmptySet
  <2>11. Cardinality(A) = Cardinality(Ahead(s, k, x)) + (IF x \in D THEN b[x] ELSE 0)
    BY <2>2, <2>3, <2>4, <2>5, <2>7, <2>8, <2>9, <2>10
  <2> QED
    BY <2>7, <2>11 DEF A, V
<1>3. DOMAIN b = D /\ \A x \in D : b[x] \in Nat
  BY <1>2
<1> HIDE DEF s, k, b, D, U
<1>4. Rest(sel, cur) (-) b = Rest(s, k)
  BY <1>1, <1>2, <1>3, RestMinus
<1> QED
  BY <1>4 DEF s, k, b, D, U

-----------------------------------------------------------------------------
(* Clearing.                                                               *)

(* Chunk new is ch with queue r for domain d, with the same saved entries. *)
NewQueue(ch, new, c, d, r) ==
  /\ ChunkInv(new, c) /\ new.registered = ch.registered /\ new.eligible = ch.eligible
  /\ new.queue[d] = r /\ \A e \in Domains : e # d => new.queue[e] = ch.queue[e]
  /\ Bytes(new) = Bytes(ch)

LEMMA QueuePut ==
  ASSUME NEW c, NEW ch, ChunkInv(ch, c), NEW d \in Domains, NEW r, QueueInv(r, c),
         Pending(r) = Pending(ch.queue[d]), NEW new, new = [ch EXCEPT !.queue[d] = r]
  PROVE  NewQueue(ch, new, c, d, r)
<1>1. ch \in ChunkStates /\ \A e \in Domains : QueueInv(ch.queue[e], c)
  BY DEF ChunkInv
<1>2. ch.queue \in [Domains -> QueueStates] /\ r \in QueueStates
  BY <1>1 DEF ChunkStates, QueueInv
<1>3. new \in ChunkStates /\ new.queue = [ch.queue EXCEPT ![d] = r]
  BY <1>1, <1>2 DEF ChunkStates
<1>4. new.registered = ch.registered
  BY <1>1 DEF ChunkStates
<1>5. new.eligible = ch.eligible
  BY <1>1 DEF ChunkStates
<1>6. new.queue[d] = r /\ \A e \in Domains : e # d => new.queue[e] = ch.queue[e]
  BY <1>2, <1>3
<1>7. ChunkInv(new, c)
  BY <1>1, <1>3, <1>6 DEF ChunkInv
<1>8. \A e \in Domains : Pending(new.queue[e]) = Pending(ch.queue[e])
  BY <1>6
<1>9. Bytes(new) = Bytes(ch)
  BY <1>8, BytesSame
<1> QED
  BY <1>4, <1>5, <1>6, <1>7, <1>9 DEF NewQueue

(* The ticks of a heap in an area.                                         *)
LEMMA WithinHeap ==
  ASSUME NEW c, NEW q, QueueInv(q, c), NEW area, NEW lost, lost = Within(q.heap, area)
  PROVE  /\ IsHeap(lost) /\ DOMAIN lost \subseteq DOMAIN q.heap
         /\ \A t \in DOMAIN lost : lost[t] <= q.heap[t]
<1>1. q \in QueueStates
  BY DEF QueueInv
<1>2. IsHeap(q.heap)
  BY <1>1, QueueParts
<1>3. /\ DOMAIN lost = {u \in DOMAIN q.heap : Inside(area, u.pos)}
      /\ lost = [t \in DOMAIN lost |-> lost[t]]
      /\ \A t \in DOMAIN lost : lost[t] = q.heap[t]
  BY DEF Within, BagToSet
<1>4. IsHeap(lost)
  <2>1. DOMAIN lost \subseteq DOMAIN q.heap
    BY <1>3
  <2>2. IsFiniteSet(DOMAIN lost) /\ DOMAIN lost \subseteq Ticks
    BY <1>2, <2>1, FS_Subset DEF IsHeap
  <2>3. \A t \in DOMAIN lost : lost[t] \in Nat \ {0}
    BY <1>2, <1>3, <2>1 DEF IsHeap
  <2> QED
    BY <1>3, <2>2, <2>3 DEF IsHeap
<1>5. DOMAIN lost \subseteq DOMAIN q.heap /\ \A t \in DOMAIN lost : lost[t] <= q.heap[t]
  BY <1>2, <1>3 DEF IsHeap
<1> QED
  BY <1>4, <1>5

LEMMA ClearedInv ==
  ASSUME NEW c, NEW q, QueueInv(q, c), NEW area, NEW lost, lost = Within(q.heap, area),
         NEW left, left = q.heap (-) lost
  PROVE  Reduced(q, Removed(q, lost), c, left)
<1>1. /\ IsHeap(lost) /\ DOMAIN lost \subseteq DOMAIN q.heap
      /\ \A t \in DOMAIN lost : lost[t] <= q.heap[t]
  BY WithinHeap
<1> QED
  BY <1>1, RemovedInv

LEMMA HeadsAgree ==
  ASSUME NEW h, IsHeap(h), NEW k, IsHeap(k), Heads(h) = Heads(k)
  PROVE  (h = EmptyBag <=> k = EmptyBag) /\ Head1(h) = Head1(k)
<1>1. Heads(EmptyBag) = {}
  BY NoHeap DEF Heads, BagToSet
<1>2. h # EmptyBag => Heads(h) # {}
  BY HeadsFacts
<1>3. k # EmptyBag => Heads(k) # {}
  BY HeadsFacts
<1>4. Head1(h) = Head1(k)
  BY DEF Head1
<1> QED
  BY <1>1, <1>2, <1>3, <1>4

(* The cursor of a list without the ticks of an area.                      *)
LEMMA CursorPlace ==
  ASSUME selected \in Seq(Ticks), cursor \in Nat, cursor <= Len(selected), NEW area, NEW S,
         S = {t \in Elements(selected) : ~Inside(area, t.pos)}
  PROVE  CursorAfter(area) = Place(selected, S, cursor)
<1> DEFINE A == {i \in 1 .. cursor : Inside(area, selected[i].pos)}
           B == KeptUpto(selected, S, cursor)
           U == 1..cursor
<1>1. \A i \in U : selected[i] \in Elements(selected)
  BY DEF Elements
<1>2. A \cup B = U /\ A \cap B = {} /\ A \subseteq U /\ B \subseteq U
  BY <1>1 DEF KeptUpto
<1>3. IsFiniteSet(U) /\ Cardinality(U) = cursor
  BY UptoCount
<1>4. CursorAfter(area) = cursor - Cardinality(A)
  BY DEF CursorAfter
<1> HIDE DEF A, B, U
<1>5. IsFiniteSet(A) /\ IsFiniteSet(B)
  BY <1>2, <1>3, FS_Subset
<1>6. Cardinality(A) \in Nat /\ Cardinality(B) \in Nat
  BY <1>5, FS_CardinalityType
<1>7. Cardinality(A \cup B) = Cardinality(A) + Cardinality(B) - Cardinality(A \cap B)
  BY <1>5, FS_Union
<1>8. Cardinality(A \cap B) = 0
  BY <1>2, FS_EmptySet
<1>9. cursor = Cardinality(A) + Cardinality(B)
  <2>1. A \cup B = U
    BY <1>2
  <2>2. Cardinality(A \cup B) = cursor
    BY <1>3, <2>1, Zenon
  <2>3. cursor = Cardinality(A) + Cardinality(B) - 0
    BY <1>7, <1>8, <2>2, Zenon
  <2>4. \A n \in Nat : n - 0 = n
    OBVIOUS
  <2> QED
    BY <1>6, <2>3, <2>4
<1>10. \A m, n \in Nat : (m + n) - m = n
  OBVIOUS
<1>11. CursorAfter(area) = (Cardinality(A) + Cardinality(B)) - Cardinality(A)
  BY <1>4, <1>9
<1>12. CursorAfter(area) = Cardinality(B)
  BY <1>6, <1>10, <1>11
<1> QED
  BY <1>12 DEF B, Place

LEMMA ClearStep ==
  ASSUME TickInv, NEW d \in Domains, NEW area \in Int \X Int, clear_area(d, area)
  PROVE  TickInv'
<1> DEFINE hit == {c \in Registered : ContainsChunk(area, c)}
           heap(c) == chunks[c].queue[d].heap
           lost(c) == Within(heap(c), area)
           left(c) == heap(c) (-) lost(c)
           moved == {c \in hit : Heads(left(c)) # Heads(heap(c))}
           outside == {t \in Elements(selected) : ~Inside(area, t.pos)}
           unsent == {i \in cursor + 1 .. Len(selected) : Inside(area, selected[i].pos)}
           D == (DOMAIN index[d] \cup moved) \ {e \in moved : left(e) = EmptyBag}
           gone == [x \in {Identity(selected[i]) : i \in unsent} |->
                      Cardinality({i \in unsent : Identity(selected[i]) = x})]
<1>1. /\ drain = None
      /\ chunks' = [c \in Present |->
           IF c \notin hit THEN chunks[c]
           ELSE [chunks[c] EXCEPT !.queue[d] = Removed(@, lost(c))]]
      /\ index' = [index EXCEPT ![d] =
           [c \in D |-> IF c \in moved THEN Head1(left(c)).trigger ELSE index[d][c]]]
      /\ UNCHANGED <<nextOrder, active, selectedIds, drain, scratch, allocated, now>>
  BY DEF clear_area
<1>2. \/ /\ active = d
         /\ selected' = Retain(selected, outside)
         /\ cursor' = CursorAfter(area)
         /\ remaining' = remaining (-) gone
         /\ cleared' = selectedIds \cap (cleared \cup {Identity(selected[i]) : i \in unsent})
      \/ active # d /\ UNCHANGED <<selected, cursor, remaining, cleared>>
  BY DEF clear_area
<1>3. /\ ChunksInv(chunks) /\ allocated = ChunkSum(chunks) + SumFunction(scratch)
      /\ allocated <= AllocationBytes
      /\ \A e \in Domains : index[e] = IndexOf(chunks, e, {})
      /\ index = [e \in Domains |-> index[e]]
      /\ scratch \in Scratches
      /\ nextOrder \in Nat /\ now \in Nat
      /\ cursor \in Nat /\ active \in Domains \cup {None} /\ selected \in Seq(Ticks)
  BY <1>1, IdleFacts
<1>4. \A c \in hit : c \in DOMAIN chunks /\ chunks[c].registered
  BY DEF Registered, Present
<1>5. ASSUME NEW c \in hit
      PROVE  /\ NewQueue(chunks[c], chunks'[c], c, d, Removed(chunks[c].queue[d], lost(c)))
             /\ Reduced(chunks[c].queue[d], Removed(chunks[c].queue[d], lost(c)), c, left(c))
  <2> DEFINE q == chunks[c].queue[d]
             r == Removed(q, lost(c))
  <2>1. c \in DOMAIN chunks /\ ChunkInv(chunks[c], c)
    BY <1>3, <1>4 DEF ChunksInv
  <2>2. QueueInv(q, c)
    BY <2>1 DEF ChunkInv
  <2>3. Reduced(q, r, c, left(c))
    <3>1. lost(c) = Within(q.heap, area) /\ left(c) = q.heap (-) lost(c)
      OBVIOUS
    <3> HIDE DEF q, lost, left
    <3> QED
      BY <2>2, <3>1, ClearedInv
  <2>4. chunks'[c] = [chunks[c] EXCEPT !.queue[d] = r]
    BY <1>1, <2>1 DEF Present
  <2> HIDE DEF r, lost, left
  <2>5. QueueInv(r, c) /\ Pending(r) = Pending(chunks[c].queue[d])
    BY <2>3 DEF Reduced
  <2>6. NewQueue(chunks[c], chunks'[c], c, d, r)
    BY <2>1, <2>4, <2>5, QueuePut
  <2> QED
    BY <2>3, <2>6 DEF r
<1>6. DOMAIN chunks' = DOMAIN chunks /\ IsMap(chunks')
  BY <1>1 DEF Present, IsMap
<1>7. \A c \in DOMAIN chunks \ hit : chunks'[c] = chunks[c]
  BY <1>1 DEF Present
<1>8. ChunksInv(chunks')
  <2>1. ASSUME NEW c \in DOMAIN chunks PROVE ChunkInv(chunks'[c], c)
    <3>1. CASE c \in hit
      BY <1>5, <3>1 DEF NewQueue
    <3>2. CASE c \notin hit
      BY <1>3, <1>7, <3>2 DEF ChunksInv
    <3> QED
      BY <3>1, <3>2
  <2> QED
    BY <1>3, <1>6, <2>1 DEF ChunksInv
<1>9. BytesPart'
  <2>1. \A c \in DOMAIN chunks : Bytes(chunks'[c]) = Bytes(chunks[c])
    <3> SUFFICES ASSUME NEW c \in DOMAIN chunks PROVE Bytes(chunks'[c]) = Bytes(chunks[c])
      OBVIOUS
    <3>1. c \in hit => Bytes(chunks'[c]) = Bytes(chunks[c])
      BY <1>5 DEF NewQueue
    <3>2. c \notin hit => chunks'[c] = chunks[c]
      BY <1>7
    <3> QED
      BY <3>1, <3>2
  <2>2. ChunkSum(chunks') = ChunkSum(chunks)
    BY <1>3, <1>6, <1>8, <2>1, ChunkSumSame
  <2> QED
    BY <1>1, <1>3, <2>2 DEF BytesPart
<1>10. \A c \in DOMAIN chunks : /\ chunks'[c].registered = chunks[c].registered
                                /\ \A e \in Domains : e # d => chunks'[c].queue[e] = chunks[c].queue[e]
  <2> SUFFICES ASSUME NEW c \in DOMAIN chunks
               PROVE  /\ chunks'[c].registered = chunks[c].registered
                      /\ \A e \in Domains : e # d => chunks'[c].queue[e] = chunks[c].queue[e]
    OBVIOUS
  <2>1. CASE c \in hit
    BY <1>5, <2>1 DEF NewQueue
  <2>2. CASE c \notin hit
    BY <1>7, <2>2
  <2> QED
    BY <2>1, <2>2
<1>11. \A c \in hit : /\ IsHeap(heap(c)) /\ IsHeap(left(c)) /\ chunks'[c].queue[d].heap = left(c)
  <2> SUFFICES ASSUME NEW c \in hit
               PROVE  IsHeap(heap(c)) /\ IsHeap(left(c)) /\ chunks'[c].queue[d].heap = left(c)
    OBVIOUS
  <2>1. IsHeap(chunks[c].queue[d].heap) /\ IsHeap(left(c))
        /\ Removed(chunks[c].queue[d], lost(c)).heap = left(c)
    BY <1>5 DEF Reduced
  <2>2. chunks'[c].queue[d] = Removed(chunks[c].queue[d], lost(c))
    BY <1>5 DEF NewQueue
  <2> QED
    BY <2>1, <2>2
<1>12. index'[d] = IndexOf(chunks', d, {})
  <2> DEFINE o == {}
             f == [c \in D |-> IF c \in moved THEN Head1(left(c)).trigger ELSE index[d][c]]
  <2>1. index'[d] = f /\ DOMAIN f = D /\ IsMap(f)
    BY <1>1, <1>3 DEF IsMap
  <2>2. /\ DOMAIN index[d] = Listed(chunks, d, o)
        /\ \A c \in Listed(chunks, d, o) : index[d][c] = Head1(heap(c)).trigger
    BY <1>3, IndexFacts
  <2> HIDE DEF left, lost
  <2>3. ASSUME NEW c \in hit, c \notin moved
        PROVE  (left(c) = EmptyBag <=> heap(c) = EmptyBag) /\ Head1(left(c)) = Head1(heap(c))
    <3>1. Heads(left(c)) = Heads(heap(c))
      BY <2>3
    <3>2. IsHeap(heap(c)) /\ IsHeap(left(c))
      BY <1>11
    <3> HIDE DEF heap
    <3> QED
      BY <3>1, <3>2, HeadsAgree
  <2>4. ASSUME NEW c PROVE c \in D <=> c \in Listed(chunks', d, o)
    <3>1. c \in moved => c \in hit
      OBVIOUS
    <3>2. CASE c \in hit
      <4>1. c \in Listed(chunks', d, o) <=> left(c) # EmptyBag
        BY <1>4, <1>6, <1>10, <1>11, <3>2 DEF Listed
      <4>2. c \in Listed(chunks, d, o) <=> heap(c) # EmptyBag
        BY <1>4, <3>2 DEF Listed
      <4> QED
        BY <2>2, <2>3, <3>2, <4>1, <4>2
    <3>3. CASE c \notin hit
      <4>1. c \in Listed(chunks', d, o) <=> c \in Listed(chunks, d, o)
        BY <1>6, <1>7, <3>3 DEF Listed
      <4> QED
        BY <2>2, <3>1, <3>3, <4>1
    <3> QED
      BY <3>2, <3>3
  <2>5. ASSUME NEW c \in Listed(chunks', d, o)
        PROVE  f[c] = Head1(chunks'[c].queue[d].heap).trigger
    <3>1. c \in D /\ f[c] = IF c \in moved THEN Head1(left(c)).trigger ELSE index[d][c]
      BY <2>4
    <3>2. CASE c \in moved
      BY <1>11, <3>1, <3>2
    <3>3. CASE c \notin moved
      <4>1. c \in Listed(chunks, d, o) /\ f[c] = Head1(heap(c)).trigger
        BY <2>2, <3>1, <3>3
      <4>2. CASE c \in hit
        BY <1>11, <2>3, <3>3, <4>1, <4>2
      <4>3. CASE c \notin hit
        <5>1. chunks'[c] = chunks[c]
          BY <1>7, <4>1, <4>3 DEF Listed
        <5> QED
          BY <4>1, <5>1
      <4> QED
        BY <4>2, <4>3
    <3> QED
      BY <3>2, <3>3
  <2> HIDE DEF f, D, o
  <2>6. DOMAIN f = Listed(chunks', d, o)
    BY <2>1, <2>4
  <2>7. f = IndexOf(chunks', d, o)
    BY <2>1, <2>5, <2>6, IndexIs
  <2> QED
    BY <2>1, <2>7 DEF o
<1>13. index' = [e \in Domains |-> IndexOf(chunks', e, {})]
  <2>1. index' = [e \in Domains |-> index'[e]]
    BY <1>1, <1>3
  <2>2. ASSUME NEW e \in Domains, e # d PROVE index'[e] = IndexOf(chunks', e, {})
    <3>1. Agree(chunks, chunks', e)
      BY <1>6, <1>10, <2>2 DEF Agree
    <3>2. IndexOf(chunks', e, {}) = IndexOf(chunks, e, {})
      BY <3>1, IndexSame
    <3>3. index'[e] = index[e]
      BY <1>1, <1>3, <2>2
    <3> QED
      BY <1>3, <3>2, <3>3
  <2> QED
    BY <1>12, <2>1, <2>2
<1>14. /\ selected' \in Seq(Ticks) /\ cursor' \in Nat /\ (active' = None => selected' = <<>>)
       /\ PhaseBookkeeping'
  <2>1. /\ cursor <= Len(selected) /\ remaining = Rest(selected, cursor)
        /\ selectedIds \subseteq BagToSet(remaining) \cup cleared
    BY PhaseBooks DEF TickInv
  <2>2. CASE active # d /\ UNCHANGED <<selected, cursor, remaining, cleared>>
    <3>1. selected' = selected /\ cursor' = cursor /\ remaining' = remaining
          /\ cleared' = cleared /\ selectedIds' = selectedIds /\ active' = active
      BY <1>1, <2>2
    <3>2. PhaseBookkeeping
      BY DEF TickInv
    <3>3. PhaseBookkeeping'
      BY <3>1, <3>2 DEF PhaseBookkeeping
    <3>4. active = None => selected = <<>>
      BY DEF TickInv, IdlePart
    <3> QED
      BY <1>3, <3>1, <3>3, <3>4
  <2>3. CASE /\ active = d
             /\ selected' = Retain(selected, outside)
             /\ cursor' = CursorAfter(area)
             /\ remaining' = remaining (-) gone
             /\ cleared' = selectedIds \cap (cleared \cup {Identity(selected[i]) : i \in unsent})
    <3> DEFINE k == Place(selected, outside, cursor)
               s == Retain(selected, outside)
    <3>1. cursor' = k
      <4> HIDE DEF outside
      <4>1. outside = {t \in Elements(selected) : ~Inside(area, t.pos)}
        BY DEF outside
      <4> QED
        BY <1>3, <2>1, <2>3, <4>1, CursorPlace
    <3>2. s \in Seq(Ticks) /\ k \in Nat /\ k <= Len(s)
      <4>1. s \in Seq(Ticks) /\ KeptPlaces(s, selected, outside, Len(selected))
        <5> HIDE DEF outside
        <5> QED
          BY <1>3, RetainPlaces
      <4>2. Len(s) = Place(selected, outside, Len(selected))
        BY <4>1 DEF KeptPlaces
      <4>3. k <= Place(selected, outside, Len(selected)) /\ k \in Nat
        <5>1. Len(selected) \in Nat
          BY <1>3
        <5> HIDE DEF outside
        <5> QED
          BY <1>3, <2>1, <5>1, PlaceOrder, PlaceFacts
      <4> QED
        BY <4>1, <4>2, <4>3
    <3>3. unsent = {i \in cursor + 1 .. Len(selected) : selected[i] \notin outside}
      <4>1. \A i \in cursor + 1 .. Len(selected) : selected[i] \in Elements(selected)
        BY <1>3 DEF Elements
      <4> QED
        BY <4>1
    <3>4. remaining' = Rest(s, k)
      <4> HIDE DEF unsent, outside
      <4>1. Rest(selected, cursor) (-) gone = Rest(s, k)
        BY <1>3, <2>1, <3>3, RestRetain
      <4> QED
        BY <2>1, <2>3, <4>1
    <3>5. selectedIds' \subseteq BagToSet(remaining') \cup cleared'
      <4> SUFFICES ASSUME NEW x \in selectedIds, x \notin cleared' PROVE x \in DOMAIN remaining'
        BY <1>1 DEF BagToSet
      <4>1. /\ x \notin cleared /\ \A i \in unsent : Identity(selected[i]) # x
        BY <2>3
      <4>2. x \in DOMAIN remaining
        BY <2>1, <4>1 DEF BagToSet
      <4>3. x \notin DOMAIN gone
        BY <4>1
      <4>4. /\ x \in DOMAIN remaining /\ remaining[x] > 0
        BY <1>3, <2>1, <4>2, RestFacts
      <4> HIDE DEF gone
      <4>5. x \in DOMAIN (remaining (-) gone)
        BY <4>3, <4>4 DEF (-)
      <4> QED
        BY <2>3, <4>5
    <3> HIDE DEF k, s, gone, unsent, outside
    <3>6. selected' = s /\ active' # None
      BY <1>1, <2>3, NoneApart DEF s
    <3>7. /\ cursor' <= Len(selected') /\ remaining' = Rest(selected', cursor')
      BY <3>1, <3>2, <3>4, <3>6
    <3>8. remaining' = [x \in {Identity(selected'[i]) : i \in cursor' + 1 .. Len(selected')} |->
            Cardinality({i \in cursor' + 1 .. Len(selected') : Identity(selected'[i]) = x})]
      BY <3>7 DEF Rest
    <3>9. PhaseBookkeeping'
      BY <3>5, <3>7, <3>8 DEF PhaseBookkeeping
    <3> QED
      BY <3>1, <3>2, <3>6, <3>9
  <2> QED
    BY <1>2, <2>2, <2>3
<1>15. TypedPart'
  BY <1>1, <1>3, <1>14, NoneApart DEF TypedPart
<1>16. IdlePart'
  BY <1>1, <1>14 DEF IdlePart
<1>17. ChunksInv(chunks)'
  BY <1>8 DEF ChunksInv
<1> QED
  BY <1>1, <1>9, <1>13, <1>14, <1>15, <1>16, <1>17, IdleStep

-----------------------------------------------------------------------------
(* begin_phase.                                                            *)

LEMMA DrainFacts ==
  ASSUME TickInv, drain # None
  PROVE  /\ active \in Domains /\ Selecting(chunks, active, now, drain, selected)
         /\ drain.max \in Nat /\ drain.ready \in SUBSET Addresses
         /\ drain.candidate \in Addresses \cup {None}
         /\ drain = [max |-> drain.max, ready |-> drain.ready, candidate |-> drain.candidate]
         /\ index = [e \in Domains |-> index[e]]
         /\ index[active] = IndexOf(chunks, active, Held(drain))
         /\ \A e \in Domains : e # active => index[e] = IndexOf(chunks, e, {})
<1>1. active \in Domains /\ Selecting(chunks, active, now, drain, selected)
  BY DEF TickInv, DrainPart
<1>2. drain \in Drains
  BY DEF TickInv, TypedPart
<1>3. /\ drain.max \in Nat /\ drain.ready \in SUBSET Addresses
      /\ drain.candidate \in Addresses \cup {None}
      /\ drain = [max |-> drain.max, ready |-> drain.ready, candidate |-> drain.candidate]
  BY <1>2 DEF Drains
<1>4. Taken(active) = Held(drain) /\ \A e : e # active => Taken(e) = {}
  BY DEF Taken
<1>5. index = [e \in Domains |-> IndexOf(chunks, e, Taken(e))]
  BY DEF TickInv, IndexPart
<1> QED
  BY <1>1, <1>3, <1>4, <1>5

(* A step of begin_phase.                                                  *)
LEMMA DrainStep ==
  ASSUME TickInv, UNCHANGED <<nextOrder, cursor, scratch, now>>, active' \in Domains,
         selected' \in Seq(Ticks), drain' \in Drains, drain' # None,
         ChunksInv(chunks'), allocated' = ChunkSum(chunks') + SumFunction(scratch'),
         allocated' <= AllocationBytes,
         index' = [e \in Domains |-> index'[e]],
         index'[active'] = IndexOf(chunks', active', Held(drain')),
         \A e \in Domains : e # active' => index'[e] = IndexOf(chunks', e, {}),
         Selecting(chunks', active', now', drain', selected'),
         PhaseBookkeeping'
  PROVE  TickInv'
<1>1. BytesPart'
  BY DEF BytesPart
<1>2. TypedPart'
  BY DEF TypedPart, TickInv
<1>3. IdlePart'
  BY NoneApart DEF IdlePart
<1>4. ChunksInv(chunks)'
  BY DEF ChunksInv
<1>5. Taken(active)' = Held(drain)' /\ \A e : e # active' => Taken(e)' = {}
  BY DEF Taken
<1>6. Held(drain)' = Held(drain')
  BY DEF Held
<1>7. IndexPart'
  <2>1. \A e \in Domains : index'[e] = IndexOf(chunks', e, Taken(e)')
    BY <1>5, <1>6 DEF Taken
  <2>2. index' = [e \in Domains |-> IndexOf(chunks', e, Taken(e)')]
    BY <2>1
  <2> QED
    BY <2>2 DEF IndexPart
<1>8. DrainPart'
  BY DEF DrainPart
<1> QED
  BY <1>1, <1>2, <1>3, <1>4, <1>7, <1>8 DEF TickInv

LEMMA BeginStep ==
  ASSUME TickInv, NEW d \in Domains, NEW max \in Caps, begin_phase(d, max)
  PROVE  TickInv'
<1> DEFINE seen == {c \in DOMAIN index[d] : index[d][c] <= now}
           gone == {c \in seen : c \notin Registered \/ chunks[c].queue[d].heap = EmptyBag}
           ready == {c \in seen \ gone : Due(d, c) /\ chunks[c].eligible}
           late == {c \in seen \ gone : ~Due(d, c)}
           o == {}
<1>1. /\ drain = None /\ active = None /\ active' = d
      /\ drain' = [max |-> max, ready |-> ready, candidate |-> None]
      /\ index' = [index EXCEPT ![d] =
           [c \in DOMAIN index[d] \ (gone \cup ready) |->
              IF c \in late THEN Head1(chunks[c].queue[d].heap).trigger ELSE index[d][c]]]
      /\ UNCHANGED <<chunks, nextOrder, selected, cursor, selectedIds, remaining,
                     cleared, scratch, allocated, now>>
  BY DEF begin_phase
<1>2. /\ ChunksInv(chunks) /\ allocated = ChunkSum(chunks) + SumFunction(scratch)
      /\ allocated <= AllocationBytes
      /\ \A e \in Domains : index[e] = IndexOf(chunks, e, {})
      /\ index = [e \in Domains |-> index[e]]
      /\ now \in Nat
  BY <1>1, IdleFacts
<1>3. selected = <<>>
  BY <1>1 DEF TickInv, IdlePart
<1>4. /\ DOMAIN index[d] = Listed(chunks, d, o) /\ IsMap(index[d])
      /\ \A c \in Listed(chunks, d, o) : index[d][c] = First(chunks, d, c).trigger
  BY <1>2, IndexFacts DEF First
<1>5. Listed(chunks, d, o) = {c \in DOMAIN chunks : chunks[c].registered /\ chunks[c].queue[d].heap # EmptyBag}
  BY DEF Listed
<1>6. gone = {} /\ late = {}
  <2>1. ASSUME NEW c \in seen PROVE c \in Registered /\ chunks[c].queue[d].heap # EmptyBag /\ Due(d, c)
    BY <1>4, <1>5 DEF Registered, Present, Due, First
  <2> QED
    BY <2>1
<1>7. \A c : c \in ready <=> Waits(chunks, d, now, c)
  BY <1>4, <1>5, <1>6 DEF Waits, Due, First
<1>8. ready \subseteq Addresses
  BY <1>7, <1>2 DEF Waits, ChunksInv
<1>9. index'[d] = [c \in DOMAIN index[d] \ ready |-> index[d][c]]
  BY <1>1, <1>2, <1>6
<1> HIDE DEF gone, late, ready, seen
<1>10. drain' \in Drains /\ drain'.max = max /\ drain'.ready = ready /\ drain'.candidate = None
  <2>1. max \in Nat
    BY TickAssumption
  <2> QED
    BY <1>1, <1>8, <2>1 DEF Drains
<1>11. drain' # None
  BY <1>10, NoneApart
<1>12. Held(drain') = ready
  <2>1. None \notin Addresses
    BY NoneApart, TickAssumption
  <2> QED
    BY <1>8, <1>10, <2>1 DEF Held
<1>13. index'[d] = IndexOf(chunks, d, ready)
  <2>1. DOMAIN index'[d] = DOMAIN index[d] \ ready /\ IsMap(index'[d])
        /\ \A c \in DOMAIN index'[d] : index'[d][c] = index[d][c]
    BY <1>9 DEF IsMap
  <2>2. Listed(chunks, d, ready) = Listed(chunks, d, o) \ ready
    BY DEF Listed
  <2>3. \A c \in Listed(chunks, d, ready) : index'[d][c] = Head1(chunks[c].queue[d].heap).trigger
    BY <1>4, <2>1, <2>2 DEF First
  <2>4. DOMAIN index'[d] = Listed(chunks, d, ready) /\ IsMap(index'[d])
    BY <1>4, <2>1, <2>2
  <2> QED
    BY <2>3, <2>4, IndexIs
<1>14. Selecting(chunks, d, now, drain', <<>>)
  <2>1. Len(<<>>) <= drain'.max
    BY <1>10, TickAssumption
  <2>2. TakenInOrder(<<>>, Left(chunks, d, now))
    BY DEF TakenInOrder
  <2>3. TurnPart(chunks, d, drain', <<>>)
    BY <1>10 DEF TurnPart
  <2> QED
    BY <1>7, <1>12, <2>1, <2>2, <2>3 DEF Selecting
<1>15. /\ index' = [e \in Domains |-> index'[e]]
       /\ \A e \in Domains : e # d => index'[e] = IndexOf(chunks, e, {})
  BY <1>1, <1>2
<1>16. PhaseBookkeeping'
  <2>1. selected' = selected /\ cursor' = cursor /\ remaining' = remaining
        /\ cleared' = cleared /\ selectedIds' = selectedIds
    BY <1>1
  <2>2. PhaseBookkeeping
    BY DEF TickInv
  <2> QED
    BY <2>1, <2>2 DEF PhaseBookkeeping
<1>17. /\ UNCHANGED <<nextOrder, cursor, scratch, now>> /\ active' \in Domains
       /\ selected' \in Seq(Ticks) /\ ChunksInv(chunks')
       /\ allocated' = ChunkSum(chunks') + SumFunction(scratch')
       /\ allocated' <= AllocationBytes
  BY <1>1, <1>2, <1>3
<1>18. /\ Selecting(chunks', active', now', drain', selected')
       /\ index'[active'] = IndexOf(chunks', active', Held(drain'))
       /\ \A e \in Domains : e # active' => index'[e] = IndexOf(chunks', e, {})
  BY <1>1, <1>3, <1>12, <1>13, <1>14, <1>15
<1> QED
  BY <1>10, <1>11, <1>15, <1>16, <1>17, <1>18, DrainStep

LEMMA PopStep ==
  ASSUME TickInv, PopReady
  PROVE  TickInv' /\ drain' # None
<1> DEFINE dr == drain
<1>1. /\ drain # None /\ drain.candidate = None /\ Len(selected) < drain.max
      /\ UNCHANGED <<chunks, index, nextOrder, phase, scratch, allocated, now>>
  BY DEF PopReady
<1>2. PICK c \in drain.ready :
        /\ \A e \in drain.ready : ~WithinTick(FirstOf(e), FirstOf(c))
        /\ drain' = [drain EXCEPT !.ready = @ \ {c}, !.candidate = c]
  BY DEF PopReady
<1>3. /\ active \in Domains /\ Selecting(chunks, active, now, drain, selected)
      /\ drain.max \in Nat /\ drain.ready \in SUBSET Addresses
      /\ drain = [max |-> drain.max, ready |-> drain.ready, candidate |-> drain.candidate]
      /\ index = [e \in Domains |-> index[e]]
      /\ index[active] = IndexOf(chunks, active, Held(drain))
      /\ \A e \in Domains : e # active => index[e] = IndexOf(chunks, e, {})
  BY <1>1, DrainFacts
<1>4. drain'.max = drain.max /\ drain'.ready = drain.ready \ {c} /\ drain'.candidate = c
      /\ drain' \in Drains
  BY <1>2, <1>3 DEF Drains
<1>5. Held(drain') = Held(drain)
  BY <1>1, <1>2, <1>3, <1>4, NoneApart, TickAssumption DEF Held
<1>6. TurnPart(chunks, active, drain', selected)
  BY <1>1, <1>2, <1>4 DEF TurnPart, First, FirstOf
<1>7. Selecting(chunks, active, now, drain', selected)
  BY <1>3, <1>4, <1>5, <1>6 DEF Selecting
<1>8. drain' # None
  BY <1>4, NoneApart
<1>9. /\ ChunksInv(chunks) /\ allocated = ChunkSum(chunks) + SumFunction(scratch)
      /\ allocated <= AllocationBytes /\ selected \in Seq(Ticks)
  BY DEF TickInv, BytesPart, TypedPart
<1>10. UNCHANGED <<chunks, index, nextOrder, active, selected, cursor, selectedIds, remaining,
                   cleared, scratch, allocated, now>>
  BY <1>1 DEF phase
<1>11. PhaseBookkeeping'
  <2>1. PhaseBookkeeping
    BY DEF TickInv
  <2> QED
    BY <1>10, <2>1 DEF PhaseBookkeeping
<1>12. Selecting(chunks', active', now', drain', selected')
  BY <1>7, <1>10
<1>13. /\ index' = [e \in Domains |-> index'[e]]
       /\ index'[active'] = IndexOf(chunks', active', Held(drain'))
       /\ \A e \in Domains : e # active' => index'[e] = IndexOf(chunks', e, {})
  BY <1>3, <1>5, <1>10
<1>14. /\ UNCHANGED <<nextOrder, cursor, scratch, now>> /\ active' \in Domains
       /\ selected' \in Seq(Ticks) /\ ChunksInv(chunks')
       /\ allocated' = ChunkSum(chunks') + SumFunction(scratch')
       /\ allocated' <= AllocationBytes
  BY <1>3, <1>9, <1>10
<1> QED
  BY <1>4, <1>8, <1>11, <1>12, <1>13, <1>14, DrainStep

LEMMA EndStep ==
  ASSUME TickInv, EndBegin
  PROVE  TickInv'
<1>1. /\ drain # None /\ drain.candidate = None /\ drain' = None
      /\ index' = [index EXCEPT ![active] =
           [c \in DOMAIN index[active] \cup drain.ready |->
              IF c \in drain.ready THEN FirstOf(c).trigger ELSE index[active][c]]]
      /\ UNCHANGED <<chunks, nextOrder, phase, scratch, allocated, now>>
  BY DEF EndBegin
<1>2. UNCHANGED <<chunks, nextOrder, active, selected, cursor, selectedIds, remaining,
                  cleared, scratch, allocated, now>>
  BY <1>1 DEF phase
<1>3. /\ active \in Domains /\ Selecting(chunks, active, now, drain, selected)
      /\ drain.ready \in SUBSET Addresses
      /\ index = [e \in Domains |-> index[e]]
      /\ index[active] = IndexOf(chunks, active, Held(drain))
      /\ \A e \in Domains : e # active => index[e] = IndexOf(chunks, e, {})
  BY <1>1, DrainFacts
<1>4. Held(drain) = drain.ready
  BY <1>1, <1>3, NoneApart, TickAssumption DEF Held
<1>5. \A c \in drain.ready : Waits(chunks, active, now, c)
  BY <1>3, <1>4 DEF Selecting
<1> DEFINE o == {}
           R == drain.ready
           f == [c \in DOMAIN index[active] \cup R |->
                   IF c \in R THEN FirstOf(c).trigger ELSE index[active][c]]
<1>6. index'[active] = f
  BY <1>1, <1>3
<1>7. f = IndexOf(chunks, active, o)
  <2>1. /\ DOMAIN index[active] = Listed(chunks, active, R)
        /\ \A c \in Listed(chunks, active, R) :
             index[active][c] = Head1(chunks[c].queue[active].heap).trigger
    BY <1>3, <1>4, IndexFacts
  <2>2. Listed(chunks, active, o) = Listed(chunks, active, R) \cup R
    BY <1>5 DEF Listed, Waits
  <2>3. IsMap(f) /\ DOMAIN f = Listed(chunks, active, o)
    BY <2>1, <2>2 DEF IsMap
  <2>4. \A c \in Listed(chunks, active, o) : f[c] = Head1(chunks[c].queue[active].heap).trigger
    BY <2>1, <2>2 DEF FirstOf
  <2> HIDE DEF f, o
  <2> QED
    BY <2>3, <2>4, IndexIs
<1>8. index' = [e \in Domains |-> IndexOf(chunks', e, {})]
  <2>1. index' = [e \in Domains |-> index'[e]]
    BY <1>1, <1>3
  <2>2. \A e \in Domains : index'[e] = IndexOf(chunks', e, {})
    BY <1>1, <1>2, <1>3, <1>6, <1>7
  <2> QED
    BY <2>1, <2>2
<1>9. \A d : Taken(d)' = {}
  BY <1>1 DEF Taken
<1>10. IndexPart'
  BY <1>8, <1>9 DEF IndexPart
<1>11. DrainPart'
  BY <1>1 DEF DrainPart
<1>12. TypedPart' /\ IdlePart'
  BY <1>1, <1>2, <1>3, NoneApart DEF TickInv, TypedPart, IdlePart
<1>13. BytesPart'
  BY <1>2 DEF TickInv, BytesPart
<1>14. ChunksInv(chunks)'
  BY <1>2 DEF TickInv, ChunksInv
<1>15. PhaseBookkeeping'
  <2>1. PhaseBookkeeping
    BY DEF TickInv
  <2> QED
    BY <1>2, <2>1 DEF PhaseBookkeeping
<1> QED
  BY <1>10, <1>11, <1>12, <1>13, <1>14, <1>15 DEF TickInv

(* What EndBegin leaves behind.                                            *)
LEMMA EndOrder ==
  ASSUME TickInv, EndBegin
  PROVE  PhaseComplete(selected, drain.max)
<1>1. /\ drain # None /\ drain.candidate = None
      /\ drain.ready = {} \/ Len(selected) >= drain.max
  BY DEF EndBegin
<1>2. /\ Selecting(chunks, active, now, drain, selected) /\ drain.max \in Nat
  BY <1>1, DrainFacts
<1>3. Held(drain) = {c \in Addresses : c \in drain.ready}
  BY <1>1, NoneApart, TickAssumption DEF Held
<1>4. \A c : c \in Registered /\ chunks[c].eligible /\ Due(active, c)
               <=> Waits(chunks, active, now, c)
  BY DEF Waits, Due, First, Registered, Present
<1> DEFINE left == [c \in Addresses |->
                      IF c \in Registered /\ chunks[c].eligible /\ Due(active, c)
                      THEN {Head1(chunks[c].queue[active].heap)} ELSE {}]
<1>5. left = Left(chunks, active, now)
  BY <1>4 DEF Left, First
<1>6. Len(selected) < drain.max => \A c \in Addresses : left[c] = {}
  <2> SUFFICES ASSUME Len(selected) < drain.max, NEW c \in Addresses
               PROVE  ~Waits(chunks, active, now, c)
    BY <1>4
  <2>1. Len(selected) \in Nat
    BY DEF TickInv, TypedPart
  <2>2. drain.ready = {}
    BY <1>1, <1>2, <2>1
  <2> QED
    BY <1>2, <1>3, <2>2 DEF Selecting
<1>7. TakenInOrder(selected, left)
  BY <1>2, <1>5 DEF Selecting
<1>8. Len(selected) <= drain.max /\ \A i \in DOMAIN selected : selected[i].trigger <= now
  BY <1>2 DEF Selecting
<1> QED
  BY <1>6, <1>7, <1>8 DEF PhaseComplete

(* The least of a set of indices stays the least when a later one joins.   *)
LEMMA LeastMin ==
  ASSUME NEW n \in Nat, NEW I \in SUBSET (1..n), I # {}
  PROVE  Min(I) \in I /\ Min(I \cup {n + 1}) = Min(I)
<1>1. I \in SUBSET (0..n)
  OBVIOUS
<1>2. PICK i \in I : \A k \in I : i <= k
  BY <1>1, LeastIndex
<1>3. Min(I) \in I /\ \A k \in I : Min(I) <= k
  BY <1>2 DEF Min
<1>4. \A k \in I \cup {n + 1} : i <= k
  BY <1>2
<1>5. Min(I \cup {n + 1}) \in I \cup {n + 1} /\ \A k \in I \cup {n + 1} : Min(I \cup {n + 1}) <= k
  BY <1>2, <1>4 DEF Min
<1> DEFINE a == Min(I)
           b == Min(I \cup {n + 1})
<1>6. a \in I /\ (\A k \in I : a <= k) /\ b \in I \cup {n + 1} /\ \A k \in I \cup {n + 1} : b <= k
  BY <1>3, <1>5
<1> HIDE DEF a, b
<1>7. a = b
  BY <1>6
<1> QED
  BY <1>6, <1>7 DEF a, b

LEMMA OneMin == ASSUME NEW n PROVE n \in Nat => Min({n}) = n
BY DEF Min

(* A first tick of the chunk whose turn it is may be taken next.           *)
LEMMA TakenAppend ==
  ASSUME NEW sel \in Seq(Ticks), NEW left, NEW new, NEW t \in Ticks, NEW c \in Addresses,
         Chunk(t.pos) = c, NEW u \in Ticks, left[c] = {u},
         t.trigger = u.trigger, t.priority = u.priority, t.order = u.order,
         \A e \in Addresses : e # c => new[e] = left[e],
         \A v \in new[c] : ~Precedes(v, t),
         \A e \in Addresses : e # c => \A v \in left[e] : ~WithinTick(v, t),
         TakenInOrder(sel, left)
  PROVE  TakenInOrder(Append(sel, t), new)
<1> DEFINE s == Append(sel, t)
           n == Len(sel)
           later(i, e) == {j \in i + 1 .. Len(sel) : Chunk(sel[j].pos) = e}
           next(i, e) == IF later(i, e) # {} THEN {sel[Min(later(i, e))]} ELSE left[e]
           Later(i, e) == {j \in i + 1 .. Len(s) : Chunk(s[j].pos) = e}
           Next1(i, e) == IF Later(i, e) # {} THEN {s[Min(Later(i, e))]} ELSE new[e]
<1>1. s \in Seq(Ticks) /\ n \in Nat /\ Len(s) = n + 1 /\ s[n + 1] = t
      /\ DOMAIN s = 1 .. n + 1 /\ DOMAIN sel = 1 .. n /\ \A j \in 1..n : s[j] = sel[j]
  OBVIOUS
<1>2. \A i \in DOMAIN sel : \A e \in Addresses : \A v \in next(i, e) :
        IF e = Chunk(sel[i].pos) THEN ~Precedes(v, sel[i]) ELSE ~WithinTick(v, sel[i])
  BY DEF TakenInOrder
<1>3. SUFFICES ASSUME NEW i \in 1 .. n + 1, NEW e \in Addresses, NEW v \in Next1(i, e)
               PROVE  IF e = Chunk(s[i].pos) THEN ~Precedes(v, s[i]) ELSE ~WithinTick(v, s[i])
  BY <1>1 DEF TakenInOrder
<1>4. CASE i = n + 1
  <2>1. Later(i, e) = {} /\ s[i] = t
    BY <1>1, <1>4
  <2>2. v \in new[e]
    BY <2>1
  <2> HIDE DEF s, Next1
  <2> QED
    BY <2>1, <2>2
<1>5. CASE i # n + 1
  <2>1. i \in 1..n /\ s[i] = sel[i] /\ i \in DOMAIN sel
    BY <1>1, <1>5
  <2>2. e = c => Later(i, e) = later(i, e) \cup {n + 1}
    <3>1. \A j : j \in i + 1 .. Len(s) <=> j \in i + 1 .. Len(sel) \/ j = n + 1
      BY <1>1, <2>1
    <3>2. \A j \in i + 1 .. Len(sel) : s[j] = sel[j]
      BY <1>1, <2>1
    <3> HIDE DEF s, n
    <3> QED
      BY <1>1, <3>1, <3>2
  <2>3. e # c => Later(i, e) = later(i, e)
    <3>1. \A j : j \in i + 1 .. Len(s) <=> j \in i + 1 .. Len(sel) \/ j = n + 1
      BY <1>1, <2>1
    <3>2. \A j \in i + 1 .. Len(sel) : s[j] = sel[j]
      BY <1>1, <2>1
    <3> HIDE DEF s, n
    <3> QED
      BY <1>1, <3>1, <3>2
  <2>4. later(i, e) \in SUBSET (1..n)
    BY <1>1, <2>1
  <2>5. CASE later(i, e) # {}
    <3>1. Min(later(i, e)) \in later(i, e) /\ Min(later(i, e) \cup {n + 1}) = Min(later(i, e))
      <4> HIDE DEF later, n
      <4> QED
        BY <1>1, <2>4, <2>5, LeastMin
    <3>2. Later(i, e) # {} /\ Min(Later(i, e)) = Min(later(i, e))
      <4> HIDE DEF later, Later, n
      <4> QED
        BY <2>2, <2>3, <2>5, <3>1
    <3>3. Min(later(i, e)) \in 1..n
      BY <2>4, <3>1
    <3>4. v = sel[Min(later(i, e))]
      <4>1. v = s[Min(Later(i, e))]
        BY <3>2
      <4> HIDE DEF later, Later, n, s, Next1
      <4> QED
        BY <1>1, <3>2, <3>3, <4>1
    <3>5. v \in next(i, e)
      <4> HIDE DEF later
      <4> QED
        BY <2>5, <3>4
    <3> HIDE DEF later, Later, next, n, s, Next1
    <3> QED
      BY <1>2, <2>1, <3>5
  <2>6. CASE later(i, e) = {} /\ e = c
    <3>1. Later(i, e) = {n + 1}
      <4> HIDE DEF later, Later, n
      <4> QED
        BY <2>2, <2>6
    <3>2. v = s[Min({n + 1})]
      <4>1. v \in IF Later(i, e) # {} THEN {s[Min(Later(i, e))]} ELSE new[e]
        OBVIOUS
      <4> HIDE DEF Later, n, s, Next1
      <4> QED
        BY <3>1, <4>1
    <3>3. v = t
      <4>1. n + 1 \in Nat
        BY <1>1
      <4>2. Min({n + 1}) = n + 1
        <5> HIDE DEF n
        <5> QED
          BY <4>1, OneMin
      <4> QED
        BY <1>1, <3>2, <4>2
    <3>4. u \in next(i, e)
      <4> HIDE DEF later
      <4> QED
        BY <2>6
    <3>5. IF e = Chunk(sel[i].pos) THEN ~Precedes(u, sel[i]) ELSE ~WithinTick(u, sel[i])
      <4> HIDE DEF next
      <4> QED
        BY <1>2, <2>1, <3>4
    <3> HIDE DEF later, Later, next, n, s, Next1
    <3> QED
      BY <2>1, <3>3, <3>5 DEF Precedes, WithinTick
  <2>7. CASE later(i, e) = {} /\ e # c
    <3>1. Later(i, e) = {}
      <4> HIDE DEF later, Later, n
      <4> QED
        BY <2>3, <2>7
    <3>2. v \in left[e]
      <4>1. v \in IF Later(i, e) # {} THEN {s[Min(Later(i, e))]} ELSE new[e]
        OBVIOUS
      <4> HIDE DEF Later, n, s, Next1
      <4> QED
        BY <2>7, <3>1, <4>1
    <3>3. v \in next(i, e)
      <4> HIDE DEF later
      <4> QED
        BY <2>7, <3>2
    <3> HIDE DEF later, Later, next, n, s, Next1
    <3> QED
      BY <1>2, <2>1, <3>3
  <2> QED
    BY <2>5, <2>6, <2>7
<1> QED
  BY <1>4, <1>5

LEMMA TakeStep ==
  ASSUME TickInv, TakeTick
  PROVE  TickInv' /\ drain' # None
<1> DEFINE c == drain.candidate
           d == active
           q == chunks[c].queue[d]
           full == Len(selected) + 1 = drain.max
<1>1. /\ drain # None /\ c # None
      /\ UNCHANGED <<nextOrder, active, cursor, selectedIds, cleared, scratch, allocated, now>>
  BY DEF TakeTick
<1>2. PICK t \in Heads(q.heap) :
        LET heap == q.heap (-) One(t)
            again == KeepsTurn(c, heap, full)
            due == heap # EmptyBag /\ ~full /\ Head1(heap).trigger <= now
        IN  /\ chunks' = [chunks EXCEPT ![c].queue[d] = Removed(q, One(t))]
            /\ selected' = Append(selected, t)
            /\ remaining' = remaining (+) One(Identity(t))
            /\ drain' = [drain EXCEPT !.candidate = IF again THEN c ELSE None,
                                      !.ready = IF due /\ ~again THEN @ \cup {c} ELSE @]
            /\ index' = IF heap = EmptyBag \/ due THEN index
                        ELSE [index EXCEPT ![d] = Put(@, c, Head1(heap).trigger)]
  BY DEF TakeTick
<1> DEFINE heap == q.heap (-) One(t)
           again == KeepsTurn(c, heap, full)
           due == heap # EmptyBag /\ ~full /\ Head1(heap).trigger <= now
           r == Removed(q, One(t))
<1>3. /\ d \in Domains /\ Selecting(chunks, d, now, drain, selected)
      /\ drain.max \in Nat /\ drain.ready \in SUBSET Addresses /\ c \in Addresses
      /\ drain = [max |-> drain.max, ready |-> drain.ready, candidate |-> drain.candidate]
      /\ index = [e \in Domains |-> index[e]]
      /\ index[d] = IndexOf(chunks, d, Held(drain))
      /\ \A e \in Domains : e # d => index[e] = IndexOf(chunks, e, {})
  BY <1>1, DrainFacts
<1>4. /\ ChunksInv(chunks) /\ allocated = ChunkSum(chunks) + SumFunction(scratch)
      /\ allocated <= AllocationBytes /\ selected \in Seq(Ticks) /\ now \in Nat
      /\ cursor \in Nat
  BY DEF TickInv, BytesPart, TypedPart
<1>5. /\ Len(selected) < drain.max /\ c \notin drain.ready /\ c \in Held(drain)
      /\ \A e \in drain.ready : ~WithinTick(First(chunks, d, e), First(chunks, d, c))
      /\ Waits(chunks, d, now, c)
  BY <1>1, <1>3 DEF Selecting, TurnPart, Held
<1>6. /\ c \in DOMAIN chunks /\ chunks[c].registered /\ chunks[c].eligible
      /\ q.heap # EmptyBag /\ First(chunks, d, c).trigger <= now
  BY <1>5 DEF Waits
<1>7. ChunkInv(chunks[c], c) /\ QueueInv(q, c) /\ IsHeap(q.heap)
  <2>1. ChunkInv(chunks[c], c)
    BY <1>4, <1>6 DEF ChunksInv
  <2>2. QueueInv(q, c)
    BY <1>3, <2>1 DEF ChunkInv
  <2>3. IsHeap(q.heap)
    BY <1>3, <1>4, <1>6, ChunkParts
  <2> QED
    BY <2>1, <2>2, <2>3
<1>8. /\ t \in DOMAIN q.heap /\ t \in Ticks
      /\ \A u \in DOMAIN q.heap : ~Precedes(u, t)
      /\ Head1(q.heap) \in Ticks
      /\ t.trigger = Head1(q.heap).trigger
      /\ t.priority = Head1(q.heap).priority
      /\ t.order = Head1(q.heap).order
  <2> HIDE DEF q
  <2> QED
    BY <1>2, <1>6, <1>7, HeadFacts
<1>9. Chunk(t.pos) = c
  BY <1>7, <1>8 DEF QueueInv
<1>10. Reduced(q, r, c, heap)
  <2>1. IsHeap(One(t)) /\ DOMAIN One(t) = {t} /\ One(t)[t] = 1
    <3>1. IsFiniteSet({t}) /\ {t} \subseteq Ticks
      BY <1>8, FS_Singleton
    <3> QED
      BY <3>1 DEF IsHeap, One, SetToBag
  <2>2. \A u \in DOMAIN One(t) : One(t)[u] <= q.heap[u]
    BY <1>7, <1>8, <2>1 DEF IsHeap
  <2>3. DOMAIN One(t) \subseteq DOMAIN q.heap
    BY <1>8, <2>1
  <2> HIDE DEF q
  <2> QED
    BY <1>7, <2>1, <2>2, <2>3, RemovedInv
<1>11. /\ IsHeap(heap) /\ DOMAIN heap \subseteq DOMAIN q.heap
       /\ QueueInv(r, c) /\ r.heap = heap /\ Pending(r) = Pending(q)
  BY <1>10 DEF Reduced
<1>12. /\ chunks' = [chunks EXCEPT ![c].queue[d] = r]
       /\ selected' = Append(selected, t)
       /\ remaining' = remaining (+) One(Identity(t))
       /\ drain' = [drain EXCEPT !.candidate = IF again THEN c ELSE None,
                                 !.ready = IF due /\ ~again THEN @ \cup {c} ELSE @]
       /\ index' = IF heap = EmptyBag \/ due THEN index
                   ELSE [index EXCEPT ![d] = Put(@, c, Head1(heap).trigger)]
  BY <1>2
<1>13. again => due /\ \A e \in drain.ready : ~WithinTick(First(chunks, d, e), Head1(heap))
  BY DEF KeepsTurn, First, FirstOf
<1> HIDE DEF heap, again, r, due
<1>14. /\ DOMAIN chunks' = DOMAIN chunks /\ IsMap(chunks')
       /\ chunks'[c] = [chunks[c] EXCEPT !.queue[d] = r]
       /\ \A x \in DOMAIN chunks : x # c => chunks'[x] = chunks[x]
  <2>1. IsMap(chunks)
    BY <1>4 DEF ChunksInv
  <2> QED
    BY <1>6, <1>12, <2>1 DEF IsMap
<1>15. NewQueue(chunks[c], chunks'[c], c, d, r)
  BY <1>3, <1>7, <1>11, <1>14, QueuePut
<1>16. /\ ChunkInv(chunks'[c], c) /\ chunks'[c].registered = chunks[c].registered
       /\ chunks'[c].eligible = chunks[c].eligible
       /\ chunks'[c].queue[d] = r /\ \A e \in Domains : e # d => chunks'[c].queue[e] = chunks[c].queue[e]
       /\ Bytes(chunks'[c]) = Bytes(chunks[c])
  BY <1>15 DEF NewQueue
<1>17. ChunksInv(chunks')
  BY <1>4, <1>14, <1>16 DEF ChunksInv
<1>18. ChunkSum(chunks') = ChunkSum(chunks)
  <2>1. \A x \in DOMAIN chunks : Bytes(chunks'[x]) = Bytes(chunks[x])
    <3> SUFFICES ASSUME NEW x \in DOMAIN chunks PROVE Bytes(chunks'[x]) = Bytes(chunks[x])
      OBVIOUS
    <3>1. x # c => chunks'[x] = chunks[x]
      BY <1>14
    <3> QED
      BY <1>16, <3>1
  <2> QED
    BY <1>4, <1>14, <1>17, <2>1, ChunkSumSame
<1>19. /\ drain' \in Drains /\ drain'.max = drain.max
       /\ drain'.candidate = (IF again THEN c ELSE None)
       /\ drain'.ready = (IF due /\ ~again THEN drain.ready \cup {c} ELSE drain.ready)
  <2> DEFINE a == IF again THEN c ELSE None
             b == IF due /\ ~again THEN drain.ready \cup {c} ELSE drain.ready
  <2>1. drain' = [drain EXCEPT !.candidate = a, !.ready = b]
    BY <1>12
  <2>2. a \in Addresses \cup {None} /\ b \in SUBSET Addresses
    BY <1>3
  <2> HIDE DEF a, b
  <2>3. drain' \in Drains /\ drain'.max = drain.max /\ drain'.candidate = a /\ drain'.ready = b
    BY <1>3, <2>1, <2>2 DEF Drains
  <2> QED
    BY <2>3 DEF a, b
<1>20. drain' # None
  BY <1>19, NoneApart
<1>21. /\ c \in Held(drain') <=> due
       /\ \A x : x # c => (x \in Held(drain) <=> x \in Held(drain'))
       /\ \A x \in Held(drain) : x # c => x \in drain.ready
  <2>1. None \notin Addresses
    BY NoneApart, TickAssumption
  <2> QED
    BY <1>3, <1>5, <1>13, <1>19, <2>1 DEF Held
<1>22. AgreeBut(chunks, chunks', d, c)
  BY <1>14 DEF AgreeBut
<1>23. index'[d] = IndexOf(chunks', d, Held(drain'))
  <2>1. CASE heap = EmptyBag \/ due
    <3>1. c \notin Listed(chunks, d, Held(drain))
      BY <1>5 DEF Listed
    <3>2. c \notin Listed(chunks', d, Held(drain'))
      BY <1>11, <1>16, <1>21, <2>1 DEF Listed
    <3>3. index'[d] = index[d]
      BY <1>12, <2>1
    <3>4. IndexOf(chunks', d, Held(drain')) = IndexOf(chunks, d, Held(drain))
      <4> HIDE DEF c, d
      <4> QED
        BY <1>21, <1>22, <3>1, <3>2, IndexKept
    <3> QED
      BY <1>3, <3>3, <3>4
  <2>2. CASE heap # EmptyBag /\ ~due
    <3>1. c \in Listed(chunks', d, Held(drain'))
      BY <1>6, <1>11, <1>14, <1>16, <1>21, <2>2 DEF Listed
    <3> DEFINE v == Head1(heap).trigger
    <3>2. v = Head1(chunks'[c].queue[d].heap).trigger
      BY <1>11, <1>16
    <3>3. index'[d] = Put(index[d], c, v)
      BY <1>3, <1>12, <2>2
    <3>4. Put(IndexOf(chunks, d, Held(drain)), c, v) = IndexOf(chunks', d, Held(drain'))
      <4> HIDE DEF c, d, v
      <4> QED
        BY <1>21, <1>22, <3>1, <3>2, IndexPut
    <3> QED
      BY <1>3, <3>3, <3>4
  <2> QED
    BY <2>1, <2>2
<1>24. /\ index' = [e \in Domains |-> index'[e]]
       /\ \A e \in Domains : e # d => index'[e] = IndexOf(chunks', e, {})
  <2>1. index' = [e \in Domains |-> index'[e]]
    BY <1>3, <1>12
  <2>2. ASSUME NEW e \in Domains, e # d PROVE index'[e] = IndexOf(chunks', e, {})
    <3>1. Agree(chunks, chunks', e)
      BY <1>14, <1>16, <2>2 DEF Agree
    <3>2. IndexOf(chunks', e, {}) = IndexOf(chunks, e, {})
      BY <3>1, IndexSame
    <3>3. index'[e] = index[e]
      BY <1>3, <1>12, <2>2
    <3> QED
      BY <1>3, <2>2, <3>2, <3>3
  <2> QED
    BY <2>1, <2>2
<1>25. \A x : x # c => /\ Waits(chunks', d, now, x) <=> Waits(chunks, d, now, x)
                       /\ x \in DOMAIN chunks => First(chunks', d, x) = First(chunks, d, x)
  BY <1>14 DEF Waits, First
<1>26. /\ First(chunks', d, c) = Head1(heap)
       /\ Waits(chunks', d, now, c) <=> heap # EmptyBag /\ Head1(heap).trigger <= now
  BY <1>6, <1>11, <1>14, <1>16 DEF Waits, First
<1>27. Selecting(chunks', d, now, drain', selected')
  <2>1. /\ Len(selected') = Len(selected) + 1 /\ Len(selected) \in Nat
        /\ selected' \in Seq(Ticks) /\ DOMAIN selected' = 1 .. Len(selected) + 1
        /\ selected'[Len(selected) + 1] = t
        /\ \A i \in 1 .. Len(selected) : selected'[i] = selected[i] /\ i \in DOMAIN selected
    BY <1>4, <1>8, <1>12
  <2>2. Len(selected') <= drain'.max /\ (Len(selected') < drain'.max <=> ~full)
    BY <1>3, <1>5, <1>19, <2>1
  <2>3. due => ~full
    BY DEF due
  <2>4. TurnPart(chunks', d, drain', selected')
    <3> SUFFICES ASSUME drain'.candidate # None
                 PROVE  /\ Len(selected') < drain'.max /\ drain'.candidate \notin drain'.ready
                        /\ \A e \in drain'.ready :
                             ~WithinTick(First(chunks', d, e), First(chunks', d, drain'.candidate))
      BY DEF TurnPart
    <3>1. again /\ drain'.candidate = c /\ drain'.ready = drain.ready
      BY <1>19
    <3>2. Len(selected') < drain'.max
      BY <1>13, <2>2, <2>3, <3>1
    <3>3. ASSUME NEW e \in drain.ready
          PROVE  ~WithinTick(First(chunks', d, e), First(chunks', d, c))
      <4>1. e # c /\ e \in Held(drain)
        BY <1>3, <1>5 DEF Held
      <4>2. e \in DOMAIN chunks
        BY <1>3, <4>1 DEF Selecting, Waits
      <4>3. First(chunks', d, e) = First(chunks, d, e)
        BY <1>25, <4>1, <4>2
      <4> QED
        BY <1>13, <1>26, <3>1, <4>3
    <3> QED
      BY <1>5, <3>1, <3>2, <3>3
  <2>5. \A x \in Held(drain') : Waits(chunks', d, now, x)
    <3> SUFFICES ASSUME NEW x \in Held(drain') PROVE Waits(chunks', d, now, x)
      OBVIOUS
    <3>1. CASE x = c
      BY <1>21, <1>26, <3>1 DEF due
    <3>2. CASE x # c
      BY <1>3, <1>21, <1>25, <3>2 DEF Selecting
    <3> QED
      BY <3>1, <3>2
  <2>6. Len(selected') < drain'.max => \A x \in Addresses : Waits(chunks', d, now, x) => x \in Held(drain')
    <3> SUFFICES ASSUME ~full, NEW x \in Addresses, Waits(chunks', d, now, x)
                 PROVE  x \in Held(drain')
      BY <2>2
    <3>1. CASE x = c
      BY <1>21, <1>26, <3>1 DEF due
    <3>2. CASE x # c
      BY <1>3, <1>5, <1>21, <1>25, <3>2 DEF Selecting
    <3> QED
      BY <3>1, <3>2
  <2>7. \A i \in DOMAIN selected' : selected'[i].trigger <= now
    <3>1. t.trigger <= now
      BY <1>6, <1>8 DEF First
    <3>2. \A i \in DOMAIN selected : selected[i].trigger <= now
      BY <1>3 DEF Selecting
    <3>3. \A i \in DOMAIN selected' : i \in 1 .. Len(selected) \/ i = Len(selected) + 1
      BY <2>1
    <3> QED
      BY <2>1, <3>1, <3>2, <3>3
  <2>8. TakenInOrder(selected', Left(chunks', d, now))
    <3> DEFINE left == Left(chunks, d, now)
               new == Left(chunks', d, now)
               u == Head1(q.heap)
    <3>1. left[c] = {u}
      BY <1>3, <1>5 DEF Left, First
    <3>2. \A e \in Addresses : e # c => new[e] = left[e]
      <4> SUFFICES ASSUME NEW e \in Addresses, e # c PROVE new[e] = left[e]
        OBVIOUS
      <4>1. Waits(chunks, d, now, e) => e \in DOMAIN chunks
        BY DEF Waits
      <4> QED
        BY <1>25, <4>1 DEF Left
    <3>3. \A v \in new[c] : ~Precedes(v, t)
      <4> SUFFICES ASSUME NEW v \in new[c] PROVE ~Precedes(v, t)
        OBVIOUS
      <4>1. v = Head1(heap) /\ heap # EmptyBag
        BY <1>3, <1>26 DEF Left
      <4>2. v \in DOMAIN heap
        BY <1>11, <4>1, HeadFacts
      <4> QED
        BY <1>8, <1>11, <4>2
    <3>4. \A e \in Addresses : e # c => \A v \in left[e] : ~WithinTick(v, t)
      <4> SUFFICES ASSUME NEW e \in Addresses, e # c, NEW v \in left[e] PROVE ~WithinTick(v, t)
        OBVIOUS
      <4>1. Waits(chunks, d, now, e) /\ v = First(chunks, d, e)
        BY DEF Left
      <4>2. e \in drain.ready
        BY <1>3, <1>5, <1>21, <4>1 DEF Selecting
      <4>3. ~WithinTick(v, First(chunks, d, c))
        BY <1>5, <4>1, <4>2
      <4> QED
        BY <1>8, <4>3 DEF WithinTick, First
    <3>5. TakenInOrder(selected, left)
      BY <1>3 DEF Selecting
    <3> HIDE DEF left, new, u
    <3>6. u \in Ticks /\ t.trigger = u.trigger /\ t.priority = u.priority /\ t.order = u.order
      BY <1>8 DEF u
    <3>7. TakenInOrder(Append(selected, t), new)
      <4> HIDE DEF c
      <4> QED
        BY <1>3, <1>4, <1>8, <1>9, <3>1, <3>2, <3>3, <3>4, <3>5, <3>6, TakenAppend
    <3> QED
      BY <1>12, <3>7 DEF new
  <2> QED
    BY <2>2, <2>4, <2>5, <2>6, <2>7, <2>8 DEF Selecting
<1>28. selected' \in Seq(Ticks)
  BY <1>4, <1>8, <1>12
<1>29. PhaseBookkeeping'
  <2>1. /\ cursor <= Len(selected) /\ remaining = Rest(selected, cursor)
        /\ selectedIds \subseteq BagToSet(remaining) \cup cleared
    BY PhaseBooks DEF TickInv
  <2>2. remaining' = Rest(selected', cursor')
    <3>1. Rest(selected, cursor) (+) One(Identity(t)) = Rest(Append(selected, t), cursor)
      BY <1>4, <1>8, <2>1, RestAppend
    <3> QED
      BY <1>1, <1>12, <2>1, <3>1
  <2>3. cursor' <= Len(selected')
    BY <1>1, <1>4, <1>8, <1>12, <2>1
  <2>4. BagToSet(remaining) \subseteq BagToSet(remaining')
    BY <1>12 DEF BagToSet, (+)
  <2>5. selectedIds' \subseteq BagToSet(remaining') \cup cleared'
    BY <1>1, <2>1, <2>4
  <2>6. remaining' = [x \in {Identity(selected'[i]) : i \in cursor' + 1 .. Len(selected')} |->
          Cardinality({i \in cursor' + 1 .. Len(selected') : Identity(selected'[i]) = x})]
    BY <2>2 DEF Rest
  <2> QED
    BY <2>3, <2>5, <2>6 DEF PhaseBookkeeping
<1>30. active' = d /\ now' = now
  BY <1>1
<1>31. /\ UNCHANGED <<nextOrder, cursor, scratch, now>> /\ active' \in Domains
       /\ allocated' = ChunkSum(chunks') + SumFunction(scratch')
       /\ allocated' <= AllocationBytes
  BY <1>1, <1>3, <1>4, <1>18
<1>32. /\ Selecting(chunks', active', now', drain', selected')
       /\ index'[active'] = IndexOf(chunks', active', Held(drain'))
       /\ \A e \in Domains : e # active' => index'[e] = IndexOf(chunks', e, {})
  <2> HIDE DEF d
  <2> QED
    BY <1>23, <1>24, <1>27, <1>30
<1> QED
  BY <1>17, <1>19, <1>20, <1>24, <1>28, <1>29, <1>31, <1>32, DrainStep

-----------------------------------------------------------------------------
(* Copying.                                                                *)

(* A finite set of numbers has a least and a greatest one.                 *)
LEMMA IntEnds ==
  ASSUME NEW S \in SUBSET Int, IsFiniteSet(S), S # {}
  PROVE  Min(S) \in S /\ Max(S) \in S
<1> DEFINE F == {{y \in S : y <= x} : x \in S}
           G == {{y \in S : y >= x} : x \in S}
           D == S
<1>1. \E x \in S : \A y \in S : x <= y
  <2>1. F \in SUBSET SUBSET D /\ F # {} /\ IsFiniteSet(D)
    OBVIOUS
  <2>2. PICK T \in F : \A U \in F : U \subseteq T => U = T
    <3> HIDE DEF F, G, D
    <3> QED
      BY <2>1, Smallest
  <2>3. PICK x \in S : \A z : z \in T <=> z \in S /\ z <= x
    BY <2>2
  <2>4. ASSUME NEW y \in S, ~(x <= y) PROVE FALSE
    <3> DEFINE U == {z \in S : z <= y}
    <3>1. U \in F /\ \A z : z \in U <=> z \in S /\ z <= y
      OBVIOUS
    <3> HIDE DEF U, F, G
    <3>2. \A z \in S : z <= y => z <= x
      <4>1. x \in Int /\ y \in Int /\ \A z \in S : z \in Int
        OBVIOUS
      <4> QED
        BY <2>4, <4>1
    <3>3. x <= x
      OBVIOUS
    <3>4. U \subseteq T /\ x \in T /\ x \notin U
      BY <2>3, <2>4, <3>1, <3>2, <3>3
    <3> QED
      BY <2>2, <3>1, <3>4
  <2> QED
    BY <2>4
<1>2. \E x \in S : \A y \in S : x >= y
  <2>1. G \in SUBSET SUBSET D /\ G # {} /\ IsFiniteSet(D)
    OBVIOUS
  <2>2. PICK T \in G : \A U \in G : U \subseteq T => U = T
    <3> HIDE DEF F, G, D
    <3> QED
      BY <2>1, Smallest
  <2>3. PICK x \in S : \A z : z \in T <=> z \in S /\ z >= x
    BY <2>2
  <2>4. ASSUME NEW y \in S, ~(x >= y) PROVE FALSE
    <3> DEFINE U == {z \in S : z >= y}
    <3>1. U \in G /\ \A z : z \in U <=> z \in S /\ z >= y
      OBVIOUS
    <3> HIDE DEF U, F, G
    <3>2. \A z \in S : z >= y => z >= x
      <4>1. x \in Int /\ y \in Int /\ \A z \in S : z \in Int
        OBVIOUS
      <4> QED
        BY <2>4, <4>1
    <3>3. x >= x
      OBVIOUS
    <3>4. U \subseteq T /\ x \in T /\ x \notin U
      BY <2>3, <2>4, <3>1, <3>2, <3>3
    <3> QED
      BY <2>2, <3>1, <3>4
  <2> QED
    BY <2>4
<1> QED
  BY <1>1, <1>2 DEF Min, Max

(* Chunk new is ch with queue r for domain d, whose heap grew by ticks S.  *)
Grown(ch, new, c, d, r, S) ==
  /\ NewQueue(ch, new, c, d, r)
  /\ IsHeap(ch.queue[d].heap) /\ IsHeap(r.heap) /\ DOMAIN r.heap = DOMAIN ch.queue[d].heap \cup S
  /\ S = {} => r.heap = ch.queue[d].heap

LEMMA BatchPut ==
  ASSUME NEW c, NEW ch, ChunkInv(ch, c), NEW d \in Domains,
         NEW S, S \subseteq Ticks, IsFiniteSet(S),
         \A t \in S : Chunk(t.pos) = c /\ Identity(t) \notin ch.queue[d].ids,
         \A t, u \in S : Identity(t) = Identity(u) => t = u,
         Count(ch.queue[d]) + Cardinality(S) <= QueuedPerChunk,
         NEW r, r = Added(ch.queue[d], SetToBag(S)),
         NEW new, new = [ch EXCEPT !.queue[d] = r]
  PROVE  Grown(ch, new, c, d, r, S)
<1> DEFINE q == ch.queue[d]
<1>1. QueueInv(q, c)
  BY DEF ChunkInv
<1>2. /\ \A t \in S : Chunk(t.pos) = c /\ Identity(t) \notin q.ids
      /\ Count(q) + Cardinality(S) <= QueuedPerChunk
      /\ r = Added(q, SetToBag(S))
  OBVIOUS
<1> HIDE DEF q
<1>3. /\ IsHeap(q.heap) /\ IsHeap(r.heap) /\ DOMAIN r.heap = DOMAIN q.heap \cup S
      /\ QueueInv(r, c) /\ Pending(r) = Pending(q)
      /\ S = {} => r.heap = q.heap
  BY <1>1, <1>2, AddedInv
<1>4. NewQueue(ch, new, c, d, r)
  BY <1>3, QueuePut DEF q
<1> QED
  BY <1>3, <1>4 DEF q, Grown

LEMMA ShiftedSame ==
  ASSUME NEW x, NEW y, NEW offset \in Int, x.pos \in Int, y.pos \in Int,
         x = [pos |-> x.pos, type |-> x.type], y = [pos |-> y.pos, type |-> y.type],
         [pos |-> x.pos + offset, type |-> x.type] = [pos |-> y.pos + offset, type |-> y.type]
  PROVE  x = y
<1> DEFINE a == x.pos
           b == y.pos
           k == x.type
           l == y.type
<1>1. x = [pos |-> a, type |-> k] /\ y = [pos |-> b, type |-> l] /\ a \in Int /\ b \in Int
      /\ [pos |-> a + offset, type |-> k] = [pos |-> b + offset, type |-> l]
  OBVIOUS
<1> HIDE DEF a, b, k, l
<1>2. a + offset = b + offset /\ k = l
  BY <1>1
<1>3. a = b
  BY <1>1, <1>2
<1> QED
  BY <1>1, <1>2, <1>3

(* The entry of a chunk after ticks were pushed.                           *)
LEMMA PushedAt ==
  ASSUME NEW old, IsHeap(old), NEW new, IsHeap(new), DOMAIN old \subseteq DOMAIN new,
         new # EmptyBag, NEW idx, NEW c, old # EmptyBag => idx[c] = Head1(old).trigger
  PROVE  Pushed(idx, c, old, new)[c] = Head1(new).trigger
<1> DEFINE v == Head1(new).trigger
<1>1. Put(idx, c, v)[c] = v
  <2> HIDE DEF v
  <2> QED
    BY DEF Put
<1> QED
  BY <1>1, PushedFacts

(* What commit_copy does to chunks and index.                              *)
Committed ==
  /\ ChunksInv(chunks') /\ ChunkSum(chunks') = ChunkSum(chunks)
  /\ index' = [e \in Domains |-> IndexOf(chunks', e, {})]

LEMMA CommitStep ==
  ASSUME ChunksInv(chunks), index = [e \in Domains |-> index[e]],
         \A e \in Domains : index[e] = IndexOf(chunks, e, {}),
         NEW d \in Domains, NEW front \in Seq(Ticks), NEW rest \in SUBSET Ticks,
         IsFiniteSet(rest), Elements(front) \cup rest # {}, NEW offset \in Int,
         commit_copy(d, front, rest, offset)
  PROVE  Committed
<1> DEFINE all == Elements(front) \cup rest
           low == Min({t.order : t \in all})
           high == Max({t.order : t \in all})
           moved(t) == [t EXCEPT !.pos = @ + offset, !.order = @ - low + high + 1]
           target(t) == Chunk(t.pos + offset)
           landing == {t \in all : target(t) \in Registered}
           fresh == {t \in landing : Identity(moved(t)) \notin chunks[target(t)].queue[d].ids}
           first(x) == LET at == {i \in DOMAIN front : Identity(front[i]) = x}
                       IN  IF at # {} THEN {front[Min(at)]}
                           ELSE {t \in rest : Identity(t) = x}
           ids(c) == {Identity(t) : t \in {u \in fresh : target(u) = c}}
           fits == /\ \A t \in landing : t.type \in Types
                   /\ \A c \in Registered :
                        Count(chunks[c].queue[d]) + Cardinality(ids(c)) <= QueuedPerChunk
           winners == {Identity(t) : t \in fresh}
<1>1. \/ UNCHANGED <<chunks, index>>
      \/ /\ fits
         /\ \E win \in [winners -> fresh] :
              LET batch(c) == SetToBag({moved(win[x]) : x \in ids(c)})
                  new(c) == Added(chunks[c].queue[d], batch(c))
              IN  /\ \A x \in DOMAIN win : win[x] \in first(x)
                  /\ chunks' = [c \in Present |->
                       IF c \in Registered THEN [chunks[c] EXCEPT !.queue[d] = new(c)]
                       ELSE chunks[c]]
                  /\ index' = [index EXCEPT ![d] =
                       LET heap(c) == chunks[c].queue[d].heap
                           into == {c \in Registered : ids(c) # {}}
                       IN  [c \in DOMAIN @ \cup into |->
                             IF c \in into THEN Pushed(@, c, heap(c), new(c).heap)[c]
                             ELSE @[c]]]
  BY DEF commit_copy
<1>2. all \subseteq Ticks /\ all # {} /\ IsFiniteSet(all)
  <2>1. Elements(front) \subseteq Ticks
    BY DEF Elements
  <2>2. IsFiniteSet(Elements(front))
    <3>1. DOMAIN front = 1 .. Len(front) /\ Len(front) \in Nat
      OBVIOUS
    <3>2. IsFiniteSet(DOMAIN front)
      BY <3>1, UptoCount
    <3> QED
      BY <3>2, ImageSize DEF Elements
  <2>3. IsFiniteSet(Elements(front) \cup rest)
    BY <2>2, FS_Union
  <2> QED
    BY <2>1, <2>3
<1>3. low \in Int /\ high \in Int
  <2> DEFINE O == {t.order : t \in all}
             f == [t \in all |-> t.order]
  <2>1. O \subseteq Int /\ O # {}
    BY <1>2, TickKeys
  <2>2. O = {f[t] : t \in all}
    OBVIOUS
  <2>3. IsFiniteSet(O)
    <3> HIDE DEF f, all
    <3>1. IsFiniteSet({f[t] : t \in all})
      BY <1>2, ImageSize
    <3> QED
      BY <2>2, <3>1
  <2>4. low = Min(O) /\ high = Max(O)
    OBVIOUS
  <2> HIDE DEF O, low, high
  <2>5. Min(O) \in O /\ Max(O) \in O
    BY <2>1, <2>3, IntEnds
  <2> QED
    BY <2>1, <2>4, <2>5
<1> HIDE DEF low, high, all
<1>4. ASSUME NEW t \in all
      PROVE  /\ moved(t) \in Ticks /\ moved(t).pos = t.pos + offset /\ moved(t).type = t.type
             /\ Identity(moved(t)) = [pos |-> t.pos + offset, type |-> t.type]
  <2>1. t \in Ticks
    BY <1>2
  <2>2. t.pos + offset \in Int /\ t.order - low + high + 1 \in Int
    BY <1>3, <2>1, TickKeys
  <2>3. moved(t) \in Ticks /\ moved(t).pos = t.pos + offset /\ moved(t).type = t.type
    BY <2>1, <2>2 DEF Ticks
  <2> HIDE DEF moved
  <2> QED
    BY <2>3 DEF Identity
<1> HIDE DEF moved
<1>5. /\ \A t \in fresh : /\ t \in all /\ target(t) \in Registered
                          /\ Identity(moved(t)) \notin chunks[target(t)].queue[d].ids
      /\ fresh \subseteq all
  OBVIOUS
<1>6. ASSUME NEW x, NEW t \in first(x) PROVE Identity(t) = x
  <2> DEFINE at == {i \in DOMAIN front : Identity(front[i]) = x}
  <2>1. t \in IF at # {} THEN {front[Min(at)]} ELSE {u \in rest : Identity(u) = x}
    OBVIOUS
  <2>2. CASE at # {}
    <3>1. at \in SUBSET (1..Len(front)) /\ Len(front) \in Nat
      OBVIOUS
    <3>2. Min(at) \in at
      <4> HIDE DEF at
      <4> QED
        BY <2>2, <3>1, LeastMin
    <3>3. t = front[Min(at)]
      <4> HIDE DEF at
      <4> QED
        BY <2>1, <2>2
    <3> QED
      BY <3>2, <3>3
  <2>3. CASE at = {}
    <3> HIDE DEF at
    <3> QED
      BY <2>1, <2>3
  <2> QED
    BY <2>2, <2>3
<1>7. ASSUME NEW c PROVE IsFiniteSet(ids(c)) /\ ids(c) \subseteq winners
  <2> DEFINE T == {u \in fresh : target(u) = c}
             f == [t \in T |-> Identity(t)]
  <2>1. IsFiniteSet(T)
    <3>1. T \in SUBSET all
      BY <1>5
    <3> HIDE DEF T
    <3> QED
      BY <1>2, <3>1, FS_Subset
  <2>2. ids(c) = {f[t] : t \in T}
    OBVIOUS
  <2>3. IsFiniteSet({f[t] : t \in T})
    <3> HIDE DEF f, T
    <3> QED
      BY <2>1, ImageSize
  <2>4. IsFiniteSet(ids(c))
    <3> HIDE DEF ids, f, T
    <3> QED
      BY <2>2, <2>3
  <2> QED
    BY <2>4
<1>8. CASE UNCHANGED <<chunks, index>>
  <2>1. chunks' = chunks /\ index' = index
    BY <1>8
  <2> QED
    BY <2>1 DEF Committed
<1>9. ASSUME fits, NEW win \in [winners -> fresh],
             LET batch(c) == SetToBag({moved(win[x]) : x \in ids(c)})
                 new(c) == Added(chunks[c].queue[d], batch(c))
             IN  /\ \A x \in DOMAIN win : win[x] \in first(x)
                 /\ chunks' = [c \in Present |->
                      IF c \in Registered THEN [chunks[c] EXCEPT !.queue[d] = new(c)]
                      ELSE chunks[c]]
                 /\ index' = [index EXCEPT ![d] =
                      LET heap(c) == chunks[c].queue[d].heap
                          into == {c \in Registered : ids(c) # {}}
                      IN  [c \in DOMAIN @ \cup into |->
                            IF c \in into THEN Pushed(@, c, heap(c), new(c).heap)[c]
                            ELSE @[c]]]
      PROVE  Committed
  <2> DEFINE S(c) == {moved(win[x]) : x \in ids(c)}
             new(c) == Added(chunks[c].queue[d], SetToBag(S(c)))
             heap(c) == chunks[c].queue[d].heap
             into == {c \in Registered : ids(c) # {}}
             f == [c \in DOMAIN index[d] \cup into |->
                     IF c \in into THEN Pushed(index[d], c, heap(c), new(c).heap)[c]
                     ELSE index[d][c]]
  <2>1. /\ \A x \in winners : win[x] \in first(x) /\ win[x] \in fresh
        /\ chunks' = [c \in Present |->
             IF c \in Registered THEN [chunks[c] EXCEPT !.queue[d] = new(c)] ELSE chunks[c]]
        /\ index' = [index EXCEPT ![d] = f]
    <3> HIDE DEF first, fresh, ids, winners
    <3> QED
      BY <1>9
  <2>2. \A c \in Registered : c \in DOMAIN chunks /\ chunks[c].registered
    BY DEF Registered, Present
  <2>3. ASSUME NEW c \in Registered, NEW x \in ids(c)
        PROVE  /\ win[x] \in fresh /\ win[x] \in all /\ Identity(win[x]) = x
               /\ moved(win[x]) \in Ticks /\ Chunk(moved(win[x]).pos) = c
               /\ Identity(moved(win[x])) \notin chunks[c].queue[d].ids
               /\ Identity(moved(win[x])) = [pos |-> x.pos + offset, type |-> x.type]
               /\ x.pos \in Int /\ x = [pos |-> x.pos, type |-> x.type]
    <3>1. x \in winners
      BY <1>7
    <3>2. PICK u \in fresh : target(u) = c /\ x = Identity(u)
      OBVIOUS
    <3>3. win[x] \in fresh /\ win[x] \in all /\ u \in all
      <4>1. win[x] \in fresh
        <5> HIDE DEF fresh, winners, first
        <5> QED
          BY <2>1, <3>1
      <4> QED
        BY <1>5, <4>1
    <3>4. Identity(win[x]) = x
      <4>1. win[x] \in first(x)
        <5> HIDE DEF fresh, winners, first
        <5> QED
          BY <2>1, <3>1
      <4> HIDE DEF first
      <4> QED
        BY <1>6, <4>1
    <3>5. x = [pos |-> u.pos, type |-> u.type] /\ x = [pos |-> win[x].pos, type |-> win[x].type]
      BY <3>2, <3>4 DEF Identity
    <3>6. win[x].pos = u.pos /\ x.pos = u.pos /\ x.type = win[x].type /\ x = [pos |-> x.pos, type |-> x.type]
      BY <3>5
    <3>7. u \in Ticks
      BY <1>2, <3>3
    <3>8. x.pos \in Int
      BY <3>6, <3>7, TickKeys
    <3>9. target(win[x]) = c
      BY <3>2, <3>6
    <3>10. /\ moved(win[x]) \in Ticks /\ moved(win[x]).pos = win[x].pos + offset
           /\ Identity(moved(win[x])) = [pos |-> win[x].pos + offset, type |-> win[x].type]
      BY <1>4, <3>3
    <3>11. Identity(moved(win[x])) \notin chunks[c].queue[d].ids
      BY <1>5, <3>3, <3>9
    <3>12. Chunk(moved(win[x]).pos) = c
      BY <3>9, <3>10
    <3> QED
      BY <3>3, <3>4, <3>6, <3>8, <3>10, <3>11, <3>12
  <2>4. ASSUME NEW c \in Registered
        PROVE  /\ S(c) \subseteq Ticks /\ IsFiniteSet(S(c))
               /\ \A t \in S(c) : Chunk(t.pos) = c /\ Identity(t) \notin chunks[c].queue[d].ids
               /\ \A t, u \in S(c) : Identity(t) = Identity(u) => t = u
               /\ Count(chunks[c].queue[d]) + Cardinality(S(c)) <= QueuedPerChunk
               /\ S(c) = {} <=> ids(c) = {}
    <3> DEFINE I == ids(c)
               g == [x \in I |-> moved(win[x])]
    <3>1. S(c) = {g[x] : x \in I}
      OBVIOUS
    <3>2. IsFiniteSet(I)
      BY <1>7
    <3>3. Count(chunks[c].queue[d]) + Cardinality(I) <= QueuedPerChunk
      BY <1>9
    <3>4. \A x \in I : /\ g[x] \in Ticks /\ Chunk(g[x].pos) = c
                       /\ Identity(g[x]) \notin chunks[c].queue[d].ids
      BY <2>3
    <3>5. \A x, y \in I : Identity(g[x]) = Identity(g[y]) => g[x] = g[y]
      <4> SUFFICES ASSUME NEW x \in I, NEW y \in I, Identity(g[x]) = Identity(g[y]) PROVE x = y
        OBVIOUS
      <4>1. /\ Identity(g[x]) = [pos |-> x.pos + offset, type |-> x.type]
            /\ Identity(g[y]) = [pos |-> y.pos + offset, type |-> y.type]
            /\ x.pos \in Int /\ x = [pos |-> x.pos, type |-> x.type]
            /\ y.pos \in Int /\ y = [pos |-> y.pos, type |-> y.type]
        BY <2>3
      <4>2. [pos |-> x.pos + offset, type |-> x.type] = [pos |-> y.pos + offset, type |-> y.type]
        <5> HIDE DEF g, I
        <5> QED
          BY <4>1
      <4> HIDE DEF g, I
      <4> QED
        BY <4>1, <4>2, ShiftedSame
    <3> HIDE DEF I, g, S
    <3>6. IsFiniteSet(S(c)) /\ Cardinality(S(c)) <= Cardinality(I)
      BY <3>1, <3>2, ImageSize
    <3>7. Cardinality(S(c)) \in Nat /\ Cardinality(I) \in Nat
      BY <3>2, <3>6, FS_CardinalityType
    <3>8. Count(chunks[c].queue[d]) \in Nat
      <4>1. c \in DOMAIN chunks
        BY <2>2
      <4>2. chunks[c].queue[d] \in QueueStates
        BY <4>1, ChunkParts
      <4> QED
        BY <4>2, QueueParts DEF Count
    <3>9. Count(chunks[c].queue[d]) + Cardinality(S(c)) <= QueuedPerChunk
      BY <3>3, <3>6, <3>7, <3>8, TickNumbers
    <3>10. S(c) = {} <=> I = {}
      <4>1. \A x \in I : g[x] \in S(c)
        BY <3>1
      <4>2. I = {} => S(c) = {}
        BY <3>1
      <4> QED
        BY <4>1, <4>2
    <3>11. /\ S(c) \subseteq Ticks
           /\ \A t \in S(c) : Chunk(t.pos) = c /\ Identity(t) \notin chunks[c].queue[d].ids
           /\ \A t, u \in S(c) : Identity(t) = Identity(u) => t = u
      BY <3>1, <3>4, <3>5
    <3> QED
      BY <3>6, <3>9, <3>10, <3>11 DEF I
  <2> HIDE DEF S, ids, fresh, winners, first, fits, landing
  <2>5. ASSUME NEW c \in Registered
        PROVE  Grown(chunks[c], chunks'[c], c, d, new(c), S(c))
    <3>1. ChunkInv(chunks[c], c) /\ c \in DOMAIN chunks
      BY <2>2 DEF ChunksInv
    <3>2. chunks'[c] = [chunks[c] EXCEPT !.queue[d] = new(c)]
      BY <2>1, <3>1 DEF Present
    <3> QED
      BY <2>4, <3>1, <3>2, BatchPut
  <2>6. DOMAIN chunks' = DOMAIN chunks /\ IsMap(chunks')
        /\ \A c \in DOMAIN chunks \ Registered : chunks'[c] = chunks[c]
    BY <2>1 DEF Present, IsMap
  <2> HIDE DEF new
  <2>7. ASSUME NEW c \in DOMAIN chunks
        PROVE  /\ ChunkInv(chunks'[c], c) /\ Bytes(chunks'[c]) = Bytes(chunks[c])
               /\ chunks'[c].registered = chunks[c].registered
               /\ \A e \in Domains : e # d => chunks'[c].queue[e] = chunks[c].queue[e]
    <3>1. CASE c \in Registered
      BY <2>5, <3>1 DEF Grown, NewQueue
    <3>2. CASE c \notin Registered
      <4>1. chunks'[c] = chunks[c]
        BY <2>6, <3>2
      <4> QED
        BY <4>1 DEF ChunksInv
    <3> QED
      BY <3>1, <3>2
  <2>8. ChunksInv(chunks')
    BY <2>6, <2>7 DEF ChunksInv
  <2>9. ChunkSum(chunks') = ChunkSum(chunks)
    BY <2>6, <2>7, <2>8, ChunkSumSame
  <2>10. \A c \in Registered : /\ IsHeap(heap(c)) /\ IsHeap(new(c).heap)
                               /\ DOMAIN new(c).heap = DOMAIN heap(c) \cup S(c)
                               /\ chunks'[c].queue[d].heap = new(c).heap
                               /\ ids(c) = {} => new(c).heap = heap(c)
                               /\ ids(c) # {} => new(c).heap # EmptyBag
    <3> SUFFICES ASSUME NEW c \in Registered
                 PROVE  /\ IsHeap(heap(c)) /\ IsHeap(new(c).heap)
                        /\ DOMAIN new(c).heap = DOMAIN heap(c) \cup S(c)
                        /\ chunks'[c].queue[d].heap = new(c).heap
                        /\ ids(c) = {} => new(c).heap = heap(c)
                        /\ ids(c) # {} => new(c).heap # EmptyBag
      OBVIOUS
    <3>1. /\ IsHeap(heap(c)) /\ IsHeap(new(c).heap)
          /\ DOMAIN new(c).heap = DOMAIN heap(c) \cup S(c)
          /\ S(c) = {} => new(c).heap = heap(c)
          /\ NewQueue(chunks[c], chunks'[c], c, d, new(c))
      BY <2>5 DEF Grown
    <3>2. chunks'[c].queue[d].heap = new(c).heap
      BY <3>1 DEF NewQueue
    <3>3. S(c) = {} <=> ids(c) = {}
      BY <2>4
    <3>4. ids(c) # {} => new(c).heap # EmptyBag
      BY <3>1, <3>3, EmptyHeap
    <3> QED
      BY <3>1, <3>2, <3>3, <3>4
  <2>11. index'[d] = IndexOf(chunks', d, {})
    <3> DEFINE o == {}
    <3>1. index'[d] = f /\ DOMAIN f = DOMAIN index[d] \cup into /\ IsMap(f)
      BY <2>1 DEF IsMap
    <3>2. /\ DOMAIN index[d] = Listed(chunks, d, o)
          /\ \A c \in Listed(chunks, d, o) : index[d][c] = Head1(heap(c)).trigger
      BY IndexFacts
    <3>3. ASSUME NEW c PROVE c \in DOMAIN f <=> c \in Listed(chunks', d, o)
      <4>1. CASE c \in Registered
        <5>1. c \in Listed(chunks', d, o) <=> new(c).heap # EmptyBag
          BY <2>2, <2>6, <2>7, <2>10, <4>1 DEF Listed
        <5>2. c \in Listed(chunks, d, o) <=> heap(c) # EmptyBag
          BY <2>2, <4>1 DEF Listed
        <5>3. c \in into <=> ids(c) # {}
          BY <4>1
        <5>4. heap(c) # EmptyBag => new(c).heap # EmptyBag
          BY <2>10, <4>1, EmptyHeap
        <5> HIDE DEF into, f, heap
        <5> QED
          BY <2>10, <3>1, <3>2, <4>1, <5>1, <5>2, <5>3, <5>4
      <4>2. CASE c \notin Registered
        <5>1. c \notin Listed(chunks', d, o) /\ c \notin Listed(chunks, d, o)
          BY <2>6, <2>7, <4>2 DEF Listed, Registered, Present
        <5> QED
          BY <3>1, <3>2, <4>2, <5>1
      <4> QED
        BY <4>1, <4>2
    <3>4. ASSUME NEW c \in Listed(chunks', d, o)
          PROVE  f[c] = Head1(chunks'[c].queue[d].heap).trigger
      <4>1. c \in Registered /\ c \in DOMAIN f
        BY <2>6, <2>7, <3>3 DEF Listed, Registered, Present
      <4>2. chunks'[c].queue[d].heap = new(c).heap
        BY <2>10, <4>1
      <4>3. CASE c \notin into
        <5>1. ids(c) = {}
          BY <4>1, <4>3
        <5>2. new(c).heap = heap(c)
          BY <2>10, <4>1, <5>1
        <5>3. f[c] = index[d][c] /\ c \in Listed(chunks, d, o)
          BY <3>1, <3>2, <4>1, <4>3
        <5> QED
          BY <3>2, <4>2, <5>2, <5>3
      <4>4. CASE c \in into
        <5> DEFINE p == Pushed(index[d], c, heap(c), new(c).heap)
        <5>1. f[c] = p[c]
          BY <4>1, <4>4
        <5>2. /\ IsHeap(heap(c)) /\ IsHeap(new(c).heap) /\ DOMAIN heap(c) \subseteq DOMAIN new(c).heap
              /\ new(c).heap # EmptyBag
          BY <2>10, <4>1, <4>4
        <5>3. heap(c) # EmptyBag => index[d][c] = Head1(heap(c)).trigger
          <6>1. heap(c) # EmptyBag => c \in Listed(chunks, d, o)
            BY <2>2, <4>1 DEF Listed
          <6> QED
            BY <3>2, <6>1
        <5>4. p[c] = Head1(new(c).heap).trigger
          <6> DEFINE i == index[d]
          <6> HIDE DEF heap, i
          <6>1. p = Pushed(i, c, heap(c), new(c).heap) /\ (heap(c) # EmptyBag => i[c] = Head1(heap(c)).trigger)
            BY <5>3 DEF i
          <6> QED
            BY <5>2, <6>1, PushedAt
        <5> HIDE DEF p
        <5> QED
          BY <4>2, <5>1, <5>4
      <4> QED
        BY <4>3, <4>4
    <3> HIDE DEF f, o
    <3>5. DOMAIN f = Listed(chunks', d, o)
      BY <3>3
    <3>6. f = IndexOf(chunks', d, o)
      BY <3>1, <3>4, <3>5, IndexIs
    <3> QED
      BY <3>1, <3>6 DEF o
  <2>12. index' = [e \in Domains |-> IndexOf(chunks', e, {})]
    <3>1. index' = [e \in Domains |-> index'[e]]
      BY <2>1
    <3>2. ASSUME NEW e \in Domains, e # d PROVE index'[e] = IndexOf(chunks', e, {})
      <4>1. Agree(chunks, chunks', e)
        BY <2>6, <2>7, <3>2 DEF Agree
      <4>2. IndexOf(chunks', e, {}) = IndexOf(chunks, e, {})
        BY <4>1, IndexSame
      <4>3. index'[e] = index[e]
        BY <2>1, <3>2
      <4> QED
        BY <4>2, <4>3
    <3> QED
      BY <2>11, <3>1, <3>2
  <2> QED
    BY <2>8, <2>9, <2>12 DEF Committed
<1> HIDE DEF first, fresh, ids, winners, fits
<1> QED
  BY <1>1, <1>8, <1>9

LEMMA CopiedStep ==
  ASSUME TickInv, drain = None, NEW needed \in Nat, ensure_operation_scratch(needed, TRUE),
         Committed, UNCHANGED <<nextOrder, phase, drain, now>>
  PROVE  TickInv'
<1>1. /\ ChunksInv(chunks) /\ allocated = ChunkSum(chunks) + SumFunction(scratch)
      /\ allocated <= AllocationBytes
      /\ scratch \in Scratches /\ SumFunction(scratch) \in Nat
      /\ ChunkSum(chunks) \in Nat /\ allocated \in Nat
      /\ nextOrder \in Nat /\ now \in Nat
  BY IdleFacts
<1>2. Cardinality(Present) \in Nat
  BY <1>1, ChunkSumFacts, FS_CardinalityType DEF Present
<1>3. /\ scratch' \in Scratches
      /\ allocated' = allocated - SumFunction(scratch) + SumFunction(scratch')
      /\ allocated' <= AllocationBytes
  <2> DEFINE b == TRUE
  <2>1. ensure_operation_scratch(needed, b) /\ b \in BOOLEAN
    OBVIOUS
  <2> HIDE DEF b
  <2> QED
    BY <1>1, <1>2, <2>1, ScratchStep
<1>4. SumFunction(scratch') \in Nat
  BY <1>3, ScratchSum
<1>5. /\ ChunksInv(chunks') /\ ChunkSum(chunks') = ChunkSum(chunks)
      /\ index' = [e \in Domains |-> IndexOf(chunks', e, {})]
  BY DEF Committed
<1>6. allocated' = ChunkSum(chunks') + SumFunction(scratch')
  BY <1>1, <1>3, <1>4, <1>5
<1> QED
  BY <1>1, <1>3, <1>5, <1>6, ContainerStep

LEMMA CopyStep ==
  ASSUME TickInv, NEW d \in Domains, NEW area \in Int \X Int, NEW offset \in Int,
         copy_area(d, area, offset)
  PROVE  TickInv'
<1> DEFINE inside == {t \in Elements(Selected(d)) : Inside(area, t.pos)}
           front == Retain(Selected(d), inside)
           found == [c \in {e \in Registered : ContainsChunk(area, e)} |->
                       Within(chunks[c].queue[d].heap, area)]
           D == {e \in Registered : ContainsChunk(area, e)}
           rest == UNION {BagToSet(found[c]) : c \in DOMAIN found}
           sizes == [c \in DOMAIN found |-> SumFunction(found[c])]
           needed == Len(front) + SumFunction(sizes)
<1>1. /\ drain = None /\ needed > 0
      /\ ensure_operation_scratch(needed, TRUE)
      /\ commit_copy(d, front, rest, offset)
      /\ UNCHANGED <<nextOrder, phase, drain, now>>
  BY DEF copy_area
<1>2. /\ ChunksInv(chunks) /\ index = [e \in Domains |-> index[e]]
      /\ \A e \in Domains : index[e] = IndexOf(chunks, e, {})
      /\ selected \in Seq(Ticks)
  BY <1>1, IdleFacts
<1>3. front \in Seq(Ticks) /\ Len(front) \in Nat
  <2>1. Selected(d) \in Seq(Ticks)
    BY <1>2 DEF Selected
  <2> DEFINE s == Selected(d)
  <2> HIDE DEF s, inside
  <2>2. Retain(s, inside) \in Seq(Ticks)
    BY <2>1, RetainPlaces DEF s
  <2> QED
    BY <2>2 DEF s
<1>4. DOMAIN found = D /\ D \subseteq DOMAIN chunks /\ \A c \in D : found[c] = Within(chunks[c].queue[d].heap, area)
  BY DEF Registered, Present
<1>5. ASSUME NEW c \in D
      PROVE  IsHeap(found[c]) /\ BagToSet(found[c]) \subseteq Ticks /\ IsFiniteSet(BagToSet(found[c]))
  <2> DEFINE q == chunks[c].queue[d]
             k == found[c]
  <2>1. QueueInv(q, c) /\ k = Within(q.heap, area)
    BY <1>2, <1>4, ChunkParts
  <2>2. IsHeap(k)
    <3> HIDE DEF q, k
    <3> QED
      BY <2>1, WithinHeap
  <2> HIDE DEF k
  <2>3. BagToSet(k) \subseteq Ticks /\ IsFiniteSet(BagToSet(k))
    BY <2>2 DEF IsHeap, BagToSet
  <2> QED
    BY <2>2, <2>3 DEF k
<1>6. IsFiniteSet(D)
  <2>1. IsFiniteSet(DOMAIN chunks)
    BY <1>2, ChunkSumFacts
  <2>2. D \in SUBSET DOMAIN chunks
    BY <1>4
  <2> HIDE DEF D
  <2> QED
    BY <2>1, <2>2, FS_Subset
<1> HIDE DEF found, D, inside
<1>7. rest \in SUBSET Ticks /\ IsFiniteSet(rest)
  <2> DEFINE b == [c \in D |-> BagToSet(found[c])]
             B == {b[c] : c \in D}
  <2>1. rest = UNION B
    BY <1>4
  <2>2. \A T \in B : T \subseteq Ticks /\ IsFiniteSet(T)
    BY <1>5
  <2>3. IsFiniteSet(B)
    <3> HIDE DEF b
    <3> QED
      BY <1>6, ImageSize
  <2>4. IsFiniteSet(UNION B)
    <3> HIDE DEF B
    <3> QED
      BY <2>2, <2>3, FS_UNION
  <2> HIDE DEF rest
  <2>5. UNION B \subseteq Ticks
    <3> HIDE DEF B
    <3> QED
      BY <2>2
  <2> QED
    BY <2>1, <2>4, <2>5
<1>8. DOMAIN sizes = D /\ \A c \in D : sizes[c] \in Nat
  BY <1>4, <1>5, HeapSize
<1>9. SumFunction(sizes) \in Nat /\ SumFunction(sizes) = SumFunctionOnSet(sizes, D)
  <2> HIDE DEF sizes
  <2> QED
    BY <1>6, <1>8, SumNat DEF SumFunction
<1>10. needed \in Nat
  BY <1>3, <1>9
<1>11. Elements(front) \cup rest # {}
  <2> SUFFICES ASSUME Elements(front) = {}, rest = {} PROVE FALSE
    OBVIOUS
  <2>1. Len(front) = 0
    <3> HIDE DEF front, rest, sizes, needed
    <3>1. DOMAIN front = 1 .. Len(front) /\ \A i \in DOMAIN front : front[i] \in Elements(front)
      BY <1>3 DEF Elements
    <3>2. 1 \notin DOMAIN front
      BY <3>1
    <3> QED
      BY <1>3, <3>1, <3>2
  <2>2. \A c \in D : sizes[c] = 0
    <3> SUFFICES ASSUME NEW c \in D PROVE sizes[c] = 0
      OBVIOUS
    <3> DEFINE k == found[c]
    <3>1. BagToSet(k) = {} /\ IsHeap(k)
      BY <1>4, <1>5
    <3>2. sizes[c] = SumFunction(k)
      BY <1>4
    <3> HIDE DEF k, sizes
    <3>3. SumFunction(k) = SumFunctionOnSet(k, {})
      BY <3>1 DEF SumFunction, BagToSet
    <3> QED
      BY <3>2, <3>3, SumEmpty
  <2>3. SumFunctionOnSet(sizes, D) = 0
    <3> HIDE DEF sizes
    <3> QED
      BY <1>6, <2>2, SumZero
  <2> HIDE DEF front, sizes, rest
  <2> QED
    BY <1>1, <1>9, <2>1, <2>3
<1> HIDE DEF front, rest, needed
<1>12. Committed
  BY <1>1, <1>2, <1>3, <1>7, <1>11, CommitStep
<1> QED
  BY <1>1, <1>10, <1>12, CopiedStep

LEMMA CopyFromStep ==
  ASSUME TickInv, NEW d \in Domains, NEW snapshot \in Seq(Ticks), NEW offset \in Int,
         copy_area_from(d, snapshot, offset)
  PROVE  TickInv'
<1> DEFINE o == {}
           needed == Len(snapshot)
<1>1. /\ drain = None /\ snapshot # <<>>
      /\ ensure_operation_scratch(needed, TRUE)
      /\ commit_copy(d, snapshot, o, offset)
      /\ UNCHANGED <<nextOrder, phase, drain, now>>
  BY DEF copy_area_from
<1>2. /\ ChunksInv(chunks) /\ index = [e \in Domains |-> index[e]]
      /\ \A e \in Domains : index[e] = IndexOf(chunks, e, {})
  BY <1>1, IdleFacts
<1>3. needed \in Nat
  OBVIOUS
<1>4. o \in SUBSET Ticks /\ IsFiniteSet(o)
  BY FS_EmptySet
<1>5. Elements(snapshot) \cup o # {}
  <2>1. 1 \in DOMAIN snapshot
    BY <1>1
  <2>2. snapshot[1] \in Elements(snapshot)
    BY <2>1 DEF Elements
  <2> QED
    BY <2>2
<1> HIDE DEF o, needed
<1>6. Committed
  BY <1>1, <1>2, <1>4, <1>5, CommitStep
<1> QED
  BY <1>1, <1>3, <1>6, CopiedStep

-----------------------------------------------------------------------------
(* The theorems.                                                           *)

LEMMA TicksStart == ASSUME Init PROVE TickInv
<1>1. /\ chunks = [c \in {} |-> None] /\ index = [d \in Domains |-> EmptyBag]
      /\ nextOrder = 0 /\ active = None /\ selected = <<>> /\ cursor = 0
      /\ selectedIds = {} /\ remaining = EmptyBag /\ cleared = {} /\ drain = None
      /\ scratch = NoScratch /\ allocated = 0 /\ now = 0
  BY DEF Init
<1>2. NoScratch \in Scratches /\ SumFunction(NoScratch) = 0
  <2>1. NoScratch \in Scratches /\ \A f \in Buffers : NoScratch[f] = 0
    BY DEF NoScratch, Scratches, Buffers
  <2> QED
    BY <2>1, BuffersFinite, ScratchSum, SumZero
<1>3. TypedPart
  BY <1>1, <1>2 DEF TypedPart
<1>4. DOMAIN chunks = {} /\ IsMap(chunks)
  BY <1>1 DEF IsMap
<1>5. ChunksInv(chunks)
  BY <1>4 DEF ChunksInv
<1>6. BytesPart
  <2> DEFINE w == [c \in DOMAIN chunks |-> Bytes(chunks[c])]
  <2>1. DOMAIN w = {}
    BY <1>4
  <2>2. ChunkSum(chunks) = SumFunction(w)
    BY DEF ChunkSum
  <2> HIDE DEF w
  <2>3. SumFunction(w) = SumFunctionOnSet(w, {})
    BY <2>1 DEF SumFunction
  <2>4. ChunkSum(chunks) = 0
    BY <2>2, <2>3, SumEmpty
  <2> QED
    BY <1>1, <1>2, <2>4, TickNumbers DEF BytesPart
<1>7. IndexPart
  <2>1. ASSUME NEW d \in Domains PROVE EmptyBag = IndexOf(chunks, d, Taken(d))
    <3>1. Listed(chunks, d, Taken(d)) = {}
      BY <1>4 DEF Listed
    <3>2. IsMap(EmptyBag) /\ DOMAIN EmptyBag = {}
      BY DEF EmptyBag, SetToBag, IsMap
    <3> DEFINE o == Taken(d)
               f == EmptyBag
    <3> HIDE DEF o, f
    <3>3. IsMap(f) /\ DOMAIN f = Listed(chunks, d, o)
          /\ \A c \in Listed(chunks, d, o) : f[c] = Head1(chunks[c].queue[d].heap).trigger
      BY <3>1, <3>2 DEF o, f
    <3>4. f = IndexOf(chunks, d, o)
      BY <3>3, IndexIs
    <3> QED
      BY <3>4 DEF o, f
  <2> QED
    BY <1>1, <2>1 DEF IndexPart
<1>8. DrainPart /\ IdlePart
  BY <1>1 DEF DrainPart, IdlePart
<1>9. PhaseBookkeeping
  <2>1. remaining = Rest(selected, cursor)
    BY <1>1, EmptyRest
  <2>2. cursor <= Len(selected) /\ selectedIds \subseteq BagToSet(remaining) \cup cleared
    BY <1>1
  <2> QED
    BY <2>1, <2>2, PhaseBooks
<1> QED
  BY <1>3, <1>5, <1>6, <1>7, <1>8, <1>9 DEF TickInv

LEMMA TicksStill == ASSUME TickInv, UNCHANGED vars PROVE TickInv'
<1>1. UNCHANGED <<chunks, index, nextOrder, active, selected, cursor, selectedIds, remaining,
                  cleared, drain, scratch, allocated, now>>
  BY DEF vars, phase
<1>2. TypedPart' /\ IdlePart' /\ BytesPart' /\ ChunksInv(chunks)'
  BY <1>1 DEF TickInv, TypedPart, IdlePart, BytesPart, ChunksInv
<1>3. PhaseBookkeeping'
  <2>1. PhaseBookkeeping
    BY DEF TickInv
  <2> QED
    BY <1>1, <2>1 DEF PhaseBookkeeping
<1>4. IndexPart'
  <2>1. \A d : Taken(d)' = Taken(d)
    BY <1>1 DEF Taken
  <2>2. index = [d \in Domains |-> IndexOf(chunks, d, Taken(d))]
    BY DEF TickInv, IndexPart
  <2>3. index' = [d \in Domains |-> IndexOf(chunks', d, Taken(d)')]
    BY <1>1, <2>1, <2>2
  <2> QED
    BY <2>3 DEF IndexPart
<1>5. DrainPart'
  <2>1. DrainPart
    BY DEF TickInv
  <2>2. drain' # None => active' \in Domains /\ Selecting(chunks', active', now', drain', selected')
    BY <1>1, <2>1 DEF DrainPart
  <2> QED
    BY <2>2 DEF DrainPart
<1> QED
  BY <1>2, <1>3, <1>4, <1>5 DEF TickInv

LEMMA TicksKept == ASSUME TickInv, [Next]_vars PROVE TickInv'
<1>1. CASE Container
  <2>1. ASSUME NEW x \in Eligibilities, register_chunk(x[1], x[2]) \/ set_eligible(x[1], x[2])
        PROVE  TickInv'
    <3>1. x[1] \in Addresses /\ x[2] \in BOOLEAN
      BY TickAssumption
    <3> QED
      BY <2>1, <3>1, RegisterStep, EligibleStep
  <2>2. ASSUME NEW c \in Addresses,
               \/ unpack_chunk(c) \/ detach_chunk(c) \/ discard_detached_chunk(c)
               \/ \E d \in Domains : pack_chunk(c, d)
        PROVE  TickInv'
    BY <2>2, UnpackStep, DetachStep, DiscardStep, PackStep
  <2>3. ASSUME NEW x \in Loads, load_pending_chunk(x.chunk, x.lists) PROVE TickInv'
    <3>1. x.chunk \in Addresses /\ x.lists \in [Domains -> Seq(SavedTicks)]
      BY TickAssumption
    <3> QED
      BY <2>3, <3>1, LoadStep
  <2> QED
    BY <1>1, <2>1, <2>2, <2>3 DEF Container
<1>2. CASE \E r \in Requests : schedule(r)
  BY <1>2, ScheduleStep
<1>3. CASE Phase
  BY <1>3, BeginStep, PopStep, TakeStep, EndStep, AskStep, NextStep, FinishStep DEF Phase
<1>4. CASE Area
  <2>1. ASSUME NEW x \in Clears, clear_area(x.domain, x.area) PROVE TickInv'
    <3>1. x.domain \in Domains /\ x.area \in Int \X Int
      BY TickAssumption
    <3> QED
      BY <2>1, <3>1, ClearStep
  <2>2. ASSUME NEW x \in Copies, copy_area(x.domain, x.area, x.offset) PROVE TickInv'
    <3>1. x.domain \in Domains /\ x.area \in Int \X Int /\ x.offset \in Int
      BY TickAssumption
    <3> QED
      BY <2>2, <3>1, CopyStep
  <2>3. ASSUME NEW x \in ForeignCopies, copy_area_from(x.domain, x.snapshot, x.offset) PROVE TickInv'
    <3>1. x.domain \in Domains /\ x.snapshot \in Seq(Ticks) /\ x.offset \in Int
      BY TickAssumption
    <3> QED
      BY <2>3, <3>1, CopyFromStep
  <2> QED
    BY <1>4, <2>1, <2>2, <2>3, ReleaseStep DEF Area
<1>5. CASE Tick
  BY <1>5, ClockStep
<1>6. CASE UNCHANGED vars
  BY <1>6, TicksStill
<1> QED
  BY <1>1, <1>2, <1>3, <1>4, <1>5, <1>6 DEF Next

(* The inductive invariant behind the three theorems below, for every call *)
(* of ScheduledTickOwner: load, schedule, clear, copy, drain and hand-out. *)
THEOREM TicksInvariant == Spec => []TickInv
BY TicksStart, TicksKept, PTL DEF Spec

LEMMA SoundIndex == ASSUME TickInv PROVE IndexExact
<1> SUFFICES ASSUME drain = None, NEW d \in Domains
             PROVE  index[d] = [c \in {e \in Registered : chunks[e].queue[d].heap # EmptyBag} |->
                                  Head1(chunks[c].queue[d].heap).trigger]
  BY DEF IndexExact
<1> DEFINE o == {}
<1>1. index[d] = IndexOf(chunks, d, o)
  BY IdleFacts
<1>2. Listed(chunks, d, o) = {e \in Registered : chunks[e].queue[d].heap # EmptyBag}
  BY DEF Listed, Registered, Present
<1> HIDE DEF o
<1> QED
  BY <1>1, <1>2 DEF IndexOf

LEMMA SoundQueues == ASSUME TickInv PROVE QueueAccounting
<1>1. /\ ChunksInv(chunks) /\ allocated = ChunkSum(chunks) + SumFunction(scratch)
      /\ allocated <= AllocationBytes
  BY DEF TickInv, BytesPart
<1>2. ASSUME NEW c \in Present, NEW d \in Domains
      PROVE  LET q == chunks[c].queue[d]
                 queued == {Identity(t) : t \in BagToSet(q.heap)}
                             \cup {Identity(Pending(q)[i]) : i \in DOMAIN Pending(q)}
             IN  /\ Count(q) <= QueuedPerChunk
                 /\ q.ids \subseteq queued
                 /\ q.clean => q.ids = queued /\ Count(q) = Cardinality(queued)
                 /\ \A t \in BagToSet(q.heap) : Chunk(t.pos) = c
  <2> DEFINE q == chunks[c].queue[d]
             queued == {Identity(t) : t \in BagToSet(q.heap)}
                         \cup {Identity(Pending(q)[i]) : i \in DOMAIN Pending(q)}
  <2>1. QueueInv(q, c)
    BY <1>1, <1>2, ChunkParts DEF Present
  <2>2. queued = Queued(q)
    BY DEF Queued, BagToSet
  <2> HIDE DEF q, queued
  <2>3. q.clean => q.ids = Queued(q) /\ Count(q) = Cardinality(Queued(q))
    BY <2>1, NoTwiceCount DEF QueueInv, NoTwice
  <2>4. /\ Count(q) <= QueuedPerChunk /\ q.ids \subseteq queued
        /\ q.clean => q.ids = queued /\ Count(q) = Cardinality(queued)
        /\ \A t \in BagToSet(q.heap) : Chunk(t.pos) = c
    BY <2>1, <2>2, <2>3 DEF QueueInv, BagToSet
  <2> QED
    BY <2>4 DEF q, queued
<1>3. allocated = SumFunction([c \in Present |-> Bytes(chunks[c])]) + SumFunction(scratch)
  BY <1>1 DEF ChunkSum, Present
<1> QED
  BY <1>1, <1>2, <1>3 DEF QueueAccounting

(* What QueuesSound says of ScheduledTickOwner, for every set of chunks,   *)
(* every limit and every sequence of calls: between calls the scheduling   *)
(* index is exact, queues stay within their limit and know the identities  *)
(* of what they hold, the charged bytes are what is held, and the books of *)
(* a running phase count exactly the ticks still to be handed out.         *)
THEOREM QueuesAreSound == Spec => []QueuesSound
<1>1. TickInv => QueuesSound
  BY SoundIndex, SoundQueues DEF QueuesSound, TickInv
<1> QED
  BY <1>1, TicksInvariant, PTL

(* The cut to an i32 keeps what an i32 holds.                              *)
LEMMA CutFacts ==
  ASSUME NEW x \in Int
  PROVE  CutDelay(x) \in Delays /\ (x \in Delays => CutDelay(x) = x)
<1> DEFINE b == 2 * DelayHalf
           a == x + DelayHalf
<1>1. b \in Nat \ {0} /\ a \in Int /\ DelayHalf \in Nat
  BY TickAssumption
<1>2. CutDelay(x) = (a % b) - DelayHalf
  BY DEF CutDelay
<1>3. a = x + DelayHalf /\ b = 2 * DelayHalf
  OBVIOUS
<1> HIDE DEF a, b
<1>4. a % b \in 0 .. b - 1
  BY <1>1
<1>5. 0 <= a /\ a < b => a % b = a
  BY <1>1
<1>6. CutDelay(x) \in -DelayHalf .. DelayHalf - 1
  BY <1>1, <1>2, <1>3, <1>4
<1>7. x \in -DelayHalf .. DelayHalf - 1 => CutDelay(x) = x
  BY <1>1, <1>2, <1>3, <1>5
<1> QED
  BY <1>6, <1>7 DEF Delays

(* The keys of a tick that was saved and loaded again at the same time.    *)
LEMMA SavedKeys ==
  ASSUME NEW q \in QueueStates, NEW s \in Sorted(q.heap), NEW time \in Int
  PROVE  LET list == Packed(q, s, time)
             n == Len(Pending(q))
         IN  /\ n \in Nat /\ Len(list) \in Nat /\ DOMAIN list = 1 .. Len(list)
             /\ \A i \in DOMAIN list : i <= n =>
                  /\ i \in DOMAIN Pending(q) /\ list[i] = Pending(q)[i]
             /\ \A i \in DOMAIN list : i > n =>
                  /\ i - n \in DOMAIN s /\ s[i - n] \in Ticks
                  /\ list[i].delay = CutDelay(s[i - n].trigger - time)
                  /\ list[i].priority = s[i - n].priority
             /\ \A i, j \in DOMAIN s : i < j => s[i].order <= s[j].order
<1> DEFINE P == Pending(q)
           n == Len(P)
           D == DOMAIN q.heap
           m == Cardinality(D)
           live == [i \in DOMAIN s |->
                      [pos |-> s[i].pos, type |-> s[i].type,
                       delay |-> CutDelay(s[i].trigger - time), priority |-> s[i].priority]]
           list == Packed(q, s, time)
<1>1. IsHeap(q.heap) /\ P \in Seq(SavedTicks) /\ n \in Nat
  BY QueueParts
<1>2. m \in Nat /\ D \subseteq Ticks
  BY <1>1, FS_CardinalityType DEF IsHeap
<1>3. s \in [1..m -> D] /\ \A i, j \in DOMAIN s : i < j => s[i].order <= s[j].order
  BY DEF Sorted, SetToSeqs, BagToSet
<1> HIDE DEF m, D
<1>4. DOMAIN s = 1..m /\ \A i \in 1..m : s[i] \in Ticks
  BY <1>2, <1>3
<1>5. \A i \in 1..m : live[i] \in SavedTicks
  <2> SUFFICES ASSUME NEW i \in 1..m PROVE live[i] \in SavedTicks
    OBVIOUS
  <2>1. s[i] \in Ticks
    BY <1>4
  <2>2. s[i].pos \in Int /\ s[i].type \in Nat /\ s[i].trigger - time \in Int
        /\ s[i].priority \in -3 .. 3
    BY <2>1 DEF Ticks
  <2>3. CutDelay(s[i].trigger - time) \in Delays
    BY <2>2, CutFacts
  <2> QED
    BY <1>4, <2>2, <2>3 DEF SavedTicks
<1>6. DOMAIN live = 1..m /\ live \in [1..m -> SavedTicks]
  BY <1>4, <1>5
<1>7. \A i \in 1..m : live[i].delay = CutDelay(s[i].trigger - time) /\ live[i].priority = s[i].priority
  BY <1>4
<1>8. list = P \o live
  BY DEF Packed
<1> HIDE DEF live, P, list
<1>9. live \in Seq(SavedTicks) /\ Len(live) = m
  BY <1>2, <1>6
<1> HIDE DEF n
<1>10. /\ Len(list) = n + m /\ DOMAIN list = 1 .. n + m
       /\ \A i \in 1 .. n + m : list[i] = IF i <= n THEN P[i] ELSE live[i - n]
  <2>1. /\ Len(P \o live) = Len(P) + Len(live) /\ DOMAIN (P \o live) = 1 .. Len(P) + Len(live)
        /\ \A i \in 1 .. Len(P) + Len(live) :
             (P \o live)[i] = IF i <= Len(P) THEN P[i] ELSE live[i - Len(P)]
    BY <1>1, <1>9, JoinFacts
  <2> QED
    BY <1>8, <1>9, <2>1 DEF n
<1>11. DOMAIN P = 1..n
  BY <1>1 DEF n
<1>12. \A i \in DOMAIN list : i <= n => i \in DOMAIN P /\ list[i] = P[i]
  BY <1>1, <1>2, <1>10, <1>11
<1>13. \A i \in DOMAIN list : i > n => i - n \in 1..m /\ list[i] = live[i - n]
  BY <1>1, <1>2, <1>10
<1>14. \A i \in DOMAIN list : i > n =>
         /\ i - n \in DOMAIN s /\ s[i - n] \in Ticks
         /\ list[i].delay = CutDelay(s[i - n].trigger - time)
         /\ list[i].priority = s[i - n].priority
  BY <1>4, <1>7, <1>13
<1>15. Len(list) \in Nat /\ DOMAIN list = 1 .. Len(list)
  BY <1>1, <1>2, <1>10
<1> QED
  BY <1>1, <1>3, <1>12, <1>14, <1>15 DEF n, P, list

LEMMA SavedOrder ==
  ASSUME NEW q \in QueueStates, NEW s \in Sorted(q.heap), NEW time \in Int,
         NEW n, n = Len(Pending(q)), NEW list, list = Packed(q, s, time),
         NEW i \in DOMAIN list, NEW j \in DOMAIN list,
         NEW t, t = (IF i <= n THEN Live(q.pending, i, time) ELSE s[i - n]),
         NEW u, u = (IF j <= n THEN Live(q.pending, j, time) ELSE s[j - n]),
         Precedes(t, u), t.trigger - time \in Delays, u.trigger - time \in Delays,
         (i > n <=> j > n) \/ t.order >= 0 \/ u.order >= 0
  PROVE  Precedes(Live(list, i, time), Live(list, j, time))
<1>1. /\ n \in Nat /\ Len(list) \in Nat /\ DOMAIN list = 1 .. Len(list)
      /\ \A k \in DOMAIN list : k <= n => k \in DOMAIN Pending(q) /\ list[k] = Pending(q)[k]
      /\ \A k \in DOMAIN list : k > n =>
           /\ k - n \in DOMAIN s /\ s[k - n] \in Ticks
           /\ list[k].delay = CutDelay(s[k - n].trigger - time)
           /\ list[k].priority = s[k - n].priority
      /\ \A k, l \in DOMAIN s : k < l => s[k].order <= s[l].order
  BY SavedKeys
<1>2. i \in Nat /\ j \in Nat
  BY <1>1
<1>3. /\ Pending(q) \in Seq(SavedTicks) /\ DOMAIN Pending(q) = 1 .. Len(Pending(q))
      /\ Pending(q) # <<>> => q.pending = Pending(q)
  BY QueueParts DEF Pending
<1>4. ASSUME NEW k \in DOMAIN list, k <= n
      PROVE  /\ q.pending = Pending(q) /\ list[k] = q.pending[k] /\ Len(q.pending) = n
             /\ list[k].delay \in Int /\ list[k].priority \in Int
  <2>1. k \in DOMAIN Pending(q) /\ list[k] = Pending(q)[k]
    BY <1>1, <1>4
  <2>2. Pending(q) # <<>>
    BY <2>1
  <2>3. list[k] \in SavedTicks
    BY <1>3, <2>1
  <2> QED
    BY <1>3, <2>1, <2>2, <2>3, SavedTickParts
<1>5. ASSUME NEW k \in DOMAIN list, NEW v,
             v = (IF k <= n THEN Live(q.pending, k, time) ELSE s[k - n]),
             v.trigger - time \in Delays
      PROVE  /\ Live(list, k, time).trigger = v.trigger
             /\ Live(list, k, time).priority = v.priority
             /\ Live(list, k, time).order = k - 1 - Len(list)
             /\ v.order \in Int
             /\ k <= n => v.order = k - 1 - n
  <2>1. /\ Live(list, k, time).trigger = time + list[k].delay
        /\ Live(list, k, time).priority = list[k].priority
        /\ Live(list, k, time).order = k - 1 - Len(list)
    BY DEF Live
  <2>2. CASE k <= n
    <3>1. /\ v.trigger = time + q.pending[k].delay /\ v.priority = q.pending[k].priority
          /\ v.order = k - 1 - Len(q.pending)
      BY <1>5, <2>2 DEF Live
    <3>2. k \in Nat
      BY <1>1
    <3> QED
      BY <1>1, <1>4, <2>1, <2>2, <3>1, <3>2
  <2>3. CASE ~(k <= n)
    <3>1. v = s[k - n] /\ k > n
      BY <1>1, <1>5, <2>3
    <3>2. v \in Ticks /\ list[k].delay = CutDelay(v.trigger - time) /\ list[k].priority = v.priority
      BY <1>1, <3>1
    <3>3. v.trigger \in Int /\ v.order \in Int
      BY <3>2, TickKeys
    <3>4. time + (v.trigger - time) = v.trigger /\ v.trigger - time \in Int
      BY <3>3
    <3>5. CutDelay(v.trigger - time) = v.trigger - time
      BY <1>5, <3>4, CutFacts
    <3> QED
      BY <2>1, <2>3, <3>2, <3>3, <3>4, <3>5
  <2> QED
    BY <2>2, <2>3
<1> DEFINE a == Live(list, i, time)
           b == Live(list, j, time)
<1>6. /\ a.trigger = t.trigger /\ a.priority = t.priority /\ a.order = i - 1 - Len(list)
      /\ t.order \in Int /\ (i <= n => t.order = i - 1 - n)
  BY <1>5
<1>7. /\ b.trigger = u.trigger /\ b.priority = u.priority /\ b.order = j - 1 - Len(list)
      /\ u.order \in Int /\ (j <= n => u.order = j - 1 - n)
  BY <1>5
<1> HIDE DEF a, b
<1>8. CASE t.order < u.order /\ t.trigger = u.trigger /\ t.priority = u.priority
  <2>1. i < j
    <3>1. CASE i <= n /\ j <= n
      BY <1>1, <1>2, <1>6, <1>7, <1>8, <3>1
    <3>2. CASE i <= n /\ j > n
      BY <1>1, <1>2, <3>2
    <3>3. CASE i > n /\ j <= n
      <4>1. t.order >= 0 \/ u.order >= 0
        BY <1>1, <1>2, <3>3
      <4>2. u.order = j - 1 - n
        BY <1>7, <3>3
      <4>3. u.order >= 0
        BY <1>6, <1>7, <1>8, <4>1
      <4> QED
        BY <1>1, <1>2, <3>3, <4>2, <4>3
    <3>4. CASE i > n /\ j > n
      <4>1. t = s[i - n] /\ u = s[j - n] /\ i - n \in DOMAIN s /\ j - n \in DOMAIN s
        BY <1>1, <1>2, <3>4
      <4>2. j - n < i - n => u.order <= t.order
        BY <1>1, <4>1
      <4>3. i # j
        BY <1>6, <1>8, <4>1
      <4> QED
        BY <1>1, <1>2, <1>6, <1>7, <1>8, <4>2, <4>3
    <3> QED
      BY <1>1, <1>2, <3>1, <3>2, <3>3, <3>4
  <2>2. a.order < b.order
    BY <1>1, <1>2, <1>6, <1>7, <2>1
  <2>3. Precedes(a, b)
    BY <1>6, <1>7, <1>8, <2>2 DEF Precedes
  <2> QED
    BY <2>3 DEF a, b
<1>9. CASE t.trigger < u.trigger \/ (t.trigger = u.trigger /\ t.priority < u.priority)
  <2>1. Precedes(a, b)
    BY <1>6, <1>7, <1>9 DEF Precedes
  <2> QED
    BY <2>1 DEF a, b
<1> QED
  BY <1>8, <1>9 DEF Precedes

(* pack_chunk, then load_pending_chunk and unpack_chunk at the same time,  *)
(* keep the order of two ticks of a chunk that run within an i32 of that   *)
(* time: of two live ticks, of two saved entries, and of a saved entry and *)
(* a live tick whose sub order is not negative, whatever a chunk's queues  *)
(* came to hold and whatever the width of a delay.                         *)
THEOREM SavingKeepsOrder == Spec => []SaveKeepsOrder
<1>1. ASSUME TickInv PROVE SaveKeepsOrder
  <2> SUFFICES ASSUME NEW c \in Present, NEW d \in Domains
               PROVE  LET q == chunks[c].queue[d]
                          n == Len(Pending(q))
                      IN  \A s \in Sorted(q.heap) :
                            LET list == Packed(q, s, now)
                                old == [i \in DOMAIN list |->
                                          IF i <= n THEN Live(q.pending, i, now) ELSE s[i - n]]
                            IN  \A i, j \in DOMAIN list :
                                  /\ Precedes(old[i], old[j])
                                  /\ {old[i].trigger - now, old[j].trigger - now} \subseteq Delays
                                  /\ (i > n <=> j > n) \/ old[i].order >= 0 \/ old[j].order >= 0
                                  => Precedes(Live(list, i, now), Live(list, j, now))
    BY DEF SaveKeepsOrder
  <2> DEFINE q == chunks[c].queue[d]
             n == Len(Pending(q))
  <2>1. q \in QueueStates /\ now \in Int
    <3>1. ChunksInv(chunks) /\ now \in Nat /\ c \in DOMAIN chunks
      BY <1>1 DEF TickInv, TypedPart, Present
    <3> QED
      BY <3>1, ChunkParts
  <2>2. ASSUME NEW s \in Sorted(q.heap)
        PROVE  LET list == Packed(q, s, now)
                   old == [i \in DOMAIN list |->
                             IF i <= n THEN Live(q.pending, i, now) ELSE s[i - n]]
               IN  \A i, j \in DOMAIN list :
                     /\ Precedes(old[i], old[j])
                     /\ {old[i].trigger - now, old[j].trigger - now} \subseteq Delays
                     /\ (i > n <=> j > n) \/ old[i].order >= 0 \/ old[j].order >= 0
                     => Precedes(Live(list, i, now), Live(list, j, now))
    <3> DEFINE list == Packed(q, s, now)
               pick(i) == IF i <= n THEN Live(q.pending, i, now) ELSE s[i - n]
               old == [i \in DOMAIN list |-> pick(i)]
    <3> SUFFICES ASSUME NEW i \in DOMAIN list, NEW j \in DOMAIN list,
                        Precedes(old[i], old[j]),
                        {old[i].trigger - now, old[j].trigger - now} \subseteq Delays,
                        (i > n <=> j > n) \/ old[i].order >= 0 \/ old[j].order >= 0
                 PROVE  Precedes(Live(list, i, now), Live(list, j, now))
      OBVIOUS
    <3> DEFINE t == old[i]
               u == old[j]
    <3>1. /\ t = (IF i <= n THEN Live(q.pending, i, now) ELSE s[i - n])
          /\ u = (IF j <= n THEN Live(q.pending, j, now) ELSE s[j - n])
          /\ Precedes(t, u) /\ t.trigger - now \in Delays /\ u.trigger - now \in Delays
          /\ ((i > n <=> j > n) \/ t.order >= 0 \/ u.order >= 0)
          /\ n = Len(Pending(q)) /\ list = Packed(q, s, now)
      OBVIOUS
    <3> HIDE DEF t, u, list, n, q, old, pick
    <3> QED
      BY <2>1, <3>1, SavedOrder
  <2> QED
    BY <2>2
<1> QED
  BY <1>1, TicksInvariant, PTL

(* begin_phase selects due ticks only, at most max of them, each chunk's   *)
(* in queue order and the chunks' by priority and sub order, and a phase   *)
(* with room leaves no due tick in an eligible chunk.                      *)
THEOREM PhasesInOrder == Spec => PhaseOrder
<1>1. ASSUME TickInv, [Next]_vars
      PROVE  [drain # None /\ drain' = None => PhaseComplete(selected, drain.max)]_vars
  <2> SUFFICES ASSUME drain # None, drain' = None, Next PROVE PhaseComplete(selected, drain.max)
    BY <1>1
  <2>1. ~Container
    BY DEF Container, register_chunk, set_eligible, unpack_chunk, detach_chunk,
           discard_detached_chunk, pack_chunk, load_pending_chunk
  <2>2. ~(\E r \in Requests : schedule(r)) /\ ~Tick
    BY DEF schedule, Tick
  <2>3. ~Area
    BY DEF Area, clear_area, copy_area, copy_area_from, release_operation_scratch
  <2>4. Phase
    BY <2>1, <2>2, <2>3 DEF Next
  <2>5. EndBegin
    BY <1>1, <2>4, PopStep, TakeStep
       DEF Phase, begin_phase, will_tick_this_phase, next_due, finish_phase
  <2> QED
    BY <1>1, <2>5, EndOrder
<1> QED
  BY <1>1, TicksInvariant, PTL DEF Spec, PhaseOrder
=============================================================================
