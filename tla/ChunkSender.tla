----------------------------- MODULE ChunkSender -----------------------------
(***************************************************************************)
(* One player's chunk scheduler and delivery queue (server/                *)
(* chunk_sender.rs: ChunkSender, TickPlan, ChunkDeliveryQueue), with the   *)
(* client at the other end of the ordered connection.                      *)
(*                                                                         *)
(* A TickPlan borrows the sender mutably, so between begin_tick and the    *)
(* end of the plan only admissions, packet writes and a connection failure *)
(* can happen; each method is one action. Rates and the quota are fixed    *)
(* point numbers, One being 1.0. The tick identifier only refuses a second *)
(* begin_tick in one owner tick, and is the flag "ticked". The order in    *)
(* which pending positions stream out of their hash table (see             *)
(* PendingPositions) decides between equal distances only, and is a        *)
(* nondeterministic choice here.                                           *)
(*                                                                         *)
(* The view of the player and the client are external: the owner marks a   *)
(* position once when it enters the view and drops it when it leaves; the  *)
(* client answers each Finish, and may send a few answers nobody asked for.*)
(***************************************************************************)
EXTENDS Integers, Sequences, FiniteSets, FiniteSetsExt, SequencesExt

CONSTANTS
  Positions,    \* chunk positions
  Distances,    \* Distances from the centres the player can be at
  Size,         \* Size[p]: delivery bytes of p's packet and span
  Memory,       \* memory_connection
  One,          \* the rate and quota 1.0
  MinRate,      \* MIN_CHUNKS_PER_TICK
  MaxRate,      \* MAX_CHUNKS_PER_TICK
  InitialRate,  \* the desired rate of a new sender
  Requests,     \* rates a client may ask for, NaN among them
  NaN,
  Window,       \* max_unacknowledged after the first answer
  MaxPending,   \* SenderLimits.max_pending
  MaxGroups,    \* DeliveryLimits.max_groups
  MaxBytes,     \* DeliveryLimits.max_bytes without the queue's own metadata
  MaxStrays,    \* bound: answers the client sends without a batch
  None

ASSUME SenderAssumption ==
  /\ IsFiniteSet(Positions)
  /\ Distances \subseteq [Positions -> Nat]
  /\ Size \in [Positions -> Nat \ {0}]
  /\ Memory \in BOOLEAN
  /\ {One, MinRate, MaxRate, InitialRate} \subseteq Nat \ {0}
  /\ MinRate <= One /\ One <= MaxRate /\ InitialRate \in MinRate..MaxRate
  /\ Requests \subseteq Int \cup {NaN}
  /\ {Window, MaxPending, MaxGroups} \subseteq Nat \ {0}
  /\ {MaxBytes, MaxStrays} \subseteq Nat

VARIABLES
  pending,     \* ChunkSender.pending, as a set
  desired,     \* ChunkSender.desired
  quota,       \* ChunkSender.quota
  unacked,     \* ChunkSender.unacknowledged
  window,      \* ChunkSender.max_unacknowledged
  ticked,      \* last_tick is the owner's present tick
  plan,        \* the live TickPlan, or None
  groups,      \* ChunkDeliveryQueue.groups
  used,        \* ChunkDeliveryQueue.used_bytes
  closed,      \* ChunkDeliveryQueue.closed
  view,        \* external: positions the owner wants at the client
  stale,       \* external: dropped while the player was not alive
  loaded,      \* external: positions the client has
  acks,        \* external: Finish packets the client has not answered
  strays       \* external: answers the client sent without a batch

sender == <<pending, desired, quota, unacked, window, ticked>>
delivery == <<groups, used, closed>>
owner == <<view, stale>>
client == <<loaded, acks, strays>>
vars == <<sender, plan, delivery, owner, client>>

Batch(spans) == [kind |-> "batch", spans |-> spans, cursor |-> 0]
Forget(p) == [kind |-> "forget", spans |-> <<p>>, cursor |-> 0]

SizeOf(spans) == SumFunction([i \in DOMAIN spans |-> Size[spans[i]]])
HeapBytes(g) == IF g.kind = "batch" THEN SizeOf(g.spans) ELSE 0

check_group == ~closed /\ Len(groups) # MaxGroups

-----------------------------------------------------------------------------
(* The sender.                                                             *)

mark_pending(p) ==
  /\ plan = None /\ p \notin view
  /\ p \notin pending /\ Cardinality(pending) # MaxPending
  /\ pending' = pending \cup {p}
  /\ view' = view \cup {p}
  /\ UNCHANGED <<desired, quota, unacked, window, ticked, plan, delivery,
                 stale, client>>

(* Mutant: the client is never told to forget a sent position.             *)
DropPendingOnly(p, alive) ==
  /\ plan = None
  /\ pending' = pending \ {p}
  /\ view' = view \ {p}
  /\ UNCHANGED <<groups, stale>>
  /\ UNCHANGED <<desired, quota, unacked, window, ticked, plan, used, closed, client>>

(* RemovedPending, NoPacket or ForgetQueued; a refused Forget changes      *)
(* nothing and the owner has to drop again.                                *)
drop_chunk(p, alive) ==
  /\ plan = None
  /\ \/ /\ p \in pending
        /\ pending' = pending \ {p}
        /\ UNCHANGED <<groups, stale>>
     \/ /\ p \notin pending /\ ~alive
        /\ stale' = IF p \in view THEN stale \cup {p} ELSE stale
        /\ UNCHANGED <<pending, groups>>
     \/ /\ p \notin pending /\ alive /\ check_group
        /\ groups' = Append(groups, Forget(p))
        /\ stale' = stale \ {p}
        /\ UNCHANGED pending
  /\ view' = view \ {p}
  /\ UNCHANGED <<desired, quota, unacked, window, ticked, plan, used, closed, client>>

Clamped(rate) ==
  IF rate = NaN THEN MinRate ELSE Max({MinRate, Min({rate, MaxRate})})

acknowledge(rate) ==
  /\ unacked' = Max({unacked - 1, 0})
  /\ desired' = Clamped(rate)
  /\ quota' = IF unacked' = 0 THEN One ELSE quota
  /\ window' = Window

(* Stable orders of S by distance, whatever order S streams in.            *)
Sorted(S, dist) ==
  {q \in SetToSeqs(S) : \A i, j \in DOMAIN q : i < j => dist[q[i]] <= dist[q[j]]}

Nearest(S, n, dist) ==
  {T \in kSubset(n, S) : \A p \in T, x \in S \ T : dist[p] <= dist[x]}

(* Mutant: the cap lets a slow client never reach one chunk.               *)
AccrueCapped(q) == Min({q + desired, desired})

Accrue(q) == Min({q + desired, Max({desired, One})})

(* What candidates may hold under quota q; fewer than 1.0 selects nothing. *)
Candidates(q, dist) ==
  LET count == q \div One
  IN  IF q < One THEN {<<>>}
      ELSE IF ~Memory /\ Cardinality(pending) > count
      THEN UNION {Sorted(T, dist) : T \in Nearest(pending, count, dist)}
      ELSE Sorted(pending, dist)

begin_tick(dist) ==
  /\ plan = None /\ ~ticked
  /\ ticked' = TRUE
  /\ IF unacked < window
     THEN /\ quota' = Accrue(quota)
          /\ \E c \in Candidates(quota', dist) :
               plan' = [candidates |-> c, admitted |-> FALSE]
     ELSE plan' = [candidates |-> <<>>, admitted |-> FALSE] /\ UNCHANGED quota
  /\ UNCHANGED <<pending, desired, unacked, window, delivery, owner, client>>

(* The one listing of ready in the order of the candidates.                *)
InOrder(ready, candidates) ==
  {q \in SetToSeqs(ready) : \A i, j \in DOMAIN q : i < j =>
     \E k, l \in DOMAIN candidates :
       k < l /\ candidates[k] = q[i] /\ candidates[l] = q[j]}

(* The ready candidates become one batch, or nothing changes.              *)
try_admit(ready) ==
  /\ plan # None
  /\ ~plan.admitted
  /\ ready # {}
  /\ check_group
  /\ \E spans \in InOrder(ready, plan.candidates) :
       /\ SizeOf(spans) <= MaxBytes - used
       /\ groups' = Append(groups, Batch(spans))
       /\ used' = used + SizeOf(spans)
  /\ pending' = pending \ ready
  /\ unacked' = unacked + 1
  /\ quota' = quota - Cardinality(ready) * One
  /\ plan' = [plan EXCEPT !.admitted = TRUE]
  /\ UNCHANGED <<desired, window, ticked, closed, owner, client>>

EndPlan ==
  /\ plan # None
  /\ plan' = None
  /\ UNCHANGED <<sender, delivery, owner, client>>

-----------------------------------------------------------------------------
(* The delivery queue and what the client makes of each packet.            *)

(* front_packet: Start, the spans in order, Finish; or a Forget.           *)
front_packet ==
  LET g == Head(groups)
  IN  IF g.kind = "forget" THEN "Forget"
      ELSE CASE g.cursor = 0 -> "Start"
             [] g.cursor \in DOMAIN g.spans -> "Data"
             [] OTHER -> "Finish"

Receive(packet, g) ==
  /\ loaded' = CASE packet = "Data" -> loaded \cup {g.spans[g.cursor]}
                 [] packet = "Forget" -> loaded \ {g.spans[1]}
                 [] OTHER -> loaded
  /\ acks' = IF packet = "Finish" THEN acks + 1 ELSE acks

Completed(g) == g.kind = "forget" \/ g.cursor + 1 = Len(g.spans) + 2

packet_written ==
  LET g == Head(groups)
  IN  /\ ~closed
      /\ groups # <<>>
      /\ Receive(front_packet, g)
      /\ IF Completed(g)
         THEN groups' = Tail(groups) /\ used' = used - HeapBytes(g)
         ELSE groups' = [groups EXCEPT ![1].cursor = @ + 1] /\ UNCHANGED used
      /\ UNCHANGED <<sender, plan, closed, owner, strays>>

(* Mutant: the bytes of the cleared groups stay charged.                   *)
FailKeepsBytes ==
  /\ ~closed
  /\ closed' = TRUE
  /\ groups' = <<>>
  /\ UNCHANGED <<sender, plan, used, owner, client>>

(* A write failed or was cancelled: the connection is given up.            *)
fail ==
  /\ ~closed
  /\ closed' = TRUE
  /\ groups' = <<>> /\ used' = 0
  /\ UNCHANGED <<sender, plan, owner, client>>

-----------------------------------------------------------------------------
(* External: the client's answers and the owner's clock.                   *)

AnswerBatch(rate) ==
  /\ plan = None /\ acks > 0
  /\ acknowledge(rate)
  /\ acks' = acks - 1
  /\ UNCHANGED <<pending, ticked, plan, delivery, owner, loaded, strays>>

StrayAnswer(rate) ==
  /\ plan = None /\ strays < MaxStrays
  /\ acknowledge(rate)
  /\ strays' = strays + 1
  /\ UNCHANGED <<pending, ticked, plan, delivery, owner, loaded, acks>>

NextTick ==
  /\ ticked
  /\ plan = None
  /\ ticked' = FALSE
  /\ UNCHANGED <<pending, desired, quota, unacked, window, plan, delivery,
                 owner, client>>

-----------------------------------------------------------------------------
Init ==
  /\ pending = {} /\ desired = InitialRate /\ quota = 0
  /\ unacked = 0 /\ window = 1 /\ ticked = FALSE /\ plan = None
  /\ groups = <<>> /\ used = 0 /\ closed = FALSE
  /\ view = {} /\ stale = {} /\ loaded = {} /\ acks = 0 /\ strays = 0

PlanPositions == IF plan = None THEN {} ELSE ToSet(plan.candidates)

Next ==
  \/ \E p \in Positions : mark_pending(p) \/ \E alive \in BOOLEAN : drop_chunk(p, alive)
  \/ \E rate \in Requests : AnswerBatch(rate) \/ StrayAnswer(rate)
  \/ \E dist \in Distances : begin_tick(dist)
  \/ \E ready \in SUBSET PlanPositions : try_admit(ready)
  \/ EndPlan \/ NextTick \/ packet_written \/ fail

Spec == Init /\ [][Next]_vars

(* The owner keeps ticking and ends its plans, and the connection is       *)
(* written. Strong fairness where a plan comes and goes: the client's      *)
(* answer is handled between two plans, and an owner whose candidates are  *)
(* all ready does not pass every chance to admit them.                     *)
FairSpec ==
  /\ Spec
  /\ WF_vars(NextTick) /\ WF_vars(EndPlan) /\ WF_vars(packet_written)
  /\ SF_vars(\E rate \in Requests : AnswerBatch(rate))
  /\ WF_vars(\E dist \in Distances : begin_tick(dist))
  /\ SF_vars(try_admit(PlanPositions))

-----------------------------------------------------------------------------
Groups == [kind : {"batch", "forget"}, spans : Seq(Positions), cursor : Nat]

(* Type invariant of sender, queue and client.                             *)
TypeOK ==
  /\ pending \in SUBSET Positions /\ Cardinality(pending) <= MaxPending
  /\ desired \in MinRate..MaxRate /\ quota \in Int
  /\ unacked \in Nat /\ window \in {1, Window} /\ ticked \in BOOLEAN
  /\ plan = None \/ /\ plan.candidates \in Seq(Positions)
                    /\ plan.admitted \in BOOLEAN
  /\ groups \in Seq(Groups)
  /\ Len(groups) <= MaxGroups
  /\ used \in 0..MaxBytes /\ closed \in BOOLEAN
  /\ view \in SUBSET Positions /\ stale \in SUBSET Positions
  /\ loaded \in SUBSET Positions /\ acks \in Nat /\ strays \in 0..MaxStrays

Names(g, p) == p \in ToSet(g.spans)

(* What the client has once everything queued is written: what the last    *)
(* group that names a position makes of it.                                *)
FinallyLoaded(p) ==
  \/ p \in loaded /\ \A i \in DOMAIN groups : ~Names(groups[i], p)
  \/ \E i \in DOMAIN groups :
       /\ Names(groups[i], p) /\ groups[i].kind = "batch"
       /\ \A j \in DOMAIN groups : j > i => ~Names(groups[j], p)

(* The queue always leads the client to the owner's view: Data and Forget  *)
(* of one position are queued in the order of the owner's decisions,       *)
(* whatever was pending, refused or half written when they were made. Only *)
(* a chunk dropped while the player was not alive stays behind.            *)
ClientConverges ==
  ~closed => {p \in Positions : FinallyLoaded(p)} = (view \ pending) \cup stale

Batches == {i \in DOMAIN groups : groups[i].kind = "batch"}
Outstanding == Cardinality(Batches) + acks

(* Flow control through refused, retried and failed admissions:            *)
(* unacknowledged counts the batches queued, being written or unanswered   *)
(* (only answers the client made up can lower it), never more than the     *)
(* window; and a remote client never gets more chunks than its quota paid. *)
FlowControl ==
  /\ ~closed => unacked \in (Outstanding - strays)..Outstanding
  /\ unacked <= window
  /\ quota <= MaxRate
  /\ ~Memory => quota >= 0

(* used_bytes keeps to its limit and is what the queued and half-written   *)
(* batches retain, so it is back to nothing when they are written or the   *)
(* connection failed.                                                      *)
DeliveryBytesExact ==
  /\ TypeOK
  /\ used = SumFunction([i \in DOMAIN groups |-> HeapBytes(groups[i])])

(* Both limits on what is under way to a client: batches, chunks and bytes. *)
DeliveryBounded == FlowControl /\ DeliveryBytesExact

(* What a plan that was not used yet still relies on: its candidates are   *)
(* pending, and window and quota have room for them.                       *)
PlanSound ==
  plan # None =>
    /\ plan \in [candidates : Seq(Positions), admitted : BOOLEAN]
    /\ ~plan.admitted =>
         /\ ToSet(plan.candidates) \subseteq pending
         /\ plan.candidates # <<>> => unacked < window
         /\ ~Memory => Len(plan.candidates) * One <= quota

(* Only the front group is half written, and the client has what of it was *)
(* written.                                                                *)
QueueSound ==
  /\ closed => groups = <<>>
  /\ \A i \in DOMAIN groups :
       /\ i > 1 => groups[i].cursor = 0
       /\ groups[i].cursor <= Len(groups[i].spans) + 1
       /\ groups[i].kind = "forget" => Len(groups[i].spans) = 1
       /\ \A k \in DOMAIN groups[i].spans :
            groups[i].kind = "batch" /\ k < groups[i].cursor =>
              groups[i].spans[k] \in loaded

(* The inductive invariant behind flow control and convergence.            *)
SenderInv ==
  /\ DeliveryBounded /\ ClientConverges
  /\ pending \subseteq view
  /\ PlanSound /\ QueueSound

(* A view that settles (no more entries, departures or Forgets) arrives at *)
(* the client, also at one that asks for less than a chunk per tick and    *)
(* however often the queue was full.                                       *)
SettledViewArrives ==
  (/\ \A p \in Positions : <>[](p \in view) \/ <>[](p \notin view)
   /\ <>[](\A i \in DOMAIN groups : groups[i].kind = "batch"))
    => []<>(closed \/ view \subseteq loaded)
=============================================================================
