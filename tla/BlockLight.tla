----------------------------- MODULE BlockLight -----------------------------
(* The block-light engine (lighting/block.rs) over its queues              *)
(* (lighting/queue.rs).  run() is a loop of work units: it may return at   *)
(* any unit (budget, full queue, allocation pressure) with everything kept,*)
(* so every unit is an action.  A unit that cannot be admitted changes     *)
(* nothing, and waits for the owner to grow the queues.                    *)
EXTENDS LightWorld

CONSTANTS
  BlockQueue,    \* initial capacity of the increase and decrease queues
  MaxQueue       \* largest capacity the reservation admits

VARIABLES
  bStored,       \* bStored[p]: updating level; its domain are the sections storing light
  bVisible,      \* the published snapshot, same shape
  bEnabled,      \* chunks whose column is enabled
  bChecks,       \* CheckQueue: positions not yet consumed, in insertion order
  bDecreases,    \* WorkQueue of decreases
  bIncreases,    \* WorkQueue of increases
  bPhase,        \* Phase
  bStamped,      \* source and storage stamps are pinned
  bCapacity      \* capacity of each WorkQueue

blockVars == <<bStored, bVisible, bEnabled, bChecks, bDecreases, bIncreases, bPhase,
               bStamped, bCapacity>>

Lit(p) == p \in DOMAIN bStored      \* stored_level(p) is Some

Entry(p, level, dirs, empty, emits) ==
  [pos |-> p, level |-> level, directions |-> dirs, empty_shape |-> empty,
   from_emission |-> emits]

Emitted(p) ==
  IF column(p) \in bEnabled THEN Material[state_at(p)].emission ELSE 0

emission(p, level) == Entry(p, level, ALL, ~Material[state_at(p)].shape, TRUE)

(* A plan: levels to write, then entries to push on the two queues.        *)
Plan(writes, decreases, increases) ==
  [writes |-> writes, decreases |-> decreases, increases |-> increases]
NoWrites == [p \in {} |-> 0]
Only(p, level) == [q \in {p} |-> level]
InOrder(dirs, E(_)) == LET s == SelectSeq(Order, LAMBDA d : d \in dirs)
                       IN  [i \in DOMAIN s |-> E(s[i])]

(* Mutant: a brighter neighbour met by a decrease is not asked to shine back. *)
decrease_forgets(e) ==
  LET At(d) == step(e.pos, d)
      dark == {d \in e.directions :
                 Lit(At(d)) /\ bStored[At(d)] # 0 /\ bStored[At(d)] < e.level}
  IN  Plan([p \in {At(d) : d \in dark} |-> 0],
           InOrder({d \in dark : Emitted(At(d)) < bStored[At(d)]},
                   LAMBDA d : Entry(At(d), bStored[At(d)], ALL \ {opposite(d)}, TRUE, FALSE)),
           InOrder({d \in dark : Emitted(At(d)) # 0},
                   LAMBDA d : emission(At(d), Emitted(At(d)))))

check_plan(p) ==
  LET old == bStored[p]
      relight == IF Emitted(p) # 0 THEN <<emission(p, Emitted(p))>> ELSE <<>>
  IN  IF ~Lit(p) THEN Plan(NoWrites, <<>>, <<>>)
      ELSE IF Emitted(p) < old
      THEN Plan(Only(p, 0), <<Entry(p, old, ALL, TRUE, FALSE)>>, relight)
      ELSE Plan(NoWrites, <<Entry(p, 1, ALL, TRUE, FALSE)>>, relight)

decrease_plan(e) ==
  LET At(d) == step(e.pos, d)
      hit == {d \in e.directions : Lit(At(d)) /\ bStored[At(d)] # 0}
      dark == {d \in hit : bStored[At(d)] < e.level}
      Darker(d) == Entry(At(d), bStored[At(d)], ALL \ {opposite(d)}, TRUE, FALSE)
      Back(d) == IF d \in dark THEN emission(At(d), Emitted(At(d)))
                 ELSE Entry(At(d), bStored[At(d)], {opposite(d)}, FALSE, FALSE)
  IN  Plan([p \in {At(d) : d \in dark} |-> 0],
           InOrder({d \in dark : Emitted(At(d)) < bStored[At(d)]}, Darker),
           InOrder({d \in hit : d \in dark => Emitted(At(d)) # 0}, Back))

(* Level that reaches the neighbour of p in direction d from a level at p. *)
Reached(p, d, level, empty) ==
  LET to == state_at(step(p, d))
      from == IF empty THEN {} ELSE Face(state_at(p), d)
  IN  IF level <= Damping(to) \/ face_occludes(from, Face(to, opposite(d))) THEN 0
      ELSE level - Damping(to)

increase_plan(e) ==
  LET raised == e.from_emission /\ bStored[e.pos] < e.level
      level == IF raised THEN e.level ELSE bStored[e.pos]
      own == IF raised THEN {e.pos} ELSE {}
      At(d) == step(e.pos, d)
      New(d) == Reached(e.pos, d, level, e.empty_shape)
      onto == {d \in e.directions : Lit(At(d)) /\ New(d) > bStored[At(d)]}
      Lights(d) == Entry(At(d), New(d), ALL \ {opposite(d)},
                         ~Material[state_at(At(d))].shape, FALSE)
  IN  IF level # e.level THEN Plan(NoWrites, <<>>, <<>>)
      ELSE Plan([p \in own \cup {At(d) : d \in onto} |->
                   IF p \in own THEN level ELSE New(CHOOSE d \in onto : At(d) = p)],
                <<>>, InOrder({d \in onto : New(d) > 1}, Lights))

-----------------------------------------------------------------------------
(* prepare and apply: the popped entry is credited to its own queue.       *)
Admitted(plan, decreases, increases) ==
  /\ Len(decreases) + Len(plan.decreases) <= bCapacity
  /\ Len(increases) + Len(plan.increases) <= bCapacity

apply(plan, decreases, increases) ==
  /\ bStored' = [p \in DOMAIN bStored |->
                   IF p \in DOMAIN plan.writes THEN plan.writes[p] ELSE bStored[p]]
  /\ bDecreases' = decreases \o plan.decreases
  /\ bIncreases' = increases \o plan.increases

(* One unit of the current phase, or the phase's end.                      *)
BlockUnit ==
  LET unit(plan, ds, is) ==
        /\ Admitted(plan, ds, is)
        /\ apply(plan, ds, is)
        /\ UNCHANGED bPhase
  IN  /\ \/ /\ bPhase = "Checks" /\ bChecks # <<>>
            /\ \E plan \in {check_plan(Head(bChecks))} : unit(plan, bDecreases, bIncreases)
            /\ bChecks' = Tail(bChecks)
         \/ /\ bPhase = "Decreases" /\ bDecreases # <<>>
            /\ \E plan \in {decrease_plan(Head(bDecreases))} :
                 unit(plan, Tail(bDecreases), bIncreases)
            /\ UNCHANGED bChecks
         \/ /\ bPhase = "Increases" /\ bIncreases # <<>>
            /\ \E plan \in {increase_plan(Head(bIncreases))} :
                 unit(plan, bDecreases, Tail(bIncreases))
            /\ UNCHANGED bChecks
      /\ UNCHANGED <<bVisible, bEnabled, bStamped, bCapacity>>

BlockPhaseEnds ==
  /\ \/ bPhase = "Checks" /\ bChecks = <<>> /\ bPhase' = "Decreases"
     \/ bPhase = "Decreases" /\ bDecreases = <<>> /\ bPhase' = "Increases"
     \/ bPhase = "Increases" /\ bIncreases = <<>> /\ bPhase' = "Publish"
  /\ UNCHANGED <<bStored, bVisible, bEnabled, bChecks, bDecreases, bIncreases, bStamped,
                 bCapacity>>

BlockRunStarts ==
  /\ bPhase = "Idle"
  /\ bPhase' = "Checks" /\ bStamped' = TRUE
  /\ UNCHANGED <<bStored, bVisible, bEnabled, bChecks, bDecreases, bIncreases, bCapacity>>

(* The Storage and Publish arms: process_inconsistencies, publish_visible. *)
BlockPublishes ==
  /\ bPhase = "Publish"
  /\ bVisible' = bStored
  /\ bPhase' = "Idle" /\ bStamped' = FALSE
  /\ UNCHANGED <<bStored, bEnabled, bChecks, bDecreases, bIncreases, bCapacity>>

(* The next unit of the run, if it is one the queues cannot hold.          *)
BlockStarved ==
  \/ /\ bPhase = "Checks" /\ bChecks # <<>>
     /\ ~Admitted(check_plan(Head(bChecks)), bDecreases, bIncreases)
  \/ /\ bPhase = "Decreases" /\ bDecreases # <<>>
     /\ ~Admitted(decrease_plan(Head(bDecreases)), Tail(bDecreases), bIncreases)
  \/ /\ bPhase = "Increases" /\ bIncreases # <<>>
     /\ ~Admitted(increase_plan(Head(bIncreases)), bDecreases, Tail(bIncreases))

block_run == BlockRunStarts \/ BlockUnit \/ BlockPhaseEnds
run_complete == BlockPublishes

(* check_block: idle engine, no duplicate in the batch.                    *)
check_block(p) ==
  /\ bPhase = "Idle"
  /\ bChecks' = Inserted(bChecks, p)
  /\ UNCHANGED <<bStored, bVisible, bEnabled, bDecreases, bIncreases, bPhase, bStamped,
                 bCapacity>>

(* propagate_light_sources: the whole batch is admitted or nothing changes. *)
propagate_light_sources(c) ==
  LET lamps == emission_sources(c)
  IN  /\ bPhase = "Idle"
      /\ Len(bIncreases) + Len(lamps) <= bCapacity
      /\ \A i \in DOMAIN lamps : Lit(lamps[i])
      /\ bEnabled' = bEnabled \cup {c}
      /\ bStamped' = (bStamped \/ lamps # <<>>)
      /\ bIncreases' = bIncreases \o
           [i \in DOMAIN lamps |-> emission(lamps[i], Material[mat[lamps[i]]].emission)]
      /\ UNCHANGED <<bStored, bVisible, bChecks, bDecreases, bPhase, bCapacity>>

(* grow_queues: the owner doubles the queues of a blocked run; order kept. *)
GrowBlock ==
  /\ bCapacity < MaxQueue
  /\ bCapacity' = IF 2 * bCapacity > MaxQueue THEN MaxQueue ELSE 2 * bCapacity
  /\ UNCHANGED <<bStored, bVisible, bEnabled, bChecks, bDecreases, bIncreases, bPhase,
                 bStamped>>

BlockInit ==
  /\ bStored = NoWrites /\ bVisible = NoWrites /\ bEnabled = {}
  /\ bChecks = <<>> /\ bDecreases = <<>> /\ bIncreases = <<>>
  /\ bPhase = "Idle" /\ bStamped = FALSE /\ bCapacity = BlockQueue

BlockIdle == bPhase = "Idle" /\ bChecks = <<>> /\ bDecreases = <<>> /\ bIncreases = <<>>

(* The light that a block must have given its neighbours.  Every step of   *)
(* light costs at least one level, so only one assignment satisfies the    *)
(* equation everywhere: it is the light of the terrain.                    *)
BlockLightOf(level, p) ==
  Most({Emitted(p), 0} \cup
         {Reached(step(p, d), opposite(d), level[step(p, d)], FALSE) :
            d \in {e \in ALL : step(p, e) \in DOMAIN level}})
BlockSettled(level) == \A p \in DOMAIN level : level[p] = BlockLightOf(level, p)
=============================================================================
