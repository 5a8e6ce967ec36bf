------------------------------ MODULE SkyLight ------------------------------
(* The sky-light engine (lighting/sky.rs): column sources, the resumable   *)
(* enable and populate cursors, and the run over checks, decreases and     *)
(* increases.  A step is planned whole, then committed or left untouched.  *)
EXTENDS LightWorld

CONSTANTS
  SkyQueue,      \* initial capacity of the two work queues
  SkyPlan,       \* initial limit of a plan (16 or more in the code)
  MaxSkyQueue,   \* largest capacities the reservation admits
  MaxSkyPlan,
  NoCursor       \* no population or enabling under way

VARIABLES
  sStored,       \* sStored[p]: updating level; its domain are the sections storing light
  sEmpty,        \* sections whose layer is still the uniform zero
  sVisible,      \* the published snapshot
  sEnabled,      \* chunks whose column is enabled
  sChecks, sDecreases, sIncreases,
  sPopulate,     \* Populate cursor, or NoCursor
  sEnable,       \* Enable cursor, or NoCursor
  sRunning,      \* running: a run is pinned to its source
  sCapacity,     \* capacity of each work queue
  sPlanLimit     \* capacity of the plan

skyVars == <<sStored, sEmpty, sVisible, sEnabled, sChecks, sDecreases, sIncreases,
             sPopulate, sEnable, sRunning, sCapacity, sPlanLimit>>

FULL == 15
NO_UP == ALL \ {"Up"}

entry(p, level, dirs, empty) ==
  [pos |-> p, level |-> level, directions |-> dirs, empty_shape |-> empty]

Storing(s) == BlocksOf(s) \subseteq DOMAIN sStored     \* storing_light
StoringSections == {s \in LightSections : Storing(s)}
SkyLevel(p) == IF p \in DOMAIN sStored THEN sStored[p] ELSE -1
LowestSection == IF StoringSections = {} THEN PositiveInfinity
                 ELSE Least({s[2] : s \in StoringSections})
top_section_y(c) ==
  LET ys == {s[2] + 1 : s \in {t \in StoringSections : t[1] = c}}
  IN  IF ys = {} THEN LowestSection ELSE Most(ys)

Busy == sRunning \/ sPopulate # NoCursor \/ sEnable # NoCursor

(* A plan is the sequence of its writes and the entries it pushes.         *)
SkyPlanOf(writes, decreases, increases) ==
  [writes |-> writes, decreases |-> decreases, increases |-> increases]
Nothing == SkyPlanOf(<<>>, <<>>, <<>>)
Join(a, b) == SkyPlanOf(a.writes \o b.writes, a.decreases \o b.decreases,
                        a.increases \o b.increases)
PerDirection(dirs, P(_)) ==
  LET At(d) == IF d \in dirs THEN P(d) ELSE Nothing
  IN  Join(Join(At("Down"), At("Up")), Join(At("West"), At("East")))

(* The last write to a block wins, as successive set_stored_level calls do. *)
LastWrite(writes, p) ==
  LET ws == SelectSeq(writes, LAMBDA w : w[1] = p)
  IN  IF ws = <<>> THEN SkyLevel(p) ELSE ws[Len(ws)][2]

Fits(plan) ==
  /\ Len(plan.writes) <= sPlanLimit
  /\ Len(plan.increases) <= sPlanLimit /\ Len(plan.decreases) <= sPlanLimit
  /\ Len(sIncreases) + Len(plan.increases) <= sCapacity
  /\ Len(sDecreases) + Len(plan.decreases) <= sCapacity

(* commit_plan; pop says which queue the committed task is then taken from. *)
commit_plan(plan, pop) ==
  /\ Fits(plan)
  /\ sStored' = [p \in DOMAIN sStored |-> LastWrite(plan.writes, p)]
  /\ sEmpty' = sEmpty \ {section(w[1]) : w \in Elements(plan.writes)}
  /\ sDecreases' = LET q == sDecreases \o plan.decreases
                   IN  IF pop = "decrease" THEN Tail(q) ELSE q
  /\ sIncreases' = LET q == sIncreases \o plan.increases
                   IN  IF pop = "increase" THEN Tail(q) ELSE q

-----------------------------------------------------------------------------
(* plan_column: the column loses the full light below its source edge and  *)
(* gains it above, each down or up to the first block already right.       *)

StoredRows(x) == {p[2] : p \in {q \in DOMAIN sStored : q[1] = x}}

plan_column(x, threshold) ==
  LET bottom == LowestSection * Side
      rows == StoredRows(x)
      under == {y \in rows : y >= bottom /\ y < threshold}
      stale == {y \in under : \A k \in under : k >= y => sStored[<<x, k>>] = FULL}
      lost == Downwards(stale)
      neighbor == Most({lowest(x - 1, NegativeInfinity), lowest(x + 1, NegativeInfinity)})
      start == IF threshold > bottom THEN threshold ELSE bottom
      over == {y \in rows : y >= start /\ y < top_section_y(x \div Side) * Side}
      fresh == {y \in over : \A k \in over : k <= y => sStored[<<x, k>>] # FULL}
      gained == Upwards(fresh)
      seeds == Upwards({y \in fresh : y < neighbor \/ y = threshold})
  IN  SkyPlanOf(
        [i \in DOMAIN lost |-> << <<x, lost[i]>>, 0>>] \o
        [i \in DOMAIN gained |-> << <<x, gained[i]>>, FULL>>],
        [i \in DOMAIN lost |->
           entry(<<x, lost[i]>>, FULL, IF lost[i] = threshold - 1 THEN ALL ELSE NO_UP, FALSE)],
        [i \in DOMAIN seeds |-> entry(<<x, seeds[i]>>, FULL, NO_UP, FALSE)])

plan_check(p) ==
  LET threshold == IF column(p) \in sEnabled THEN lowest(p[1], PositiveInfinity)
                   ELSE PositiveInfinity
      col == IF threshold # PositiveInfinity /\ StoringSections # {}
             THEN plan_column(p[1], threshold) ELSE Nothing
      old == LastWrite(col.writes, p)
      own == IF p[2] >= threshold
             THEN SkyPlanOf(<<>>, <<entry(p, FULL, NO_UP, FALSE)>>,
                            <<entry(p, FULL, NO_UP, FALSE)>>)
             ELSE IF old > 0
             THEN SkyPlanOf(<< <<p, 0>> >>, <<entry(p, old, ALL, FALSE)>>, <<>>)
             ELSE SkyPlanOf(<<>>, <<entry(p, 1, ALL, FALSE)>>, <<>>)
  IN  IF Storing(section(p)) THEN Join(col, own) ELSE col

(* empty_below: sections under the block that take the layer above them.   *)
empty_below(p) ==
  LET s == section(p)
      Missing(n) == s[2] - n >= LowestSection /\ ~Storing(<<s[1], s[2] - n>>)
      runs == {n \in 0..(MaxSection - MinSection + 3) : \A k \in 1..n : Missing(k)}
  IN  IF p[2] % Side # 0 \/ p[1] % Side \notin {0, Side - 1} THEN 0 ELSE Most(runs)

(* bridge: light entering a chunk beside a column whose lower sections are *)
(* missing enters the stored sections below it too.                        *)
bridge(p, d, level, increase, empty) ==
  LET crossed == \/ d = "West" /\ p[1] % Side = Side - 1
                 \/ d = "East" /\ p[1] % Side = 0
      s == section(p)
      ys == Downwards({y \in StoredRows(p[1]) :
                         y \div Side >= s[2] - empty /\ y \div Side < s[2]})
      at == [i \in DOMAIN ys |-> <<p[1], ys[i]>>]
      entries == [i \in DOMAIN at |->
                    entry(at[i], level, ALL \ {opposite(d)}, increase)]
  IN  IF empty = 0 \/ ~crossed THEN Nothing
      ELSE IF increase
      THEN SkyPlanOf([i \in DOMAIN at |-> <<at[i], level>>], <<>>,
                     IF level > 1 THEN entries ELSE <<>>)
      ELSE SkyPlanOf([i \in DOMAIN at |-> <<at[i], 0>>], entries, <<>>)

plan_decrease(t) ==
  LET empty == empty_below(t.pos)
      Towards(d) ==
        LET p == step(t.pos, d)
            level == sStored[p]
        IN  IF level < t.level
            THEN Join(SkyPlanOf(<< <<p, 0>> >>,
                                <<entry(p, level, ALL \ {opposite(d)}, FALSE)>>, <<>>),
                      bridge(p, d, level, FALSE, empty))
            ELSE SkyPlanOf(<<>>, <<>>, <<entry(p, level, {opposite(d)}, FALSE)>>)
  IN  PerDirection({d \in t.directions : SkyLevel(step(t.pos, d)) > 0}, Towards)

(* Level that reaches the neighbour of p in direction d from a level at p. *)
SkyReached(p, d, level, empty) ==
  LET to == state_at(step(p, d))
      from == IF empty THEN {} ELSE Face(state_at(p), d)
  IN  IF level <= Damping(to) \/ face_occludes(from, Face(to, opposite(d))) THEN 0
      ELSE level - Damping(to)

plan_increase(t) ==
  LET empty == empty_below(t.pos)
      New(d) == SkyReached(t.pos, d, t.level, t.empty_shape)
      Towards(d) ==
        LET p == step(t.pos, d)
        IN  Join(SkyPlanOf(<< <<p, New(d)>> >>, <<>>,
                           IF New(d) > 1
                           THEN <<entry(p, New(d), ALL \ {opposite(d)},
                                        ~Material[state_at(p)].shape)>>
                           ELSE <<>>),
                 bridge(p, d, New(d), TRUE, empty))
  IN  PerDirection({d \in t.directions : /\ SkyLevel(step(t.pos, d)) >= 0
                                         /\ New(d) > SkyLevel(step(t.pos, d))}, Towards)

-----------------------------------------------------------------------------
(* run_budgeted: checks, then decreases, then increases, then publication. *)

sky_check ==
  /\ sChecks # <<>>
  /\ \E plan \in {plan_check(Head(sChecks))} : commit_plan(plan, "check")
  /\ sChecks' = Tail(sChecks)
  /\ sRunning' = TRUE
  /\ UNCHANGED <<sVisible, sEnabled, sPopulate, sEnable, sCapacity, sPlanLimit>>

sky_decrease ==
  /\ sChecks = <<>> /\ sDecreases # <<>>
  /\ \E plan \in {plan_decrease(Head(sDecreases))} : commit_plan(plan, "decrease")
  /\ sRunning' = TRUE
  /\ UNCHANGED <<sVisible, sEnabled, sChecks, sPopulate, sEnable, sCapacity, sPlanLimit>>

(* An increase whose block no longer has its level is dropped.             *)
sky_increase ==
  /\ sChecks = <<>> /\ sDecreases = <<>> /\ sIncreases # <<>>
  /\ LET t == Head(sIncreases)
     IN  IF SkyLevel(t.pos) = t.level
         THEN \E plan \in {plan_increase(t)} : commit_plan(plan, "increase")
         ELSE /\ sIncreases' = Tail(sIncreases)
              /\ UNCHANGED <<sStored, sEmpty, sDecreases>>
  /\ sRunning' = TRUE
  /\ UNCHANGED <<sVisible, sEnabled, sChecks, sPopulate, sEnable, sCapacity, sPlanLimit>>

(* The next unit of the run, if it is one the plan or the queues cannot hold. *)
SkyStarved ==
  \/ sChecks # <<>> /\ ~Fits(plan_check(Head(sChecks)))
  \/ /\ sChecks = <<>> /\ sDecreases # <<>>
     /\ ~Fits(plan_decrease(Head(sDecreases)))
  \/ /\ sChecks = <<>> /\ sDecreases = <<>> /\ sIncreases # <<>>
     /\ SkyLevel(Head(sIncreases).pos) = Head(sIncreases).level
     /\ ~Fits(plan_increase(Head(sIncreases)))

sky_run ==
  /\ sPopulate = NoCursor /\ sEnable = NoCursor
  /\ sky_check \/ sky_decrease \/ sky_increase

sky_complete ==
  /\ sPopulate = NoCursor /\ sEnable = NoCursor
  /\ sChecks = <<>> /\ sDecreases = <<>> /\ sIncreases = <<>>
  /\ sVisible' = sStored
  /\ sRunning' = FALSE
  /\ UNCHANGED <<sStored, sEmpty, sEnabled, sChecks, sDecreases, sIncreases, sPopulate,
                 sEnable, sCapacity, sPlanLimit>>

-----------------------------------------------------------------------------
(* Sources and cursors.                                                    *)

(* initialize_sources: the edges of one chunk, scanned from the top.       *)
initialize_sources(c) ==
  /\ ~Busy
  /\ edges' = [x \in Columns |-> IF x \div Side = c THEN InitialEdge(x) ELSE edges[x]]

(* update_sources and check_block after a block of the source changed.     *)
update_sources(p) ==
  /\ ~Busy
  /\ edges' = [edges EXCEPT ![p[1]] = UpdatedEdge(p)]

sky_check_block(p) ==
  /\ ~Busy
  /\ sChecks' = Inserted(sChecks, p)
  /\ UNCHANGED <<sStored, sEmpty, sVisible, sEnabled, sDecreases, sIncreases, sPopulate,
                 sEnable, sRunning, sCapacity, sPlanLimit>>

(* set_light_enabled: the first call places the cursor above the highest   *)
(* source edge; a chunk open to the void gets an empty range.              *)
EnableStarts(c) ==
  LET high == highest_lowest(c)
      bottom == IF high = NegativeInfinity THEN PositiveInfinity
                ELSE Most({(high - 1) \div Side + 1, LowestSection})
  IN  /\ ~sRunning /\ sPopulate = NoCursor /\ sEnable = NoCursor
      /\ sEnabled' = sEnabled \cup {c}
      /\ sEnable' = [chunk |-> c, next |-> top_section_y(c) - 1, bottom |-> bottom]
      /\ UNCHANGED <<sStored, sEmpty, sVisible, sChecks, sDecreases, sIncreases, sPopulate,
                     sRunning, sCapacity, sPlanLimit>>

(* One section of the range: a layer still uniformly zero becomes full.    *)
EnableSection(c) ==
  /\ sEnable # NoCursor /\ sEnable.chunk = c /\ sEnable.next >= sEnable.bottom
  /\ LET s == <<c, sEnable.next>>
     IN  IF s \in sEmpty
         THEN /\ sStored' = [p \in DOMAIN sStored |->
                               IF section(p) = s THEN FULL ELSE sStored[p]]
              /\ sEmpty' = sEmpty \ {s}
         ELSE UNCHANGED <<sStored, sEmpty>>
  /\ sEnable' = [sEnable EXCEPT !.next = @ - 1]
  /\ UNCHANGED <<sVisible, sEnabled, sChecks, sDecreases, sIncreases, sPopulate, sRunning,
                 sCapacity, sPlanLimit>>

EnableEnds(c) ==
  /\ sEnable # NoCursor /\ sEnable.chunk = c /\ sEnable.next < sEnable.bottom
  /\ sEnable' = NoCursor
  /\ UNCHANGED <<sStored, sEmpty, sVisible, sEnabled, sChecks, sDecreases, sIncreases,
                 sPopulate, sRunning, sCapacity, sPlanLimit>>

DisableLight(c) ==
  /\ ~sRunning /\ sPopulate = NoCursor /\ sEnable = NoCursor
  /\ sEnabled' = sEnabled \ {c}
  /\ UNCHANGED <<sStored, sEmpty, sVisible, sChecks, sDecreases, sIncreases, sPopulate,
                 sEnable, sRunning, sCapacity, sPlanLimit>>

(* populate_budgeted: from the top section down, one column of blocks at a *)
(* time, until a section with no source below it.                          *)
Settle(cursor) ==
  LET ys == {y \in LowestSection..cursor.y : Storing(<<cursor.chunk, y>>)}
  IN  IF ys = {} THEN NoCursor
      ELSE IF Most(ys) = cursor.y THEN cursor
      ELSE [cursor EXCEPT !.y = Most(ys), !.column = 0]

PopulateStarts(c) ==
  /\ ~sRunning /\ sEnable = NoCursor /\ sPopulate = NoCursor
  /\ sEnabled' = sEnabled \cup {c}
  /\ sPopulate' = [chunk |-> c, y |-> top_section_y(c) - 1, column |-> 0, below |-> FALSE]
  /\ UNCHANGED <<sStored, sEmpty, sVisible, sChecks, sDecreases, sIncreases, sEnable,
                 sRunning, sCapacity, sPlanLimit>>

(* The sources of a column in one section and the sides they shine to.     *)
source_plan(x, sy) ==
  LET floor == sy * Side
      source == lowest(x, NegativeInfinity)
      ys == Downwards({y \in floor..(floor + Side - 1) : y >= source})
      Dirs(y) == {d \in {"Down", "West", "East"} :
                    \/ d = "Down" /\ y = source
                    \/ d = "West" /\ y < lowest(x - 1, NegativeInfinity)
                    \/ d = "East" /\ y < lowest(x + 1, NegativeInfinity)}
      shining == SelectSeq(ys, LAMBDA y : Dirs(y) # {})
  IN  SkyPlanOf([i \in DOMAIN ys |-> << <<x, ys[i]>>, FULL>>], <<>>,
                [i \in DOMAIN shining |->
                   entry(<<x, shining[i]>>, FULL, Dirs(shining[i]), FALSE)])

PopulateColumn(c) ==
  /\ sPopulate # NoCursor /\ sPopulate.chunk = c
  /\ \E cursor \in {Settle(sPopulate)} :
       IF cursor = NoCursor
       THEN /\ sPopulate' = NoCursor
            /\ UNCHANGED <<sStored, sEmpty, sDecreases, sIncreases>>
       ELSE LET x == c * Side + cursor.column
                below == cursor.below \/ lowest(x, NegativeInfinity) < cursor.y * Side
                last == cursor.column + 1 = Side
                next == IF last THEN [cursor EXCEPT !.y = @ - 1, !.column = 0, !.below = FALSE]
                        ELSE [cursor EXCEPT !.column = @ + 1, !.below = below]
            IN  /\ \E plan \in {source_plan(x, cursor.y)} : commit_plan(plan, "source")
                /\ sPopulate' = IF last /\ ~below THEN NoCursor ELSE Settle(next)
  /\ UNCHANGED <<sVisible, sEnabled, sChecks, sEnable, sRunning, sCapacity, sPlanLimit>>

PopulateStarved ==
  LET cursor == Settle(sPopulate)
  IN  /\ sPopulate # NoCursor /\ cursor # NoCursor
      /\ ~Fits(source_plan(cursor.chunk * Side + cursor.column, cursor.y))

(* grow_queues and grow_plan: pending work and cursors are kept.           *)
GrowSky ==
  /\ sCapacity < MaxSkyQueue \/ sPlanLimit < MaxSkyPlan
  /\ sCapacity' = Least({2 * sCapacity, MaxSkyQueue})
  /\ sPlanLimit' = Least({2 * sPlanLimit, MaxSkyPlan})
  /\ UNCHANGED <<sStored, sEmpty, sVisible, sEnabled, sChecks, sDecreases, sIncreases,
                 sPopulate, sEnable, sRunning>>

SkyInit ==
  /\ sStored = [p \in {} |-> 0] /\ sEmpty = {} /\ sVisible = [p \in {} |-> 0]
  /\ sEnabled = {} /\ sChecks = <<>> /\ sDecreases = <<>> /\ sIncreases = <<>>
  /\ sPopulate = NoCursor /\ sEnable = NoCursor /\ sRunning = FALSE
  /\ sCapacity = SkyQueue /\ sPlanLimit = SkyPlan

SkyIdle == ~Busy /\ sChecks = <<>> /\ sDecreases = <<>> /\ sIncreases = <<>>

(* The level read beside a stored section: the layer above a missing one.  *)
SkySeen(level, p) ==
  IF p \in DOMAIN level THEN level[p]
  ELSE LET ys == {q[2] : q \in {r \in DOMAIN level : r[1] = p[1] /\ r[2] > p[2]}}
       IN  IF p[1] \notin Columns \/ ys = {} THEN 0 ELSE level[<<p[1], Least(ys)>>]

SkySource(p) == column(p) \in sEnabled /\ p[2] >= lowest(p[1], PositiveInfinity)

(* The sky light of a block given its neighbours: full at a source of an   *)
(* enabled column, else what the brightest stored neighbour leaves, or a   *)
(* brighter level seen in a missing section beside it. That one is not     *)
(* owed: bridge passes it on when it enters a block above that was darker. *)
SkyExplained(level, p) ==
  LET From(dirs) == {SkyReached(step(p, d), opposite(d), SkySeen(level, step(p, d)), FALSE)
                      : d \in dirs}
      stored == {d \in ALL : step(p, d) \in DOMAIN level}
      base == Most({0} \cup From(stored))
  IN  IF SkySource(p) THEN level[p] = FULL
      ELSE level[p] \in {base} \cup {n \in From({"West", "East"} \ stored) : n > base}

SkySettled(level) == \A p \in DOMAIN level : SkyExplained(level, p)
=============================================================================
