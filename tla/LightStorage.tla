---------------------------- MODULE LightStorage ----------------------------
(* LightSectionStorage (lighting/storage.rs) and its DataLayer             *)
(* (lighting/layer.rs): which sections keep light, the layers they share   *)
(* with queued data and snapshots, and what is published.  Layers are      *)
(* allocations named 1..LayerLimit, the layer budget; an operation the     *)
(* budget or a limit refuses changes nothing and is no step.  The world is *)
(* one column of sections, so a section is its y and has two neighbours;   *)
(* a layer is two planes of one level each, the bottom one and the rest.   *)
EXTENDS Integers, FiniteSets

CONSTANTS
  DataSections,  \* sections that may hold terrain
  QueuedLayers,  \* layers that may be queued
  LayerLimit,    \* layer_bytes, in layers
  MaxSections,   \* max_sections
  MaxNotices,    \* max_notifications
  MaxCalls       \* bound: operations of a behaviour

Planes == {0, 1}
Dark == 0
FULL_LIGHT == 15
NoLayer == 0
NoTop == 1000000                  \* Column.top is None
NoLowest == 1000000               \* i32::MAX
NoRows == [s \in {} |-> NoLayer]

(* Sections are far below the number that stands for no top.               *)
ASSUME StorageAssumption ==
  /\ {LayerLimit, MaxSections, MaxNotices, MaxCalls} \subseteq Nat
  /\ DataSections \subseteq {s \in Int : s + 2 < NoTop}
  /\ QueuedLayers \subseteq [uniform : BOOLEAN, plane : [Planes -> Dark..FULL_LIGHT]]

VARIABLES
  kind,          \* LightKind
  content,       \* content[i]: the DataLayer of allocation i
  sections,      \* entries, by section: [data, support, updating, queued, remove]
  enabled, retain, top,   \* the Column
  lowest,
  changed, inconsistent,
  notices,       \* notifications
  published,     \* published_notifications
  visible,       \* LightSnapshot: [layers, top, lowest]
  held,          \* layers of a snapshot some reader still holds
  calls          \* operations so far

storageVars == <<kind, content, sections, enabled, retain, top, lowest, changed, inconsistent,
                 notices, published, visible, held, calls>>

-----------------------------------------------------------------------------
(* DataLayer.                                                              *)

uniform(v) == [uniform |-> TRUE, plane |-> [p \in Planes |-> v]]
materialize(l) == [l EXCEPT !.uniform = FALSE]
set(l, p, v) == [uniform |-> FALSE, plane |-> [l.plane EXCEPT ![p] = v]]
repeat_first_layer(l) == [l EXCEPT !.plane = [p \in Planes |-> l.plane[0]]]

Least(ns) == CHOOSE n \in ns : \A k \in ns : n <= k
Most(ns) == CHOOSE n \in ns : \A k \in ns : k <= n

-----------------------------------------------------------------------------
(* Entries and the references to a layer.                                  *)

Bare == [data |-> FALSE, support |-> 0, updating |-> NoLayer, queued |-> NoLayer,
          remove |-> FALSE]
Entry(s) == IF s \in DOMAIN sections THEN sections[s] ELSE Bare
State(e) == <<e.data, e.support>>
Vacant == <<FALSE, 0>>

prune_entries(es) == [s \in {t \in DOMAIN es : es[t] # Bare} |-> es[s]]
With(f, s, v) == [t \in DOMAIN f \cup {s} |-> IF t = s THEN v ELSE f[t]]

storing_light(s) == Entry(s).updating # NoLayer
Stored == {s \in DOMAIN sections : sections[s].updating # NoLayer}
Values(f) == {f[s] : s \in DOMAIN f}

(* Layers alive: an allocation is refunded with its last reference.        *)
Referenced(es, vis, hld) ==
  (UNION {{es[s].updating, es[s].queued} : s \in DOMAIN es})
    \cup Values(vis.layers) \cup Values(hld)
Free == (1..LayerLimit) \ Referenced(sections, visible, held)

(* strong_count exceeds the entry's own references.                        *)
Shared(id) == id \in Values(visible.layers) \cup Values(held)
QueuedAlias(e) == e.queued = e.updating

Becomes(es, vis, hld, c) ==
  /\ sections' = es /\ visible' = vis /\ held' = hld
  /\ content' = [i \in 1..LayerLimit |->
                   IF i \in Referenced(es, vis, hld) THEN c[i] ELSE uniform(Dark)]

top_section_y == IF top = NoTop THEN lowest ELSE top

(* get_level of the updating map.                                          *)
get_level(s, p) ==
  LET above == {t \in Stored : t > s}
      Plane(t, q) == content[sections[t].updating].plane[q]
  IN  IF kind = "Block" THEN (IF storing_light(s) THEN Plane(s, p) ELSE Dark)
      ELSE IF top_section_y = lowest \/ s >= top_section_y
      THEN (IF enabled THEN FULL_LIGHT ELSE Dark)
      ELSE IF storing_light(s) THEN Plane(s, p)
      ELSE IF above = {} THEN FULL_LIGHT ELSE Plane(Least(above), 0)

-----------------------------------------------------------------------------
(* queue_data and queue_bytes; without data the queued layer is dropped.   *)
queue_data(s, layer) ==
  /\ s \in DOMAIN sections \/ Cardinality(DOMAIN sections) < MaxSections
  /\ Free # {}
  /\ LET id == Least(Free)
     IN  Becomes(With(sections, s, [Entry(s) EXCEPT !.queued = id]), visible, held,
                 [content EXCEPT ![id] = layer])
  /\ inconsistent' = TRUE
  /\ UNCHANGED <<kind, enabled, retain, top, lowest, changed, notices, published>>

queue_none(s) ==
  /\ Entry(s).queued # NoLayer
  /\ Becomes(prune_entries([sections EXCEPT ![s].queued = NoLayer]), visible, held, content)
  /\ UNCHANGED <<kind, enabled, retain, top, lowest, changed, inconsistent, notices,
                 published>>

set_enabled(on) ==
  /\ enabled # on /\ enabled' = on
  /\ UNCHANGED <<kind, content, sections, retain, top, lowest, changed, inconsistent, notices,
                 published, visible, held>>

retain_data(on) ==
  /\ retain # on /\ retain' = on
  /\ UNCHANGED <<kind, content, sections, enabled, top, lowest, changed, inconsistent, notices,
                 published, visible, held>>

-----------------------------------------------------------------------------
(* update_section_status.                                                  *)

Neighbours(s) == (s - 1)..(s + 1)

(* The planned entry of section t when terrain enters or leaves section s. *)
Planned(s, empty, t) ==
  IF t = s THEN [Entry(t) EXCEPT !.data = ~empty]
  ELSE [Entry(t) EXCEPT !.support = IF empty THEN @ - 1 ELSE @ + 1]

(* transition: the section starts storing and has no layer waiting for removal. *)
Initializes(s, empty, t) ==
  State(Entry(t)) = Vacant /\ State(Planned(s, empty, t)) # Vacant /\ ~Entry(t).remove

(* Mutant: a new sky layer below the top starts like one above it.         *)
BlankLayer(t, made, lo) ==
  uniform(IF kind = "Sky" /\ enabled THEN FULL_LIGHT ELSE Dark)

(* create_layer without queued data; made are the layers planned so far.   *)
InitialLayer(t, made, lo) ==
  LET tops == (IF top = NoTop THEN {} ELSE {top}) \cup {r + 1 : r \in DOMAIN made}
      high == IF tops = {} THEN lo ELSE Most(tops)
      above == {r \in Stored \cup DOMAIN made : r > t}
      Of(r) == IF r \in DOMAIN made THEN made[r] ELSE content[sections[r].updating]
  IN  IF kind = "Sky" /\ high # lo /\ t < high /\ above # {}
      THEN repeat_first_layer(Of(Least(above)))
      ELSE uniform(IF kind = "Sky" /\ enabled THEN FULL_LIGHT ELSE Dark)

create_layer(t, made) ==
  IF Entry(t).queued # NoLayer THEN content[Entry(t).queued]
  ELSE InitialLayer(t, made, Least({lowest} \cup DOMAIN made))

(* The layers of the sections that start storing, planned one by one: the  *)
(* centre, then its neighbours.                                            *)
PlanLayer(s, empty, made, t) ==
  IF Initializes(s, empty, t) THEN With(made, t, create_layer(t, made)) ELSE made

MadeFor(s, empty) ==
  LET centre == PlanLayer(s, empty, [r \in {} |-> uniform(Dark)], s)
      below == PlanLayer(s, empty, centre, s - 1)
  IN  PlanLayer(s, empty, below, s + 1)

(* A layer of its own for each of the sections.                            *)
Allocated(ss) == CHOOSE f \in [ss -> Free] : \A t, u \in ss : f[t] = f[u] => t = u

(* What becomes of the entry: a new layer, a removal cancelled, or one due. *)
Installed(s, empty, t, starts, id) ==
  LET e == Planned(s, empty, t)
      was == State(Entry(t))
  IN  IF t \in starts
      THEN [e EXCEPT !.updating = IF e.queued = NoLayer THEN id[t] ELSE e.queued]
      ELSE IF was = Vacant /\ State(e) # Vacant THEN [e EXCEPT !.remove = FALSE]
      ELSE IF was # Vacant /\ State(e) = Vacant THEN [e EXCEPT !.remove = TRUE]
      ELSE e

(* The plan is admitted whole, then installed.                             *)
update_section_status(s, empty) ==
  /\ Entry(s).data = empty
  /\ \E made \in {MadeFor(s, empty)} :
       LET starts == DOMAIN made
           fresh == {t \in starts : Entry(t).queued = NoLayer}
           kept == {t \in Neighbours(s) : t \in DOMAIN sections
                                           \/ State(Planned(s, empty, t)) # Vacant}
           staged == notices \cup UNION {Neighbours(t) : t \in starts}
           id == Allocated(fresh)
       IN  /\ Cardinality(DOMAIN sections \cup kept) <= MaxSections
           /\ Cardinality(staged) <= MaxNotices
           /\ Cardinality(fresh) <= Cardinality(Free)
           /\ Becomes([t \in DOMAIN sections \cup kept |->
                         IF t \in kept THEN Installed(s, empty, t, starts, id)
                         ELSE sections[t]],
                      visible, held,
                      [i \in 1..LayerLimit |->
                         IF \E t \in fresh : id[t] = i
                         THEN made[CHOOSE t \in fresh : id[t] = i] ELSE content[i]])
           /\ changed' = (changed \/ starts # {})
           /\ inconsistent' = (\/ inconsistent \/ starts # {}
                               \/ \E t \in kept : Installed(s, empty, t, starts, id).remove)
           /\ lowest' = IF kind = "Sky" THEN Least({lowest} \cup starts) ELSE lowest
           /\ top' = IF kind = "Sky" /\ starts # {}
                     THEN Most({t + 1 : t \in starts} \cup (IF top = NoTop THEN {} ELSE {top}))
                     ELSE top
           /\ notices' = staged
  /\ UNCHANGED <<kind, enabled, retain, published>>

-----------------------------------------------------------------------------
(* process_inconsistencies: removals, tops, then queued layers take over.  *)

(* Mutant: a retained layer moves to the queue and stays in place as well. *)
RemovalKeepsLayer(e) ==
  IF ~e.remove THEN e
  ELSE [e EXCEPT !.remove = FALSE, !.updating = IF retain THEN @ ELSE NoLayer,
                 !.queued = IF ~retain THEN NoLayer ELSE IF @ # NoLayer THEN @ ELSE e.updating]

AfterRemoval(e) ==
  IF ~e.remove THEN e
  ELSE [e EXCEPT !.remove = FALSE, !.updating = NoLayer,
                 !.queued = IF ~retain THEN NoLayer ELSE IF @ # NoLayer THEN @ ELSE e.updating]

TakesQueued(e) ==
  IF e.updating # NoLayer /\ e.queued # NoLayer
  THEN [e EXCEPT !.updating = e.queued, !.queued = NoLayer] ELSE e

process_inconsistencies ==
  LET kept == [s \in DOMAIN sections |-> AfterRemoval(sections[s])]
      stored == {s \in DOMAIN kept : kept[s].updating # NoLayer}
      replaced == {s \in stored : kept[s].queued \notin {NoLayer, kept[s].updating}}
  IN  /\ inconsistent
      /\ Becomes(prune_entries([s \in DOMAIN kept |-> TakesQueued(kept[s])]),
                 visible, held, content)
      /\ top' = IF kind = "Block" THEN top
                ELSE IF stored = {} THEN NoTop ELSE Most(stored) + 1
      /\ changed' = (changed \/ replaced # {} \/ \E s \in DOMAIN sections : sections[s].remove)
      /\ inconsistent' = FALSE
      /\ UNCHANGED <<kind, enabled, retain, lowest, notices, published>>

-----------------------------------------------------------------------------
(* Writes.  A layer that a snapshot shares is copied first, and a queued   *)
(* alias moves with the copy.                                              *)

Mine(e, id) == [e EXCEPT !.updating = id, !.queued = IF QueuedAlias(e) THEN id ELSE @]

(* Mutant: only the published map counts as a reader of a layer.           *)
CopyUnlessVisible(s) == sections[s].updating \in Values(visible.layers)

NeedsCopy(s) == Shared(sections[s].updating)

(* The sections a block's neighbourhood touches (stage_block).             *)
Touched(s, p) == IF p = 0 THEN {s - 1, s} ELSE {s, s + 1}

(* prepare_writes: every copy or materialisation of the batch, or none.    *)
prepare_writes(blocks) ==
  LET copied == {s \in {b[1] : b \in blocks} : storing_light(s) /\ (NeedsCopy(s)
                              \/ content[sections[s].updating].uniform)}
  IN  /\ copied # {} /\ Cardinality(copied) <= Cardinality(Free)
      /\ Cardinality(notices \cup UNION {Touched(b[1], b[2]) : b \in blocks}) <= MaxNotices
      /\ \E id \in {Allocated(copied)} :
           Becomes([s \in DOMAIN sections |->
                      IF s \in copied THEN Mine(sections[s], id[s]) ELSE sections[s]],
                   visible, held,
                   [i \in 1..LayerLimit |->
                      IF \E s \in copied : id[s] = i
                      THEN materialize(content[sections[CHOOSE s \in copied : id[s] = i].updating])
                      ELSE content[i]])
      /\ changed' = TRUE
      /\ UNCHANGED <<kind, enabled, retain, top, lowest, inconsistent, notices, published>>

(* Write(s, l, copies): the entry's layer becomes l, in a copy or in place. *)
Write(s, l, copies) ==
  LET id == IF copies THEN Least(Free) ELSE sections[s].updating
  IN  /\ copies => Free # {}
      /\ Becomes([sections EXCEPT ![s] = Mine(sections[s], id)], visible, held,
                 [content EXCEPT ![id] = l])
      /\ changed' = TRUE

set_stored_level(s, p, v) ==
  /\ storing_light(s)
  /\ Cardinality(notices \cup Touched(s, p)) <= MaxNotices
  /\ LET l == content[sections[s].updating]
     IN  Write(s, set(l, p, v), NeedsCopy(s) \/ l.uniform)
  /\ notices' = notices \cup Touched(s, p)
  /\ UNCHANGED <<kind, enabled, retain, top, lowest, inconsistent, published>>

(* layer_to_write(s).fill(v).                                              *)
fill(s, v) ==
  /\ storing_light(s)
  /\ Write(s, uniform(v), NeedsCopy(s))
  /\ UNCHANGED <<kind, enabled, retain, top, lowest, inconsistent, notices, published>>

-----------------------------------------------------------------------------
(* Publication and readers.                                                *)

NoticesAfter == published \cup notices

publish_visible ==
  /\ changed \/ notices # {}
  /\ Cardinality(NoticesAfter) <= MaxNotices
  /\ Becomes(sections,
             IF changed THEN [layers |-> [s \in Stored |-> sections[s].updating],
                              top |-> top, lowest |-> lowest]
             ELSE visible,
             held, content)
  /\ changed' = FALSE
  /\ published' = NoticesAfter /\ notices' = {}
  /\ UNCHANGED <<kind, enabled, retain, top, lowest, inconsistent>>

clear_published_notifications ==
  /\ published # {} /\ published' = {}
  /\ UNCHANGED <<kind, content, sections, enabled, retain, top, lowest, changed, inconsistent,
                 notices, visible, held>>

(* snapshot and data_snapshot: the visible layers, or the queued ones over them. *)
DataSelection ==
  [s \in DOMAIN visible.layers \cup {t \in DOMAIN sections : sections[t].queued # NoLayer} |->
     IF Entry(s).queued # NoLayer THEN Entry(s).queued ELSE visible.layers[s]]

TakeSnapshot ==
  /\ held = NoRows
  /\ \E rows \in {visible.layers, DataSelection} :
       rows # NoRows /\ Becomes(sections, visible, rows, content)
  /\ UNCHANGED <<kind, enabled, retain, top, lowest, changed, inconsistent, notices,
                 published>>

DropSnapshot ==
  /\ held # NoRows
  /\ Becomes(sections, visible, NoRows, content)
  /\ UNCHANGED <<kind, enabled, retain, top, lowest, changed, inconsistent, notices,
                 published>>

-----------------------------------------------------------------------------
StorageInit ==
  /\ kind \in {"Block", "Sky"}
  /\ content = [i \in 1..LayerLimit |-> uniform(Dark)]
  /\ sections = [s \in {} |-> Bare]
  /\ enabled = FALSE /\ retain = FALSE /\ top = NoTop /\ lowest = NoLowest
  /\ changed = FALSE /\ inconsistent = FALSE
  /\ notices = {} /\ published = {}
  /\ visible = [layers |-> NoRows, top |-> NoTop, lowest |-> NoLowest]
  /\ held = NoRows
  /\ calls = 0

StorageNext ==
  /\ calls < MaxCalls /\ calls' = calls + 1
  /\ \/ \E s \in DataSections :
          \/ \E empty \in BOOLEAN : update_section_status(s, empty)
          \/ \E l \in QueuedLayers : queue_data(s, l)
          \/ queue_none(s)
          \/ \E p \in Planes, v \in {Dark, FULL_LIGHT} : set_stored_level(s, p, v)
          \/ \E v \in {Dark, FULL_LIGHT} : fill(s, v)
     \/ \E on \in BOOLEAN : set_enabled(on) \/ retain_data(on)
     \/ process_inconsistencies
     \/ \E blocks \in SUBSET (DataSections \X Planes) : prepare_writes(blocks)
     \/ publish_visible \/ clear_published_notifications
     \/ TakeSnapshot \/ DropSnapshot

StorageSpec == StorageInit /\ [][StorageNext]_storageVars

-----------------------------------------------------------------------------
(* Properties.                                                             *)

(* The bookkeeping of support is exact through any history of status       *)
(* changes, cancelled removals and retained data: a section counts the     *)
(* terrain beside it, stores light exactly while it is supported or waits  *)
(* for removal, and an unchanged updating map is the published one.        *)
StorageExact ==
  /\ \A s \in DOMAIN sections :
       /\ sections[s].support = Cardinality({t \in {s - 1, s + 1} : Entry(t).data})
       /\ storing_light(s) = (State(sections[s]) # Vacant \/ sections[s].remove)
       /\ sections[s].remove => State(sections[s]) = Vacant /\ inconsistent
  /\ ~changed => /\ visible.layers = [s \in Stored |-> sections[s].updating]
                 /\ visible.top = top /\ visible.lowest = lowest
  /\ kind = "Sky" => /\ top = IF Stored = {} THEN NoTop ELSE Most(Stored) + 1
                     /\ \A s \in Stored : lowest <= s

(* A snapshot a reader holds, and the published one while it is published, *)
(* keep the levels they were taken with whatever is written, filled,       *)
(* queued or removed meanwhile.                                            *)
SnapshotsFrozen ==
  [][/\ held' = held => \A s \in DOMAIN held : content'[held[s]].plane = content[held[s]].plane
     /\ visible' = visible => \A s \in DOMAIN visible.layers :
          content'[visible.layers[s]].plane = content[visible.layers[s]].plane]_storageVars

(* Terrain that enters or leaves a section changes no light: without       *)
(* queued data, each block reads after update_section_status what it read  *)
(* before, in sections that had no layer, get one, or hang below a new one. *)
SupportKeepsLight ==
  [][/\ \E s \in DataSections : Entry(s)'.data # Entry(s).data
     /\ (\A s \in DOMAIN sections : sections[s].queued = NoLayer)
     =>
       \A s \in UNION {Neighbours(t) : t \in DataSections}, p \in Planes :
         get_level(s, p)' = get_level(s, p)]_storageVars

(* No notice is lost: until the owner acknowledges a delivery, each section *)
(* announced or about to be stays announced, across publications too.      *)
NoticesKept ==
  [][\/ notices \cup published \subseteq notices' \cup published'
     \/ clear_published_notifications /\ notices \subseteq notices']_storageVars

(* What readers were given or promised is kept.                            *)
ReadersServed == SnapshotsFrozen /\ NoticesKept
=============================================================================
