---------------------------- MODULE WorldProofs -----------------------------
(***************************************************************************)
(* Proofs about what a player is shown: LightStorage, PlayerView and       *)
(* ChunkSender, from their assumptions on the constants alone.             *)
(*                                                                         *)
(* LightStorage: StorageInv is StorageExact, stated of every integer       *)
(* section instead of the entries kept, with the types. Two action         *)
(* properties follow from it: what readers hold is never written           *)
(* (ReadersServed), because a layer that is shared is copied first, and    *)
(* support that comes or goes changes no light (SupportKeepsLight). For    *)
(* the latter, Reads is what get_level returns as a function of the stored *)
(* planes alone; a new layer is a copy of what was read through it, made   *)
(* from the top down (ReadsExtended, MadeReads), and the rows it hides     *)
(* are those it repeats.                                                   *)
(*                                                                         *)
(* PlayerView: wrapping distances agree with plain ones inside the bounds  *)
(* of a view; a scan of bounds lists each cell once (Tells); and while an  *)
(* update is drained the remaining events tell, once each, what still      *)
(* separates the consumer from the next view (ViewInv).                    *)
(*                                                                         *)
(* ChunkSender: flow control, byte accounting and convergence, for any     *)
(* number of positions, groups, rates and stray answers. SenderInv is      *)
(* inductive. Its parts that no run checks on their own say what a         *)
(* decision of one step relies on in a later one: an admission on what     *)
(* begin_tick saw (PlanSound), the completion of a batch on what was       *)
(* written of it before (QueueSound).                                      *)
(***************************************************************************)
EXTENDS LightStorage, PlayerView, ChunkSender, DataFacts, FunctionTheorems

(* A finite nonempty set of integers has a least and a greatest member.    *)
LEMMA LeastFacts ==
  ASSUME NEW ns, ns \subseteq Int, IsFiniteSet(ns), ns # {}
  PROVE  Least(ns) \in ns /\ \A k \in ns : Least(ns) <= k
<1> DEFINE Below(n) == {k \in ns : k <= n}
           F == {Below(n) : n \in ns}
<1>2. PICK T \in F : \A U \in F : U \subseteq T => U = T
  <2> DEFINE D == ns
  <2>1. F \in SUBSET SUBSET D /\ F # {} /\ IsFiniteSet(D)
    OBVIOUS
  <2> HIDE DEF D, F, Below
  <2> QED
    BY <2>1, Smallest
<1>3. PICK n \in ns : T = Below(n)
  BY <1>2
<1>4. ASSUME NEW k \in ns PROVE n <= k
  <2> SUFFICES ASSUME ~(n <= k) PROVE FALSE
    OBVIOUS
  <2>1. n \in Int /\ k \in Int /\ k < n
    OBVIOUS
  <2>2. Below(k) \subseteq T
    <3> SUFFICES ASSUME NEW j \in ns, j <= k PROVE j \in T
      OBVIOUS
    <3>1. j \in Int
      OBVIOUS
    <3> QED
      BY <1>3, <2>1, <3>1
  <2>3. n \in T /\ n \notin Below(k)
    BY <1>3, <2>1
  <2> QED
    BY <1>2, <2>2, <2>3
<1>5. \E m \in ns : \A k \in ns : m <= k
  BY <1>4
<1> QED
  BY <1>5 DEF Least

LEMMA MostFacts ==
  ASSUME NEW ns, ns \subseteq Int, IsFiniteSet(ns), ns # {}
  PROVE  Most(ns) \in ns /\ \A k \in ns : k <= Most(ns)
<1> DEFINE Above(n) == {k \in ns : n <= k}
           F == {Above(n) : n \in ns}
<1>2. PICK T \in F : \A U \in F : U \subseteq T => U = T
  <2> DEFINE D == ns
  <2>1. F \in SUBSET SUBSET D /\ F # {} /\ IsFiniteSet(D)
    OBVIOUS
  <2> HIDE DEF D, F, Above
  <2> QED
    BY <2>1, Smallest
<1>3. PICK n \in ns : T = Above(n)
  BY <1>2
<1>4. ASSUME NEW k \in ns PROVE k <= n
  <2> SUFFICES ASSUME ~(k <= n) PROVE FALSE
    OBVIOUS
  <2>1. n \in Int /\ k \in Int /\ n < k
    OBVIOUS
  <2>2. Above(k) \subseteq T
    <3> SUFFICES ASSUME NEW j \in ns, k <= j PROVE j \in T
      OBVIOUS
    <3>1. j \in Int
      OBVIOUS
    <3> QED
      BY <1>3, <2>1, <3>1
  <2>3. n \in T /\ n \notin Above(k)
    BY <1>3, <2>1
  <2> QED
    BY <1>2, <2>2, <2>3
<1>5. \E m \in ns : \A k \in ns : k <= m
  BY <1>4
<1> QED
  BY <1>5 DEF Most

(* Enough free layers can be handed out one to each section.               *)
LEMMA AllocatedFacts ==
  ASSUME NEW ss, IsFiniteSet(ss), IsFiniteSet(Free), Cardinality(ss) <= Cardinality(Free)
  PROVE  /\ Allocated(ss) \in [ss -> Free]
         /\ \A t, u \in ss : Allocated(ss)[t] = Allocated(ss)[u] => t = u
<1> DEFINE a == Cardinality(ss)
           b == Cardinality(Free)
<1>1. /\ a \in Nat /\ ExistsBijection(1..a, ss)
      /\ b \in Nat /\ ExistsBijection(1..b, Free)
  BY FS_CardinalityType
<1>2. ExistsBijection(ss, 1..a)
  BY <1>1, Fun_ExistsBijSymmetric
<1>3. ExistsInjection(1..a, 1..b)
  BY <1>1, Fun_NatInjLeq
<1> HIDE DEF a, b
<1>4. ExistsInjection(ss, 1..a) /\ ExistsInjection(1..b, Free)
  BY <1>1, <1>2, Fun_ExistsBijEquiv
<1>5. ExistsInjection(ss, Free)
  BY <1>3, <1>4, Fun_ExistsInjTransitive
<1>6. \E f \in [ss -> Free] : \A t, u \in ss : f[t] = f[u] => t = u
  BY <1>5 DEF ExistsInjection, Injection, IsInjective
<1> QED
  BY <1>6 DEF Allocated

-----------------------------------------------------------------------------
(* The inductive invariant of the light storage.                           *)

Layer == [uniform : BOOLEAN, plane : [Planes -> Dark..FULL_LIGHT]]
SectionEntry == [data : BOOLEAN, support : Nat, updating : 0..LayerLimit,
                 queued : 0..LayerLimit, remove : BOOLEAN]
SectionSpace == {s \in Int : s + 1 < NoTop}

(* The type of the storage, without its content.                           *)
StorageTyped ==
  /\ kind \in {"Block", "Sky"}
  /\ IsFiniteSet(DOMAIN sections) /\ DOMAIN sections \subseteq SectionSpace
  /\ sections \in [DOMAIN sections -> SectionEntry]
  /\ {enabled, retain, changed, inconsistent} \subseteq BOOLEAN
  /\ top \in Int /\ lowest \in Int

ContentTyped == content \in [1..LayerLimit -> Layer]

(* Readers hold layers that are allocated.                                 *)
ReadersTyped ==
  /\ visible = [layers |-> visible.layers, top |-> visible.top, lowest |-> visible.lowest]
  /\ visible.layers \in [DOMAIN visible.layers -> 1..LayerLimit]
  /\ held \in [DOMAIN held -> 1..LayerLimit]

Beside(s) == {t \in {s - 1, s + 1} : Entry(t).data}
Bit(b) == IF b THEN 1 ELSE 0

(* Support is exact for sections without an entry too.                     *)
SupportPart == \A s \in Int : Entry(s).support = Bit(Entry(s - 1).data) + Bit(Entry(s + 1).data)

(* An entry stores light while it is supported or waits for its removal.   *)
LifePart ==
  \A s \in Int :
    /\ Entry(s).updating # NoLayer <=> (State(Entry(s)) # Vacant \/ Entry(s).remove)
    /\ Entry(s).remove => State(Entry(s)) = Vacant /\ inconsistent

Rows == [s \in Stored |-> sections[s].updating]

PublishedPart ==
  ~changed => visible.layers = Rows /\ visible.top = top /\ visible.lowest = lowest

SkyPart ==
  kind = "Sky" => /\ top = IF Stored = {} THEN NoTop ELSE Most(Stored) + 1
                  /\ \A s \in Stored : lowest <= s

StorageInv ==
  StorageTyped /\ ContentTyped /\ ReadersTyped /\ SupportPart /\ LifePart /\ PublishedPart
    /\ SkyPart

LEMMA NoTopInt == NoTop \in Int /\ NoLowest \in Int
BY SMT DEF NoTop, NoLowest

(* Those of two that are chosen, counted.                                  *)
LEMMA TwoCount ==
  ASSUME NEW a, NEW b, a # b, NEW p \in BOOLEAN, NEW q \in BOOLEAN,
         NEW S, S \subseteq {a, b}, a \in S <=> p, b \in S <=> q
  PROVE  Cardinality(S) = Bit(p) + Bit(q)
<1>1. Cardinality({}) = 0 /\ Cardinality({a}) = 1 /\ Cardinality({b}) = 1 /\ IsFiniteSet({a})
  BY FS_EmptySet, FS_Singleton
<1>2. Cardinality({a} \cup {b}) = 2
  BY <1>1, FS_AddElement
<1>3. CASE p /\ q
  <2>1. S = {a} \cup {b}
    BY <1>3
  <2> QED
    BY <1>2, <1>3, <2>1 DEF Bit
<1>4. CASE p /\ ~q
  <2>1. S = {a}
    BY <1>4
  <2> QED
    BY <1>1, <1>4, <2>1 DEF Bit
<1>5. CASE ~p /\ q
  <2>1. S = {b}
    BY <1>5
  <2> QED
    BY <1>1, <1>5, <2>1 DEF Bit
<1>6. CASE ~p /\ ~q
  <2>1. S = {}
    BY <1>6
  <2> QED
    BY <1>1, <1>6, <2>1 DEF Bit
<1> QED
  BY <1>3, <1>4, <1>5, <1>6

LEMMA BesideCount ==
  ASSUME StorageTyped, NEW s \in Int
  PROVE  Cardinality(Beside(s)) = Bit(Entry(s - 1).data) + Bit(Entry(s + 1).data)
<1> DEFINE a == s - 1
           b == s + 1
           p == Entry(s - 1).data
           q == Entry(s + 1).data
           S == Beside(s)
<1>1. a # b
  OBVIOUS
<1>2. p \in BOOLEAN /\ q \in BOOLEAN
  BY DEF Entry, StorageTyped, SectionEntry, Bare
<1>3. S \subseteq {a, b} /\ (a \in S <=> p) /\ (b \in S <=> q)
  BY <1>2 DEF Beside
<1> HIDE DEF a, b, p, q, S
<1>4. Cardinality(S) = Bit(p) + Bit(q)
  BY <1>1, <1>2, <1>3, TwoCount
<1> QED
  BY <1>4 DEF p, q, S

LEMMA StorageInvExact == StorageInv => StorageExact
<1> SUFFICES ASSUME StorageInv PROVE StorageExact
  OBVIOUS
<1>1. ASSUME NEW s \in DOMAIN sections
      PROVE  /\ sections[s].support = Cardinality({t \in {s - 1, s + 1} : Entry(t).data})
             /\ storing_light(s) = (State(sections[s]) # Vacant \/ sections[s].remove)
             /\ sections[s].remove => State(sections[s]) = Vacant /\ inconsistent
  <2>1. s \in Int /\ Entry(s) = sections[s]
    BY DEF StorageInv, StorageTyped, SectionSpace, Entry
  <2>2. sections[s].support = Cardinality(Beside(s))
    BY <2>1, BesideCount DEF StorageInv, SupportPart
  <2>3. storing_light(s) = (sections[s].updating # NoLayer)
    BY <2>1 DEF storing_light
  <2> QED
    BY <2>1, <2>2, <2>3 DEF StorageInv, LifePart, Beside
<1> QED
  BY <1>1 DEF StorageInv, StorageExact, PublishedPart, SkyPart, Rows

LEMMA StorageInitInv == StorageInit => StorageInv
<1> SUFFICES ASSUME StorageInit PROVE StorageInv
  OBVIOUS
<1>1. DOMAIN sections = {} /\ DOMAIN visible.layers = {} /\ DOMAIN held = {}
  BY DEF StorageInit, NoRows
<1>2. StorageTyped
  BY <1>1, FS_EmptySet, NoTopInt DEF StorageInit, StorageTyped
<1>3. ContentTyped
  BY DEF StorageInit, ContentTyped, Layer, uniform, Planes, Dark, FULL_LIGHT
<1>4. ReadersTyped
  BY <1>1 DEF StorageInit, ReadersTyped, NoRows
<1>5. \A s \in Int : Entry(s) = Bare
  BY <1>1 DEF Entry
<1>6. SupportPart
  BY <1>5 DEF SupportPart, Bare, Bit
<1>7. LifePart
  <2>1. State(Bare) = Vacant /\ ~Bare.remove /\ Bare.updating = NoLayer
    BY DEF Bare, State, Vacant
  <2> QED
    BY <1>5, <2>1 DEF LifePart
<1>8. Stored = {} /\ Rows = NoRows
  BY <1>1 DEF Stored, Rows, NoRows
<1>9. PublishedPart /\ SkyPart
  BY <1>8 DEF StorageInit, PublishedPart, SkyPart
<1> QED
  BY <1>2, <1>3, <1>4, <1>6, <1>7, <1>9 DEF StorageInv

-----------------------------------------------------------------------------
(* Facts the steps share.                                                  *)

LEMMA Limits ==
  /\ LayerLimit \in Nat /\ 1..LayerLimit \subseteq 0..LayerLimit /\ 0 \in 0..LayerLimit
  /\ DataSections \subseteq SectionSpace
  /\ \A s \in DataSections : {s - 1, s, s + 1} \subseteq SectionSpace /\ s \in Int
<1>1. LayerLimit \in Nat
  BY StorageAssumption
<1>2. \A s \in DataSections : s \in Int /\ s + 2 < NoTop
  BY StorageAssumption
<1> QED
  BY <1>1, <1>2, NoTopInt DEF SectionSpace

LEMMA FreeFacts ==
  /\ Free \subseteq 1..LayerLimit /\ IsFiniteSet(Free)
  /\ Free # {} => Least(Free) \in Free
<1>1. Free \subseteq 1..LayerLimit
  BY DEF Free
<1>2. IsFiniteSet(1..LayerLimit)
  BY Limits, FS_Interval
<1>3. IsFiniteSet(Free)
  BY <1>1, <1>2, FS_Subset
<1>4. Free \subseteq Int
  BY <1>1, Limits
<1> QED
  BY <1>1, <1>3, <1>4, LeastFacts

LEMMA EntryTyped ==
  ASSUME StorageTyped, NEW s
  PROVE  Entry(s) \in SectionEntry
BY Limits DEF StorageTyped, Entry, Bare, SectionEntry, NoLayer

LEMMA StoredFacts ==
  ASSUME StorageTyped
  PROVE  /\ IsFiniteSet(Stored) /\ Stored \subseteq Int /\ Stored \subseteq DOMAIN sections
         /\ \A s \in Int : s \in Stored <=> Entry(s).updating # NoLayer
         /\ \A s \in Stored : Entry(s) = sections[s]
<1>1. Stored \subseteq DOMAIN sections
  BY DEF Stored
<1>2. IsFiniteSet(Stored)
  BY <1>1, FS_Subset DEF StorageTyped
<1> QED
  BY <1>1, <1>2 DEF StorageTyped, SectionSpace, Stored, Entry, Bare, NoLayer

LEMMA StoredFactsAfter ==
  ASSUME StorageTyped'
  PROVE  /\ IsFiniteSet(Stored') /\ Stored' \subseteq Int /\ Stored' \subseteq DOMAIN sections'
         /\ \A s \in Int : s \in Stored' <=> Entry(s)'.updating # NoLayer
         /\ \A s \in Stored' : Entry(s)' = sections'[s]
<1>1. Stored' \subseteq DOMAIN sections'
  BY DEF Stored
<1>2. IsFiniteSet(Stored')
  BY <1>1, FS_Subset DEF StorageTyped
<1> QED
  BY <1>1, <1>2 DEF StorageTyped, SectionSpace, Stored, Entry, Bare, NoLayer

(* A step that leaves the state of each entry, and whether it stores       *)
(* light, keeps what depends on them.                                      *)
LEMMA SameShape ==
  ASSUME StorageInv, StorageTyped', inconsistent => inconsistent',
         UNCHANGED <<kind, top, lowest>>,
         \A s \in Int : /\ Entry(s)'.data = Entry(s).data
                        /\ Entry(s)'.support = Entry(s).support
                        /\ Entry(s)'.remove = Entry(s).remove
                        /\ (Entry(s)'.updating # NoLayer) <=> (Entry(s).updating # NoLayer)
  PROVE  SupportPart' /\ LifePart' /\ SkyPart' /\ Stored' = Stored
<1>1. SupportPart'
  <2> SUFFICES ASSUME NEW s \in Int
               PROVE  Entry(s)'.support = Bit(Entry(s - 1)'.data) + Bit(Entry(s + 1)'.data)
    BY DEF SupportPart, Bit
  <2>1. s - 1 \in Int /\ s + 1 \in Int
    OBVIOUS
  <2>2. Entry(s).support = Bit(Entry(s - 1).data) + Bit(Entry(s + 1).data)
    BY DEF StorageInv, SupportPart
  <2> QED
    BY <2>1, <2>2
<1>2. LifePart'
  BY DEF StorageInv, LifePart, State
<1>3. Stored' = Stored
  <2>1. Stored \subseteq Int /\ \A s \in Int : s \in Stored <=> Entry(s).updating # NoLayer
    BY StoredFacts DEF StorageInv
  <2>2. Stored' \subseteq Int /\ \A s \in Int : s \in Stored' <=> Entry(s)'.updating # NoLayer
    BY StoredFactsAfter
  <2> QED
    BY <2>1, <2>2
<1>4. SkyPart'
  BY <1>3 DEF StorageInv, SkyPart
<1> QED
  BY <1>1, <1>2, <1>3, <1>4

(* What the entries of the stored sections name is what is to be published. *)
LEMMA SameRows ==
  ASSUME StorageTyped, StorageTyped', Stored' = Stored,
         \A s \in Int : Entry(s)'.updating = Entry(s).updating
  PROVE  Rows' = Rows
<1>1. \A s \in Stored : s \in Int /\ Entry(s) = sections[s] /\ Entry(s)' = sections'[s]
  <2>1. \A s \in Stored' : s \in Int /\ Entry(s)' = sections'[s]
    BY StoredFactsAfter
  <2> QED
    BY <2>1, StoredFacts
<1>2. \A s \in Stored : sections'[s].updating = sections[s].updating
  BY <1>1
<1> QED
  BY <1>2 DEF Rows

LEMMA ContentStep ==
  ASSUME NEW es, NEW vis, NEW hld, NEW c, Becomes(es, vis, hld, c),
         \A i \in Referenced(es, vis, hld) \cap (1..LayerLimit) : c[i] \in Layer
  PROVE  ContentTyped'
<1>1. uniform(Dark) \in Layer
  BY DEF uniform, Layer, Dark, FULL_LIGHT, Planes
<1> DEFINE R == Referenced(es, vis, hld)
<1>2. content' = [i \in 1..LayerLimit |-> IF i \in R THEN c[i] ELSE uniform(Dark)]
  BY DEF Becomes
<1> HIDE DEF R
<1>3. \A i \in 1..LayerLimit : (IF i \in R THEN c[i] ELSE uniform(Dark)) \in Layer
  BY <1>1 DEF R
<1> QED
  BY <1>2, <1>3 DEF ContentTyped

(* Only update_section_status changes which sections hold terrain.         *)
SameData == \A s \in Int : Entry(s)'.data = Entry(s).data

LEMMA SectionsStill ==
  ASSUME StorageInv, sections' = sections, UNCHANGED <<kind, top, lowest, inconsistent>>,
         enabled' \in BOOLEAN, retain' \in BOOLEAN, changed' \in BOOLEAN
  PROVE  StorageTyped' /\ SupportPart' /\ LifePart' /\ SkyPart' /\ Rows' = Rows /\ SameData
<1>1. StorageTyped'
  BY DEF StorageInv, StorageTyped
<1>2. \A s \in Int : Entry(s)' = Entry(s)
  BY DEF Entry
<1>3. SupportPart' /\ LifePart' /\ SkyPart' /\ Stored' = Stored
  BY <1>1, <1>2, SameShape
<1>4. Rows' = Rows
  BY <1>1, <1>2, <1>3, SameRows DEF StorageInv
<1> QED
  BY <1>1, <1>2, <1>3, <1>4 DEF SameData

LEMMA QuietStep ==
  ASSUME StorageInv,
         \/ \E on \in BOOLEAN : set_enabled(on) \/ retain_data(on)
         \/ clear_published_notifications
         \/ UNCHANGED storageVars
  PROVE  StorageInv' /\ SameData
<1>1. /\ UNCHANGED <<kind, content, sections, top, lowest, changed, inconsistent, visible, held>>
      /\ enabled' \in BOOLEAN /\ retain' \in BOOLEAN /\ changed' \in BOOLEAN
  BY DEF StorageInv, StorageTyped, set_enabled, retain_data, clear_published_notifications,
         storageVars
<1>2. StorageTyped' /\ SupportPart' /\ LifePart' /\ SkyPart' /\ Rows' = Rows /\ SameData
  BY <1>1, SectionsStill
<1>3. ContentTyped' /\ ReadersTyped' /\ PublishedPart'
  BY <1>1, <1>2 DEF StorageInv, ContentTyped, ReadersTyped, PublishedPart
<1> QED
  BY <1>2, <1>3 DEF StorageInv

LEMMA QueuedIds ==
  ASSUME StorageInv
  PROVE  DataSelection \in [DOMAIN DataSelection -> 1..LayerLimit]
<1>1. ASSUME NEW s \in DOMAIN DataSelection PROVE DataSelection[s] \in 1..LayerLimit
  <2>1. s \in DOMAIN visible.layers \cup {t \in DOMAIN sections : sections[t].queued # NoLayer}
    BY DEF DataSelection
  <2>2. DataSelection[s] = IF Entry(s).queued # NoLayer THEN Entry(s).queued
                           ELSE visible.layers[s]
    BY <2>1 DEF DataSelection
  <2>3. Entry(s).queued \in 0..LayerLimit
    BY EntryTyped DEF StorageInv, SectionEntry
  <2>4. CASE Entry(s).queued # NoLayer
    BY <2>2, <2>3, <2>4, Limits DEF NoLayer
  <2>5. CASE Entry(s).queued = NoLayer
    <3>1. s \in DOMAIN visible.layers
      BY <2>1, <2>5 DEF Entry
    <3>2. visible.layers[s] \in 1..LayerLimit
      BY <3>1 DEF StorageInv, ReadersTyped
    <3> QED
      BY <2>2, <2>5, <3>2
  <2> QED
    BY <2>4, <2>5
<1> QED
  BY <1>1 DEF DataSelection

LEMMA ReaderStep ==
  ASSUME StorageInv, TakeSnapshot \/ DropSnapshot
  PROVE  StorageInv' /\ SameData
<1>1. /\ UNCHANGED <<kind, sections, enabled, retain, top, lowest, changed, inconsistent, visible>>
      /\ \E rows : Becomes(sections, visible, rows, content)
      /\ held' \in {visible.layers, DataSelection, NoRows}
  BY DEF TakeSnapshot, DropSnapshot, Becomes
<1>2. StorageTyped' /\ SupportPart' /\ LifePart' /\ SkyPart' /\ Rows' = Rows /\ SameData
  BY <1>1, SectionsStill DEF StorageInv, StorageTyped
<1>3. ContentTyped'
  BY <1>1, ContentStep DEF StorageInv, ContentTyped
<1>4. ReadersTyped'
  <2>1. NoRows \in [DOMAIN NoRows -> 1..LayerLimit]
    BY DEF NoRows
  <2>2. held' \in [DOMAIN held' -> 1..LayerLimit]
    BY <1>1, <2>1, QueuedIds DEF StorageInv, ReadersTyped
  <2> QED
    BY <1>1, <2>2 DEF StorageInv, ReadersTyped
<1>5. PublishedPart'
  BY <1>1, <1>2 DEF StorageInv, PublishedPart
<1> QED
  BY <1>2, <1>3, <1>4, <1>5 DEF StorageInv

LEMMA PublishStep ==
  ASSUME StorageInv, publish_visible
  PROVE  StorageInv' /\ SameData
<1> DEFINE vis == IF changed THEN [layers |-> Rows, top |-> top, lowest |-> lowest] ELSE visible
<1>1. /\ UNCHANGED <<kind, sections, enabled, retain, top, lowest, inconsistent, held>>
      /\ Becomes(sections, vis, held, content)
      /\ changed' = FALSE /\ visible' = vis
  BY DEF publish_visible, Becomes, Rows
<1>2. StorageTyped' /\ SupportPart' /\ LifePart' /\ SkyPart' /\ Rows' = Rows /\ SameData
  BY <1>1, SectionsStill DEF StorageInv, StorageTyped
<1>3. ContentTyped'
  <2> HIDE DEF vis
  <2> QED
    BY <1>1, ContentStep DEF StorageInv, ContentTyped
<1>4. Rows \in [DOMAIN Rows -> 1..LayerLimit]
  <2>1. ASSUME NEW s \in Stored PROVE sections[s].updating \in 1..LayerLimit
    <3>1. sections[s] = Entry(s) /\ sections[s].updating # NoLayer
      BY <2>1, StoredFacts DEF StorageInv, Stored
    <3>2. sections[s].updating \in 0..LayerLimit
      BY <3>1, EntryTyped DEF StorageInv, SectionEntry
    <3> QED
      BY <3>1, <3>2, Limits DEF NoLayer
  <2> QED
    BY <2>1 DEF Rows
<1>5. /\ vis = [layers |-> vis.layers, top |-> vis.top, lowest |-> vis.lowest]
      /\ vis.layers \in [DOMAIN vis.layers -> 1..LayerLimit]
      /\ vis.layers = Rows /\ vis.top = top /\ vis.lowest = lowest
  <2>1. CASE changed
    BY <1>4, <2>1
  <2>2. CASE ~changed
    BY <2>2 DEF StorageInv, ReadersTyped, PublishedPart
  <2> QED
    BY <2>1, <2>2
<1> HIDE DEF vis
<1>6. ReadersTyped'
  BY <1>1, <1>5 DEF StorageInv, ReadersTyped
<1>7. PublishedPart'
  BY <1>1, <1>2, <1>5 DEF PublishedPart
<1> QED
  BY <1>2, <1>3, <1>6, <1>7 DEF StorageInv

(* Steps that only queue or drop a layer change no other part of an entry. *)
LEMMA QueueStep ==
  ASSUME StorageInv, NEW s \in DataSections,
         (\E l \in QueuedLayers : queue_data(s, l)) \/ queue_none(s)
  PROVE  StorageInv' /\ SameData
<1>1. /\ UNCHANGED <<kind, enabled, retain, top, lowest, changed, visible, held>>
      /\ inconsistent' \in {TRUE, inconsistent}
  <2>1. CASE \E l \in QueuedLayers : queue_data(s, l)
    BY <2>1 DEF queue_data, Becomes
  <2>2. CASE queue_none(s)
    BY <2>2 DEF queue_none, Becomes
  <2> QED
    BY <2>1, <2>2
<1>2. /\ IsFiniteSet(DOMAIN sections') /\ DOMAIN sections' \subseteq SectionSpace
      /\ sections' \in [DOMAIN sections' -> SectionEntry]
      /\ \A t \in Int : /\ Entry(t)'.data = Entry(t).data
                        /\ Entry(t)'.support = Entry(t).support
                        /\ Entry(t)'.remove = Entry(t).remove
                        /\ Entry(t)'.updating = Entry(t).updating
      /\ ContentTyped'
  <2>1. CASE \E l \in QueuedLayers : queue_data(s, l)
    <3>1. PICK l \in QueuedLayers : queue_data(s, l)
      BY <2>1
    <3> DEFINE id == Least(Free)
               e == [Entry(s) EXCEPT !.queued = id]
    <3>2. /\ id \in Free /\ id \in 1..LayerLimit
          /\ Becomes(With(sections, s, e), visible, held, [content EXCEPT ![id] = l])
      BY <3>1, FreeFacts DEF queue_data
    <3>3. sections' = [t \in DOMAIN sections \cup {s} |-> IF t = s THEN e ELSE sections[t]]
      BY <3>2 DEF Becomes, With
    <3> HIDE DEF id
    <3>4. e \in SectionEntry /\ e.data = Entry(s).data /\ e.support = Entry(s).support
          /\ e.remove = Entry(s).remove /\ e.updating = Entry(s).updating
      BY <3>2, EntryTyped, Limits DEF StorageInv, SectionEntry
    <3> HIDE DEF e
    <3>5. DOMAIN sections' = DOMAIN sections \cup {s}
      BY <3>3
    <3>6. IsFiniteSet(DOMAIN sections')
      BY <3>5, FS_AddElement DEF StorageInv, StorageTyped
    <3>7. DOMAIN sections' \subseteq SectionSpace
      BY <3>5, Limits DEF StorageInv, StorageTyped
    <3>8. sections' \in [DOMAIN sections' -> SectionEntry]
      BY <3>3, <3>4 DEF StorageInv, StorageTyped
    <3>9. \A t \in Int : Entry(t)' = IF t = s THEN e ELSE Entry(t)
      BY <3>3 DEF Entry
    <3>10. ContentTyped'
      <4>1. l \in Layer
        BY StorageAssumption DEF Layer
      <4>2. \A i \in 1..LayerLimit : [content EXCEPT ![id] = l][i] \in Layer
        BY <3>2, <4>1 DEF StorageInv, ContentTyped
      <4> QED
        BY <3>2, <4>2, ContentStep
    <3> QED
      BY <3>4, <3>6, <3>7, <3>8, <3>9, <3>10
  <2>2. CASE queue_none(s)
    <3> DEFINE es == [sections EXCEPT ![s].queued = NoLayer]
               kept == {t \in DOMAIN es : es[t] # Bare}
    <3>1. Becomes(prune_entries(es), visible, held, content) /\ Entry(s).queued # NoLayer
      BY <2>2 DEF queue_none
    <3>2. s \in DOMAIN sections
      BY <3>1 DEF Entry, Bare
    <3>3. /\ DOMAIN es = DOMAIN sections /\ es \in [DOMAIN es -> SectionEntry]
          /\ \A t \in DOMAIN sections : /\ es[t].data = sections[t].data
                                        /\ es[t].support = sections[t].support
                                        /\ es[t].remove = sections[t].remove
                                        /\ es[t].updating = sections[t].updating
      BY <3>2, Limits DEF StorageInv, StorageTyped, SectionEntry, NoLayer
    <3> HIDE DEF es
    <3>4. sections' = [t \in kept |-> es[t]] /\ kept \subseteq DOMAIN sections
      BY <3>1, <3>3 DEF Becomes, prune_entries
    <3>5. IsFiniteSet(DOMAIN sections') /\ DOMAIN sections' \subseteq SectionSpace
          /\ DOMAIN sections' = kept
      BY <3>4, FS_Subset DEF StorageInv, StorageTyped
    <3>6. sections' \in [DOMAIN sections' -> SectionEntry]
      BY <3>3, <3>4
    <3>7. ASSUME NEW t \in Int
          PROVE  /\ Entry(t)'.data = Entry(t).data
                 /\ Entry(t)'.support = Entry(t).support
                 /\ Entry(t)'.remove = Entry(t).remove
                 /\ Entry(t)'.updating = Entry(t).updating
      <4>1. Entry(t)' = IF t \in kept THEN es[t] ELSE Bare
        BY <3>4 DEF Entry
      <4>2. CASE t \in DOMAIN sections
        <5>1. Entry(t)' = es[t] /\ Entry(t) = sections[t]
          BY <3>3, <4>1, <4>2 DEF Entry
        <5> QED
          BY <3>3, <4>2, <5>1
      <4>3. CASE t \notin DOMAIN sections
        BY <3>4, <4>1, <4>3 DEF Entry
      <4> QED
        BY <4>2, <4>3
    <3>8. ContentTyped'
      BY <3>1, ContentStep DEF StorageInv, ContentTyped
    <3> QED
      BY <3>5, <3>6, <3>7, <3>8
  <2> QED
    BY <2>1, <2>2
<1>3. StorageTyped'
  BY <1>1, <1>2 DEF StorageInv, StorageTyped
<1>4. SupportPart' /\ LifePart' /\ SkyPart' /\ Stored' = Stored
  <2>1. inconsistent => inconsistent'
    BY <1>1
  <2> QED
    BY <1>1, <1>2, <1>3, <2>1, SameShape
<1>5. Rows' = Rows
  BY <1>2, <1>3, <1>4, SameRows DEF StorageInv
<1>6. ReadersTyped' /\ PublishedPart'
  BY <1>1, <1>5 DEF StorageInv, ReadersTyped, PublishedPart
<1> QED
  BY <1>2, <1>3, <1>4, <1>6 DEF StorageInv, SameData

(* A write moves the layers of some stored sections, and nothing else.     *)
LEMMA Moved ==
  ASSUME StorageInv, NEW es, sections' = es, DOMAIN es = DOMAIN sections,
         \A s \in DOMAIN sections :
           es[s] = sections[s] \/ \E x \in 1..LayerLimit : /\ es[s] = Mine(sections[s], x)
                                                           /\ sections[s].updating # NoLayer,
         es = [s \in DOMAIN es |-> es[s]],
         changed' = TRUE,
         UNCHANGED <<kind, enabled, retain, top, lowest, inconsistent, visible, held>>,
         ContentTyped'
  PROVE  StorageInv' /\ SameData
<1>1. ASSUME NEW s \in DOMAIN sections
      PROVE  /\ es[s] \in SectionEntry /\ es[s].data = sections[s].data
             /\ es[s].support = sections[s].support /\ es[s].remove = sections[s].remove
             /\ es[s].updating # NoLayer <=> sections[s].updating # NoLayer
  <2>1. sections[s] \in SectionEntry
    BY DEF StorageInv, StorageTyped
  <2>2. CASE es[s] = sections[s]
    BY <2>1, <2>2
  <2>3. CASE \E x \in 1..LayerLimit : /\ es[s] = Mine(sections[s], x)
                                      /\ sections[s].updating # NoLayer
    <3>1. PICK x \in 1..LayerLimit : es[s] = Mine(sections[s], x)
                                      /\ sections[s].updating # NoLayer
      BY <2>3
    <3>2. x # NoLayer /\ x \in 0..LayerLimit
      BY Limits DEF NoLayer
    <3> QED
      BY <2>1, <3>1, <3>2 DEF Mine, SectionEntry
  <2> QED
    BY <2>2, <2>3
<1>2. StorageTyped'
  BY <1>1 DEF StorageInv, StorageTyped
<1>3. \A s \in Int : /\ Entry(s)'.data = Entry(s).data
                     /\ Entry(s)'.support = Entry(s).support
                     /\ Entry(s)'.remove = Entry(s).remove
                     /\ (Entry(s)'.updating # NoLayer) <=> (Entry(s).updating # NoLayer)
  BY <1>1 DEF Entry
<1>4. SupportPart' /\ LifePart' /\ SkyPart'
  BY <1>2, <1>3, SameShape
<1>5. ReadersTyped' /\ PublishedPart'
  BY DEF StorageInv, ReadersTyped, PublishedPart
<1> QED
  BY <1>2, <1>3, <1>4, <1>5 DEF StorageInv, SameData

LEMMA InLayer ==
  /\ \A v \in {Dark, FULL_LIGHT} : uniform(v) \in Layer
  /\ \A l \in Layer : materialize(l) \in Layer /\ repeat_first_layer(l) \in Layer
  /\ \A l \in Layer, p \in Planes, v \in {Dark, FULL_LIGHT} : set(l, p, v) \in Layer
<1>1. \A v \in {Dark, FULL_LIGHT} : uniform(v) \in Layer
  BY DEF Layer, uniform, Dark, FULL_LIGHT, Planes
<1>2. \A l \in Layer : materialize(l) \in Layer
  BY DEF Layer, materialize
<1>3. \A l \in Layer : repeat_first_layer(l) \in Layer
  BY DEF Layer, repeat_first_layer, Planes
<1>4. \A l \in Layer, p \in Planes, v \in {Dark, FULL_LIGHT} : set(l, p, v) \in Layer
  BY DEF Layer, set, Dark, FULL_LIGHT
<1> QED
  BY <1>1, <1>2, <1>3, <1>4

LEMMA ContentOf ==
  ASSUME StorageInv, NEW s, Entry(s).updating # NoLayer
  PROVE  /\ s \in DOMAIN sections /\ Entry(s) = sections[s]
         /\ sections[s].updating \in 1..LayerLimit
         /\ content[sections[s].updating] \in Layer
<1>1. s \in DOMAIN sections /\ Entry(s) = sections[s]
  BY DEF Entry, Bare
<1>2. sections[s].updating \in 0..LayerLimit
  BY <1>1, EntryTyped DEF StorageInv, SectionEntry
<1>3. sections[s].updating \in 1..LayerLimit
  BY <1>1, <1>2, Limits DEF NoLayer
<1> QED
  BY <1>1, <1>3 DEF StorageInv, ContentTyped

LEMMA OneWriteStep ==
  ASSUME StorageInv, NEW s, NEW l \in Layer, NEW copies \in BOOLEAN, Write(s, l, copies),
         Entry(s).updating # NoLayer,
         UNCHANGED <<kind, enabled, retain, top, lowest, inconsistent>>
  PROVE  StorageInv' /\ SameData
<1> DEFINE id == IF copies THEN Least(Free) ELSE sections[s].updating
           es == [sections EXCEPT ![s] = Mine(sections[s], id)]
<1>1. /\ s \in DOMAIN sections /\ sections[s].updating \in 1..LayerLimit
      /\ sections[s].updating # NoLayer
  BY ContentOf
<1>2. /\ copies => Free # {}
      /\ Becomes(es, visible, held, [content EXCEPT ![id] = l])
      /\ changed' = TRUE
  BY DEF Write
<1>3. id \in 1..LayerLimit
  BY <1>1, <1>2, FreeFacts
<1> HIDE DEF id
<1>4. \A i \in 1..LayerLimit : [content EXCEPT ![id] = l][i] \in Layer
  BY <1>3 DEF StorageInv, ContentTyped
<1>5. /\ DOMAIN es = DOMAIN sections /\ es = [t \in DOMAIN es |-> es[t]]
      /\ \A t \in DOMAIN sections : es[t] = IF t = s THEN Mine(sections[s], id) ELSE sections[t]
  BY DEF StorageInv, StorageTyped
<1> HIDE DEF es
<1>6. ContentTyped'
  BY <1>2, <1>4, ContentStep
<1>7. sections' = es /\ UNCHANGED <<visible, held>>
  BY <1>2 DEF Becomes
<1>8. \A t \in DOMAIN sections :
        es[t] = sections[t] \/ \E x \in 1..LayerLimit : /\ es[t] = Mine(sections[t], x)
                                                        /\ sections[t].updating # NoLayer
  BY <1>1, <1>3, <1>5
<1> QED
  BY <1>2, <1>5, <1>6, <1>7, <1>8, Moved

LEMMA WriteStep ==
  ASSUME StorageInv, NEW s \in DataSections, 
         \/ \E p \in Planes, v \in {Dark, FULL_LIGHT} : set_stored_level(s, p, v)
         \/ \E v \in {Dark, FULL_LIGHT} : fill(s, v)
  PROVE  StorageInv' /\ SameData
<1>1. CASE \E p \in Planes, v \in {Dark, FULL_LIGHT} : set_stored_level(s, p, v)
  <2>1. PICK p \in Planes, v \in {Dark, FULL_LIGHT} : set_stored_level(s, p, v)
    BY <1>1
  <2> DEFINE l == content[sections[s].updating]
             m == set(l, p, v)
             copies == NeedsCopy(s) \/ l.uniform
  <2>2. /\ Entry(s).updating # NoLayer /\ Write(s, m, copies)
        /\ UNCHANGED <<kind, enabled, retain, top, lowest, inconsistent>>
    BY <2>1 DEF set_stored_level, storing_light
  <2>3. l \in Layer
    BY <2>2, ContentOf
  <2>4. m \in Layer /\ copies \in BOOLEAN
    BY <2>3, InLayer DEF Layer, NeedsCopy, Shared
  <2> HIDE DEF l, m, copies
  <2> QED
    BY <2>2, <2>4, OneWriteStep
<1>2. CASE \E v \in {Dark, FULL_LIGHT} : fill(s, v)
  <2>1. PICK v \in {Dark, FULL_LIGHT} : fill(s, v)
    BY <1>2
  <2> DEFINE m == uniform(v)
             copies == NeedsCopy(s)
  <2>2. /\ Entry(s).updating # NoLayer /\ Write(s, m, copies)
        /\ UNCHANGED <<kind, enabled, retain, top, lowest, inconsistent>>
    BY <2>1 DEF fill, storing_light
  <2>4. m \in Layer /\ copies \in BOOLEAN
    BY InLayer DEF NeedsCopy, Shared
  <2> HIDE DEF m, copies
  <2> QED
    BY <2>2, <2>4, OneWriteStep
<1> QED
  BY <1>1, <1>2

LEMMA PrepareStep ==
  ASSUME StorageInv, NEW blocks \in SUBSET (DataSections \X Planes), prepare_writes(blocks)
  PROVE  StorageInv' /\ SameData
<1> DEFINE copied == {s \in {b[1] : b \in blocks} : storing_light(s) /\ (NeedsCopy(s)
                              \/ content[sections[s].updating].uniform)}
           id == Allocated(copied)
           es == [s \in DOMAIN sections |->
                    IF s \in copied THEN Mine(sections[s], id[s]) ELSE sections[s]]
           Of(i) == CHOOSE s \in copied : id[s] = i
           c == [i \in 1..LayerLimit |->
                   IF \E s \in copied : id[s] = i
                   THEN materialize(content[sections[Of(i)].updating]) ELSE content[i]]
<1>1. /\ Cardinality(copied) <= Cardinality(Free)
      /\ Becomes(es, visible, held, c) /\ changed' = TRUE
      /\ UNCHANGED <<kind, enabled, retain, top, lowest, inconsistent>>
  BY DEF prepare_writes
<1>2. \A s \in copied : Entry(s).updating # NoLayer
  BY DEF storing_light
<1>3. \A s \in copied : /\ s \in DOMAIN sections /\ Entry(s) = sections[s]
                        /\ sections[s].updating \in 1..LayerLimit
                        /\ content[sections[s].updating] \in Layer
  BY <1>2, ContentOf
<1>4. IsFiniteSet(copied)
  <2>1. copied \subseteq DOMAIN sections
    BY <1>3
  <2> HIDE DEF copied
  <2> QED
    BY <2>1, FS_Subset DEF StorageInv, StorageTyped
<1> HIDE DEF copied
<1>5. id \in [copied -> Free]
  BY <1>1, <1>4, FreeFacts, AllocatedFacts
<1> HIDE DEF id
<1>6. \A i \in 1..LayerLimit : c[i] \in Layer
  <2> SUFFICES ASSUME NEW i \in 1..LayerLimit PROVE c[i] \in Layer
    OBVIOUS
  <2>1. CASE \E s \in copied : id[s] = i
    <3>1. Of(i) \in copied
      BY <2>1
    <3> HIDE DEF Of
    <3>2. materialize(content[sections[Of(i)].updating]) \in Layer
      BY <1>3, <3>1, InLayer
    <3> QED
      BY <2>1, <3>2
  <2>2. CASE ~ \E s \in copied : id[s] = i
    BY <2>2 DEF StorageInv, ContentTyped
  <2> QED
    BY <2>1, <2>2
<1> HIDE DEF c
<1>7. ContentTyped'
  BY <1>1, <1>6, ContentStep
<1>8. sections' = es /\ UNCHANGED <<visible, held>>
  BY <1>1 DEF Becomes
<1>9. \A s \in DOMAIN sections :
        es[s] = sections[s] \/ \E x \in 1..LayerLimit : /\ es[s] = Mine(sections[s], x)
                                                        /\ sections[s].updating # NoLayer
  BY <1>2, <1>3, <1>5, FreeFacts
<1>10. DOMAIN es = DOMAIN sections /\ es = [s \in DOMAIN es |-> es[s]]
  OBVIOUS
<1> HIDE DEF es
<1> QED
  BY <1>1, <1>7, <1>8, <1>9, <1>10, Moved

(* What process_inconsistencies makes of one entry.                        *)
Settled(e) == TakesQueued(AfterRemoval(e))

LEMMA SettledFacts ==
  ASSUME StorageTyped, NEW e \in SectionEntry
  PROVE  /\ Settled(e) \in SectionEntry /\ Settled(e).data = e.data
         /\ Settled(e).support = e.support /\ ~Settled(e).remove
         /\ Settled(e).updating # NoLayer <=> e.updating # NoLayer /\ ~e.remove
         /\ Settled(e).updating # NoLayer <=> AfterRemoval(e).updating # NoLayer
         /\ ~e.remove /\ e.queued \in {NoLayer, e.updating} => Settled(e).updating = e.updating
<1> DEFINE a == AfterRemoval(e)
<1>1. NoLayer \in 0..LayerLimit
  BY Limits DEF NoLayer
<1>2. /\ a \in SectionEntry /\ a.data = e.data /\ a.support = e.support /\ ~a.remove
      /\ a.updating = IF e.remove THEN NoLayer ELSE e.updating
      /\ ~e.remove => a = e
  BY <1>1 DEF AfterRemoval, SectionEntry
<1> HIDE DEF a
<1>3. /\ TakesQueued(a) \in SectionEntry /\ TakesQueued(a).data = a.data
      /\ TakesQueued(a).support = a.support /\ TakesQueued(a).remove = a.remove
      /\ TakesQueued(a).updating # NoLayer <=> a.updating # NoLayer
      /\ a.queued \in {NoLayer, a.updating} => TakesQueued(a).updating = a.updating
  BY <1>1, <1>2 DEF TakesQueued, SectionEntry
<1> QED
  BY <1>2, <1>3 DEF Settled, a

LEMMA SettleStep ==
  ASSUME StorageInv, process_inconsistencies
  PROVE  StorageInv' /\ SameData
<1> DEFINE kept == [s \in DOMAIN sections |-> AfterRemoval(sections[s])]
           stored == {s \in DOMAIN kept : kept[s].updating # NoLayer}
           replaced == {s \in stored : kept[s].queued \notin {NoLayer, kept[s].updating}}
           es == [s \in DOMAIN kept |-> TakesQueued(kept[s])]
           left == {s \in DOMAIN es : es[s] # Bare}
<1>1. /\ Becomes(prune_entries(es), visible, held, content)
      /\ top' = IF kind = "Block" THEN top ELSE IF stored = {} THEN NoTop ELSE Most(stored) + 1
      /\ changed' = (changed \/ replaced # {} \/ \E s \in DOMAIN sections : sections[s].remove)
      /\ inconsistent' = FALSE
      /\ UNCHANGED <<kind, enabled, retain, lowest>>
  BY DEF process_inconsistencies
<1>2. \A s \in DOMAIN sections : sections[s] \in SectionEntry /\ Entry(s) = sections[s]
  BY DEF StorageInv, StorageTyped, Entry
<1>3. /\ DOMAIN es = DOMAIN sections
      /\ \A s \in DOMAIN sections : es[s] = Settled(sections[s])
  BY DEF Settled
<1>4. /\ stored \subseteq DOMAIN sections
      /\ \A s \in DOMAIN sections : s \in stored <=> AfterRemoval(sections[s]).updating # NoLayer
  OBVIOUS
<1>5. replaced = {} => \A s \in stored : AfterRemoval(sections[s]).queued
                                           \in {NoLayer, AfterRemoval(sections[s]).updating}
  OBVIOUS
<1> HIDE DEF es, stored, replaced
<1>6. sections' = [s \in left |-> es[s]] /\ visible' = visible /\ held' = held
  BY <1>1 DEF Becomes, prune_entries
<1>7. left \subseteq DOMAIN sections /\ DOMAIN sections' = left
  BY <1>3, <1>6
<1>8. \A s \in DOMAIN sections : Settled(sections[s]) \in SectionEntry
  BY <1>2, SettledFacts DEF StorageInv
<1>9. StorageTyped'
  <2>1. IsFiniteSet(DOMAIN sections') /\ DOMAIN sections' \subseteq SectionSpace
    BY <1>7, FS_Subset DEF StorageInv, StorageTyped
  <2>2. sections' \in [DOMAIN sections' -> SectionEntry]
    BY <1>3, <1>6, <1>7, <1>8
  <2>3. top' \in Int
    <3>1. CASE kind = "Block"
      BY <1>1, <3>1 DEF StorageInv, StorageTyped
    <3>2. CASE kind # "Block"
      <4>1. CASE stored = {}
        BY <1>1, <3>2, <4>1, NoTopInt
      <4>2. CASE stored # {}
        <5>1. stored \subseteq Int /\ IsFiniteSet(stored)
          BY <1>4, FS_Subset DEF StorageInv, StorageTyped, SectionSpace
        <5>2. Most(stored) \in Int
          BY <4>2, <5>1, MostFacts
        <5> QED
          BY <1>1, <3>2, <4>2, <5>2
      <4> QED
        BY <4>1, <4>2
    <3> QED
      BY <3>1, <3>2
  <2>4. changed' \in BOOLEAN
    BY <1>1
  <2> QED
    BY <1>1, <2>1, <2>2, <2>3, <2>4 DEF StorageInv, StorageTyped
<1>10. \A s \in Int : Entry(s)' = IF s \in DOMAIN sections THEN Settled(sections[s]) ELSE Bare
  BY <1>3, <1>6, <1>7 DEF Entry
<1>11. \A s \in Int : /\ Entry(s)'.data = Entry(s).data /\ Entry(s)'.support = Entry(s).support
                      /\ ~Entry(s)'.remove
                      /\ Entry(s)'.updating # NoLayer <=> Entry(s).updating # NoLayer
                                                            /\ ~Entry(s).remove
  <2> SUFFICES ASSUME NEW s \in Int
               PROVE  /\ Entry(s)'.data = Entry(s).data /\ Entry(s)'.support = Entry(s).support
                      /\ ~Entry(s)'.remove
                      /\ Entry(s)'.updating # NoLayer <=> Entry(s).updating # NoLayer
                                                            /\ ~Entry(s).remove
    OBVIOUS
  <2>1. CASE s \in DOMAIN sections
    <3>1. Entry(s)' = Settled(sections[s])
      BY <1>10, <2>1
    <3> QED
      BY <1>2, <2>1, <3>1, SettledFacts DEF StorageInv
  <2>2. CASE s \notin DOMAIN sections
    <3>1. Entry(s)' = Bare /\ Entry(s) = Bare
      BY <1>10, <2>2 DEF Entry
    <3> QED
      BY <3>1 DEF Bare
  <2> QED
    BY <2>1, <2>2
<1>12. SupportPart'
  <2> SUFFICES ASSUME NEW s \in Int
               PROVE  Entry(s)'.support = Bit(Entry(s - 1)'.data) + Bit(Entry(s + 1)'.data)
    BY DEF SupportPart, Bit
  <2>1. s - 1 \in Int /\ s + 1 \in Int
    OBVIOUS
  <2>2. Entry(s).support = Bit(Entry(s - 1).data) + Bit(Entry(s + 1).data)
    BY DEF StorageInv, SupportPart
  <2> QED
    BY <1>11, <2>1, <2>2
<1>13. LifePart'
  <2>1. \A s \in Int : State(Entry(s)') = State(Entry(s))
    BY <1>11 DEF State
  <2>2. \A s \in Int :
          /\ Entry(s).updating # NoLayer <=> (State(Entry(s)) # Vacant \/ Entry(s).remove)
          /\ Entry(s).remove => State(Entry(s)) = Vacant
    BY DEF StorageInv, LifePart
  <2>3. \A s \in Int :
          /\ Entry(s)'.updating # NoLayer
               <=> (State(Entry(s)') # Vacant \/ Entry(s)'.remove)
          /\ ~Entry(s)'.remove
    BY <1>11, <2>1, <2>2
  <2>4. \A s \in Int : State(Entry(s)') = State(Entry(s))'
    BY DEF State
  <2> QED
    BY <2>3, <2>4 DEF LifePart, Vacant
<1>14. Stored' = stored
  <2>1. /\ Stored' \subseteq Int /\ Stored' \subseteq DOMAIN sections'
        /\ \A s \in Int : s \in Stored' <=> Entry(s)'.updating # NoLayer
    BY <1>9, StoredFactsAfter
  <2>2. ASSUME NEW s \in DOMAIN sections PROVE s \in Stored' <=> s \in stored
    <3>1. s \in Int /\ Entry(s)' = Settled(sections[s])
      BY <1>10, <2>2 DEF StorageInv, StorageTyped, SectionSpace
    <3> QED
      BY <1>2, <1>4, <2>1, <3>1, SettledFacts DEF StorageInv
  <2> QED
    BY <1>4, <1>7, <2>1, <2>2
<1>15. Stored' \subseteq Stored
  <2>1. \A s \in Int : s \in Stored <=> Entry(s).updating # NoLayer
    BY StoredFacts DEF StorageInv
  <2>2. Stored' \subseteq Int /\ \A s \in Int : s \in Stored' <=> Entry(s)'.updating # NoLayer
    BY <1>9, StoredFactsAfter
  <2> QED
    BY <1>11, <2>1, <2>2
<1>16. SkyPart'
  <2> SUFFICES ASSUME kind' = "Sky"
               PROVE  /\ top' = IF Stored' = {} THEN NoTop ELSE Most(Stored') + 1
                      /\ \A s \in Stored' : lowest' <= s
    BY DEF SkyPart, Most
  <2> QED
    BY <1>1, <1>14, <1>15 DEF StorageInv, SkyPart
<1>17. ContentTyped' /\ ReadersTyped'
  <2>1. ContentTyped'
    BY <1>1, ContentStep DEF StorageInv, ContentTyped
  <2> QED
    BY <1>6, <2>1 DEF StorageInv, ReadersTyped
<1>18. PublishedPart'
  <2> SUFFICES ASSUME ~changed'
               PROVE  visible'.layers = Rows' /\ visible'.top = top' /\ visible'.lowest = lowest'
    BY DEF PublishedPart
  <2>1. ~changed /\ replaced = {} /\ \A s \in DOMAIN sections : ~sections[s].remove
    BY <1>1
  <2>2. \A s \in DOMAIN sections : AfterRemoval(sections[s]) = sections[s]
    BY <2>1 DEF AfterRemoval
  <2>3. stored = Stored
    BY <1>4, <2>2 DEF Stored
  <2>4. ASSUME NEW s \in Int PROVE Entry(s)'.updating = Entry(s).updating
    <3>1. CASE s \in Stored
      <4>1. s \in DOMAIN sections /\ sections[s].queued \in {NoLayer, sections[s].updating}
        BY <1>5, <2>1, <2>2, <2>3, <3>1 DEF Stored
      <4>2. Entry(s)' = Settled(sections[s])
        BY <1>10, <4>1
      <4> QED
        BY <1>2, <2>1, <4>1, <4>2, SettledFacts DEF StorageInv
    <3>2. CASE s \notin Stored
      <4>1. Entry(s).updating = NoLayer
        BY <3>2, StoredFacts DEF StorageInv
      <4> QED
        BY <1>11, <4>1
    <3> QED
      BY <3>1, <3>2
  <2>5. Rows' = Rows
    BY <1>9, <1>14, <2>3, <2>4, SameRows DEF StorageInv
  <2>6. top' = top
    BY <1>1, <2>3 DEF StorageInv, StorageTyped, SkyPart
  <2> QED
    BY <1>1, <1>6, <2>1, <2>5, <2>6 DEF StorageInv, PublishedPart
<1> QED
  BY <1>9, <1>11, <1>12, <1>13, <1>16, <1>17, <1>18 DEF StorageInv, SameData

(* Layers planned for some sections.                                       *)
LayerMap(m) == /\ IsFiniteSet(DOMAIN m) /\ DOMAIN m \subseteq Int
               /\ m \in [DOMAIN m -> Layer]

LEMMA CreatedTyped ==
  ASSUME StorageInv, NEW m, LayerMap(m), NEW t \in Int
  PROVE  create_layer(t, m) \in Layer
<1>1. CASE Entry(t).queued # NoLayer
  <2>1. Entry(t).queued \in 0..LayerLimit
    BY EntryTyped DEF StorageInv, SectionEntry
  <2>2. Entry(t).queued \in 1..LayerLimit
    BY <1>1, <2>1, Limits DEF NoLayer
  <2>3. content[Entry(t).queued] \in Layer
    BY <2>2 DEF StorageInv, ContentTyped
  <2> QED
    BY <1>1, <2>3 DEF create_layer
<1>2. CASE Entry(t).queued = NoLayer
  <2> DEFINE above == {r \in Stored \cup DOMAIN m : r > t}
             Of(r) == IF r \in DOMAIN m THEN m[r] ELSE content[sections[r].updating]
             lo == Least({lowest} \cup DOMAIN m)
             v == IF kind = "Sky" /\ enabled THEN FULL_LIGHT ELSE Dark
  <2>1. \/ InitialLayer(t, m, lo) = repeat_first_layer(Of(Least(above))) /\ above # {}
        \/ InitialLayer(t, m, lo) = uniform(v)
    BY DEF InitialLayer
  <2>2. create_layer(t, m) = InitialLayer(t, m, lo)
    BY <1>2 DEF create_layer
  <2>3. uniform(v) \in Layer
    BY InLayer
  <2>4. ASSUME above # {} PROVE Of(Least(above)) \in Layer
    <3>1. above \subseteq Stored \cup DOMAIN m
      OBVIOUS
    <3>2. IsFiniteSet(Stored \cup DOMAIN m) /\ Stored \cup DOMAIN m \subseteq Int
      BY StoredFacts, FS_Union DEF StorageInv, LayerMap
    <3> HIDE DEF above
    <3>3. IsFiniteSet(above) /\ above \subseteq Int
      BY <3>1, <3>2, FS_Subset
    <3>4. Least(above) \in above
      BY <2>4, <3>3, LeastFacts
    <3> DEFINE r == Least(above)
    <3>5. r \in Stored \cup DOMAIN m
      BY <3>1, <3>4
    <3> HIDE DEF r
    <3>6. CASE r \in DOMAIN m
      <4>1. m[r] \in Layer
        BY <3>6 DEF LayerMap
      <4> QED
        BY <3>6, <4>1 DEF r
    <3>7. CASE r \notin DOMAIN m
      <4>1. r \in Stored
        BY <3>5, <3>7
      <4>2. Entry(r).updating # NoLayer
        BY <4>1, StoredFacts DEF StorageInv
      <4>3. content[sections[r].updating] \in Layer
        BY <4>2, ContentOf
      <4> QED
        BY <3>7, <4>3 DEF r
    <3> QED
      BY <3>6, <3>7
  <2> HIDE DEF above, lo, v, Of
  <2>5. above # {} => repeat_first_layer(Of(Least(above))) \in Layer
    BY <2>4, InLayer
  <2> QED
    BY <2>1, <2>2, <2>3, <2>5
<1> QED
  BY <1>1, <1>2

(* Bit section is planned: those planned before stay as they were.         *)
LEMMA PlanFacts ==
  ASSUME StorageInv, NEW s \in Int, NEW empty, NEW m, LayerMap(m), NEW t \in Int
  PROVE  /\ LayerMap(PlanLayer(s, empty, m, t))
         /\ DOMAIN PlanLayer(s, empty, m, t)
              = DOMAIN m \cup (IF Initializes(s, empty, t) THEN {t} ELSE {})
         /\ \A r \in DOMAIN m : r # t => PlanLayer(s, empty, m, t)[r] = m[r]
         /\ Initializes(s, empty, t) => PlanLayer(s, empty, m, t)[t] = create_layer(t, m)
<1> DEFINE l == create_layer(t, m)
           p == PlanLayer(s, empty, m, t)
<1>1. l \in Layer
  BY CreatedTyped
<1> HIDE DEF l
<1>2. CASE Initializes(s, empty, t)
  <2>1. p = [u \in DOMAIN m \cup {t} |-> IF u = t THEN l ELSE m[u]]
    BY <1>2 DEF PlanLayer, With, l
  <2> HIDE DEF p
  <2>2. DOMAIN p = DOMAIN m \cup {t} /\ p \in [DOMAIN p -> Layer]
    BY <1>1, <2>1 DEF LayerMap
  <2>3. IsFiniteSet(DOMAIN p) /\ DOMAIN p \subseteq Int
    BY <2>2, FS_AddElement DEF LayerMap
  <2>4. LayerMap(p) /\ DOMAIN p = DOMAIN m \cup (IF Initializes(s, empty, t) THEN {t} ELSE {})
    BY <1>2, <2>2, <2>3 DEF LayerMap
  <2>5. p[t] = l /\ \A r \in DOMAIN m : r # t => p[r] = m[r]
    BY <2>1
  <2> QED
    BY <1>2, <2>4, <2>5 DEF p, l
<1>3. CASE ~Initializes(s, empty, t)
  <2>1. p = m
    BY <1>3 DEF PlanLayer
  <2>2. DOMAIN m = DOMAIN m \cup (IF Initializes(s, empty, t) THEN {t} ELSE {})
    BY <1>3
  <2> HIDE DEF p
  <2> QED
    BY <1>3, <2>1, <2>2 DEF p
<1> QED
  BY <1>2, <1>3

(* The sections that start storing light.                                  *)
Starts(s, empty) == {t \in Neighbours(s) : Initializes(s, empty, t)}

Centre(s, empty) == PlanLayer(s, empty, [r \in {} |-> uniform(Dark)], s)
Below1(s, empty) == PlanLayer(s, empty, Centre(s, empty), s - 1)

LEMMA MadeFacts ==
  ASSUME StorageInv, NEW s \in Int, NEW empty
  PROVE  /\ LayerMap(Centre(s, empty)) /\ LayerMap(Below1(s, empty))
         /\ LayerMap(MadeFor(s, empty)) /\ DOMAIN MadeFor(s, empty) = Starts(s, empty)
         /\ DOMAIN Centre(s, empty) = Starts(s, empty) \cap {s}
         /\ DOMAIN Below1(s, empty) = Starts(s, empty) \cap {s - 1, s}
         /\ s \in Starts(s, empty) =>
              MadeFor(s, empty)[s] = create_layer(s, [r \in {} |-> uniform(Dark)])
         /\ s - 1 \in Starts(s, empty) =>
              MadeFor(s, empty)[s - 1] = create_layer(s - 1, Centre(s, empty))
         /\ s + 1 \in Starts(s, empty) =>
              MadeFor(s, empty)[s + 1] = create_layer(s + 1, Below1(s, empty))
         /\ \A r \in DOMAIN Centre(s, empty) : Centre(s, empty)[r] = MadeFor(s, empty)[r]
         /\ \A r \in DOMAIN Below1(s, empty) : Below1(s, empty)[r] = MadeFor(s, empty)[r]
<1> DEFINE none == [r \in {} |-> uniform(Dark)]
           c == Centre(s, empty)
           b == Below1(s, empty)
           a == MadeFor(s, empty)
<1>1. LayerMap(none) /\ DOMAIN none = {}
  BY FS_EmptySet DEF LayerMap
<1> HIDE DEF none
<1>2. /\ c = PlanLayer(s, empty, none, s)
      /\ b = PlanLayer(s, empty, c, s - 1)
      /\ a = PlanLayer(s, empty, b, s + 1)
  BY DEF Centre, Below1, MadeFor, none
<1>3. s \in Int /\ s - 1 \in Int /\ s + 1 \in Int /\ s # s - 1 /\ s # s + 1 /\ s - 1 # s + 1
  OBVIOUS
<1> HIDE DEF a, b, c
<1>4. /\ LayerMap(c) /\ \A r : r \in DOMAIN c <=> r = s /\ Initializes(s, empty, s)
      /\ Initializes(s, empty, s) => c[s] = create_layer(s, none)
  <2> DEFINE t == s
  <2>1. t \in Int
    OBVIOUS
  <2> HIDE DEF t
  <2>3. LayerMap(none)
    BY <1>1
  <2>2. /\ LayerMap(PlanLayer(s, empty, none, t))
        /\ DOMAIN PlanLayer(s, empty, none, t)
              = DOMAIN none \cup (IF Initializes(s, empty, t) THEN {t} ELSE {})
        /\ \A r \in DOMAIN none : r # t => PlanLayer(s, empty, none, t)[r] = none[r]
        /\ Initializes(s, empty, t) => PlanLayer(s, empty, none, t)[t] = create_layer(t, none)
    BY <2>1, <2>3, PlanFacts
  <2> QED
    BY <1>1, <1>2, <2>2 DEF t
<1>5. /\ LayerMap(b)
      /\ \A r : r \in DOMAIN b <=> r \in DOMAIN c \/ (r = s - 1 /\ Initializes(s, empty, s - 1))
      /\ Initializes(s, empty, s - 1) => b[s - 1] = create_layer(s - 1, c)
      /\ \A r \in DOMAIN c : r # s - 1 => b[r] = c[r]
  <2> DEFINE t == s - 1
  <2>1. t \in Int
    OBVIOUS
  <2> HIDE DEF t
  <2>2. /\ LayerMap(PlanLayer(s, empty, c, t))
        /\ DOMAIN PlanLayer(s, empty, c, t)
              = DOMAIN c \cup (IF Initializes(s, empty, t) THEN {t} ELSE {})
        /\ \A r \in DOMAIN c : r # t => PlanLayer(s, empty, c, t)[r] = c[r]
        /\ Initializes(s, empty, t) => PlanLayer(s, empty, c, t)[t] = create_layer(t, c)
    BY <1>4, <2>1, PlanFacts
  <2> QED
    BY <1>2, <2>2 DEF t
<1>6. /\ LayerMap(a)
      /\ \A r : r \in DOMAIN a <=> r \in DOMAIN b \/ (r = s + 1 /\ Initializes(s, empty, s + 1))
      /\ Initializes(s, empty, s + 1) => a[s + 1] = create_layer(s + 1, b)
      /\ \A r \in DOMAIN b : r # s + 1 => a[r] = b[r]
  <2> DEFINE t == s + 1
  <2>1. t \in Int
    OBVIOUS
  <2> HIDE DEF t
  <2>2. /\ LayerMap(PlanLayer(s, empty, b, t))
        /\ DOMAIN PlanLayer(s, empty, b, t)
              = DOMAIN b \cup (IF Initializes(s, empty, t) THEN {t} ELSE {})
        /\ \A r \in DOMAIN b : r # t => PlanLayer(s, empty, b, t)[r] = b[r]
        /\ Initializes(s, empty, t) => PlanLayer(s, empty, b, t)[t] = create_layer(t, b)
    BY <1>5, <2>1, PlanFacts
  <2> QED
    BY <1>2, <2>2 DEF t
<1>7. Neighbours(s) = {s - 1, s, s + 1}
  BY DEF Neighbours
<1>8. \A t : t \in Starts(s, empty) <=> t \in {s - 1, s, s + 1} /\ Initializes(s, empty, t)
  BY <1>7 DEF Starts
<1>9. /\ DOMAIN c = Starts(s, empty) \cap {s}
      /\ DOMAIN b = Starts(s, empty) \cap {s - 1, s}
      /\ DOMAIN a = Starts(s, empty)
  BY <1>4, <1>5, <1>6, <1>8
<1>10. /\ s \in Starts(s, empty) => a[s] = create_layer(s, none)
       /\ s - 1 \in Starts(s, empty) => a[s - 1] = create_layer(s - 1, c)
       /\ s + 1 \in Starts(s, empty) => a[s + 1] = create_layer(s + 1, b)
  BY <1>3, <1>4, <1>5, <1>6, <1>8
<1>11. /\ \A r \in DOMAIN c : c[r] = a[r]
       /\ \A r \in DOMAIN b : b[r] = a[r]
  BY <1>3, <1>4, <1>5, <1>6
<1> QED
  BY <1>4, <1>5, <1>6, <1>9, <1>10, <1>11 DEF a, b, c, none

(* The sections that start without queued data, the layers they are given, *)
(* the entries that are installed and the content of the new layers.       *)
Fresh(s, empty) == {t \in Starts(s, empty) : Entry(t).queued = NoLayer}
Given(s, empty) == Allocated(Fresh(s, empty))
Inst(s, empty, t) == Installed(s, empty, t, Starts(s, empty), Given(s, empty))
NewContent(s, empty) ==
  [i \in 1..LayerLimit |->
     IF \E t \in Fresh(s, empty) : Given(s, empty)[t] = i
     THEN MadeFor(s, empty)[CHOOSE t \in Fresh(s, empty) : Given(s, empty)[t] = i]
     ELSE content[i]]

LEMMA NeighbourFacts ==
  ASSUME NEW s \in Int
  PROVE  Neighbours(s) = {s - 1, s, s + 1} /\ Neighbours(s) \subseteq Int
BY DEF Neighbours

(* The neighbours of a section, counted by their support.                  *)
LEMMA PlannedFacts ==
  ASSUME StorageInv, NEW s \in Int, NEW empty \in BOOLEAN, Entry(s).data = empty,
         NEW t \in Neighbours(s)
  PROVE  /\ Planned(s, empty, t) \in SectionEntry
         /\ Planned(s, empty, t).data = IF t = s THEN ~empty ELSE Entry(t).data
         /\ Planned(s, empty, t).support = IF t = s THEN Entry(t).support
                                           ELSE IF empty THEN Entry(t).support - 1
                                           ELSE Entry(t).support + 1
         /\ Planned(s, empty, t).updating = Entry(t).updating
         /\ Planned(s, empty, t).queued = Entry(t).queued
         /\ Planned(s, empty, t).remove = Entry(t).remove
         /\ t # s => (s \in {t - 1, t + 1} /\ (empty => Entry(t).support >= 1))
         /\ State(Entry(t)) # Vacant \/ State(Planned(s, empty, t)) # Vacant
<1> DEFINE e == Entry(t)
           n == Entry(t).support
<1>1. t \in Int /\ (t # s => s \in {t - 1, t + 1})
  BY NeighbourFacts
<1>2. e \in SectionEntry /\ n \in Nat
  BY EntryTyped DEF StorageInv, SectionEntry
<1>3. ASSUME t # s, empty PROVE n >= 1
  <2>1. n = Bit(Entry(t - 1).data) + Bit(Entry(t + 1).data)
    BY <1>1 DEF StorageInv, SupportPart
  <2>2. Bit(Entry(t - 1).data) \in 0..1 /\ Bit(Entry(t + 1).data) \in 0..1
    BY DEF Bit
  <2>3. Bit(Entry(s).data) = 1
    BY <1>3 DEF Bit
  <2>4. CASE s = t - 1
    BY <2>1, <2>2, <2>3, <2>4
  <2>5. CASE s = t + 1
    BY <2>1, <2>2, <2>3, <2>5
  <2> QED
    BY <1>1, <1>3, <2>4, <2>5
<1> HIDE DEF e, n
<1>4. CASE t = s
  <2>1. Planned(s, empty, t) = [e EXCEPT !.data = ~empty]
    BY <1>4 DEF Planned, e
  <2>2. /\ Planned(s, empty, t) \in SectionEntry /\ Planned(s, empty, t).data = ~empty
        /\ Planned(s, empty, t).support = e.support /\ Planned(s, empty, t).queued = e.queued
        /\ Planned(s, empty, t).updating = e.updating /\ Planned(s, empty, t).remove = e.remove
    BY <1>2, <2>1 DEF SectionEntry
  <2>3. Planned(s, empty, t).data \/ e.data
    BY <1>4, <2>2 DEF e
  <2>4. State(e) # Vacant \/ State(Planned(s, empty, t)) # Vacant
    BY <2>3 DEF State, Vacant
  <2> QED
    BY <1>4, <2>2, <2>4 DEF e
<1>5. CASE t # s
  <2> DEFINE k == IF empty THEN n - 1 ELSE n + 1
  <2>1. Planned(s, empty, t) = [e EXCEPT !.support = k]
    BY <1>5 DEF Planned, e, n
  <2>2. k \in Nat
    BY <1>2, <1>3, <1>5
  <2>3. n # 0 \/ k # 0
    BY <1>2
  <2>6. k = IF empty THEN n - 1 ELSE n + 1
    OBVIOUS
  <2> HIDE DEF k
  <2>4. /\ Planned(s, empty, t) \in SectionEntry /\ Planned(s, empty, t).data = e.data
        /\ Planned(s, empty, t).support = k /\ Planned(s, empty, t).queued = e.queued
        /\ Planned(s, empty, t).updating = e.updating /\ Planned(s, empty, t).remove = e.remove
    BY <1>2, <2>1, <2>2 DEF SectionEntry
  <2>5. State(e) # Vacant \/ State(Planned(s, empty, t)) # Vacant
    BY <2>3, <2>4 DEF State, Vacant, e, n
  <2> QED
    BY <1>1, <1>3, <1>5, <2>4, <2>5, <2>6 DEF e, n
<1> QED
  BY <1>4, <1>5

LEMMA InstalledFacts ==
  ASSUME StorageInv, NEW s \in Int, NEW empty \in BOOLEAN, Entry(s).data = empty,
         NEW t \in Neighbours(s), Given(s, empty) \in [Fresh(s, empty) -> Free]
  PROVE  /\ Inst(s, empty, t) \in SectionEntry
         /\ Inst(s, empty, t).data = Planned(s, empty, t).data
         /\ Inst(s, empty, t).support = Planned(s, empty, t).support
         /\ Inst(s, empty, t).queued = Entry(t).queued
         /\ t \in Starts(s, empty) => /\ Inst(s, empty, t).updating # NoLayer
                                      /\ Entry(t).updating = NoLayer
         /\ t \in Fresh(s, empty) => Inst(s, empty, t).updating = Given(s, empty)[t]
         /\ t \notin Starts(s, empty) => Inst(s, empty, t).updating = Entry(t).updating
         /\ Inst(s, empty, t).updating # NoLayer
              <=> (State(Inst(s, empty, t)) # Vacant \/ Inst(s, empty, t).remove)
         /\ Inst(s, empty, t).remove => State(Inst(s, empty, t)) = Vacant
<1> DEFINE e == Planned(s, empty, t)
           was == Entry(t)
           i == Inst(s, empty, t)
<1>0. t \in Int
  BY NeighbourFacts
<1>1. /\ e \in SectionEntry /\ e.updating = was.updating /\ e.queued = was.queued
      /\ e.remove = was.remove /\ (State(was) # Vacant \/ State(e) # Vacant)
  BY PlannedFacts
<1>2. /\ was.updating # NoLayer <=> (State(was) # Vacant \/ was.remove)
      /\ was.remove => State(was) = Vacant
  BY <1>0 DEF StorageInv, LifePart
<1>3. t \in Starts(s, empty) <=> State(was) = Vacant /\ State(e) # Vacant /\ ~was.remove
  BY DEF Starts, Initializes
<1>4. t \in Fresh(s, empty) <=> t \in Starts(s, empty) /\ e.queued = NoLayer
  BY <1>1 DEF Fresh
<1> DEFINE x == IF e.queued = NoLayer THEN Given(s, empty)[t] ELSE e.queued
<1>5. i = IF t \in Starts(s, empty) THEN [e EXCEPT !.updating = x]
          ELSE IF State(was) = Vacant /\ State(e) # Vacant THEN [e EXCEPT !.remove = FALSE]
          ELSE IF State(was) # Vacant /\ State(e) = Vacant THEN [e EXCEPT !.remove = TRUE]
          ELSE e
  BY DEF Inst, Installed
<1>6. t \in Starts(s, empty) => x \in 0..LayerLimit /\ x # NoLayer
  <2>1. e.queued \in 0..LayerLimit
    BY <1>1 DEF SectionEntry
  <2>2. t \in Fresh(s, empty) => Given(s, empty)[t] \in 1..LayerLimit
    BY FreeFacts
  <2> QED
    BY <1>4, <2>1, <2>2, Limits DEF NoLayer
<1>7. t \in Fresh(s, empty) => x = Given(s, empty)[t]
  BY <1>4
<1> HIDE DEF e, was, i, x
<1>8. CASE t \in Starts(s, empty)
  <2>1. i = [e EXCEPT !.updating = x]
    BY <1>5, <1>8
  <2>2. /\ i \in SectionEntry /\ i.data = e.data /\ i.support = e.support /\ i.updating = x
        /\ i.queued = e.queued /\ i.remove = e.remove
    BY <1>1, <1>6, <1>8, <2>1 DEF SectionEntry
  <2>3. State(i) = State(e)
    BY <2>2 DEF State
  <2> QED
    BY <1>1, <1>2, <1>3, <1>6, <1>7, <1>8, <2>2, <2>3 DEF e, was, i
<1>9. CASE t \notin Starts(s, empty) /\ State(was) = Vacant
  <2>1. State(e) # Vacant /\ was.remove
    BY <1>1, <1>3, <1>9
  <2>2. i = [e EXCEPT !.remove = FALSE]
    BY <1>5, <1>9, <2>1
  <2>3. /\ i \in SectionEntry /\ i.data = e.data /\ i.support = e.support
        /\ i.updating = e.updating /\ i.queued = e.queued /\ ~i.remove
    BY <1>1, <2>2 DEF SectionEntry
  <2>4. State(i) = State(e) /\ t \notin Fresh(s, empty)
    BY <1>4, <1>9, <2>3 DEF State
  <2> QED
    BY <1>1, <1>2, <1>9, <2>1, <2>3, <2>4 DEF e, was, i
<1>10. CASE t \notin Starts(s, empty) /\ State(was) # Vacant /\ State(e) = Vacant
  <2>2. i = [e EXCEPT !.remove = TRUE]
    BY <1>5, <1>10
  <2>3. /\ i \in SectionEntry /\ i.data = e.data /\ i.support = e.support
        /\ i.updating = e.updating /\ i.queued = e.queued /\ i.remove
    BY <1>1, <2>2 DEF SectionEntry
  <2>4. State(i) = State(e) /\ t \notin Fresh(s, empty)
    BY <1>4, <1>10, <2>3 DEF State
  <2> QED
    BY <1>1, <1>2, <1>10, <2>3, <2>4 DEF e, was, i
<1>11. CASE t \notin Starts(s, empty) /\ State(was) # Vacant /\ State(e) # Vacant
  <2>2. i = e /\ t \notin Fresh(s, empty)
    BY <1>4, <1>5, <1>11
  <2> QED
    BY <1>1, <1>2, <1>11, <2>2 DEF e, was, i
<1> QED
  BY <1>8, <1>9, <1>10, <1>11

(* What update_section_status does, with the plan's parts named.           *)
LEMMA UpdateFacts ==
  ASSUME StorageInv, NEW s \in DataSections, NEW empty \in BOOLEAN,
         update_section_status(s, empty)
  PROVE  /\ Entry(s).data = empty
         /\ Given(s, empty) \in [Fresh(s, empty) -> Free]
         /\ \A t, u \in Fresh(s, empty) : Given(s, empty)[t] = Given(s, empty)[u] => t = u
         /\ DOMAIN sections' = DOMAIN sections \cup Neighbours(s)
         /\ sections' = [t \in DOMAIN sections \cup Neighbours(s) |->
                           IF t \in Neighbours(s) THEN Inst(s, empty, t) ELSE sections[t]]
         /\ Becomes(sections', visible, held, NewContent(s, empty))
         /\ changed' = (changed \/ Starts(s, empty) # {})
         /\ inconsistent' = (\/ inconsistent \/ Starts(s, empty) # {}
                             \/ \E t \in Neighbours(s) : Inst(s, empty, t).remove)
         /\ lowest' = IF kind = "Sky" THEN Least({lowest} \cup Starts(s, empty)) ELSE lowest
         /\ top' = IF kind = "Sky" /\ Starts(s, empty) # {}
                   THEN Most({t + 1 : t \in Starts(s, empty)}
                               \cup (IF top = NoTop THEN {} ELSE {top}))
                   ELSE top
         /\ UNCHANGED <<kind, enabled, retain, visible, held>>
<1>0. s \in Int
  BY Limits
<1> DEFINE starts == DOMAIN MadeFor(s, empty)
           fresh == {t \in starts : Entry(t).queued = NoLayer}
           kept == {t \in Neighbours(s) : t \in DOMAIN sections
                                           \/ State(Planned(s, empty, t)) # Vacant}
           id == Allocated(fresh)
           es == [t \in DOMAIN sections \cup kept |->
                    IF t \in kept THEN Installed(s, empty, t, starts, id) ELSE sections[t]]
           c == [i \in 1..LayerLimit |->
                   IF \E t \in fresh : id[t] = i
                   THEN MadeFor(s, empty)[CHOOSE t \in fresh : id[t] = i] ELSE content[i]]
<1>1. /\ Entry(s).data = empty
      /\ Cardinality(fresh) <= Cardinality(Free)
      /\ Becomes(es, visible, held, c)
      /\ changed' = (changed \/ starts # {})
      /\ inconsistent' = (\/ inconsistent \/ starts # {}
                          \/ \E t \in kept : Installed(s, empty, t, starts, id).remove)
      /\ lowest' = IF kind = "Sky" THEN Least({lowest} \cup starts) ELSE lowest
      /\ top' = IF kind = "Sky" /\ starts # {}
                THEN Most({t + 1 : t \in starts} \cup (IF top = NoTop THEN {} ELSE {top}))
                ELSE top
      /\ UNCHANGED <<kind, enabled, retain>>
  BY DEF update_section_status
<1>2. starts = Starts(s, empty)
  BY <1>0, MadeFacts
<1>3. fresh = Fresh(s, empty)
  BY <1>2 DEF Fresh
<1>4. id = Given(s, empty)
  BY <1>3 DEF Given
<1>5. kept = Neighbours(s)
  <2>1. ASSUME NEW t \in Neighbours(s), t \notin DOMAIN sections
        PROVE  State(Planned(s, empty, t)) # Vacant
    <3>1. State(Entry(t)) = Vacant
      BY <2>1 DEF Entry, Bare, State, Vacant
    <3> QED
      BY <1>0, <1>1, <3>1, PlannedFacts
  <2> QED
    BY <2>1
<1>6. \A t : Installed(s, empty, t, starts, id) = Inst(s, empty, t)
  BY <1>2, <1>4 DEF Inst
<1>7. c = NewContent(s, empty)
  BY <1>3, <1>4 DEF NewContent
<1>8. es = [t \in DOMAIN sections \cup Neighbours(s) |->
              IF t \in Neighbours(s) THEN Inst(s, empty, t) ELSE sections[t]]
  BY <1>5, <1>6
<1> HIDE DEF starts, fresh, kept, id, es, c
<1>9. IsFiniteSet(fresh)
  <2>1. IsFiniteSet(starts) /\ fresh \subseteq starts
    BY <1>0, MadeFacts DEF LayerMap, starts, fresh
  <2> QED
    BY <2>1, FS_Subset
<1>10. /\ id \in [fresh -> Free]
       /\ \A t, u \in fresh : id[t] = id[u] => t = u
  BY <1>1, <1>9, FreeFacts, AllocatedFacts DEF id
<1>11. sections' = es /\ UNCHANGED <<visible, held>>
  BY <1>1 DEF Becomes
<1>12. DOMAIN sections' = DOMAIN sections \cup Neighbours(s)
  BY <1>8, <1>11
<1>13. /\ Given(s, empty) \in [Fresh(s, empty) -> Free]
       /\ \A t, u \in Fresh(s, empty) : Given(s, empty)[t] = Given(s, empty)[u] => t = u
  BY <1>3, <1>4, <1>10
<1>14. Becomes(sections', visible, held, NewContent(s, empty))
  BY <1>1, <1>7, <1>11
<1>15. inconsistent' = (\/ inconsistent \/ Starts(s, empty) # {}
                        \/ \E t \in Neighbours(s) : Inst(s, empty, t).remove)
  BY <1>1, <1>2, <1>5, <1>6
<1>16. /\ changed' = (changed \/ Starts(s, empty) # {})
       /\ lowest' = IF kind = "Sky" THEN Least({lowest} \cup Starts(s, empty)) ELSE lowest
       /\ top' = IF kind = "Sky" /\ Starts(s, empty) # {}
                 THEN Most({t + 1 : t \in Starts(s, empty)}
                             \cup (IF top = NoTop THEN {} ELSE {top}))
                 ELSE top
  BY <1>1, <1>2
<1> QED
  BY <1>1, <1>8, <1>11, <1>12, <1>13, <1>14, <1>15, <1>16

LEMMA UpdateEntries ==
  ASSUME StorageInv, NEW s \in DataSections, NEW empty \in BOOLEAN,
         update_section_status(s, empty)
  PROVE  /\ \A t \in Int : Entry(t)' = IF t \in Neighbours(s) THEN Inst(s, empty, t) ELSE Entry(t)
         /\ IsFiniteSet(DOMAIN sections') /\ DOMAIN sections' \subseteq SectionSpace
         /\ sections' \in [DOMAIN sections' -> SectionEntry]
<1>0. s \in Int /\ Neighbours(s) = {s - 1, s, s + 1} /\ Neighbours(s) \subseteq SectionSpace
  BY Limits, NeighbourFacts
<1>1. /\ Entry(s).data = empty
      /\ Given(s, empty) \in [Fresh(s, empty) -> Free]
      /\ DOMAIN sections' = DOMAIN sections \cup Neighbours(s)
      /\ sections' = [t \in DOMAIN sections \cup Neighbours(s) |->
                        IF t \in Neighbours(s) THEN Inst(s, empty, t) ELSE sections[t]]
  BY UpdateFacts
<1>2. \A t \in Neighbours(s) : Inst(s, empty, t) \in SectionEntry
  BY <1>0, <1>1, InstalledFacts
<1>3. IsFiniteSet(DOMAIN sections')
  <2>1. IsFiniteSet(Neighbours(s))
    BY <1>0, FS_Interval DEF Neighbours
  <2> QED
    BY <1>1, <2>1, FS_Union DEF StorageInv, StorageTyped
<1>4. DOMAIN sections' \subseteq SectionSpace
  BY <1>0, <1>1 DEF StorageInv, StorageTyped
<1>5. sections' \in [DOMAIN sections' -> SectionEntry]
  BY <1>1, <1>2 DEF StorageInv, StorageTyped
<1>6. \A t \in Int : Entry(t)' = IF t \in Neighbours(s) THEN Inst(s, empty, t) ELSE Entry(t)
  BY <1>1 DEF Entry
<1> QED
  BY <1>3, <1>4, <1>5, <1>6

LEMMA UpdateStored ==
  ASSUME StorageInv, NEW s \in DataSections, NEW empty \in BOOLEAN,
         update_section_status(s, empty), StorageTyped'
  PROVE  /\ Stored' = Stored \cup Starts(s, empty) /\ Stored \cap Starts(s, empty) = {}
         /\ \A t \in Stored : Entry(t)'.updating = Entry(t).updating
<1>0. s \in Int /\ Neighbours(s) \subseteq Int
  BY Limits, NeighbourFacts
<1>1. Entry(s).data = empty /\ Given(s, empty) \in [Fresh(s, empty) -> Free]
  BY UpdateFacts
<1>2. \A t \in Int : Entry(t)' = IF t \in Neighbours(s) THEN Inst(s, empty, t) ELSE Entry(t)
  BY UpdateEntries
<1>3. Starts(s, empty) \subseteq Neighbours(s)
  BY DEF Starts
<1>4. \A t \in Neighbours(s) :
         /\ t \in Starts(s, empty) => /\ Inst(s, empty, t).updating # NoLayer
                                      /\ Entry(t).updating = NoLayer
         /\ t \notin Starts(s, empty) => Inst(s, empty, t).updating = Entry(t).updating
  BY <1>0, <1>1, InstalledFacts
<1>5. Stored \subseteq Int /\ \A t \in Int : t \in Stored <=> Entry(t).updating # NoLayer
  BY StoredFacts DEF StorageInv
<1>6. Stored' \subseteq Int /\ \A t \in Int : t \in Stored' <=> Entry(t)'.updating # NoLayer
  BY StoredFactsAfter
<1>7. \A t \in Int : t \notin Starts(s, empty) => Entry(t)'.updating = Entry(t).updating
  BY <1>2, <1>4
<1>8. \A t \in Starts(s, empty) : /\ t \in Int /\ Entry(t)'.updating # NoLayer
                                  /\ Entry(t).updating = NoLayer
  BY <1>0, <1>2, <1>3, <1>4
<1> QED
  BY <1>5, <1>6, <1>7, <1>8

LEMMA NewContentTyped ==
  ASSUME StorageInv, NEW s \in Int, NEW empty
  PROVE  \A i \in 1..LayerLimit : NewContent(s, empty)[i] \in Layer
<1> SUFFICES ASSUME NEW i \in 1..LayerLimit PROVE NewContent(s, empty)[i] \in Layer
  OBVIOUS
<1>1. CASE \E t \in Fresh(s, empty) : Given(s, empty)[t] = i
  <2> DEFINE t == CHOOSE t \in Fresh(s, empty) : Given(s, empty)[t] = i
  <2>1. t \in Fresh(s, empty) /\ NewContent(s, empty)[i] = MadeFor(s, empty)[t]
    BY <1>1 DEF NewContent
  <2> HIDE DEF t
  <2>2. t \in Starts(s, empty)
    BY <2>1 DEF Fresh
  <2>3. LayerMap(MadeFor(s, empty)) /\ DOMAIN MadeFor(s, empty) = Starts(s, empty)
    BY MadeFacts
  <2> QED
    BY <2>1, <2>2, <2>3 DEF LayerMap
<1>2. CASE ~ \E t \in Fresh(s, empty) : Given(s, empty)[t] = i
  BY <1>2 DEF NewContent, StorageInv, ContentTyped
<1> QED
  BY <1>1, <1>2

(* The top of a sky column after sections have started to store.           *)
LEMMA TopAfter ==
  ASSUME NEW S, S \subseteq SectionSpace, IsFiniteSet(S), NEW A, A \subseteq SectionSpace,
         IsFiniteSet(A), A # {}, NEW up,
         up = IF S = {} THEN NoTop ELSE Most(S) + 1
  PROVE  Most({t + 1 : t \in A} \cup (IF up = NoTop THEN {} ELSE {up})) = Most(S \cup A) + 1
<1> DEFINE U == S \cup A
           tops == {t + 1 : t \in A} \cup (IF up = NoTop THEN {} ELSE {up})
           m == Most(U)
<1>1. U \subseteq Int /\ IsFiniteSet(U) /\ U # {} /\ \A t \in U : t + 1 < NoTop /\ t \in Int
  BY FS_Union DEF SectionSpace
<1> HIDE DEF U
<1>2. m \in U /\ m \in Int /\ \A t \in U : t <= m
  BY <1>1, MostFacts
<1> HIDE DEF m
<1>3. S # {} => Most(S) \in S /\ \A t \in S : t <= Most(S)
  BY MostFacts DEF SectionSpace
<1>4. S # {} => up # NoTop /\ up = Most(S) + 1 /\ Most(S) \in U
  BY <1>1, <1>3, NoTopInt DEF U
<1>5. m + 1 \in tops
  <2>1. CASE m \in A
    BY <2>1
  <2>2. CASE m \notin A
    <3>1. m \in S /\ S # {}
      BY <1>2, <2>2 DEF U
    <3>2. Most(S) = m
      <4>1. m <= Most(S) /\ Most(S) <= m /\ Most(S) \in Int
        BY <1>1, <1>2, <1>3, <1>4, <3>1
      <4> QED
        BY <1>2, <4>1
    <3> QED
      BY <1>4, <3>1, <3>2
  <2> QED
    BY <2>1, <2>2
<1>6. \A x \in tops : x \in Int /\ x <= m + 1
  <2> SUFFICES ASSUME NEW x \in tops PROVE x \in Int /\ x <= m + 1
    OBVIOUS
  <2>1. CASE \E t \in A : x = t + 1
    <3>1. PICK t \in A : x = t + 1
      BY <2>1
    <3>2. t \in U
      BY DEF U
    <3> QED
      BY <1>1, <1>2, <3>1, <3>2
  <2>2. CASE x = up /\ up # NoTop
    <3>1. S # {}
      BY <2>2
    <3>2. x = Most(S) + 1 /\ Most(S) \in U
      BY <1>4, <2>2, <3>1
    <3> HIDE DEF tops
    <3>3. Most(S) \in Int /\ Most(S) <= m
      BY <1>1, <1>2, <3>2
    <3> QED
      BY <1>2, <3>2, <3>3
  <2> QED
    BY <2>1, <2>2
<1> HIDE DEF tops
<1>7. \A x \in tops : (\A y \in tops : y <= x) => x = m + 1
  <2> SUFFICES ASSUME NEW x \in tops, \A y \in tops : y <= x PROVE x = m + 1
    OBVIOUS
  <2>1. m + 1 <= x /\ x <= m + 1 /\ x \in Int
    BY <1>5, <1>6
  <2> QED
    BY <1>2, <2>1
<1>8. Most(tops) = m + 1
  BY <1>5, <1>6, <1>7 DEF Most
<1> QED
  BY <1>8 DEF tops, m, U

LEMMA UpdateSky ==
  ASSUME StorageInv, NEW s \in DataSections, NEW empty \in BOOLEAN,
         update_section_status(s, empty), Stored' = Stored \cup Starts(s, empty)
  PROVE  /\ SkyPart' /\ top' \in Int /\ lowest' \in Int
         /\ Starts(s, empty) = {} => top' = top /\ lowest' = lowest
<1> DEFINE A == Starts(s, empty)
           L == {lowest} \cup A
<1>1. s \in Int /\ A \subseteq Int /\ A \subseteq SectionSpace /\ IsFiniteSet(A)
  <2>1. s \in Int /\ Neighbours(s) \subseteq SectionSpace
    BY Limits, NeighbourFacts
  <2>2. A \subseteq Neighbours(s)
    BY DEF Starts
  <2>3. IsFiniteSet(Neighbours(s))
    BY <2>1, FS_Interval DEF Neighbours
  <2> QED
    BY <2>1, <2>2, <2>3, FS_Subset DEF SectionSpace
<1>2. /\ lowest' = IF kind = "Sky" THEN Least(L) ELSE lowest
      /\ top' = IF kind = "Sky" /\ A # {}
                THEN Most({t + 1 : t \in A} \cup (IF top = NoTop THEN {} ELSE {top}))
                ELSE top
      /\ kind' = kind
  BY UpdateFacts
<1>3. lowest \in Int /\ top \in Int
  BY DEF StorageInv, StorageTyped
<1> HIDE DEF A
<1>4. /\ Least(L) \in L /\ \A k \in L : Least(L) <= k
  <2>1. IsFiniteSet(L) /\ L \subseteq Int /\ L # {}
    BY <1>1, <1>3, FS_Singleton, FS_Union
  <2> HIDE DEF L
  <2> QED
    BY <2>1, LeastFacts
<1>5. Least(L) \in Int /\ Least(L) <= lowest /\ \A t \in A : Least(L) <= t
  BY <1>1, <1>3, <1>4
<1>6. A = {} => Least(L) = lowest
  BY <1>4
<1> HIDE DEF L
<1>7. Stored \subseteq SectionSpace /\ IsFiniteSet(Stored)
  BY StoredFacts DEF StorageInv, StorageTyped
<1>8. kind = "Sky" =>
        top' = IF Stored \cup A = {} THEN NoTop ELSE Most(Stored \cup A) + 1
  <2> SUFFICES ASSUME kind = "Sky"
               PROVE  top' = IF Stored \cup A = {} THEN NoTop ELSE Most(Stored \cup A) + 1
    OBVIOUS
  <2>1. top = IF Stored = {} THEN NoTop ELSE Most(Stored) + 1
    BY DEF StorageInv, SkyPart
  <2>2. CASE A = {}
    <3>1. Stored \cup A = Stored
      BY <2>2
    <3> QED
      BY <1>2, <2>1, <2>2, <3>1
  <2>3. CASE A # {}
    <3>1. Most({t + 1 : t \in A} \cup (IF top = NoTop THEN {} ELSE {top}))
            = Most(Stored \cup A) + 1
      BY <1>1, <1>7, <2>1, <2>3, TopAfter
    <3> QED
      BY <1>2, <2>3, <3>1
  <2> QED
    BY <2>2, <2>3
<1>9. top' \in Int
  <2>1. CASE kind = "Sky" /\ Stored \cup A # {}
    <3>1. Stored \cup A \subseteq Int /\ IsFiniteSet(Stored \cup A)
      BY <1>1, <1>7, FS_Union DEF SectionSpace
    <3>2. Most(Stored \cup A) \in Int
      BY <2>1, <3>1, MostFacts
    <3> QED
      BY <1>8, <2>1, <3>2
  <2>2. CASE kind = "Sky" /\ Stored \cup A = {}
    BY <1>8, <2>2, NoTopInt
  <2>3. CASE kind # "Sky"
    BY <1>2, <1>3, <2>3
  <2> QED
    BY <2>1, <2>2, <2>3
<1>10. SkyPart'
  <2> SUFFICES ASSUME kind' = "Sky"
               PROVE  /\ top' = IF Stored' = {} THEN NoTop ELSE Most(Stored') + 1
                      /\ \A t \in Stored' : lowest' <= t
    BY DEF SkyPart, Most
  <2>1. kind = "Sky" /\ lowest' = Least(L) /\ Stored' = Stored \cup A
    BY <1>2 DEF A
  <2>2. ASSUME NEW t \in Stored' PROVE lowest' <= t
    <3>1. CASE t \in A
      BY <1>5, <2>1, <3>1
    <3>2. CASE t \in Stored
      <4>1. lowest <= t /\ t \in Int
        BY <1>7, <2>1, <3>2 DEF StorageInv, SkyPart, SectionSpace
      <4> QED
        BY <1>3, <1>5, <2>1, <4>1
    <3> QED
      BY <2>1, <2>2, <3>1, <3>2
  <2> QED
    BY <1>8, <2>1, <2>2
<1> QED
  BY <1>2, <1>3, <1>5, <1>6, <1>9, <1>10 DEF A

LEMMA UpdateStep ==
  ASSUME StorageInv, NEW s \in DataSections, NEW empty \in BOOLEAN,
         update_section_status(s, empty)
  PROVE  StorageInv'
<1>0. /\ s \in Int /\ Neighbours(s) \subseteq Int /\ Neighbours(s) = {s - 1, s, s + 1}
      /\ Starts(s, empty) \subseteq Neighbours(s)
  BY Limits, NeighbourFacts DEF Starts
<1>1. /\ Entry(s).data = empty
      /\ Given(s, empty) \in [Fresh(s, empty) -> Free]
      /\ Becomes(sections', visible, held, NewContent(s, empty))
      /\ changed' = (changed \/ Starts(s, empty) # {})
      /\ inconsistent' = (\/ inconsistent \/ Starts(s, empty) # {}
                          \/ \E t \in Neighbours(s) : Inst(s, empty, t).remove)
      /\ UNCHANGED <<kind, enabled, retain, visible, held>>
  BY UpdateFacts
<1>2. /\ \A t \in Int : Entry(t)' = IF t \in Neighbours(s) THEN Inst(s, empty, t) ELSE Entry(t)
      /\ IsFiniteSet(DOMAIN sections') /\ DOMAIN sections' \subseteq SectionSpace
      /\ sections' \in [DOMAIN sections' -> SectionEntry]
  BY UpdateEntries
<1>3. Stored' = Stored \cup Starts(s, empty)
  <2>1. /\ Stored \subseteq Int /\ \A t \in Int : t \in Stored <=> Entry(t).updating # NoLayer
    BY StoredFacts DEF StorageInv
  <2>2. /\ Stored' \subseteq Int /\ \A t \in Int : t \in Stored' <=> Entry(t)'.updating # NoLayer
    BY <1>2 DEF Stored, Entry, Bare, NoLayer, SectionSpace
  <2>3. \A t \in Neighbours(s) :
          /\ t \in Starts(s, empty) => Inst(s, empty, t).updating # NoLayer
          /\ t \notin Starts(s, empty) => Inst(s, empty, t).updating = Entry(t).updating
    BY <1>0, <1>1, InstalledFacts
  <2> QED
    BY <1>0, <1>2, <2>1, <2>2, <2>3
<1>4. /\ SkyPart' /\ top' \in Int /\ lowest' \in Int
      /\ Starts(s, empty) = {} => top' = top /\ lowest' = lowest
  BY <1>3, UpdateSky
<1>5. StorageTyped'
  <2>1. changed' \in BOOLEAN /\ inconsistent' \in BOOLEAN
    BY <1>1
  <2> QED
    BY <1>1, <1>2, <1>4, <2>1 DEF StorageInv, StorageTyped
<1>6. ContentTyped' /\ ReadersTyped'
  <2>1. \A i \in 1..LayerLimit : NewContent(s, empty)[i] \in Layer
    BY <1>0, NewContentTyped
  <2>2. ContentTyped'
    <3> DEFINE c == NewContent(s, empty)
    <3> HIDE DEF c
    <3>1. Becomes(sections', visible, held, c) /\ \A i \in 1..LayerLimit : c[i] \in Layer
      BY <1>1, <2>1 DEF c
    <3>2. uniform(Dark) \in Layer
      BY InLayer
    <3>3. content' = [i \in 1..LayerLimit |->
                   IF i \in Referenced(sections', visible, held) THEN c[i] ELSE uniform(Dark)]
      BY <3>1 DEF Becomes
    <3> QED
      BY <3>1, <3>2, <3>3 DEF ContentTyped
  <2> QED
    BY <1>1, <2>2 DEF StorageInv, ReadersTyped
<1>7. \A t \in Neighbours(s) :
        /\ Inst(s, empty, t).data = IF t = s THEN ~empty ELSE Entry(t).data
        /\ Inst(s, empty, t).support = IF t = s THEN Entry(t).support
                                       ELSE IF empty THEN Entry(t).support - 1
                                       ELSE Entry(t).support + 1
        /\ Inst(s, empty, t).updating # NoLayer
              <=> (State(Inst(s, empty, t)) # Vacant \/ Inst(s, empty, t).remove)
        /\ Inst(s, empty, t).remove => State(Inst(s, empty, t)) = Vacant
  BY <1>0, <1>1, InstalledFacts, PlannedFacts
<1>8. \A t \in Int : Entry(t)'.data = IF t = s THEN ~empty ELSE Entry(t).data
  BY <1>0, <1>2, <1>7
<1>9. SupportPart'
  <2> SUFFICES ASSUME NEW t \in Int
               PROVE  Entry(t)'.support = Bit(Entry(t - 1)'.data) + Bit(Entry(t + 1)'.data)
    BY DEF SupportPart, Bit
  <2>1. t - 1 \in Int /\ t + 1 \in Int
    OBVIOUS
  <2>2. Entry(t).support = Bit(Entry(t - 1).data) + Bit(Entry(t + 1).data)
    BY DEF StorageInv, SupportPart
  <2>3. /\ Bit(Entry(t - 1).data) \in Int /\ Bit(Entry(t + 1).data) \in Int
        /\ Bit(empty) = (IF empty THEN 1 ELSE 0) /\ Bit(~empty) = (IF empty THEN 0 ELSE 1)
    BY DEF Bit
  <2>4. /\ Entry(t - 1)'.data = IF t - 1 = s THEN ~empty ELSE Entry(t - 1).data
        /\ Entry(t + 1)'.data = IF t + 1 = s THEN ~empty ELSE Entry(t + 1).data
    BY <1>8, <2>1
  <2>5. CASE t = s + 1
    <3>1. Entry(t)'.support = IF empty THEN Entry(t).support - 1 ELSE Entry(t).support + 1
      BY <1>0, <1>2, <1>7, <2>5
    <3>2. /\ Entry(t - 1)'.data = ~empty /\ Entry(t + 1)'.data = Entry(t + 1).data
          /\ Entry(t - 1).data = empty
      BY <1>0, <1>1, <2>4, <2>5
    <3> QED
      BY <2>2, <2>3, <3>1, <3>2
  <2>6. CASE t = s - 1
    <3>1. Entry(t)'.support = IF empty THEN Entry(t).support - 1 ELSE Entry(t).support + 1
      BY <1>0, <1>2, <1>7, <2>6
    <3>2. /\ Entry(t + 1)'.data = ~empty /\ Entry(t - 1)'.data = Entry(t - 1).data
          /\ Entry(t + 1).data = empty
      BY <1>0, <1>1, <2>4, <2>6
    <3> QED
      BY <2>2, <2>3, <3>1, <3>2
  <2>7. CASE t # s + 1 /\ t # s - 1
    <3>1. Entry(t)'.support = Entry(t).support
      BY <1>0, <1>2, <1>7, <2>7
    <3>2. Entry(t - 1)'.data = Entry(t - 1).data /\ Entry(t + 1)'.data = Entry(t + 1).data
      BY <1>0, <2>4, <2>7
    <3> QED
      BY <2>2, <3>1, <3>2
  <2> QED
    BY <2>5, <2>6, <2>7
<1>10. LifePart'
  <2> SUFFICES ASSUME NEW t \in Int
               PROVE  /\ Entry(t)'.updating # NoLayer
                           <=> (State(Entry(t)') # Vacant \/ Entry(t)'.remove)
                      /\ Entry(t)'.remove => State(Entry(t)') = Vacant /\ inconsistent'
    BY DEF LifePart, State, Vacant
  <2>1. CASE t \in Neighbours(s)
    BY <1>1, <1>2, <1>7, <2>1
  <2>2. CASE t \notin Neighbours(s)
    BY <1>1, <1>2, <2>2 DEF StorageInv, LifePart
  <2> QED
    BY <2>1, <2>2
<1>11. PublishedPart'
  <2> SUFFICES ASSUME ~changed'
               PROVE  visible'.layers = Rows' /\ visible'.top = top' /\ visible'.lowest = lowest'
    BY DEF PublishedPart
  <2>1. ~changed /\ Starts(s, empty) = {}
    BY <1>1
  <2>2. Stored' = Stored
    BY <1>3, <2>1
  <2>3. \A t \in Int : Entry(t)'.updating = Entry(t).updating
    BY <1>0, <1>1, <1>2, <2>1, InstalledFacts
  <2>4. Rows' = Rows
    BY <1>5, <2>2, <2>3, SameRows DEF StorageInv
  <2> QED
    BY <1>1, <1>4, <2>1, <2>4 DEF StorageInv, PublishedPart
<1> QED
  BY <1>4, <1>5, <1>6, <1>9, <1>10, <1>11 DEF StorageInv

LEMMA StorageStep ==
  ASSUME StorageInv, StorageNext \/ UNCHANGED storageVars
  PROVE  StorageInv'
<1>1. ASSUME NEW s \in DataSections, NEW empty \in BOOLEAN, update_section_status(s, empty)
      PROVE  StorageInv'
  BY <1>1, UpdateStep
<1>2. ASSUME NEW s \in DataSections, (\E l \in QueuedLayers : queue_data(s, l)) \/ queue_none(s)
      PROVE  StorageInv'
  BY <1>2, QueueStep
<1>3. ASSUME NEW s \in DataSections,
             \/ \E p \in Planes, v \in {Dark, FULL_LIGHT} : set_stored_level(s, p, v)
             \/ \E v \in {Dark, FULL_LIGHT} : fill(s, v)
      PROVE  StorageInv'
  BY <1>3, WriteStep
<1>4. ASSUME NEW blocks \in SUBSET (DataSections \X Planes), prepare_writes(blocks)
      PROVE  StorageInv'
  BY <1>4, PrepareStep
<1>5. CASE process_inconsistencies
  BY <1>5, SettleStep
<1>6. CASE publish_visible
  BY <1>6, PublishStep
<1>7. CASE TakeSnapshot \/ DropSnapshot
  BY <1>7, ReaderStep
<1>8. CASE \/ \E on \in BOOLEAN : set_enabled(on) \/ retain_data(on)
           \/ clear_published_notifications
           \/ UNCHANGED storageVars
  BY <1>8, QuietStep
<1> QED
  BY <1>1, <1>2, <1>3, <1>4, <1>5, <1>6, <1>7, <1>8 DEF StorageNext

(* The storage's bookkeeping is exact in every behaviour: support counts,  *)
(* which sections store light, the published map, and the column's top and *)
(* lowest section (update_section_status, process_inconsistencies,         *)
(* publish_visible).                                                       *)
THEOREM StorageIsExact == StorageSpec => []StorageExact
<1>1. StorageInit => StorageInv
  BY StorageInitInv
<1>2. StorageInv /\ [StorageNext]_storageVars => StorageInv'
  BY StorageStep
<1>3. StorageInv => StorageExact
  BY StorageInvExact
<1> QED
  BY <1>1, <1>2, <1>3, PTL DEF StorageSpec

-----------------------------------------------------------------------------
(* Readers.                                                                *)

(* What one step keeps of the snapshots: the step of SnapshotsFrozen.      *)
Frozen ==
  /\ held' = held => \A s \in DOMAIN held : content'[held[s]].plane = content[held[s]].plane
  /\ visible' = visible => \A s \in DOMAIN visible.layers :
       content'[visible.layers[s]].plane = content[visible.layers[s]].plane

(* No layer that a reader sees is free.                                    *)
LEMMA SharedNotFree ==
  ASSUME NEW i, Shared(i) PROVE i \notin Free
BY DEF Shared, Free, Referenced

LEMMA FrozenStep ==
  ASSUME StorageInv, NEW es, NEW vis, NEW hld, NEW c, Becomes(es, vis, hld, c),
         \A i \in 1..LayerLimit : Shared(i) => c[i] = content[i]
  PROVE  Frozen
<1>1. ASSUME NEW i \in 1..LayerLimit, Shared(i), i \in Values(vis.layers) \cup Values(hld)
      PROVE  content'[i] = content[i]
  <2>1. i \in Referenced(es, vis, hld)
    BY <1>1 DEF Referenced
  <2> DEFINE R == Referenced(es, vis, hld)
  <2>2. content' = [k \in 1..LayerLimit |-> IF k \in R THEN c[k] ELSE uniform(Dark)]
    BY DEF Becomes
  <2> HIDE DEF R
  <2> QED
    BY <1>1, <2>1, <2>2 DEF R
<1>2. visible' = vis /\ held' = hld
  BY DEF Becomes
<1>3. ASSUME held' = held, NEW s \in DOMAIN held PROVE content'[held[s]] = content[held[s]]
  <2>1. held[s] \in 1..LayerLimit /\ held[s] \in Values(held)
    BY DEF StorageInv, ReadersTyped, Values
  <2>2. Shared(held[s]) /\ held[s] \in Values(hld)
    BY <1>2, <1>3, <2>1 DEF Shared
  <2> QED
    BY <1>1, <2>1, <2>2
<1>4. ASSUME visible' = visible, NEW s \in DOMAIN visible.layers
      PROVE  content'[visible.layers[s]] = content[visible.layers[s]]
  <2>1. visible.layers[s] \in 1..LayerLimit /\ visible.layers[s] \in Values(visible.layers)
    BY DEF StorageInv, ReadersTyped, Values
  <2>2. Shared(visible.layers[s]) /\ visible.layers[s] \in Values(vis.layers)
    BY <1>2, <1>4, <2>1 DEF Shared
  <2> QED
    BY <1>1, <2>1, <2>2
<1> QED
  BY <1>3, <1>4 DEF Frozen

(* A layer is written in place only when no reader sees it.                *)
LEMMA FrozenWrite ==
  ASSUME StorageInv, NEW s, NEW l, NEW copies \in BOOLEAN, Write(s, l, copies),
         NeedsCopy(s) => copies, Entry(s).updating # NoLayer
  PROVE  Frozen
<1> DEFINE id == IF copies THEN Least(Free) ELSE sections[s].updating
           es == [sections EXCEPT ![s] = Mine(sections[s], id)]
           c == [content EXCEPT ![id] = l]
<1>1. (copies => Free # {}) /\ Becomes(es, visible, held, c)
  BY DEF Write
<1>2. ~Shared(id)
  <2>1. CASE copies
    BY <1>1, <2>1, FreeFacts, SharedNotFree
  <2>2. CASE ~copies
    BY <2>2 DEF NeedsCopy
  <2> QED
    BY <2>1, <2>2
<1> HIDE DEF id
<1>3. \A i \in 1..LayerLimit : Shared(i) => c[i] = content[i]
  BY <1>2 DEF StorageInv, ContentTyped
<1> HIDE DEF es, c
<1> QED
  BY <1>1, <1>3, FrozenStep

LEMMA FrozenNext ==
  ASSUME StorageInv, StorageNext \/ UNCHANGED storageVars
  PROVE  Frozen
<1>1. ASSUME NEW s \in DataSections, NEW empty \in BOOLEAN, update_section_status(s, empty)
      PROVE  Frozen
  <2> DEFINE c == NewContent(s, empty)
             es == sections'
  <2>1. Becomes(es, visible, held, c) /\ Given(s, empty) \in [Fresh(s, empty) -> Free]
    BY <1>1, UpdateFacts
  <2>2. \A i \in 1..LayerLimit : Shared(i) => c[i] = content[i]
    BY <2>1, SharedNotFree DEF NewContent
  <2>3. content' = [i \in 1..LayerLimit |->
                   IF i \in Referenced(es, visible, held) THEN c[i] ELSE uniform(Dark)]
    BY <2>1 DEF Becomes
  <2>4. visible' = visible /\ held' = held
    BY <2>1 DEF Becomes
  <2>5. ASSUME NEW i \in 1..LayerLimit, Shared(i) PROVE content'[i] = content[i]
    <3>1. i \in Referenced(es, visible, held)
      BY <2>5 DEF Referenced, Shared
    <3> HIDE DEF c, es
    <3> QED
      BY <2>2, <2>3, <2>5, <3>1
  <2>6. /\ \A t \in DOMAIN held : held[t] \in 1..LayerLimit /\ Shared(held[t])
        /\ \A t \in DOMAIN visible.layers :
             visible.layers[t] \in 1..LayerLimit /\ Shared(visible.layers[t])
    BY DEF StorageInv, ReadersTyped, Values, Shared
  <2> QED
    BY <2>5, <2>6 DEF Frozen
<1>2. ASSUME NEW s \in DataSections, NEW l \in QueuedLayers, queue_data(s, l)
      PROVE  Frozen
  <2> DEFINE id == Least(Free)
             es == With(sections, s, [Entry(s) EXCEPT !.queued = id])
             c == [content EXCEPT ![id] = l]
  <2>1. Free # {} /\ Becomes(es, visible, held, c)
    BY <1>2 DEF queue_data
  <2>2. ~Shared(id)
    BY <2>1, FreeFacts, SharedNotFree
  <2> HIDE DEF id
  <2>3. \A i \in 1..LayerLimit : Shared(i) => c[i] = content[i]
    BY <2>2 DEF StorageInv, ContentTyped
  <2> HIDE DEF es, c
  <2> QED
    BY <2>1, <2>3, FrozenStep
<1>3. ASSUME NEW s \in DataSections, queue_none(s) PROVE Frozen
  <2> DEFINE es == prune_entries([sections EXCEPT ![s].queued = NoLayer])
  <2>1. Becomes(es, visible, held, content)
    BY <1>3 DEF queue_none
  <2> HIDE DEF es
  <2> QED
    BY <2>1, FrozenStep
<1>4. ASSUME NEW s \in DataSections, NEW p \in Planes, NEW v \in {Dark, FULL_LIGHT},
             set_stored_level(s, p, v)
      PROVE  Frozen
  <2> DEFINE l == content[sections[s].updating]
             m == set(l, p, v)
             copies == NeedsCopy(s) \/ l.uniform
  <2>1. Entry(s).updating # NoLayer /\ Write(s, m, copies)
    BY <1>4 DEF set_stored_level, storing_light
  <2>2. l \in Layer
    BY <2>1, ContentOf
  <2>3. copies \in BOOLEAN /\ (NeedsCopy(s) => copies)
    BY <2>2 DEF Layer, NeedsCopy, Shared
  <2> HIDE DEF m, copies
  <2> QED
    BY <2>1, <2>3, FrozenWrite
<1>5. ASSUME NEW s \in DataSections, NEW v \in {Dark, FULL_LIGHT}, fill(s, v) PROVE Frozen
  <2> DEFINE m == uniform(v)
             copies == NeedsCopy(s)
  <2>1. Entry(s).updating # NoLayer /\ Write(s, m, copies)
    BY <1>5 DEF fill, storing_light
  <2>3. copies \in BOOLEAN /\ (NeedsCopy(s) => copies)
    BY DEF NeedsCopy, Shared
  <2> HIDE DEF m, copies
  <2> QED
    BY <2>1, <2>3, FrozenWrite
<1>6. ASSUME NEW blocks \in SUBSET (DataSections \X Planes), prepare_writes(blocks)
      PROVE  Frozen
  <2> DEFINE copied == {s \in {b[1] : b \in blocks} : storing_light(s) /\ (NeedsCopy(s)
                              \/ content[sections[s].updating].uniform)}
             id == Allocated(copied)
             es == [s \in DOMAIN sections |->
                      IF s \in copied THEN Mine(sections[s], id[s]) ELSE sections[s]]
             c == [i \in 1..LayerLimit |->
                     IF \E s \in copied : id[s] = i
                     THEN materialize(content[sections[CHOOSE s \in copied : id[s] = i].updating])
                     ELSE content[i]]
  <2>1. Cardinality(copied) <= Cardinality(Free) /\ Becomes(es, visible, held, c)
    BY <1>6 DEF prepare_writes
  <2>2. copied \subseteq DOMAIN sections
    BY ContentOf DEF storing_light
  <2> HIDE DEF copied
  <2>3. IsFiniteSet(copied)
    BY <2>2, FS_Subset DEF StorageInv, StorageTyped
  <2>4. id \in [copied -> Free]
    BY <2>1, <2>3, FreeFacts, AllocatedFacts
  <2> HIDE DEF id
  <2>5. \A i \in 1..LayerLimit : Shared(i) => c[i] = content[i]
    BY <2>4, SharedNotFree
  <2> HIDE DEF es, c
  <2> QED
    BY <2>1, <2>5, FrozenStep
<1>7. CASE process_inconsistencies
  <2> DEFINE kept == [s \in DOMAIN sections |-> AfterRemoval(sections[s])]
             es == prune_entries([s \in DOMAIN kept |-> TakesQueued(kept[s])])
  <2>1. Becomes(es, visible, held, content)
    BY <1>7 DEF process_inconsistencies
  <2> HIDE DEF es
  <2> QED
    BY <2>1, FrozenStep
<1>8. CASE publish_visible \/ TakeSnapshot \/ DropSnapshot
  <2>1. \E vis, hld : Becomes(sections, vis, hld, content)
    BY <1>8 DEF publish_visible, TakeSnapshot, DropSnapshot
  <2> QED
    BY <2>1, FrozenStep
<1>9. CASE \/ \E on \in BOOLEAN : set_enabled(on) \/ retain_data(on)
           \/ clear_published_notifications
           \/ UNCHANGED storageVars
  <2>1. content' = content
    BY <1>9 DEF set_enabled, retain_data, clear_published_notifications, storageVars
  <2> QED
    BY <2>1 DEF Frozen
<1> QED
  BY <1>1, <1>2, <1>3, <1>4, <1>5, <1>6, <1>7, <1>8, <1>9 DEF StorageNext

(* What one step keeps of the notices: the step of NoticesKept.            *)
Announced ==
  \/ notices \cup published \subseteq notices' \cup published'
  \/ clear_published_notifications /\ notices \subseteq notices'

LEMMA AnnouncedNext ==
  ASSUME StorageNext \/ UNCHANGED storageVars
  PROVE  Announced
<1>1. CASE \E s \in DataSections, empty \in BOOLEAN : update_section_status(s, empty)
  BY <1>1 DEF update_section_status, Announced
<1>2. CASE \E s \in DataSections : (\E l \in QueuedLayers : queue_data(s, l)) \/ queue_none(s)
  BY <1>2 DEF queue_data, queue_none, Announced
<1>3. CASE \E s \in DataSections, p \in Planes, v \in {Dark, FULL_LIGHT} :
             set_stored_level(s, p, v)
  BY <1>3 DEF set_stored_level, Announced
<1>4. CASE \E s \in DataSections, v \in {Dark, FULL_LIGHT} : fill(s, v)
  BY <1>4 DEF fill, Announced
<1>5. CASE process_inconsistencies \/ \E blocks \in SUBSET (DataSections \X Planes) :
                                        prepare_writes(blocks)
  BY <1>5 DEF process_inconsistencies, prepare_writes, Announced
<1>6. CASE publish_visible
  BY <1>6 DEF publish_visible, NoticesAfter, Announced
<1>7. CASE TakeSnapshot \/ DropSnapshot
  BY <1>7 DEF TakeSnapshot, DropSnapshot, Announced
<1>8. CASE \E on \in BOOLEAN : set_enabled(on) \/ retain_data(on)
  BY <1>8 DEF set_enabled, retain_data, Announced
<1>9. CASE clear_published_notifications
  BY <1>9 DEF clear_published_notifications, Announced
<1>10. CASE UNCHANGED storageVars
  BY <1>10 DEF storageVars, Announced
<1> QED
  BY <1>1, <1>2, <1>3, <1>4, <1>5, <1>6, <1>7, <1>8, <1>9, <1>10 DEF StorageNext

(* No step changes a level that a snapshot holds or loses a notice         *)
(* (layer_to_write, prepare_writes, publish_visible).                      *)
THEOREM StorageServesReaders == StorageSpec => ReadersServed
<1>1. StorageInit => StorageInv
  BY StorageInitInv
<1>2. StorageInv /\ [StorageNext]_storageVars => StorageInv'
  BY StorageStep
<1>3. StorageInv /\ [StorageNext]_storageVars => [Frozen]_storageVars /\ [Announced]_storageVars
  BY FrozenNext, AnnouncedNext
<1> QED
  BY <1>1, <1>2, <1>3, PTL
     DEF StorageSpec, ReadersServed, SnapshotsFrozen, NoticesKept, Frozen, Announced
-----------------------------------------------------------------------------
(* The light that blocks read.                                             *)

(* The planes of each stored section, and what get_level reads from them:  *)
(* above every stored section a sky column has its own light; a section    *)
(* without a layer reads the bottom of the next one above.                 *)
Lit == [t \in Stored |-> content[sections[t].updating].plane]

Reads(k, on, F, s, p) ==
  IF k = "Block" THEN (IF s \in DOMAIN F THEN F[s][p] ELSE Dark)
  ELSE IF \A t \in DOMAIN F : t < s THEN (IF on THEN FULL_LIGHT ELSE Dark)
  ELSE IF s \in DOMAIN F THEN F[s][p]
  ELSE F[Least({t \in DOMAIN F : t > s})][0]

LEMMA LeastAbove ==
  ASSUME NEW D, IsFiniteSet(D), D \subseteq Int, NEW s \in Int, s \notin D,
         ~ \A t \in D : t < s
  PROVE  /\ Least({t \in D : t > s}) \in D /\ Least({t \in D : t > s}) > s
         /\ \A u \in D : u > s => Least({t \in D : t > s}) <= u
         /\ \A n \in D : n > s /\ (\A u \in D : u > s => n <= u)
                           => n = Least({t \in D : t > s})
<1> DEFINE A == {t \in D : t > s}
<1>1. A \subseteq D /\ A \subseteq Int
  OBVIOUS
<1>2. IsFiniteSet(A)
  BY <1>1, FS_Subset
<1>3. A # {}
  <2>1. PICK t \in D : ~(t < s)
    OBVIOUS
  <2>2. t > s
    BY <2>1
  <2> QED
    BY <2>1, <2>2
<1>4. \A t : t \in A <=> t \in D /\ t > s
  OBVIOUS
<1> HIDE DEF A
<1> DEFINE l == Least(A)
<1>5. l \in A /\ \A t \in A : l <= t
  BY <1>1, <1>2, <1>3, LeastFacts
<1> HIDE DEF l
<1>6. ASSUME NEW n \in D, n > s, \A t \in D : t > s => n <= t PROVE n = l
  <2>1. n \in A /\ n <= l /\ l <= n /\ n \in Int /\ l \in Int
    BY <1>1, <1>4, <1>5, <1>6
  <2> QED
    BY <2>1
<1>7. l \in D /\ l > s /\ \A t \in D : t > s => l <= t
  BY <1>4, <1>5
<1> QED
  BY <1>6, <1>7 DEF l, A

(* A section that starts with the light read there before changes no read. *)
LEMMA ReadsExtended ==
  ASSUME NEW k, NEW on, NEW F, NEW G, IsFiniteSet(DOMAIN G), DOMAIN G \subseteq Int,
         DOMAIN F \subseteq DOMAIN G,
         \A t \in DOMAIN F : G[t] = F[t],
         \A t \in DOMAIN G : t \notin DOMAIN F =>
           \A q \in Planes : G[t][q] = Reads(k, on, F, t, q),
         NEW u \in Int, NEW p \in Planes
  PROVE  Reads(k, on, G, u, p) = Reads(k, on, F, u, p)
<1>0. IsFiniteSet(DOMAIN F) /\ DOMAIN F \subseteq Int
  BY FS_Subset
<1>1. CASE k = "Block"
  <2>1. CASE u \in DOMAIN F
    BY <1>1, <2>1 DEF Reads
  <2>2. CASE u \notin DOMAIN F /\ u \in DOMAIN G
    BY <1>1, <2>2 DEF Reads
  <2>3. CASE u \notin DOMAIN G
    BY <1>1, <2>3 DEF Reads
  <2> QED
    BY <2>1, <2>2, <2>3
<1>2. CASE k # "Block" /\ u \in DOMAIN F
  <2>1. ~(u < u)
    OBVIOUS
  <2> QED
    BY <1>2, <2>1 DEF Reads
<1>3. CASE k # "Block" /\ u \notin DOMAIN F /\ u \in DOMAIN G
  <2>1. ~(u < u)
    OBVIOUS
  <2>2. Reads(k, on, G, u, p) = G[u][p]
    BY <1>3, <2>1 DEF Reads
  <2> QED
    BY <1>3, <2>2
<1>4. CASE k # "Block" /\ u \notin DOMAIN G /\ \A t \in DOMAIN G : t < u
  BY <1>4 DEF Reads
<1>5. CASE k # "Block" /\ u \notin DOMAIN G /\ ~ \A t \in DOMAIN G : t < u
  <2> DEFINE n == Least({t \in DOMAIN G : t > u})
  <2>1. /\ n \in DOMAIN G /\ n > u /\ \A t \in DOMAIN G : t > u => n <= t
    BY <1>5, LeastAbove
  <2>2. Reads(k, on, G, u, p) = G[n][0]
    BY <1>5 DEF Reads
  <2> HIDE DEF n
  <2>3. n \in Int /\ 0 \in Planes /\ u \notin DOMAIN F
    BY <1>5, <2>1 DEF Planes
  <2>4. CASE n \in DOMAIN F
    <3>1. ~ \A t \in DOMAIN F : t < u
      BY <2>1, <2>3, <2>4
    <3>2. n = Least({t \in DOMAIN F : t > u})
      BY <1>0, <2>1, <2>3, <2>4, <3>1, LeastAbove
    <3>3. Reads(k, on, F, u, p) = F[n][0]
      BY <1>5, <2>3, <3>1, <3>2 DEF Reads
    <3> QED
      BY <2>2, <2>4, <3>3
  <2>5. CASE n \notin DOMAIN F /\ \A t \in DOMAIN F : t < n
    <3>1. \A t \in DOMAIN F : t < u
      <4> SUFFICES ASSUME NEW t \in DOMAIN F, ~(t < u) PROVE FALSE
        OBVIOUS
      <4>1. t \in DOMAIN G /\ t \in Int /\ t # u /\ t < n
        BY <2>3, <2>5
      <4>2. n <= t
        BY <2>1, <4>1
      <4> QED
        BY <2>3, <4>1, <4>2
    <3>2. Reads(k, on, F, n, 0) = Reads(k, on, F, u, p)
      BY <1>5, <2>5, <3>1 DEF Reads
    <3> QED
      BY <2>1, <2>2, <2>3, <2>5, <3>2
  <2>6. CASE n \notin DOMAIN F /\ ~ \A t \in DOMAIN F : t < n
    <3> DEFINE l == Least({t \in DOMAIN F : t > n})
    <3>1. l \in DOMAIN F /\ l > n /\ \A t \in DOMAIN F : t > n => l <= t
      BY <1>0, <2>3, <2>6, LeastAbove
    <3>2. Reads(k, on, F, n, 0) = F[l][0]
      BY <1>5, <2>6 DEF Reads
    <3> HIDE DEF l
    <3>3. l \in Int /\ l > u /\ ~ \A t \in DOMAIN F : t < u
      BY <1>0, <2>1, <2>3, <3>1
    <3>4. \A t \in DOMAIN F : t > u => l <= t
      <4> SUFFICES ASSUME NEW t \in DOMAIN F, t > u PROVE l <= t
        OBVIOUS
      <4>1. n <= t /\ t # n /\ t \in Int
        BY <1>0, <2>1, <2>6
      <4> QED
        BY <2>3, <3>1, <4>1
    <3>5. l = Least({t \in DOMAIN F : t > u})
      BY <1>0, <2>3, <3>1, <3>3, <3>4, LeastAbove
    <3>6. Reads(k, on, F, u, p) = F[l][0]
      BY <1>5, <2>3, <3>3, <3>5 DEF Reads
    <3> QED
      BY <2>1, <2>2, <2>3, <2>6, <3>2, <3>6
  <2> QED
    BY <2>4, <2>5, <2>6
<1> QED
  BY <1>1, <1>2, <1>3, <1>4, <1>5

LEMMA LevelReads ==
  StorageInv => \A u \in Int, p \in Planes :
                  get_level(u, p) = Reads(kind, enabled, Lit, u, p)
<1> SUFFICES ASSUME StorageInv, NEW u \in Int, NEW p \in Planes
             PROVE  get_level(u, p) = Reads(kind, enabled, Lit, u, p)
  OBVIOUS
<1>1. /\ IsFiniteSet(Stored) /\ Stored \subseteq Int
      /\ storing_light(u) <=> u \in Stored
  BY StoredFacts DEF StorageInv, storing_light
<1>2. /\ DOMAIN Lit = Stored
      /\ \A t \in Stored : Lit[t] = content[sections[t].updating].plane
  BY DEF Lit
<1>3. kind \in {"Block", "Sky"}
  BY DEF StorageInv, StorageTyped
<1>4. CASE kind = "Block"
  BY <1>1, <1>2, <1>4 DEF get_level, Reads
<1>5. CASE kind = "Sky"
  <2> DEFINE above == {t \in Stored : t > u}
  <2>1. top = (IF Stored = {} THEN NoTop ELSE Most(Stored) + 1) /\ \A t \in Stored : lowest <= t
    BY <1>5 DEF StorageInv, SkyPart
  <2>2. top_section_y = lowest \/ u >= top_section_y <=> \A t \in Stored : t < u
    <3>1. CASE Stored = {}
      BY <2>1, <3>1 DEF top_section_y
    <3>2. CASE Stored # {}
      <4> DEFINE m == Most(Stored)
      <4>1. m \in Stored /\ \A t \in Stored : t <= m
        BY <1>1, <3>2, MostFacts
      <4>2. m \in SectionSpace
        BY <4>1, StoredFacts DEF StorageInv, StorageTyped
      <4>3. top = m + 1
        BY <2>1, <3>2
      <4> HIDE DEF m
      <4>4. m \in Int /\ m + 1 < NoTop /\ lowest <= m /\ lowest \in Int
        BY <2>1, <4>1, <4>2 DEF SectionSpace, StorageInv, StorageTyped
      <4>5. top_section_y = m + 1 /\ top_section_y # lowest
        BY <4>3, <4>4, NoTopInt DEF top_section_y
      <4>6. u >= m + 1 <=> \A t \in Stored : t < u
        BY <1>1, <4>1, <4>4
      <4> QED
        BY <4>5, <4>6
    <3> QED
      BY <3>1, <3>2
  <2>3. (~ \A t \in Stored : t < u) /\ u \notin Stored => above # {}
    BY <1>1
  <2>4. CASE \A t \in Stored : t < u
    BY <1>2, <1>5, <2>2, <2>4 DEF get_level, Reads
  <2>5. CASE (~ \A t \in Stored : t < u) /\ u \in Stored
    BY <1>1, <1>2, <1>5, <2>2, <2>5 DEF get_level, Reads
  <2>6. CASE (~ \A t \in Stored : t < u) /\ u \notin Stored
    <3>1. Least(above) \in Stored
      BY <1>1, <2>6, LeastAbove
    <3>2. get_level(u, p) = content[sections[Least(above)].updating].plane[0]
      BY <1>1, <1>5, <2>2, <2>3, <2>6 DEF get_level
    <3>3. Reads(kind, enabled, Lit, u, p) = Lit[Least(above)][0]
      BY <1>2, <1>5, <2>6 DEF Reads
    <3> HIDE DEF above
    <3> QED
      BY <1>2, <3>1, <3>2, <3>3
  <2> QED
    BY <2>4, <2>5, <2>6
<1> QED
  BY <1>3, <1>4, <1>5

(* Planned layers that hold what was read at their sections.               *)
ReadsAlike(m) ==
  \A r \in DOMAIN m : r \notin Stored /\ \A q \in Planes :
                        m[r].plane[q] = Reads(kind, enabled, Lit, r, q)

(* So does the next one, whatever is queued elsewhere.                     *)
LEMMA CreatedReads ==
  ASSUME StorageInv, NEW m, LayerMap(m), ReadsAlike(m), NEW t \in Int,
         t \notin Stored, t \notin DOMAIN m, Entry(t).queued = NoLayer, NEW q \in Planes
  PROVE  create_layer(t, m).plane[q] = Reads(kind, enabled, Lit, t, q)
<1> DEFINE above == {r \in Stored \cup DOMAIN m : r > t}
           Of(r) == IF r \in DOMAIN m THEN m[r] ELSE content[sections[r].updating]
           lo == Least({lowest} \cup DOMAIN m)
           tops == (IF top = NoTop THEN {} ELSE {top}) \cup {r + 1 : r \in DOMAIN m}
           high == IF tops = {} THEN lo ELSE Most(tops)
           v == IF kind = "Sky" /\ enabled THEN FULL_LIGHT ELSE Dark
           G == [r \in Stored \cup DOMAIN m |-> Of(r).plane]
<1>1. create_layer(t, m) = IF kind = "Sky" /\ high # lo /\ t < high /\ above # {}
                           THEN repeat_first_layer(Of(Least(above)))
                           ELSE uniform(v)
  BY DEF create_layer, InitialLayer
<1>2. IsFiniteSet(Stored) /\ Stored \subseteq Int
  BY StoredFacts DEF StorageInv
<1>3. IsFiniteSet(DOMAIN m) /\ DOMAIN m \subseteq Int
  BY DEF LayerMap
<1>4. IsFiniteSet(Stored \cup DOMAIN m) /\ Stored \cup DOMAIN m \subseteq Int
  BY <1>2, <1>3, FS_Union
<1>5. ASSUME kind = "Sky", above # {} PROVE high # lo /\ t < high
  <2>1. PICK r \in Stored \cup DOMAIN m : r > t
    BY <1>5
  <2>2. r \in Int
    BY <1>4, <2>1
  <2>3. lo \in Int /\ \A x \in {lowest} \cup DOMAIN m : lo <= x
    <3> DEFINE L == {lowest} \cup DOMAIN m
    <3>1. IsFiniteSet(L) /\ L \subseteq Int /\ L # {}
      BY <1>3, FS_AddElement DEF StorageInv, StorageTyped
    <3> HIDE DEF L
    <3>2. Least(L) \in L /\ \A x \in L : Least(L) <= x
      BY <3>1, LeastFacts
    <3> QED
      BY <3>1, <3>2 DEF L
  <2>4. IsFiniteSet(tops) /\ tops \subseteq Int
    <3>1. IsFiniteSet({x + 1 : x \in DOMAIN m})
      <4> DEFINE D == DOMAIN m
                 T == {x + 1 : x \in D}
                 f == [x \in D |-> x + 1]
      <4>1. f \in Surjection(D, T)
        BY DEF Surjection
      <4> HIDE DEF T, f
      <4>2. IsFiniteSet(D)
        BY <1>3
      <4> HIDE DEF D
      <4>3. IsFiniteSet(T)
        BY <4>1, <4>2, FS_Surjection
      <4> QED
        BY <4>3 DEF T, D
    <3>2. IsFiniteSet(IF top = NoTop THEN {} ELSE {top})
      BY FS_EmptySet, FS_Singleton
    <3>3. IsFiniteSet(tops)
      BY <3>1, <3>2, FS_Union
    <3>4. top \in Int
      BY DEF StorageInv, StorageTyped
    <3> QED
      BY <1>3, <3>3, <3>4
  <2>5. \E x \in tops : x >= r + 1
    <3>1. CASE r \in DOMAIN m
      <4>1. r + 1 \in tops /\ r + 1 >= r + 1
        BY <2>2, <3>1
      <4> QED
        BY <4>1
    <3>2. CASE r \in Stored
      <4>1. top = Most(Stored) + 1
        BY <1>5, <3>2 DEF StorageInv, SkyPart
      <4>2. Most(Stored) \in Stored /\ r <= Most(Stored)
        BY <1>2, <3>2, MostFacts
      <4>3. Most(Stored) \in SectionSpace
        BY <4>2, StoredFacts DEF StorageInv, StorageTyped
      <4>4. Most(Stored) \in Int /\ Most(Stored) + 1 < NoTop
        BY <4>3 DEF SectionSpace
      <4>5. top # NoTop /\ top >= r + 1
        BY <2>2, <4>1, <4>2, <4>4, NoTopInt
      <4> QED
        BY <4>5
    <3> QED
      BY <2>1, <3>1, <3>2
  <2>6. lo <= r
    <3>1. r \in Stored => lowest <= r
      BY <1>5 DEF StorageInv, SkyPart
    <3>2. lowest \in Int
      BY DEF StorageInv, StorageTyped
    <3> HIDE DEF lo
    <3>3. lo <= lowest /\ (r \in DOMAIN m => lo <= r)
      BY <2>3
    <3> QED
      BY <2>1, <2>2, <2>3, <3>1, <3>2, <3>3
  <2> HIDE DEF tops, lo
  <2>7. Most(tops) \in Int /\ \A x \in tops : x <= Most(tops)
    BY <2>4, <2>5, MostFacts
  <2>8. tops # {} /\ high = Most(tops)
    BY <2>5
  <2>9. Most(tops) >= r + 1
    BY <2>2, <2>4, <2>5, <2>7
  <2> QED
    BY <2>1, <2>2, <2>3, <2>6, <2>7, <2>8, <2>9
<1> HIDE DEF lo, tops, high
<1>6. DOMAIN G = Stored \cup DOMAIN m /\ DOMAIN Lit = Stored
  BY DEF Lit
<1>7. Reads(kind, enabled, G, t, q) = Reads(kind, enabled, Lit, t, q)
  <2>1. \A r \in DOMAIN Lit : G[r] = Lit[r]
    BY DEF Lit, ReadsAlike
  <2>2. \A r \in DOMAIN G : r \notin DOMAIN Lit =>
           \A p \in Planes : G[r][p] = Reads(kind, enabled, Lit, r, p)
    BY <1>6 DEF ReadsAlike
  <2> HIDE DEF G
  <2> QED
    BY <1>4, <1>6, <2>1, <2>2, ReadsExtended
<1>8. create_layer(t, m).plane[q] = Reads(kind, enabled, G, t, q)
  <2>1. t \notin DOMAIN G
    BY <1>6
  <2>2. uniform(v).plane[q] = v
    BY DEF uniform
  <2>3. CASE kind = "Block"
    <3>1. create_layer(t, m) = uniform(v) /\ v = Dark
      BY <1>1, <2>3
    <3> HIDE DEF G, v
    <3> QED
      BY <2>1, <2>2, <2>3, <3>1 DEF Reads
  <2>4. CASE kind = "Sky" /\ above = {}
    <3>1. create_layer(t, m) = uniform(v) /\ v = IF enabled THEN FULL_LIGHT ELSE Dark
      BY <1>1, <2>4
    <3>2. \A r \in DOMAIN G : r < t
      BY <1>4, <1>6, <2>1, <2>4
    <3> HIDE DEF G, v
    <3> QED
      BY <2>2, <2>4, <3>1, <3>2 DEF Reads
  <2>5. CASE kind = "Sky" /\ above # {}
    <3> DEFINE l == Least(above)
    <3>1. create_layer(t, m) = repeat_first_layer(Of(l))
      BY <1>1, <1>5, <2>5
    <3>2. ~ \A r \in Stored \cup DOMAIN m : r < t
      BY <1>4, <2>5
    <3>3. l \in Stored \cup DOMAIN m
      BY <1>4, <3>2, LeastAbove
    <3>4. Reads(kind, enabled, G, t, q) = G[l][0]
      BY <1>6, <2>1, <2>5, <3>2 DEF Reads
    <3> HIDE DEF l
    <3>5. Of(l) \in Layer
      <4>1. CASE l \in DOMAIN m
        BY <4>1 DEF LayerMap
      <4>2. CASE l \notin DOMAIN m
        <5>1. l \in Stored
          BY <3>3, <4>2
        <5>2. Entry(l).updating # NoLayer
          BY <5>1, StoredFacts DEF StorageInv
        <5>3. content[sections[l].updating] \in Layer
          BY <5>2, ContentOf
        <5> QED
          BY <4>2, <5>3
      <4> QED
        BY <4>1, <4>2
    <3>6. G[l] = Of(l).plane
      BY <3>3
    <3> HIDE DEF G, Of
    <3>7. repeat_first_layer(Of(l)).plane[q] = Of(l).plane[0]
      BY <3>5 DEF repeat_first_layer, Layer
    <3> QED
      BY <3>1, <3>4, <3>6, <3>7
  <2>6. kind \in {"Block", "Sky"}
    BY DEF StorageInv, StorageTyped
  <2> QED
    BY <2>3, <2>4, <2>5, <2>6
<1> QED
  BY <1>7, <1>8

LEMMA MadeReads ==
  ASSUME StorageInv, NEW s \in Int, NEW empty, Starts(s, empty) \cap Stored = {},
         \A t \in Starts(s, empty) : Entry(t).queued = NoLayer
  PROVE  ReadsAlike(MadeFor(s, empty))
<1> DEFINE none == [r \in {} |-> uniform(Dark)]
           c == Centre(s, empty)
           b == Below1(s, empty)
           a == MadeFor(s, empty)
           A == Starts(s, empty)
<1>1. /\ LayerMap(c) /\ LayerMap(b) /\ DOMAIN a = A
      /\ DOMAIN c = A \cap {s} /\ DOMAIN b = A \cap {s - 1, s}
      /\ s \in A => a[s] = create_layer(s, none)
      /\ s - 1 \in A => a[s - 1] = create_layer(s - 1, c)
      /\ s + 1 \in A => a[s + 1] = create_layer(s + 1, b)
      /\ \A r \in DOMAIN c : c[r] = a[r]
      /\ \A r \in DOMAIN b : b[r] = a[r]
  <2>1. /\ LayerMap(c) /\ LayerMap(b)
        /\ LayerMap(a) /\ DOMAIN a = A
        /\ DOMAIN c = A \cap {s}
        /\ DOMAIN b = A \cap {s - 1, s}
        /\ s \in A => a[s] = create_layer(s, none)
        /\ s - 1 \in A => a[s - 1] = create_layer(s - 1, c)
        /\ s + 1 \in A => a[s + 1] = create_layer(s + 1, b)
        /\ \A r \in DOMAIN c : c[r] = a[r]
        /\ \A r \in DOMAIN b : b[r] = a[r]
    BY MadeFacts
  <2> HIDE DEF none, a, b, c, A
  <2> QED
    BY <2>1
<1>2. A \subseteq {s - 1, s, s + 1} /\ A \subseteq Int
  BY NeighbourFacts DEF Starts
<1>3. LayerMap(none) /\ ReadsAlike(none) /\ DOMAIN none = {}
  BY FS_EmptySet DEF LayerMap, ReadsAlike
<1>4. \A t \in A : t \in Int /\ t \notin Stored /\ Entry(t).queued = NoLayer
  BY <1>2
<1> HIDE DEF none, a, b, c, A
<1> DEFINE Same(t) == \A q \in Planes : a[t].plane[q] = Reads(kind, enabled, Lit, t, q)
<1>5. s \in A => Same(s)
  BY <1>1, <1>3, <1>4, CreatedReads
<1>6. ReadsAlike(c)
  BY <1>1, <1>4, <1>5 DEF ReadsAlike
<1>7. s - 1 \in A => Same(s - 1)
  <2> DEFINE t == s - 1
  <2>1. t \in Int /\ t \notin DOMAIN c
    BY <1>1
  <2>2. t \in A => a[t] = create_layer(t, c)
    BY <1>1
  <2> HIDE DEF t
  <2>3. t \in A => Same(t)
    BY <1>1, <1>4, <1>6, <2>1, <2>2, CreatedReads
  <2> QED
    BY <2>3 DEF t
<1>8. ReadsAlike(b)
  BY <1>1, <1>4, <1>5, <1>7 DEF ReadsAlike
<1>9. s + 1 \in A => Same(s + 1)
  <2> DEFINE t == s + 1
  <2>1. t \in Int /\ t \notin DOMAIN b
    BY <1>1
  <2>2. t \in A => a[t] = create_layer(t, b)
    BY <1>1
  <2> HIDE DEF t
  <2>3. t \in A => Same(t)
    BY <1>1, <1>4, <1>8, <2>1, <2>2, CreatedReads
  <2> QED
    BY <2>3 DEF t
<1>10. \A t \in A : Same(t)
  BY <1>2, <1>5, <1>7, <1>9
<1> QED
  BY <1>1, <1>4, <1>10 DEF ReadsAlike, a

(* The stored planes after update_section_status: those there before, and  *)
(* the planned ones.                                                       *)
LEMMA LitAfter ==
  ASSUME StorageInv, StorageInv', NEW s \in DataSections, NEW empty \in BOOLEAN,
         update_section_status(s, empty),
         \A t \in Starts(s, empty) : Entry(t).queued = NoLayer
  PROVE  /\ DOMAIN Lit' = Stored \cup Starts(s, empty)
         /\ \A t \in Stored : Lit'[t] = Lit[t]
         /\ \A t \in Starts(s, empty) : Lit'[t] = MadeFor(s, empty)[t].plane
<1> DEFINE A == Starts(s, empty)
           id == Given(s, empty)
           R == Referenced(sections', visible, held)
<1>0. s \in Int /\ Neighbours(s) \subseteq Int /\ A \subseteq Neighbours(s)
  BY Limits, NeighbourFacts DEF Starts
<1>1. A = Fresh(s, empty)
  BY DEF Fresh
<1>2. /\ Entry(s).data = empty
      /\ id \in [A -> Free]
      /\ \A t, u \in A : id[t] = id[u] => t = u
      /\ Becomes(sections', visible, held, NewContent(s, empty))
  <2>1. /\ Entry(s).data = empty
        /\ Given(s, empty) \in [Fresh(s, empty) -> Free]
        /\ \A t, u \in Fresh(s, empty) : Given(s, empty)[t] = Given(s, empty)[u] => t = u
        /\ Becomes(sections', visible, held, NewContent(s, empty))
    BY UpdateFacts
  <2> HIDE DEF A
  <2> QED
    BY <1>1, <2>1
<1>3. /\ Stored' = Stored \cup A /\ Stored \cap A = {}
      /\ \A t \in Stored : Entry(t)'.updating = Entry(t).updating
  BY UpdateStored DEF StorageInv
<1>4. DOMAIN Lit' = Stored \cup A /\ DOMAIN Lit = Stored
  BY <1>3 DEF Lit
<1>5. /\ \A t \in Stored' : Lit'[t] = content'[sections'[t].updating].plane
      /\ \A t \in Stored : Lit[t] = content[sections[t].updating].plane
  BY DEF Lit
<1>6. \A t \in Stored' : t \in DOMAIN sections' /\ t \in Int /\ Entry(t)' = sections'[t]
  BY StoredFactsAfter DEF StorageInv
<1>7. content' = [i \in 1..LayerLimit |-> IF i \in R THEN NewContent(s, empty)[i]
                                          ELSE uniform(Dark)]
  BY <1>2 DEF Becomes
<1>8. \A t \in Stored' : sections'[t].updating \in R
  BY <1>6 DEF Referenced
<1> HIDE DEF R
<1>9. ASSUME NEW t \in Stored PROVE Lit'[t] = Lit[t]
  <2> DEFINE i == sections[t].updating
  <2>1. t \in Stored' /\ Entry(t) = sections[t] /\ Entry(t).updating # NoLayer
    BY <1>3, StoredFacts DEF StorageInv
  <2>2. i \in 1..LayerLimit /\ t \in DOMAIN sections
    BY <2>1, ContentOf
  <2>3. sections'[t].updating = i
    BY <1>3, <1>6, <2>1
  <2>4. i \notin Free
    BY <2>2 DEF Free, Referenced
  <2> HIDE DEF i
  <2>5. ~ \E u \in Fresh(s, empty) : Given(s, empty)[u] = i
    BY <1>1, <1>2, <2>4
  <2>6. NewContent(s, empty)[i] = content[i]
    BY <2>2, <2>5 DEF NewContent
  <2>7. content'[i] = content[i]
    BY <1>7, <1>8, <2>1, <2>2, <2>3, <2>6
  <2> QED
    BY <1>5, <2>1, <2>3, <2>7 DEF i
<1>10. ASSUME NEW t \in A PROVE Lit'[t] = MadeFor(s, empty)[t].plane
  <2>1. t \in Stored' /\ t \in Neighbours(s) /\ t \in Int
    BY <1>0, <1>3
  <2>2. Entry(t)' = Inst(s, empty, t)
    BY <2>1, UpdateEntries
  <2>3. Inst(s, empty, t).updating = id[t]
    BY <1>0, <1>1, <1>2, <2>1, InstalledFacts
  <2> DEFINE i == id[t]
  <2>4. sections'[t].updating = i /\ i \in 1..LayerLimit
    BY <1>2, <1>6, <2>1, <2>2, <2>3, FreeFacts
  <2>5. NewContent(s, empty)[i] = MadeFor(s, empty)[t]
    <3> DEFINE u == CHOOSE u \in Fresh(s, empty) : Given(s, empty)[u] = i
    <3>1. \E w \in Fresh(s, empty) : Given(s, empty)[w] = i
      BY <1>1
    <3>2. NewContent(s, empty)[i] = MadeFor(s, empty)[u]
      BY <2>4, <3>1 DEF NewContent
    <3>3. u \in Fresh(s, empty) /\ Given(s, empty)[u] = i
      BY <3>1
    <3> HIDE DEF u
    <3>4. u = t
      BY <1>1, <1>2, <3>3
    <3> QED
      BY <3>2, <3>4
  <2> HIDE DEF i
  <2>6. content'[i] = MadeFor(s, empty)[t]
    BY <1>7, <1>8, <2>1, <2>4, <2>5
  <2> QED
    BY <1>5, <2>1, <2>4, <2>6
<1> QED
  BY <1>4, <1>9, <1>10

(* What one step keeps of the light: the step of SupportKeepsLight.        *)
LightKept ==
  /\ \E s \in DataSections : Entry(s)'.data # Entry(s).data
  /\ (\A s \in DOMAIN sections : sections[s].queued = NoLayer)
  =>
    \A s \in UNION {Neighbours(t) : t \in DataSections}, p \in Planes :
      get_level(s, p)' = get_level(s, p)

LEMMA LevelReadsAfter ==
  (StorageInv => \A u \in Int, p \in Planes :
                   get_level(u, p) = Reads(kind, enabled, Lit, u, p))'
BY LevelReads, PTL

LEMMA LightKeptUpdate ==
  ASSUME StorageInv, StorageInv', NEW s \in DataSections, NEW empty \in BOOLEAN,
         update_section_status(s, empty), \A t \in DOMAIN sections : sections[t].queued = NoLayer,
         NEW u \in Int, NEW p \in Planes
  PROVE  get_level(u, p)' = get_level(u, p)
<1> DEFINE A == Starts(s, empty)
<1>1. s \in Int /\ kind' = kind /\ enabled' = enabled
  BY Limits, UpdateFacts
<1>2. \A t \in A : Entry(t).queued = NoLayer
  BY DEF Entry, Bare
<1>3. Stored' = Stored \cup A /\ Stored \cap A = {}
  BY UpdateStored DEF StorageInv
<1>4. ReadsAlike(MadeFor(s, empty)) /\ DOMAIN MadeFor(s, empty) = A
  BY <1>1, <1>2, <1>3, MadeReads, MadeFacts
<1>5. /\ DOMAIN Lit' = Stored \cup A
      /\ \A t \in Stored : Lit'[t] = Lit[t]
      /\ \A t \in A : Lit'[t] = MadeFor(s, empty)[t].plane
  BY <1>2, LitAfter
<1>6. get_level(u, p) = Reads(kind, enabled, Lit, u, p)
  BY LevelReads
<1>7. (StorageInv => \A w \in Int, q \in Planes :
                        get_level(w, q) = Reads(kind, enabled, Lit, w, q))'
  BY LevelReadsAfter
<1>8. get_level(u, p)' = Reads(kind, enabled, Lit', u, p)
  <2>1. \A w \in Int, q \in Planes : get_level(w, q)' = Reads(kind', enabled', Lit', w, q)
    BY <1>7
  <2> QED
    BY <1>1, <2>1
<1>9. DOMAIN Lit = Stored
  BY DEF Lit
<1>10. IsFiniteSet(Stored') /\ Stored' \subseteq Int
  BY StoredFactsAfter DEF StorageInv
<1>11. \A t \in DOMAIN Lit' : t \notin DOMAIN Lit =>
         \A q \in Planes : Lit'[t][q] = Reads(kind, enabled, Lit, t, q)
  BY <1>4, <1>5, <1>9 DEF ReadsAlike
<1> DEFINE G == Lit'
<1>12. /\ IsFiniteSet(DOMAIN G) /\ DOMAIN G \subseteq Int /\ DOMAIN Lit \subseteq DOMAIN G
       /\ \A t \in DOMAIN Lit : G[t] = Lit[t]
       /\ \A t \in DOMAIN G : t \notin DOMAIN Lit =>
            \A q \in Planes : G[t][q] = Reads(kind, enabled, Lit, t, q)
  BY <1>3, <1>5, <1>9, <1>10, <1>11
<1>13. get_level(u, p)' = Reads(kind, enabled, G, u, p)
  BY <1>8
<1> HIDE DEF G
<1>14. Reads(kind, enabled, G, u, p) = Reads(kind, enabled, Lit, u, p)
  BY <1>12, ReadsExtended
<1> QED
  BY <1>6, <1>13, <1>14

LEMMA LightKeptNext ==
  ASSUME StorageInv, StorageInv', StorageNext \/ UNCHANGED storageVars
  PROVE  LightKept
<1>1. ASSUME NEW s \in DataSections, NEW empty \in BOOLEAN, update_section_status(s, empty)
      PROVE  LightKept
  <2>1. \A u \in UNION {Neighbours(t) : t \in DataSections} : u \in Int
    BY Limits, NeighbourFacts
  <2> QED
    BY <1>1, <2>1, LightKeptUpdate DEF LightKept
<1>2. SameData => LightKept
  BY Limits DEF SameData, LightKept
<1>3. ASSUME NEW s \in DataSections, (\E l \in QueuedLayers : queue_data(s, l)) \/ queue_none(s)
      PROVE  SameData
  BY <1>3, QueueStep
<1>4. ASSUME NEW s \in DataSections,
             \/ \E p \in Planes, v \in {Dark, FULL_LIGHT} : set_stored_level(s, p, v)
             \/ \E v \in {Dark, FULL_LIGHT} : fill(s, v)
      PROVE  SameData
  BY <1>4, WriteStep
<1>5. ASSUME NEW blocks \in SUBSET (DataSections \X Planes), prepare_writes(blocks)
      PROVE  SameData
  BY <1>5, PrepareStep
<1>6. CASE process_inconsistencies
  BY <1>2, <1>6, SettleStep
<1>7. CASE publish_visible
  BY <1>2, <1>7, PublishStep
<1>8. CASE TakeSnapshot \/ DropSnapshot
  BY <1>2, <1>8, ReaderStep
<1>9. CASE \/ \E on \in BOOLEAN : set_enabled(on) \/ retain_data(on)
           \/ clear_published_notifications
           \/ UNCHANGED storageVars
  BY <1>2, <1>9, QuietStep
<1> QED
  BY <1>1, <1>2, <1>3, <1>4, <1>5, <1>6, <1>7, <1>8, <1>9 DEF StorageNext

(* Terrain entering or leaving a section changes no light that is read     *)
(* near it (create_layer, update_section_status).                          *)
THEOREM SupportChangesNoLight == StorageSpec => SupportKeepsLight
<1>1. StorageInit => StorageInv
  BY StorageInitInv
<1>2. StorageInv /\ [StorageNext]_storageVars => StorageInv'
  BY StorageStep
<1>3. StorageInv /\ StorageInv' /\ [StorageNext]_storageVars => [LightKept]_storageVars
  BY LightKeptNext
<1> QED
  BY <1>1, <1>2, <1>3, PTL DEF StorageSpec, SupportKeepsLight, LightKept

-----------------------------------------------------------------------------
(* PlayerView. Numbers.                                                    *)

LEMMA ViewNumbers ==
  /\ Half \in Nat /\ MIN_VIEW_DISTANCE \in Nat /\ MAX_VIEW_DISTANCE \in Nat
  /\ 1 <= MIN_VIEW_DISTANCE /\ MIN_VIEW_DISTANCE <= MAX_VIEW_DISTANCE
  /\ 2 * MAX_VIEW_DISTANCE < Half
BY ViewAssumption

LEMMA MaxTwo ==
  ASSUME NEW a \in Int, NEW b \in Int
  PROVE  Max({a, b}) = (IF a >= b THEN a ELSE b)
<1> DEFINE S == {a, b}
           m == IF a >= b THEN a ELSE b
<1>1. m \in S /\ \A y \in S : m >= y
  OBVIOUS
<1>2. \A x \in S : (\A y \in S : x >= y) => x = m
  OBVIOUS
<1>3. (CHOOSE x \in S : \A y \in S : x >= y) = m
  <2> HIDE DEF S, m
  <2> QED
    BY <1>1, <1>2
<1> QED
  BY <1>3 DEF Max

LEMMA MinTwo ==
  ASSUME NEW a \in Int, NEW b \in Int
  PROVE  Min({a, b}) = (IF a <= b THEN a ELSE b)
<1> DEFINE S == {a, b}
           m == IF a <= b THEN a ELSE b
<1>1. m \in S /\ \A y \in S : m <= y
  OBVIOUS
<1>2. \A x \in S : (\A y \in S : x <= y) => x = m
  OBVIOUS
<1>3. (CHOOSE x \in S : \A y \in S : x <= y) = m
  <2> HIDE DEF S, m
  <2> QED
    BY <1>1, <1>2
<1> QED
  BY <1>3 DEF Min

LEMMA ClampFacts ==
  ASSUME NEW v \in Int, NEW low \in Int, NEW high \in Int, low <= high
  PROVE  Clamp(v, low, high) \in low..high
<1> DEFINE m == Min({v, high})
<1>1. m = IF v <= high THEN v ELSE high
  BY MinTwo
<1>2. m \in Int /\ m <= high
  BY <1>1
<1> HIDE DEF m
<1>3. Clamp(v, low, high) = IF low >= m THEN low ELSE m
  BY <1>2, MaxTwo DEF Clamp, m
<1> QED
  BY <1>2, <1>3

LEMMA WrappedFacts ==
  ASSUME NEW v \in Int
  PROVE  /\ -Half <= v /\ v < Half => Wrapped(v) = v
         /\ Half <= v /\ v < 3 * Half => Wrapped(v) = v - 2 * Half
         /\ -3 * Half <= v /\ v < -Half => Wrapped(v) = v + 2 * Half
<1> DEFINE b == 2 * Half
           a == v + Half
<1>1. b \in Nat \ {0} /\ a \in Int /\ Half \in Nat
  BY ViewNumbers
<1>2. Wrapped(v) = (a % b) - Half
  BY DEF Wrapped
<1>3. a = v + Half /\ b = 2 * Half
  OBVIOUS
<1> HIDE DEF a, b
<1>4. 0 <= a /\ a < b => a % b = a
  BY <1>1
<1>5. b <= a /\ a < 2 * b => a % b = a - b
  BY <1>1
<1>6. -b <= a /\ a < 0 => a % b = a + b
  BY <1>1
<1> QED
  BY <1>1, <1>2, <1>3, <1>4, <1>5, <1>6

(* The distance along one axis, by the code and by definition.             *)
Axis(c, k) == Max({0, Wrapped(WrappingAbs(Wrapped(c - k)) - 2)})
Over(c, k) == Max({0, Max({c - k, k - c}) - 2})

LEMMA AxisFacts ==
  ASSUME NEW d \in Nat, 1 <= d, d <= MAX_VIEW_DISTANCE, NEW c \in Int, -Half <= c, c < Half,
         NEW k \in Int, k - (d + 1) >= -Half, k + (d + 1) < Half - 1
  PROVE  /\ Axis(c, k) \in Nat /\ Over(c, k) \in Nat
         /\ Axis(c, k) = Over(c, k) \/ (Axis(c, k) >= d /\ Over(c, k) >= d)
         /\ Over(c, k) < d => c \in (k - (d + 1))..(k + (d + 1))
<1> DEFINE x == c - k
<1>0. Half \in Nat /\ 2 * d < Half /\ Half >= 3
  BY ViewNumbers
<1>1. x \in Int /\ -3 * Half <= x /\ x < 3 * Half
  BY <1>0
<1> DEFINE m == IF x >= 0 THEN x ELSE -x
<1>2. Over(c, k) = (IF 0 >= m - 2 THEN 0 ELSE m - 2)
  <2>1. Max({c - k, k - c}) = m
    BY MaxTwo
  <2>2. m - 2 \in Int
    OBVIOUS
  <2> HIDE DEF m
  <2> QED
    BY <2>1, <2>2, MaxTwo DEF Over
<1>3. Over(c, k) < d => c \in (k - (d + 1))..(k + (d + 1))
  BY <1>2
<1> DEFINE w == Wrapped(x)
           aw == WrappingAbs(w)
           y == Wrapped(aw - 2)
<1>4. y \in Int => Axis(c, k) = (IF 0 >= y THEN 0 ELSE y)
  BY MaxTwo DEF Axis
<1>5. w = IF x >= Half THEN x - 2 * Half ELSE IF x < -Half THEN x + 2 * Half ELSE x
  BY <1>0, <1>1, WrappedFacts
<1>6. x <= 2 * Half - d - 2 /\ x >= -2 * Half + d + 3
  BY <1>0
<1> HIDE DEF w
<1>7. w \in Int /\ -Half <= w /\ w < Half
  BY <1>0, <1>5, <1>6
<1>8. aw = IF w = -Half THEN -Half ELSE IF w >= 0 THEN w ELSE -w
  <2>1. Max({w, -w}) = IF w >= -w THEN w ELSE -w
    BY <1>7, MaxTwo
  <2> QED
    BY <1>0, <1>7, <2>1 DEF WrappingAbs
<1> HIDE DEF aw
<1>9. aw - 2 \in Int /\ -3 * Half <= aw - 2 /\ aw - 2 < Half
  BY <1>0, <1>7, <1>8
<1>10. y = IF aw - 2 < -Half THEN aw - 2 + 2 * Half ELSE aw - 2
  BY <1>0, <1>9, WrappedFacts
<1> HIDE DEF y
<1>11. y \in Int
  BY <1>0, <1>9, <1>10
<1> DEFINE A == Axis(c, k)
           O == Over(c, k)
<1>12. A = (IF 0 >= y THEN 0 ELSE y) /\ O = (IF 0 >= m - 2 THEN 0 ELSE m - 2)
  BY <1>2, <1>4, <1>11
<1> HIDE DEF A, O
<1>13. A \in Nat /\ O \in Nat
  BY <1>1, <1>11, <1>12
<1>14. ASSUME -Half <= x /\ x < Half PROVE A = O \/ (A >= d /\ O >= d)
  <2>1. w = x
    BY <1>0, <1>5, <1>14
  <2>2. CASE x = -Half
    <3>1. aw = -Half /\ y = Half - 2 /\ m = Half
      BY <1>0, <1>8, <1>10, <2>1, <2>2
    <3> QED
      BY <1>12, <3>1
  <2>3. CASE x # -Half
    <3>1. aw = m /\ aw >= 0
      BY <1>0, <1>8, <2>1, <2>3
    <3>2. y = m - 2
      BY <1>0, <1>10, <3>1
    <3> QED
      BY <1>12, <3>2
  <2> QED
    BY <2>2, <2>3
<1>15. ASSUME x >= Half PROVE A = O \/ (A >= d /\ O >= d)
  <2>1. m - 2 >= d /\ m - 2 > 0
    BY <1>0, <1>15
  <2>2. w = x - 2 * Half /\ w <= -d - 2
    BY <1>0, <1>5, <1>6, <1>15
  <2>3. y >= d
    <3>1. CASE w = -Half
      <4>1. y = Half - 2
        BY <1>0, <1>8, <1>10, <3>1
      <4> QED
        BY <1>0, <4>1
    <3>2. CASE w # -Half
      <4>1. aw = -w
        BY <1>0, <1>8, <2>2, <3>2
      <4> QED
        BY <1>0, <1>10, <2>2, <4>1
    <3> QED
      BY <3>1, <3>2
  <2> QED
    BY <1>11, <1>12, <2>1, <2>3
<1>16. ASSUME x < -Half PROVE A = O \/ (A >= d /\ O >= d)
  <2>1. m - 2 >= d /\ m - 2 > 0
    BY <1>0, <1>16
  <2>2. w = x + 2 * Half /\ w >= d + 3
    BY <1>0, <1>5, <1>6, <1>16
  <2>3. aw = w /\ y >= d
    BY <1>0, <1>8, <1>10, <2>2
  <2> QED
    BY <1>11, <1>12, <2>1, <2>3
<1>17. A = O \/ (A >= d /\ O >= d)
  BY <1>0, <1>1, <1>14, <1>15, <1>16
<1> QED
  BY <1>3, <1>13, <1>17 DEF A, O

LEMMA FarSquares ==
  ASSUME NEW a \in Nat, NEW b \in Nat, NEW d \in Nat, a * a + b * b < d * d
  PROVE  a < d /\ b < d
<1>1. a * a \in Nat /\ b * b \in Nat /\ d * d \in Nat
  OBVIOUS
<1>2. a >= d => a * a >= d * d
  OBVIOUS
<1>3. b >= d => b * b >= d * d
  OBVIOUS
<1> QED
  BY <1>1, <1>2, <1>3

-----------------------------------------------------------------------------
(* Geometry.                                                               *)

(* The views an owner can hold.                                            *)
Placed ==
  {v \in [center : World, distance : Int] :
     /\ MIN_VIEW_DISTANCE <= v.distance /\ v.distance <= MAX_VIEW_DISTANCE
     /\ positioned(v.center, v.distance)}

Cells(b) == {c \in Int \X Int : \A i \in 1..2 : b.min[i] <= c[i] /\ c[i] <= b.max[i]}

LEMMA PlacedFacts ==
  ASSUME NEW v \in Placed
  PROVE  /\ v # NoView /\ v \in Views
         /\ v.distance \in Nat /\ 1 <= v.distance /\ v.distance <= MAX_VIEW_DISTANCE
         /\ v.center \in World
         /\ \A i \in 1..2 : /\ v.center[i] \in Int
                            /\ v.center[i] - (v.distance + 1) >= -Half
                            /\ v.center[i] + (v.distance + 1) < Half - 1
<1>1. v \in [center : World, distance : Int] /\ v # NoView
  BY ViewAssumption DEF Placed
<1>2. /\ v.center \in World /\ v.distance \in Int
      /\ MIN_VIEW_DISTANCE <= v.distance /\ v.distance <= MAX_VIEW_DISTANCE
      /\ positioned(v.center, v.distance)
  BY DEF Placed
<1>3. \A i \in 1..2 : v.center[i] \in Int
  BY <1>2, ViewNumbers DEF World
<1> QED
  BY <1>1, <1>2, <1>3, ViewNumbers DEF positioned, Views

(* On a placed view the wrapping distances give the view by definition,    *)
(* and its scan covers it.                                                 *)
LEMMA ContainsFacts ==
  ASSUME NEW v \in Placed, NEW c \in World
  PROVE  /\ view_contains(v, c) <=> c \in Tracked(v)
         /\ c \in Tracked(v) => c \in Cells(BoundsOf(v))
<1> DEFINE d == v.distance
           a(i) == Axis(c[i], v.center[i])
           o(i) == Over(c[i], v.center[i])
<1>1. /\ v # NoView /\ d \in Nat /\ 1 <= d /\ d <= MAX_VIEW_DISTANCE
      /\ \A i \in 1..2 : /\ v.center[i] \in Int
                         /\ v.center[i] - (d + 1) >= -Half
                         /\ v.center[i] + (d + 1) < Half - 1
  BY PlacedFacts
<1>2. c \in Int \X Int /\ \A i \in 1..2 : c[i] \in Int /\ -Half <= c[i] /\ c[i] < Half
  BY ViewNumbers DEF World
<1>3. view_contains(v, c) <=> a(1) * a(1) + a(2) * a(2) < d * d
  BY <1>1 DEF view_contains, is_within_distance, Axis
<1>4. c \in Tracked(v) <=> o(1) * o(1) + o(2) * o(2) < d * d
  BY <1>1 DEF Tracked, Over
<1> HIDE DEF d
<1>5. \A i \in 1..2 :
        /\ a(i) \in Nat /\ o(i) \in Nat
        /\ a(i) = o(i) \/ (a(i) >= d /\ o(i) >= d)
        /\ o(i) < d => c[i] \in (v.center[i] - (d + 1))..(v.center[i] + (d + 1))
  <2> SUFFICES ASSUME NEW i \in 1..2
               PROVE  /\ a(i) \in Nat /\ o(i) \in Nat
                      /\ a(i) = o(i) \/ (a(i) >= d /\ o(i) >= d)
                      /\ o(i) < d => c[i] \in (v.center[i] - (d + 1))..(v.center[i] + (d + 1))
    OBVIOUS
  <2> DEFINE e == c[i]
             k == v.center[i]
  <2>1. /\ e \in Int /\ -Half <= e /\ e < Half
        /\ k \in Int /\ k - (d + 1) >= -Half /\ k + (d + 1) < Half - 1
    BY <1>1, <1>2
  <2> HIDE DEF e, k
  <2>2. /\ Axis(e, k) \in Nat /\ Over(e, k) \in Nat
        /\ Axis(e, k) = Over(e, k) \/ (Axis(e, k) >= d /\ Over(e, k) >= d)
        /\ Over(e, k) < d => e \in (k - (d + 1))..(k + (d + 1))
    BY <1>1, <2>1, AxisFacts
  <2> QED
    BY <2>2 DEF e, k
<1>6. 1 \in 1..2 /\ 2 \in 1..2
  OBVIOUS
<1> DEFINE a1 == a(1)
           a2 == a(2)
           o1 == o(1)
           o2 == o(2)
<1>7. /\ a1 \in Nat /\ a2 \in Nat /\ o1 \in Nat /\ o2 \in Nat
      /\ a1 = o1 \/ (a1 >= d /\ o1 >= d)
      /\ a2 = o2 \/ (a2 >= d /\ o2 >= d)
      /\ o1 < d => c[1] \in (v.center[1] - (d + 1))..(v.center[1] + (d + 1))
      /\ o2 < d => c[2] \in (v.center[2] - (d + 1))..(v.center[2] + (d + 1))
  BY <1>5, <1>6
<1>8. /\ view_contains(v, c) <=> a1 * a1 + a2 * a2 < d * d
      /\ c \in Tracked(v) <=> o1 * o1 + o2 * o2 < d * d
  BY <1>3, <1>4
<1> HIDE DEF a1, a2, o1, o2, a, o
<1>9. view_contains(v, c) => a1 < d /\ a2 < d
  BY <1>1, <1>7, <1>8, FarSquares
<1>10. c \in Tracked(v) => o1 < d /\ o2 < d
  BY <1>1, <1>7, <1>8, FarSquares
<1>11. view_contains(v, c) => a1 = o1 /\ a2 = o2
  BY <1>1, <1>7, <1>9
<1>12. c \in Tracked(v) => a1 = o1 /\ a2 = o2
  BY <1>1, <1>7, <1>10
<1>13. view_contains(v, c) <=> c \in Tracked(v)
  BY <1>8, <1>11, <1>12
<1>14. ASSUME c \in Tracked(v) PROVE c \in Cells(BoundsOf(v))
  <2>1. \A i \in 1..2 : c[i] \in (v.center[i] - (d + 1))..(v.center[i] + (d + 1))
    BY <1>7, <1>10, <1>14
  <2> QED
    BY <1>1, <1>2, <2>1 DEF Cells, BoundsOf, d
<1> QED
  BY <1>13, <1>14

Box(b) ==
  /\ b.min[1] \in Int /\ b.min[2] \in Int /\ b.max[1] \in Int /\ b.max[2] \in Int
  /\ b.min[1] <= b.max[1] /\ b.min[2] <= b.max[2]

(* The scan visits each cell of its bounds once.                           *)
LEMMA ScanFacts ==
  ASSUME NEW b, Box(b)
  PROVE  Scan(b) \in Seq(Int \X Int) /\ Distinct(Scan(b)) /\ Elements(Scan(b)) = Cells(b)
<1> DEFINE x0 == b.min[1]
           z0 == b.min[2]
           w == b.max[1] - b.min[1] + 1
           h == b.max[2] - b.min[2] + 1
           n == w * h
           X(k) == (k - 1) \div h
           Z(k) == (k - 1) % h
           s == [k \in 1..n |-> <<x0 + X(k), z0 + Z(k)>>]
<1>1. /\ x0 \in Int /\ z0 \in Int /\ w \in Nat \ {0} /\ h \in Nat \ {0}
      /\ b.max[1] = x0 + w - 1 /\ b.max[2] = z0 + h - 1
  BY DEF Box
<1>2. Scan(b) = s
  BY DEF Scan
<1>3. \A c : c \in Cells(b) <=> /\ c \in Int \X Int
                                /\ x0 <= c[1] /\ c[1] <= x0 + w - 1
                                /\ z0 <= c[2] /\ c[2] <= z0 + h - 1
  BY <1>1 DEF Cells
<1> HIDE DEF x0, z0, w, h
<1>4. n \in Nat
  BY <1>1
<1>5. \A k \in 1..n : /\ X(k) \in 0..(w - 1) /\ Z(k) \in 0..(h - 1)
                      /\ k - 1 = X(k) * h + Z(k)
  <2> SUFFICES ASSUME NEW k \in 1..n
               PROVE  X(k) \in 0..(w - 1) /\ Z(k) \in 0..(h - 1) /\ k - 1 = X(k) * h + Z(k)
    OBVIOUS
  <2> DEFINE j == k - 1
  <2>1. j \in Nat /\ j \in 0..(w * h - 1)
    BY <1>4
  <2> HIDE DEF j
  <2>2. j < w * h /\ w \in Nat
    BY <1>1, <2>1
  <2>3. /\ j = (j \div h) * h + (j % h) /\ j % h \in 0..(h - 1)
        /\ j \div h \in Nat /\ j \div h < w
    BY <1>1, <2>1, <2>2, DivFacts
  <2> QED
    BY <1>1, <2>3 DEF j
<1>6. \A x \in 0..(w - 1), z \in 0..(h - 1) :
        LET k == x * h + z + 1 IN k \in 1..n /\ X(k) = x /\ Z(k) = z
  <2> SUFFICES ASSUME NEW x \in 0..(w - 1), NEW z \in 0..(h - 1)
               PROVE  LET k == x * h + z + 1 IN k \in 1..n /\ X(k) = x /\ Z(k) = z
    OBVIOUS
  <2>1. x * h + z \in 0..(w * h - 1) /\ x \in Nat
    BY <1>1
  <2>2. (x * h + z) \div h = x /\ (x * h + z) % h = z
    BY <1>1, <2>1, DivBack
  <2> DEFINE j == x * h + z
  <2>3. j \in 0..(n - 1) /\ j \div h = x /\ j % h = z
    BY <2>1, <2>2
  <2> HIDE DEF j, n
  <2>4. j + 1 \in 1..n /\ (j + 1) - 1 = j
    BY <1>4, <2>3
  <2> QED
    BY <2>3, <2>4 DEF j
<1> HIDE DEF n, X, Z
<1>7. \A k \in 1..n : s[k] \in Int \X Int /\ s[k][1] = x0 + X(k) /\ s[k][2] = z0 + Z(k)
  BY <1>1, <1>5
<1>8. s \in Seq(Int \X Int) /\ DOMAIN s = 1..n
  BY <1>1, <1>4, <1>5
<1> HIDE DEF s
<1>9. Distinct(s)
  <2> SUFFICES ASSUME NEW k \in 1..n, NEW l \in 1..n, s[k] = s[l] PROVE k = l
    BY <1>8 DEF Distinct
  <2>1. X(k) = X(l) /\ Z(k) = Z(l)
    <3> DEFINE p == X(k)
               q == X(l)
               u == Z(k)
               v == Z(l)
    <3>1. x0 + p = x0 + q /\ z0 + u = z0 + v
      BY <1>7
    <3>2. p \in Int /\ q \in Int /\ u \in Int /\ v \in Int
      BY <1>5
    <3> HIDE DEF p, q, u, v
    <3>3. p = q /\ u = v
      BY <1>1, <3>1, <3>2
    <3> QED
      BY <3>3 DEF p, q, u, v
  <2>2. k - 1 = l - 1
    BY <1>5, <2>1
  <2> QED
    BY <2>2
<1>10. ASSUME NEW c \in Elements(s) PROVE c \in Cells(b)
  <2>1. PICK k \in 1..n : c = s[k]
    BY <1>8 DEF Elements
  <2> QED
    BY <1>1, <1>3, <1>5, <1>7, <2>1
<1>11. ASSUME NEW c \in Cells(b) PROVE c \in Elements(s)
  <2> DEFINE x == c[1] - x0
             z == c[2] - z0
             k == x * h + z + 1
  <2>1. /\ c \in Int \X Int /\ x \in 0..(w - 1) /\ z \in 0..(h - 1)
        /\ c[1] = x0 + x /\ c[2] = z0 + z
    BY <1>1, <1>3
  <2> HIDE DEF x, z
  <2>2. k \in 1..n /\ X(k) = x /\ Z(k) = z
    BY <1>6, <2>1
  <2> HIDE DEF k
  <2>3. s[k] \in Int \X Int /\ s[k][1] = c[1] /\ s[k][2] = c[2]
    BY <1>7, <2>1, <2>2
  <2>4. s[k] = c
    BY <2>1, <2>3
  <2> QED
    BY <1>8, <2>2, <2>4 DEF Elements
<1> QED
  BY <1>2, <1>8, <1>9, <1>10, <1>11

-----------------------------------------------------------------------------
(* Differences.                                                            *)

(* The events tell the consumer, once each, what to leave and to enter.    *)
Tells(es, gone, come) ==
  /\ es \in Seq(ViewEvents)
  /\ \A i \in DOMAIN es : \/ es[i].kind = "Enter" /\ es[i].at \in come
                          \/ es[i].kind = "Leave" /\ es[i].at \in gone
  /\ \A c \in come \cup gone : \E i \in DOMAIN es : es[i].at = c
  /\ \A i, j \in DOMAIN es : es[i].at = es[j].at => i = j
  /\ come \cap gone = {}

LEMMA NoneTracked ==
  /\ Tracked(NoView) = {} /\ \A c : ~view_contains(NoView, c)
  /\ NoView \notin Placed
BY PlacedFacts DEF Tracked, view_contains

LEMMA TrackedIn ==
  ASSUME NEW v \in Placed \cup {NoView}
  PROVE  /\ Tracked(v) \subseteq World
         /\ \A c \in World : view_contains(v, c) <=> c \in Tracked(v)
<1>1. CASE v = NoView
  BY <1>1, NoneTracked
<1>2. CASE v \in Placed
  <2>1. v # NoView
    BY <1>2, PlacedFacts
  <2>2. Tracked(v) \subseteq World
    BY <2>1 DEF Tracked
  <2> QED
    BY <1>2, <2>2, ContainsFacts
<1> QED
  BY <1>1, <1>2

LEMMA ChangesTell ==
  ASSUME NEW p \in Placed \cup {NoView}, NEW n \in Placed \cup {NoView},
         NEW cells \in Seq(World), Distinct(cells)
  PROVE  Tells(Changes(p, n, cells), Elements(cells) \cap (Tracked(p) \ Tracked(n)),
               Elements(cells) \cap (Tracked(n) \ Tracked(p)))
<1> DEFINE differs == {c \in Elements(cells) : view_contains(p, c) # view_contains(n, c)}
           all == [i \in DOMAIN cells |-> Change(n, cells[i])]
           S == {Change(n, c) : c \in differs}
           es == Changes(p, n, cells)
           gone == Elements(cells) \cap (Tracked(p) \ Tracked(n))
           come == Elements(cells) \cap (Tracked(n) \ Tracked(p))
<1>1. es = Retain(all, S)
  BY DEF Changes
<1>2. Elements(cells) \subseteq World
  BY DEF Elements
<1>3. \A c : Change(n, c).at = c /\ Change(n, c).kind \in {"Enter", "Leave"}
             /\ (Change(n, c).kind = "Enter" <=> view_contains(n, c))
  BY DEF Change
<1>4. \A c \in World : Change(n, c) \in ViewEvents
  BY DEF Change, ViewEvents
<1>5. all \in Seq(ViewEvents) /\ DOMAIN all = DOMAIN cells
      /\ \A i \in DOMAIN cells : all[i] = Change(n, cells[i])
  <2>1. DOMAIN cells = 1..Len(cells) /\ Len(cells) \in Nat
    OBVIOUS
  <2>2. \A i \in 1..Len(cells) : Change(n, cells[i]) \in ViewEvents
    BY <1>4
  <2> QED
    BY <2>1, <2>2
<1>6. Distinct(all)
  BY <1>3, <1>5 DEF Distinct
<1>7. Elements(all) = {Change(n, c) : c \in Elements(cells)}
  BY <1>5 DEF Elements
<1> HIDE DEF all
<1>8. /\ es \in Seq(ViewEvents) /\ Distinct(es) /\ Elements(es) = Elements(all) \cap S
  BY <1>1, <1>5, <1>6, RetainFacts
<1>9. Elements(es) = S
  BY <1>7, <1>8
<1>10. \A c \in Elements(cells) : /\ view_contains(p, c) <=> c \in Tracked(p)
                                  /\ view_contains(n, c) <=> c \in Tracked(n)
  BY <1>2, TrackedIn
<1>11. \A c : c \in differs <=> c \in gone \cup come
  <2> SUFFICES ASSUME NEW c PROVE c \in differs <=> c \in gone \cup come
    OBVIOUS
  <2>1. /\ view_contains(p, c) \in BOOLEAN /\ view_contains(n, c) \in BOOLEAN
    BY DEF view_contains, is_within_distance
  <2> QED
    BY <1>10, <2>1
<1>12. \A c \in gone \cup come : c \in Elements(cells)
  OBVIOUS
<1> HIDE DEF es, differs
<1>13. \A i \in DOMAIN es : es[i] \in S
  BY <1>9 DEF Elements
<1>14. \A i \in DOMAIN es : es[i].at \in gone \cup come /\ es[i] = Change(n, es[i].at)
  BY <1>3, <1>11, <1>13
<1>15. \A i \in DOMAIN es : \/ es[i].kind = "Enter" /\ es[i].at \in come
                            \/ es[i].kind = "Leave" /\ es[i].at \in gone
  <2> SUFFICES ASSUME NEW i \in DOMAIN es
               PROVE  \/ es[i].kind = "Enter" /\ es[i].at \in come
                      \/ es[i].kind = "Leave" /\ es[i].at \in gone
    OBVIOUS
  <2> DEFINE c == es[i].at
  <2>1. c \in gone \cup come /\ es[i] = Change(n, c)
    BY <1>14
  <2> HIDE DEF c
  <2>2. /\ es[i].kind \in {"Enter", "Leave"} /\ (es[i].kind = "Enter" <=> view_contains(n, c))
    BY <1>3, <2>1
  <2>3. view_contains(n, c) <=> c \in Tracked(n)
    BY <1>10, <1>12, <2>1
  <2> QED
    BY <2>1, <2>2, <2>3 DEF c
<1>16. \A c \in come \cup gone : \E i \in DOMAIN es : es[i].at = c
  <2> SUFFICES ASSUME NEW c \in come \cup gone PROVE \E i \in DOMAIN es : es[i].at = c
    OBVIOUS
  <2>1. Change(n, c) \in Elements(es)
    BY <1>9, <1>11
  <2> QED
    BY <1>3, <2>1 DEF Elements
<1>17. \A i, j \in DOMAIN es : es[i].at = es[j].at => i = j
  BY <1>8, <1>14 DEF Distinct
<1>18. come \cap gone = {}
  OBVIOUS
<1> HIDE DEF come, gone
<1>19. Tells(es, gone, come)
  BY <1>8, <1>15, <1>16, <1>17, <1>18 DEF Tells
<1> QED
  BY <1>19 DEF es, come, gone

LEMMA ConcatTells ==
  ASSUME NEW a, NEW b, NEW gone, NEW come, Tells(a, gone, {}), Tells(b, {}, come),
         come \cap gone = {}
  PROVE  Tells(a \o b, gone, come)
<1> DEFINE m == Len(a)
           n == Len(b)
           es == a \o b
<1>1. a \in Seq(ViewEvents) /\ b \in Seq(ViewEvents)
  BY DEF Tells
<1>2. m \in Nat /\ n \in Nat /\ DOMAIN a = 1..m /\ DOMAIN b = 1..n
  BY <1>1
<1>3. /\ es \in Seq(ViewEvents) /\ DOMAIN es = 1..(m + n)
      /\ \A i \in 1..m : es[i] = a[i]
      /\ \A i \in 1..n : es[m + i] = b[i]
  BY <1>1, <1>2
<1>4. /\ \A i \in 1..m : a[i].kind = "Leave" /\ a[i].at \in gone
      /\ \A c \in gone : \E i \in 1..m : a[i].at = c
      /\ \A i, j \in 1..m : a[i].at = a[j].at => i = j
  BY <1>2 DEF Tells
<1>5. /\ \A i \in 1..n : b[i].kind = "Enter" /\ b[i].at \in come
      /\ \A c \in come : \E i \in 1..n : b[i].at = c
      /\ \A i, j \in 1..n : b[i].at = b[j].at => i = j
  BY <1>2 DEF Tells
<1> HIDE DEF es
<1>6. \A i \in 1..(m + n) : i \in 1..m \/ (i - m \in 1..n /\ es[i] = b[i - m])
  <2> SUFFICES ASSUME NEW i \in 1..(m + n), i \notin 1..m
               PROVE  i - m \in 1..n /\ es[i] = b[i - m]
    OBVIOUS
  <2>1. i - m \in 1..n /\ m + (i - m) = i
    BY <1>2
  <2> QED
    BY <1>3, <2>1
<1>7. \A i \in DOMAIN es : \/ es[i].kind = "Enter" /\ es[i].at \in come
                           \/ es[i].kind = "Leave" /\ es[i].at \in gone
  BY <1>3, <1>4, <1>5, <1>6
<1>8. ASSUME NEW c \in come \cup gone PROVE \E i \in DOMAIN es : es[i].at = c
  <2>1. CASE c \in gone
    <3>1. PICK i \in 1..m : a[i].at = c
      BY <1>4, <2>1
    <3>2. i \in DOMAIN es
      BY <1>2, <1>3
    <3> QED
      BY <1>3, <3>1, <3>2
  <2>2. CASE c \in come
    <3>1. PICK i \in 1..n : b[i].at = c
      BY <1>5, <2>2
    <3>2. m + i \in DOMAIN es
      BY <1>2, <1>3
    <3> QED
      BY <1>3, <3>1, <3>2
  <2> QED
    BY <2>1, <2>2
<1>9. ASSUME NEW i \in DOMAIN es, NEW j \in DOMAIN es, es[i].at = es[j].at PROVE i = j
  <2>1. i \in 1..(m + n) /\ j \in 1..(m + n)
    BY <1>3
  <2>2. CASE i \in 1..m /\ j \in 1..m
    BY <1>3, <1>4, <1>9, <2>2
  <2>3. CASE i \notin 1..m /\ j \notin 1..m
    <3>1. i - m \in 1..n /\ es[i] = b[i - m] /\ j - m \in 1..n /\ es[j] = b[j - m]
      BY <1>6, <2>1, <2>3
    <3>2. i - m = j - m
      BY <1>5, <1>9, <3>1
    <3> QED
      BY <1>2, <2>1, <3>2
  <2>4. CASE i \in 1..m /\ j \notin 1..m
    <3>1. es[i].at \in gone /\ es[j].at \in come
      BY <1>3, <1>4, <1>5, <1>6, <2>1, <2>4
    <3> QED
      BY <1>9, <3>1
  <2>5. CASE i \notin 1..m /\ j \in 1..m
    <3>1. es[j].at \in gone /\ es[i].at \in come
      BY <1>3, <1>4, <1>5, <1>6, <2>1, <2>5
    <3> QED
      BY <1>9, <3>1
  <2> QED
    BY <2>2, <2>3, <2>4, <2>5
<1> QED
  BY <1>3, <1>7, <1>8, <1>9 DEF Tells, es

LEMMA BoundsFacts ==
  ASSUME NEW v \in Placed
  PROVE  /\ Box(BoundsOf(v)) /\ Cells(BoundsOf(v)) \subseteq World
         /\ \A i \in 1..2 : -Half <= BoundsOf(v).min[i] /\ BoundsOf(v).max[i] < Half
<1> DEFINE d == v.distance
           b == BoundsOf(v)
<1>1. /\ d \in Nat /\ 1 <= d
      /\ \A i \in 1..2 : /\ v.center[i] \in Int
                         /\ v.center[i] - (d + 1) >= -Half
                         /\ v.center[i] + (d + 1) < Half - 1
  BY PlacedFacts
<1>2. \A i \in 1..2 : b.min[i] = v.center[i] - (d + 1) /\ b.max[i] = v.center[i] + (d + 1)
  BY DEF BoundsOf
<1> HIDE DEF b, d
<1>3. \A i \in 1..2 : /\ b.min[i] \in Int /\ b.max[i] \in Int /\ b.min[i] <= b.max[i]
                      /\ -Half <= b.min[i] /\ b.max[i] < Half
  BY <1>1, <1>2, ViewNumbers
<1>4. Box(b)
  BY <1>3 DEF Box
<1>5. Cells(b) \subseteq World
  <2> SUFFICES ASSUME NEW c \in Cells(b) PROVE c \in World
    OBVIOUS
  <2>1. c \in Int \X Int /\ \A i \in 1..2 : b.min[i] <= c[i] /\ c[i] <= b.max[i]
    BY DEF Cells
  <2>2. c[1] \in Int /\ c[2] \in Int /\ c = <<c[1], c[2]>>
    BY <2>1
  <2>3. c[1] \in -Half..(Half - 1) /\ c[2] \in -Half..(Half - 1)
    BY <1>3, <2>1, <2>2, ViewNumbers
  <2> QED
    BY <2>2, <2>3 DEF World
<1> QED
  BY <1>3, <1>4, <1>5 DEF b

LEMMA UnionFacts ==
  ASSUME NEW v \in Placed, NEW u \in Placed
  PROVE  LET b == BoundsUnion(BoundsOf(v), BoundsOf(u))
         IN  /\ Box(b) /\ Cells(b) \subseteq World
             /\ Cells(BoundsOf(v)) \subseteq Cells(b) /\ Cells(BoundsOf(u)) \subseteq Cells(b)
<1> DEFINE p == BoundsOf(v)
           q == BoundsOf(u)
           b == BoundsUnion(p, q)
<1>1. \A i \in 1..2 : /\ p.min[i] \in Int /\ p.max[i] \in Int /\ p.min[i] <= p.max[i]
                      /\ q.min[i] \in Int /\ q.max[i] \in Int /\ q.min[i] <= q.max[i]
                      /\ -Half <= p.min[i] /\ p.max[i] < Half
                      /\ -Half <= q.min[i] /\ q.max[i] < Half
  BY BoundsFacts DEF Box
<1>2. \A i \in 1..2 : /\ b.min[i] = Min({p.min[i], q.min[i]})
                      /\ b.max[i] = Max({p.max[i], q.max[i]})
  BY DEF BoundsUnion
<1> HIDE DEF p, q, b
<1>3. \A i \in 1..2 : /\ b.min[i] = (IF p.min[i] <= q.min[i] THEN p.min[i] ELSE q.min[i])
                      /\ b.max[i] = (IF p.max[i] >= q.max[i] THEN p.max[i] ELSE q.max[i])
  BY <1>1, <1>2, MinTwo, MaxTwo
<1>4. \A i \in 1..2 : /\ b.min[i] \in Int /\ b.max[i] \in Int /\ b.min[i] <= b.max[i]
                      /\ -Half <= b.min[i] /\ b.max[i] < Half
                      /\ b.min[i] <= p.min[i] /\ b.min[i] <= q.min[i]
                      /\ p.max[i] <= b.max[i] /\ q.max[i] <= b.max[i]
  BY <1>1, <1>3
<1>5. Box(b)
  BY <1>4 DEF Box
<1>6. Cells(b) \subseteq World
  <2> SUFFICES ASSUME NEW c \in Cells(b) PROVE c \in World
    OBVIOUS
  <2>1. c \in Int \X Int /\ \A i \in 1..2 : b.min[i] <= c[i] /\ c[i] <= b.max[i]
    BY DEF Cells
  <2>2. c[1] \in Int /\ c[2] \in Int /\ c = <<c[1], c[2]>>
    BY <2>1
  <2>3. c[1] \in -Half..(Half - 1) /\ c[2] \in -Half..(Half - 1)
    BY <1>4, <2>1, <2>2, ViewNumbers
  <2> QED
    BY <2>2, <2>3 DEF World
<1>7. ASSUME NEW c \in Cells(p) \cup Cells(q) PROVE c \in Cells(b)
  <2>1. c \in Int \X Int /\ \/ \A i \in 1..2 : p.min[i] <= c[i] /\ c[i] <= p.max[i]
                            \/ \A i \in 1..2 : q.min[i] <= c[i] /\ c[i] <= q.max[i]
    BY DEF Cells
  <2>2. \A i \in 1..2 : c[i] \in Int
    BY <2>1
  <2>3. \A i \in 1..2 : b.min[i] <= c[i] /\ c[i] <= b.max[i]
    BY <1>1, <1>4, <2>1, <2>2
  <2> QED
    BY <2>1, <2>3 DEF Cells
<1> QED
  BY <1>5, <1>6, <1>7 DEF b, p, q

LEMMA ScanCovers ==
  ASSUME NEW b, Box(b), Cells(b) \subseteq World
  PROVE  Scan(b) \in Seq(World) /\ Distinct(Scan(b)) /\ Elements(Scan(b)) = Cells(b)
<1> DEFINE s == Scan(b)
<1>1. s \in Seq(Int \X Int) /\ Distinct(s) /\ Elements(s) = Cells(b)
  BY ScanFacts
<1> HIDE DEF s
<1>2. \A i \in 1..Len(s) : s[i] \in World
  BY <1>1 DEF Elements
<1>3. s \in Seq(World)
  BY <1>1, <1>2
<1> QED
  BY <1>1, <1>3 DEF s

(* Bit view alone is scanned and found.                                    *)
LEMMA OwnScan ==
  ASSUME NEW v \in Placed \cup {NoView}
  PROVE  /\ ScanOf(v) \in Seq(World) /\ Distinct(ScanOf(v))
         /\ Tracked(v) \subseteq Elements(ScanOf(v))
         /\ v \in Placed => Elements(ScanOf(v)) = Cells(BoundsOf(v))
<1>1. CASE v = NoView
  <2>1. ScanOf(v) = <<>>
    BY <1>1 DEF ScanOf
  <2>2. <<>> \in Seq(World) /\ Distinct(<<>>) /\ v \notin Placed
    BY <1>1, NoneTracked DEF Distinct
  <2> QED
    BY <1>1, <2>1, <2>2, NoneTracked
<1>2. CASE v \in Placed
  <2>1. v # NoView /\ ScanOf(v) = Scan(BoundsOf(v))
    BY <1>2, PlacedFacts DEF ScanOf
  <2>2. Tracked(v) \subseteq Cells(BoundsOf(v))
    BY <1>2, TrackedIn, ContainsFacts
  <2> QED
    BY <1>2, <2>1, <2>2, BoundsFacts, ScanCovers
<1> QED
  BY <1>1, <1>2

LEMMA ApartTells ==
  ASSUME NEW p \in Placed \cup {NoView}, NEW n \in Placed \cup {NoView},
         Tracked(p) \cap Tracked(n) = {}
  PROVE  Tells(ApartDifference(p, n), Tracked(p), Tracked(n))
<1> DEFINE a == Changes(p, NoView, ScanOf(p))
           b == Changes(NoView, n, ScanOf(n))
           A == Elements(ScanOf(p))
           B == Elements(ScanOf(n))
<1>1. /\ ScanOf(p) \in Seq(World) /\ Distinct(ScanOf(p)) /\ Tracked(p) \subseteq A
      /\ ScanOf(n) \in Seq(World) /\ Distinct(ScanOf(n)) /\ Tracked(n) \subseteq B
  BY OwnScan
<1>2. NoView \in Placed \cup {NoView}
  OBVIOUS
<1>3. Tells(a, A \cap (Tracked(p) \ Tracked(NoView)), A \cap (Tracked(NoView) \ Tracked(p)))
  BY <1>1, <1>2, ChangesTell
<1>4. Tells(b, B \cap (Tracked(NoView) \ Tracked(n)), B \cap (Tracked(n) \ Tracked(NoView)))
  BY <1>1, <1>2, ChangesTell
<1>5. /\ A \cap (Tracked(p) \ Tracked(NoView)) = Tracked(p)
      /\ A \cap (Tracked(NoView) \ Tracked(p)) = {}
      /\ B \cap (Tracked(NoView) \ Tracked(n)) = {}
      /\ B \cap (Tracked(n) \ Tracked(NoView)) = Tracked(n)
  BY <1>1, NoneTracked
<1> HIDE DEF a, b, A, B
<1>6. Tells(a, Tracked(p), {}) /\ Tells(b, {}, Tracked(n)) /\ Tracked(n) \cap Tracked(p) = {}
  BY <1>3, <1>4, <1>5
<1>7. Tells(a \o b, Tracked(p), Tracked(n))
  BY <1>6, ConcatTells
<1> QED
  BY <1>7 DEF ApartDifference, a, b

(* The difference of two views tells exactly what changes, whichever way   *)
(* it was found.                                                           *)
LEMMA DifferenceTells ==
  ASSUME NEW p \in Placed \cup {NoView}, NEW n \in Placed \cup {NoView}
  PROVE  Tells(ViewDifference(p, n), Tracked(p) \ Tracked(n), Tracked(n) \ Tracked(p))
<1>1. CASE p = n
  <2>1. ViewDifference(p, n) = <<>>
    BY <1>1 DEF ViewDifference
  <2>2. <<>> \in Seq(ViewEvents) /\ DOMAIN <<>> = {}
    OBVIOUS
  <2>3. Tracked(p) \ Tracked(n) = {} /\ Tracked(n) \ Tracked(p) = {}
    BY <1>1
  <2>4. Tells(<<>>, {}, {})
    BY <2>2 DEF Tells
  <2> QED
    BY <2>1, <2>3, <2>4
<1>2. CASE p # n /\ NoView \notin {p, n} /\ Intersects(BoundsOf(p), BoundsOf(n))
  <2> DEFINE b == BoundsUnion(BoundsOf(p), BoundsOf(n))
             s == Scan(b)
  <2>1. p \in Placed /\ n \in Placed
    BY <1>2
  <2>2. /\ Box(b) /\ Cells(b) \subseteq World
        /\ Cells(BoundsOf(p)) \subseteq Cells(b) /\ Cells(BoundsOf(n)) \subseteq Cells(b)
    BY <2>1, UnionFacts
  <2>3. ViewDifference(p, n) = Changes(p, n, s)
    BY <1>2 DEF ViewDifference
  <2> HIDE DEF b
  <2>4. s \in Seq(World) /\ Distinct(s) /\ Elements(s) = Cells(b)
    BY <2>2, ScanCovers
  <2>5. Tracked(p) \subseteq Cells(b) /\ Tracked(n) \subseteq Cells(b)
    BY <2>1, <2>2, TrackedIn, ContainsFacts
  <2> HIDE DEF s
  <2>6. /\ Elements(s) \cap (Tracked(p) \ Tracked(n)) = Tracked(p) \ Tracked(n)
        /\ Elements(s) \cap (Tracked(n) \ Tracked(p)) = Tracked(n) \ Tracked(p)
    BY <2>4, <2>5
  <2>7. Tells(Changes(p, n, s), Elements(s) \cap (Tracked(p) \ Tracked(n)),
              Elements(s) \cap (Tracked(n) \ Tracked(p)))
    BY <2>4, ChangesTell
  <2> QED
    BY <2>3, <2>6, <2>7
<1>3. CASE p # n /\ ~(NoView \notin {p, n} /\ Intersects(BoundsOf(p), BoundsOf(n)))
  <2>1. ViewDifference(p, n) = ApartDifference(p, n)
    BY <1>3 DEF ViewDifference
  <2>2. Tracked(p) \cap Tracked(n) = {}
    <3>1. CASE NoView \in {p, n}
      BY <3>1, NoneTracked
    <3>2. CASE NoView \notin {p, n}
      <4>1. p \in Placed /\ n \in Placed /\ ~Intersects(BoundsOf(p), BoundsOf(n))
        BY <1>3, <3>2
      <4> SUFFICES ASSUME NEW c \in Tracked(p) \cap Tracked(n) PROVE FALSE
        OBVIOUS
      <4>2. c \in Cells(BoundsOf(p)) /\ c \in Cells(BoundsOf(n))
        BY <4>1, TrackedIn, ContainsFacts
      <4> DEFINE x == BoundsOf(p)
                 y == BoundsOf(n)
      <4>3. \A i \in 1..2 : /\ c[i] \in Int /\ x.min[i] <= c[i] /\ c[i] <= x.max[i]
                            /\ y.min[i] <= c[i] /\ c[i] <= y.max[i]
        BY <4>2 DEF Cells
      <4>4. \A i \in 1..2 : /\ x.min[i] \in Int /\ x.max[i] \in Int
                            /\ y.min[i] \in Int /\ y.max[i] \in Int
        BY <4>1, BoundsFacts DEF Box
      <4> HIDE DEF x, y
      <4>5. Intersects(x, y)
        BY <4>3, <4>4 DEF Intersects
      <4> QED
        BY <4>1, <4>5 DEF x, y
    <3> QED
      BY <3>1, <3>2
  <2>3. Tracked(p) \ Tracked(n) = Tracked(p) /\ Tracked(n) \ Tracked(p) = Tracked(n)
    BY <2>2
  <2> QED
    BY <2>1, <2>2, <2>3, ApartTells
<1> QED
  BY <1>1, <1>2, <1>3

(* The pending event is applied.                                           *)
LEMMA ToldFacts ==
  ASSUME NEW es, NEW gone, NEW come, Tells(es, gone, come)
  PROVE  /\ es = <<>> => gone = {} /\ come = {}
         /\ es # <<>> =>
              /\ \/ /\ Head(es).kind = "Enter" /\ Head(es).at \in come
                    /\ Tells(Tail(es), gone, come \ {Head(es).at})
                 \/ /\ Head(es).kind = "Leave" /\ Head(es).at \in gone
                    /\ Tells(Tail(es), gone \ {Head(es).at}, come)
<1>1. /\ es \in Seq(ViewEvents)
      /\ \A i \in DOMAIN es : \/ es[i].kind = "Enter" /\ es[i].at \in come
                              \/ es[i].kind = "Leave" /\ es[i].at \in gone
      /\ \A c \in come \cup gone : \E i \in DOMAIN es : es[i].at = c
      /\ \A i, j \in DOMAIN es : es[i].at = es[j].at => i = j
      /\ come \cap gone = {}
  BY DEF Tells
<1>2. es = <<>> => gone = {} /\ come = {}
  BY <1>1
<1>3. ASSUME es # <<>>
      PROVE  \/ /\ Head(es).kind = "Enter" /\ Head(es).at \in come
                /\ Tells(Tail(es), gone, come \ {Head(es).at})
             \/ /\ Head(es).kind = "Leave" /\ Head(es).at \in gone
                /\ Tells(Tail(es), gone \ {Head(es).at}, come)
  <2> DEFINE n == Len(es)
             r == Tail(es)
             x == Head(es).at
  <2>1. /\ n \in Nat /\ n >= 1 /\ DOMAIN es = 1..n /\ 1 \in DOMAIN es /\ Head(es) = es[1]
        /\ r \in Seq(ViewEvents) /\ DOMAIN r = 1..(n - 1)
        /\ \A i \in 1..(n - 1) : r[i] = es[i + 1]
    BY <1>1, <1>3
  <2> HIDE DEF n, r
  <2>2. \A i \in DOMAIN r : i + 1 \in DOMAIN es /\ r[i] = es[i + 1] /\ i + 1 # 1
    BY <2>1
  <2>3. \A i \in DOMAIN r : r[i].at # x
    BY <1>1, <2>1, <2>2
  <2>4. \A i \in DOMAIN r : \/ r[i].kind = "Enter" /\ r[i].at \in come \ {x}
                            \/ r[i].kind = "Leave" /\ r[i].at \in gone \ {x}
    BY <1>1, <2>2, <2>3
  <2>5. \A i, j \in DOMAIN r : r[i].at = r[j].at => i = j
    <3> SUFFICES ASSUME NEW i \in DOMAIN r, NEW j \in DOMAIN r, r[i].at = r[j].at PROVE i = j
      OBVIOUS
    <3>1. i + 1 = j + 1
      BY <1>1, <2>2
    <3> QED
      BY <2>1, <3>1
  <2>6. \A c \in (come \cup gone) \ {x} : \E i \in DOMAIN r : r[i].at = c
    <3> SUFFICES ASSUME NEW c \in (come \cup gone) \ {x} PROVE \E i \in DOMAIN r : r[i].at = c
      OBVIOUS
    <3>1. PICK i \in DOMAIN es : es[i].at = c
      BY <1>1
    <3>2. i # 1
      BY <2>1, <3>1
    <3>3. i - 1 \in DOMAIN r /\ (i - 1) + 1 = i
      BY <2>1, <3>2
    <3> QED
      BY <2>2, <3>1, <3>3
  <2>7. CASE Head(es).kind = "Enter" /\ x \in come
    <3>1. x \notin gone /\ gone \ {x} = gone
      BY <1>1, <2>7
    <3>2. (come \ {x}) \cup gone = (come \cup gone) \ {x} /\ (come \ {x}) \cap gone = {}
      BY <1>1, <3>1
    <3> DEFINE k == come \ {x}
    <3>3. /\ \A c \in k \cup gone : \E i \in DOMAIN r : r[i].at = c
          /\ k \cap gone = {}
      BY <2>6, <3>2
    <3>4. \A i \in DOMAIN r : \/ r[i].kind = "Enter" /\ r[i].at \in k
                              \/ r[i].kind = "Leave" /\ r[i].at \in gone
      BY <2>4, <3>1
    <3> HIDE DEF k
    <3>5. Tells(r, gone, k)
      BY <2>1, <2>5, <3>3, <3>4 DEF Tells
    <3> QED
      BY <2>7, <3>5 DEF k, r
  <2>8. CASE Head(es).kind = "Leave" /\ x \in gone
    <3>1. x \notin come /\ come \ {x} = come
      BY <1>1, <2>8
    <3>2. come \cup (gone \ {x}) = (come \cup gone) \ {x} /\ come \cap (gone \ {x}) = {}
      BY <1>1, <3>1
    <3> DEFINE g == gone \ {x}
    <3>3. /\ \A c \in come \cup g : \E i \in DOMAIN r : r[i].at = c
          /\ come \cap g = {}
      BY <2>6, <3>2
    <3>4. \A i \in DOMAIN r : \/ r[i].kind = "Enter" /\ r[i].at \in come
                              \/ r[i].kind = "Leave" /\ r[i].at \in g
      BY <2>4, <3>1
    <3> HIDE DEF g
    <3>5. Tells(r, g, come)
      BY <2>1, <2>5, <3>3, <3>4 DEF Tells
    <3> QED
      BY <2>8, <3>5 DEF g, r
  <2>9. \/ Head(es).kind = "Enter" /\ x \in come
        \/ Head(es).kind = "Leave" /\ x \in gone
    BY <1>1, <2>1
  <2> QED
    BY <2>7, <2>8, <2>9
<1> QED
  BY <1>2, <1>3

-----------------------------------------------------------------------------
(* The owner. While an update is drained, the remaining events tell what   *)
(* still separates the consumer from the next view; a changed centre comes *)
(* first.                                                                  *)
Draining(cur, sh, at, next, es) ==
  /\ next \in Placed \cup {NoView} /\ es \in Seq(ViewEvents)
  /\ Tracked(cur) \cap Tracked(next) \subseteq sh
  /\ sh \subseteq Tracked(cur) \cup Tracked(next)
  /\ \/ /\ es # <<>> /\ Head(es) = [kind |-> "SetCenter", at |-> next.center]
        /\ next # NoView /\ sh = Tracked(cur)
        /\ Tells(Tail(es), sh \ Tracked(next), Tracked(next) \ sh)
     \/ /\ Tells(es, sh \ Tracked(next), Tracked(next) \ sh)
        /\ next # NoView => at = next.center

ViewInv ==
  /\ distance \in MIN_VIEW_DISTANCE..MAX_VIEW_DISTANCE
  /\ current \in Placed \cup {NoView}
  /\ \/ /\ transition = NoView /\ shown = Tracked(current)
        /\ current # NoView => shownAt = current.center
     \/ \E next, es : transition = [next |-> next, events |-> es] /\ Draining(current, shown, shownAt, next, es)

LEMMA TransitionFacts ==
  ASSUME NEW next \in Placed \cup {NoView}, NEW es \in Seq(ViewEvents)
  PROVE  [next |-> next, events |-> es] # NoView
<1>1. next \in Views
  BY PlacedFacts DEF Views
<1>2. [next |-> next, events |-> es] \in Transitions
  BY <1>1 DEF Transitions
<1> QED
  BY <1>2, ViewAssumption

LEMMA ViewInitInv == ViewInit => ViewInv
<1> SUFFICES ASSUME ViewInit PROVE ViewInv
  OBVIOUS
<1>1. PICK d \in ServerDistances : distance = server(d)
  BY DEF ViewInit
<1>2. d \in Int
  BY ViewAssumption
<1>3. distance \in MIN_VIEW_DISTANCE..MAX_VIEW_DISTANCE
  BY <1>1, <1>2, ViewNumbers, ClampFacts DEF server
<1> QED
  BY <1>3, NoneTracked DEF ViewInit, ViewInv

LEMMA BeginStep ==
  ASSUME ViewInv, NEW v \in Placed \cup {NoView}, begin_update(v)
  PROVE  ViewInv'
<1> DEFINE c == SetCenter(v)
           d == ViewDifference(current, v)
<1>1. /\ transition = NoView /\ UNCHANGED <<distance, current, shown, shownAt>>
      /\ transition' = [next |-> v, events |-> c \o d]
  BY DEF begin_update
<1>2. /\ shown = Tracked(current) /\ current \in Placed \cup {NoView}
      /\ current # NoView => shownAt = current.center
  <2>1. ASSUME NEW next, NEW es, transition = [next |-> next, events |-> es],
             Draining(current, shown, shownAt, next, es)
        PROVE  FALSE
    BY <1>1, <2>1, TransitionFacts DEF Draining
  <2> QED
    BY <2>1 DEF ViewInv
<1>3. Tells(d, shown \ Tracked(v), Tracked(v) \ shown)
  BY <1>2, DifferenceTells
<1>4. d \in Seq(ViewEvents)
  BY <1>3 DEF Tells
<1> HIDE DEF d
<1>5. Draining(current, shown, shownAt, v, c \o d)
  <2>1. /\ Tracked(current) \cap Tracked(v) \subseteq shown
        /\ shown \subseteq Tracked(current) \cup Tracked(v)
    BY <1>2
  <2>2. CASE v # NoView /\ (current = NoView \/ v.center # current.center)
    <3> DEFINE e == [kind |-> "SetCenter", at |-> v.center]
    <3>1. c = <<e>>
      BY <2>2 DEF SetCenter
    <3>2. e \in ViewEvents
      BY <2>2, PlacedFacts DEF ViewEvents
    <3> HIDE DEF c
    <3>3. e = [kind |-> "SetCenter", at |-> v.center]
      OBVIOUS
    <3> HIDE DEF e
    <3>4. c \o d \in Seq(ViewEvents) /\ c \o d # <<>> /\ Head(c \o d) = e
      BY <1>4, <3>1, <3>2
    <3>5. Tail(c \o d) = d
      BY <1>4, <3>1, <3>2
    <3> QED
      BY <1>2, <1>3, <2>1, <2>2, <3>3, <3>4, <3>5 DEF Draining
  <2>3. CASE ~(v # NoView /\ (current = NoView \/ v.center # current.center))
    <3>1. c = <<>>
      BY <2>3 DEF SetCenter
    <3>2. c \o d = d
      BY <1>4, <3>1
    <3>3. v # NoView => shownAt = v.center
      BY <1>2, <2>3
    <3> QED
      BY <1>3, <1>4, <2>1, <3>2, <3>3 DEF Draining
  <2> QED
    BY <2>2, <2>3
<1>6. \E es : /\ transition' = [next |-> v, events |-> es]
              /\ Draining(current', shown', shownAt', v, es)
  BY <1>1, <1>5
<1>7. distance' \in MIN_VIEW_DISTANCE..MAX_VIEW_DISTANCE
  BY <1>1 DEF ViewInv
<1>8. current' \in Placed \cup {NoView}
  BY <1>1, <1>2
<1> QED
  BY <1>6, <1>7, <1>8 DEF ViewInv

LEMMA AcknowledgeStep ==
  ASSUME ViewInv, acknowledge_event
  PROVE  ViewInv'
<1>1. /\ transition # NoView /\ transition.events # <<>>
      /\ Show(Head(transition.events))
      /\ transition' = [transition EXCEPT !.events = Tail(@)]
      /\ UNCHANGED <<distance, current>>
  BY DEF acknowledge_event
<1>2. PICK next, es : /\ transition = [next |-> next, events |-> es]
                      /\ Draining(current, shown, shownAt, next, es)
  BY <1>1 DEF ViewInv
<1> DEFINE N == Tracked(next)
           C == Tracked(current)
           e == Head(es)
<1>3. /\ es # <<>> /\ Show(e) /\ transition' = [next |-> next, events |-> Tail(es)]
  BY <1>1, <1>2
<1>4. /\ next \in Placed \cup {NoView} /\ es \in Seq(ViewEvents)
      /\ C \cap N \subseteq shown /\ shown \subseteq C \cup N
  BY <1>2 DEF Draining
<1>5. Tail(es) \in Seq(ViewEvents)
  BY <1>3, <1>4
<1>6. CASE /\ e = [kind |-> "SetCenter", at |-> next.center]
           /\ next # NoView /\ shown = C
           /\ Tells(Tail(es), shown \ N, N \ shown)
  <2>1. e.kind = "SetCenter" /\ e.at = next.center
    BY <1>6
  <2>2. shown' = shown /\ shownAt' = next.center
    BY <1>3, <2>1 DEF Show
  <2>3. Draining(current, shown, shownAt', next, Tail(es))
    BY <1>4, <1>5, <1>6, <2>2 DEF Draining
  <2> QED
    BY <1>1, <1>3, <2>2, <2>3 DEF ViewInv
<1>7. CASE /\ Tells(es, shown \ N, N \ shown)
           /\ next # NoView => shownAt = next.center
  <2>1. \/ /\ e.kind = "Enter" /\ e.at \in N \ shown
           /\ Tells(Tail(es), shown \ N, (N \ shown) \ {e.at})
        \/ /\ e.kind = "Leave" /\ e.at \in shown \ N
           /\ Tells(Tail(es), (shown \ N) \ {e.at}, N \ shown)
    BY <1>3, <1>7, ToldFacts
  <2> DEFINE S == shown'
  <2>2. /\ shownAt' = shownAt
        /\ e.kind = "Enter" => S = shown \cup {e.at}
        /\ e.kind = "Leave" => S = shown \ {e.at}
    BY <1>3, <2>1 DEF Show
  <2> HIDE DEF S, N, C, e
  <2>3. CASE /\ e.kind = "Enter" /\ e.at \in N \ shown
             /\ Tells(Tail(es), shown \ N, (N \ shown) \ {e.at})
    <3>1. S \ N = shown \ N /\ N \ S = (N \ shown) \ {e.at}
      BY <2>2, <2>3
    <3>2. C \cap N \subseteq S /\ S \subseteq C \cup N
      BY <1>4, <2>2, <2>3
    <3>3. Tells(Tail(es), S \ N, N \ S)
      BY <2>3, <3>1
    <3>4. Draining(current, S, shownAt', next, Tail(es))
      BY <1>4, <1>5, <1>7, <2>2, <3>2, <3>3 DEF Draining, N, C
    <3> QED
      BY <1>1, <1>3, <3>4 DEF ViewInv, S
  <2>4. CASE /\ e.kind = "Leave" /\ e.at \in shown \ N
             /\ Tells(Tail(es), (shown \ N) \ {e.at}, N \ shown)
    <3>1. S \ N = (shown \ N) \ {e.at} /\ N \ S = N \ shown
      BY <2>2, <2>4
    <3>2. C \cap N \subseteq S /\ S \subseteq C \cup N
      BY <1>4, <2>2, <2>4
    <3>3. Tells(Tail(es), S \ N, N \ S)
      BY <2>4, <3>1
    <3>4. Draining(current, S, shownAt', next, Tail(es))
      BY <1>4, <1>5, <1>7, <2>2, <3>2, <3>3 DEF Draining, N, C
    <3> QED
      BY <1>1, <1>3, <3>4 DEF ViewInv, S
  <2> QED
    BY <2>1, <2>3, <2>4
<1> QED
  BY <1>2, <1>6, <1>7 DEF Draining

LEMMA FinishStep ==
  ASSUME ViewInv, finish_update
  PROVE  ViewInv'
<1>1. /\ transition # NoView /\ transition.events = <<>>
      /\ current' = transition.next /\ transition' = NoView
      /\ UNCHANGED <<distance, shown, shownAt>>
  BY DEF finish_update
<1>2. PICK next, es : /\ transition = [next |-> next, events |-> es]
                      /\ Draining(current, shown, shownAt, next, es)
  BY <1>1 DEF ViewInv
<1>3. es = <<>> /\ current' = next
  BY <1>1, <1>2
<1>4. /\ next \in Placed \cup {NoView}
      /\ Tells(es, shown \ Tracked(next), Tracked(next) \ shown)
      /\ next # NoView => shownAt = next.center
  BY <1>2, <1>3 DEF Draining
<1>5. shown = Tracked(next)
  <2>1. shown \ Tracked(next) = {} /\ Tracked(next) \ shown = {}
    BY <1>3, <1>4, ToldFacts
  <2> QED
    BY <2>1
<1>6. distance' \in MIN_VIEW_DISTANCE..MAX_VIEW_DISTANCE
  BY <1>1 DEF ViewInv
<1>7. Tracked(current)' = Tracked(next)
  BY <1>3 DEF Tracked
<1> QED
  BY <1>1, <1>3, <1>4, <1>5, <1>6, <1>7 DEF ViewInv

LEMMA ViewStep ==
  ASSUME ViewInv, [ViewNext]_viewVars
  PROVE  ViewInv'
<1>1. ASSUME NEW d \in ClientDistances, NEW v \in ViewsAt(effective(d)), begin_update(v)
      PROVE  ViewInv'
  <2>1. d \in Int /\ distance \in MIN_VIEW_DISTANCE..MAX_VIEW_DISTANCE
    BY ViewAssumption DEF ViewInv
  <2> DEFINE k == effective(d)
  <2>2. k \in MIN_VIEW_DISTANCE..distance
    BY <2>1, ViewNumbers, ClampFacts DEF effective
  <2> HIDE DEF k
  <2>3. PICK c \in ViewCenters : positioned(c, k) /\ v = [center |-> c, distance |-> k]
    BY <1>1 DEF ViewsAt, k
  <2>4. c \in World
    BY ViewAssumption
  <2>5. k \in Int /\ MIN_VIEW_DISTANCE <= k /\ k <= MAX_VIEW_DISTANCE
    BY <2>1, <2>2, ViewNumbers
  <2>6. v \in Placed
    BY <2>3, <2>4, <2>5 DEF Placed
  <2> QED
    BY <1>1, <2>6, BeginStep
<1>2. CASE begin_update(NoView)
  <2>1. NoView \in Placed \cup {NoView}
    OBVIOUS
  <2> QED
    BY <1>2, <2>1, BeginStep
<1>3. CASE acknowledge_event
  BY <1>3, AcknowledgeStep
<1>4. CASE finish_update
  BY <1>4, FinishStep
<1>5. CASE UNCHANGED viewVars
  <2>1. UNCHANGED <<distance, current, transition, shown, shownAt>>
    BY <1>5 DEF viewVars
  <2>2. Tracked(current)' = Tracked(current)
    BY <2>1 DEF Tracked
  <2> QED
    BY <2>1, <2>2 DEF ViewInv
<1> QED
  BY <1>1, <1>2, <1>3, <1>4, <1>5 DEF ViewNext

LEMMA ViewInvExact == ViewInv => ViewExact
<1> SUFFICES ASSUME ViewInv PROVE ViewExact
  OBVIOUS
<1>1. CASE transition = NoView
  <2>1. ASSUME NEW next, NEW es, transition = [next |-> next, events |-> es],
               Draining(current, shown, shownAt, next, es)
        PROVE  FALSE
    BY <1>1, <2>1, TransitionFacts DEF Draining
  <2>2. shown = Tracked(current)
    BY <2>1 DEF ViewInv
  <2> QED
    BY <1>1, <2>2 DEF ViewExact
<1>2. CASE transition # NoView
  <2>1. PICK next, es : /\ transition = [next |-> next, events |-> es]
                        /\ Draining(current, shown, shownAt, next, es)
    BY <1>2 DEF ViewInv
  <2>2. transition.next = next /\ transition.events = es
    BY <2>1
  <2> DEFINE e == Head(es)
             N == Tracked(next)
  <2>3. /\ Tracked(current) \cap N \subseteq shown
        /\ shown \subseteq Tracked(current) \cup N
    BY <2>1 DEF Draining
  <2>4. es = <<>> => shown = N
    <3> SUFFICES ASSUME es = <<>> PROVE shown = N
      OBVIOUS
    <3>1. Tells(es, shown \ N, N \ shown)
      BY <2>1 DEF Draining
    <3>2. shown \ N = {} /\ N \ shown = {}
      BY <3>1, ToldFacts
    <3> QED
      BY <3>2
  <2>5. es # <<>> => \/ e.kind = "SetCenter" /\ shown = Tracked(current)
                     \/ e.kind = "Enter" /\ e.at \notin shown /\ shownAt = next.center
                     \/ e.kind = "Leave" /\ e.at \in shown
    <3> SUFFICES ASSUME es # <<>>
                 PROVE  \/ e.kind = "SetCenter" /\ shown = Tracked(current)
                        \/ e.kind = "Enter" /\ e.at \notin shown /\ shownAt = next.center
                        \/ e.kind = "Leave" /\ e.at \in shown
      OBVIOUS
    <3>1. CASE e = [kind |-> "SetCenter", at |-> next.center] /\ shown = Tracked(current)
      BY <3>1
    <3>2. CASE /\ Tells(es, shown \ N, N \ shown)
               /\ next # NoView => shownAt = next.center
      <4>1. \/ e.kind = "Enter" /\ e.at \in N \ shown
            \/ e.kind = "Leave" /\ e.at \in shown \ N
        BY <3>2, ToldFacts
      <4>2. N # {} => next # NoView
        BY NoneTracked
      <4> QED
        BY <3>2, <4>1, <4>2
    <3> QED
      BY <2>1, <3>1, <3>2 DEF Draining
  <2> HIDE DEF e, N
  <2>6. es # <<>> =>
          CASE e.kind = "Enter" -> e.at \notin shown /\ shownAt = next.center
            [] e.kind = "Leave" -> e.at \in shown
            [] OTHER -> shown = Tracked(current)
    BY <2>5
  <2> QED
    BY <1>2, <2>2, <2>3, <2>4, <2>6 DEF ViewExact, e, N
<1> QED
  BY <1>1, <1>2

(* A player's view is exact: the consumer is told each change once, in     *)
(* order after a new centre, and ends with the view by its definition      *)
(* (begin_update, ViewDifference::next, acknowledge_event).                *)
THEOREM ViewIsExact == ViewSpec => []ViewExact
<1>1. ViewInit => ViewInv
  BY ViewInitInv
<1>2. ViewInv /\ [ViewNext]_viewVars => ViewInv'
  BY ViewStep
<1>3. ViewInv => ViewExact
  BY ViewInvExact
<1> QED
  BY <1>1, <1>2, <1>3, PTL DEF ViewSpec

-----------------------------------------------------------------------------
(* ChunkSender. What its groups retain.                                    *)

Heaps(gs) == [i \in DOMAIN gs |-> HeapBytes(gs[i])]
BatchesOf(gs) == {i \in DOMAIN gs : gs[i].kind = "batch"}

-----------------------------------------------------------------------------
(* Facts about the operators.                                              *)

(* The larger and the smaller of two numbers.                              *)
LEMMA MaxMin ==
  ASSUME NEW a \in Int, NEW b \in Int
  PROVE  /\ Max({a, b}) = IF a >= b THEN a ELSE b
         /\ Min({a, b}) = IF a <= b THEN a ELSE b
<1>1. Max({a, b}) \in {a, b} /\ Max({a, b}) >= a /\ Max({a, b}) >= b
  <2>1. \E x \in {a, b} : \A y \in {a, b} : x >= y
    OBVIOUS
  <2> QED
    BY <2>1 DEF Max
<1>2. Min({a, b}) \in {a, b} /\ Min({a, b}) <= a /\ Min({a, b}) <= b
  <2>1. \E x \in {a, b} : \A y \in {a, b} : x <= y
    OBVIOUS
  <2> QED
    BY <2>1 DEF Min
<1> QED
  BY <1>1, <1>2

(* Intervals are finite and grow by their next number.                     *)
LEMMA Upto ==
  ASSUME NEW n \in Nat
  PROVE  /\ IsFiniteSet(1..n)
         /\ n + 1 \notin 1..n
         /\ (1..n) \cup {n + 1} = 1..(n + 1)
<1>1. IsFiniteSet(1..n)
  BY FS_Interval
<1>2. n + 1 \notin 1..n /\ (1..n) \cup {n + 1} = 1..(n + 1)
  OBVIOUS
<1> QED
  BY <1>1, <1>2

(* A sum over a sequence is its first weight and the sum over the rest.    *)
LEMMA SumFirst ==
  ASSUME NEW n \in Nat, NEW w, NEW v, \A i \in 1..(n + 1) : w[i] \in Nat,
         \A i \in 1..n : v[i] = w[i + 1]
  PROVE  SumFunctionOnSet(w, 1..(n + 1)) = w[1] + SumFunctionOnSet(v, 1..n)
<1> DEFINE Sw(m) == SumFunctionOnSet(w, 1..m)
           Sv(m) == SumFunctionOnSet(v, 1..m)
           Bad == {m \in 0..n : Sw(m + 1) # w[1] + Sv(m)}
           F == {1..m : m \in Bad}
<1>1. ASSUME NEW m \in 0..n PROVE Sw(m) \in Nat /\ Sv(m) \in Nat /\ Sw(m + 1) = w[m + 1] + Sw(m)
  <2>1. IsFiniteSet(1..m) /\ m + 1 \notin 1..m /\ (1..m) \cup {m + 1} = 1..(m + 1)
    BY Upto
  <2>2. \A x \in (1..m) \cup {m + 1} : w[x] \in Nat
    OBVIOUS
  <2>3. \A x \in 1..m : v[x] \in Nat
    OBVIOUS
  <2> QED
    BY <2>1, <2>2, <2>3, SumAdd, SumNat
<1>2. ASSUME NEW m \in 1..n PROVE Sv(m) = v[m] + Sv(m - 1)
  <2>1. IsFiniteSet(1..(m - 1)) /\ m \notin 1..(m - 1) /\ (1..(m - 1)) \cup {m} = 1..m
    <3>1. m - 1 \in Nat /\ (m - 1) + 1 = m
      OBVIOUS
    <3> QED
      BY <3>1, Upto
  <2>2. \A x \in (1..(m - 1)) \cup {m} : v[x] \in Nat
    OBVIOUS
  <2> QED
    BY <2>1, <2>2, SumAdd
<1>3. Sw(0) = 0 /\ Sv(0) = 0
  <2>1. 1..0 = {}
    OBVIOUS
  <2> QED
    BY <2>1, SumEmpty
<1> HIDE DEF Sw, Sv
<1> SUFFICES ASSUME F # {} PROVE FALSE
  BY DEF Sw, Sv
<1>4. PICK T \in F : \A U \in F : U \subseteq T => U = T
  <2> DEFINE N == 1..n
  <2>1. F \in SUBSET SUBSET N
    OBVIOUS
  <2>2. IsFiniteSet(N)
    BY Upto
  <2> HIDE DEF F, N
  <2> QED
    BY <2>1, <2>2, Smallest
<1>5. PICK m \in Bad : T = 1..m
  OBVIOUS
<1>6. m # 0
  <2>1. m \in 0..n /\ Sw(m + 1) # w[1] + Sv(m)
    OBVIOUS
  <2>2. Sw(0 + 1) = w[0 + 1] + Sw(0)
    BY <1>1
  <2> QED
    BY <1>3, <2>1, <2>2
<1>7. m - 1 \in 0..n /\ m \in 0..n /\ m \in 1..n /\ Sw(m + 1) # w[1] + Sv(m)
  BY <1>6
<1>8. m - 1 \notin Bad
  <2>1. 1..(m - 1) \subseteq T /\ 1..(m - 1) # T
    BY <1>5, <1>7
  <2> QED
    BY <1>4, <2>1
<1>9. Sw((m - 1) + 1) = w[1] + Sv(m - 1)
  BY <1>7, <1>8
<1>10. Sw(m) = w[1] + Sv(m - 1) /\ Sw(m + 1) = w[m + 1] + Sw(m) /\ Sv(m) = v[m] + Sv(m - 1)
       /\ v[m] = w[m + 1] /\ w[m + 1] \in Nat /\ w[1] \in Nat /\ Sv(m - 1) \in Nat
  BY <1>1, <1>2, <1>7, <1>9
<1> QED
  BY <1>7, <1>10

(* Delivery bytes are natural numbers.                                     *)
LEMMA BytesNat ==
  ASSUME NEW s \in Seq(Positions) PROVE SizeOf(s) \in Nat
<1> DEFINE w == [i \in DOMAIN s |-> Size[s[i]]]
<1>1. DOMAIN s = 1..Len(s) /\ Len(s) \in Nat /\ \A i \in DOMAIN s : w[i] \in Nat
  BY SenderAssumption
<1>2. IsFiniteSet(DOMAIN s)
  BY <1>1, FS_Interval
<1>3. SumFunctionOnSet(w, DOMAIN s) \in Nat
  BY <1>1, <1>2, SumNat
<1> QED
  BY <1>3 DEF SizeOf, SumFunction

(* What a queue retains when a group is queued, and when its front group   *)
(* is completed.                                                           *)
LEMMA HeapOf ==
  ASSUME NEW gs \in Seq(Groups)
  PROVE  /\ \A i \in DOMAIN gs : HeapBytes(gs[i]) \in Nat
         /\ IsFiniteSet(DOMAIN gs)
         /\ SumFunction(Heaps(gs)) \in Nat
         /\ SumFunction(Heaps(gs)) = SumFunctionOnSet(Heaps(gs), 1..Len(gs))
<1>1. ASSUME NEW i \in DOMAIN gs PROVE HeapBytes(gs[i]) \in Nat
  <2>1. gs[i] \in Groups
    OBVIOUS
  <2>2. gs[i].spans \in Seq(Positions)
    BY <2>1 DEF Groups
  <2>3. SizeOf(gs[i].spans) \in Nat
    BY <2>2, BytesNat
  <2> QED
    BY <2>3 DEF HeapBytes
<1>2. IsFiniteSet(DOMAIN gs) /\ DOMAIN gs = 1..Len(gs)
  <2>1. Len(gs) \in Nat /\ DOMAIN gs = 1..Len(gs)
    OBVIOUS
  <2> QED
    BY <2>1, Upto
<1>3. \A i \in DOMAIN gs : Heaps(gs)[i] \in Nat
  BY <1>1 DEF Heaps
<1> QED
  BY <1>1, <1>2, <1>3, SumNat DEF SumFunction, Heaps

(* A queued group adds its bytes.                                          *)
LEMMA HeapAppend ==
  ASSUME NEW gs \in Seq(Groups), NEW g \in Groups
  PROVE  SumFunction(Heaps(Append(gs, g))) = SumFunction(Heaps(gs)) + HeapBytes(g)
<1> DEFINE hs == Append(gs, g)
           n == Len(gs)
<1>1. hs \in Seq(Groups) /\ Len(hs) = n + 1 /\ n \in Nat /\ hs[n + 1] = g
      /\ DOMAIN hs = 1..(n + 1) /\ DOMAIN gs = 1..n /\ \A i \in 1..n : hs[i] = gs[i]
  OBVIOUS
<1>a. hs = Append(gs, g) /\ n = Len(gs)
  OBVIOUS
<1> HIDE DEF hs, n
<1>2. /\ \A i \in 1..(n + 1) : HeapBytes(hs[i]) \in Nat
      /\ SumFunction(Heaps(hs)) = SumFunctionOnSet(Heaps(hs), 1..(n + 1))
  BY <1>1, HeapOf
<1>3. /\ SumFunction(Heaps(gs)) = SumFunctionOnSet(Heaps(gs), 1..n)
      /\ SumFunction(Heaps(gs)) \in Nat
  BY <1>1, <1>a, HeapOf
<1>4. /\ \A i \in 1..(n + 1) : Heaps(hs)[i] = HeapBytes(hs[i])
      /\ \A i \in 1..n : Heaps(gs)[i] = HeapBytes(gs[i])
  BY <1>1 DEF Heaps
<1>5. 1..(n + 1) = (1..n) \cup {n + 1} /\ n + 1 \notin 1..n /\ IsFiniteSet(1..n)
  BY <1>1, Upto
<1>6. \A i \in (1..n) \cup {n + 1} : Heaps(hs)[i] \in Nat
  BY <1>2, <1>4, <1>5
<1>7. SumFunctionOnSet(Heaps(hs), (1..n) \cup {n + 1})
        = Heaps(hs)[n + 1] + SumFunctionOnSet(Heaps(hs), 1..n)
  BY <1>5, <1>6, SumAdd
<1>8. \A i \in 1..n : Heaps(hs)[i] = Heaps(gs)[i]
  BY <1>1, <1>4, <1>5
<1>9. SumFunctionOnSet(Heaps(hs), 1..n) = SumFunctionOnSet(Heaps(gs), 1..n)
  BY <1>5, <1>8, SumSame
<1>10. Heaps(hs)[n + 1] = HeapBytes(g) /\ HeapBytes(g) \in Nat
  BY <1>1, <1>2, <1>4, <1>5
<1>11. SumFunction(Heaps(hs)) = SumFunctionOnSet(Heaps(hs), (1..n) \cup {n + 1})
  BY <1>2, <1>5
<1>12. SumFunction(Heaps(hs)) = HeapBytes(g) + SumFunction(Heaps(gs))
  BY <1>3, <1>7, <1>9, <1>10, <1>11
<1> QED
  BY <1>a, <1>3, <1>10, <1>12

(* A completed front group gives its bytes back.                           *)
LEMMA HeapTail ==
  ASSUME NEW gs \in Seq(Groups), gs # <<>>
  PROVE  SumFunction(Heaps(gs)) = HeapBytes(Head(gs)) + SumFunction(Heaps(Tail(gs)))
<1> DEFINE hs == Tail(gs)
           n == Len(gs) - 1
<1>1. hs \in Seq(Groups) /\ Len(hs) = n /\ n \in Nat /\ Head(gs) = gs[1]
      /\ Len(gs) = n + 1 /\ DOMAIN gs = 1..(n + 1) /\ DOMAIN hs = 1..n
      /\ \A i \in 1..n : hs[i] = gs[i + 1]
  OBVIOUS
<1>a. hs = Tail(gs)
  OBVIOUS
<1> HIDE DEF n, hs
<1>2. /\ \A i \in 1..(n + 1) : HeapBytes(gs[i]) \in Nat
      /\ SumFunction(Heaps(gs)) = SumFunctionOnSet(Heaps(gs), 1..(n + 1))
  BY <1>1, HeapOf
<1>3. SumFunction(Heaps(hs)) = SumFunctionOnSet(Heaps(hs), 1..n)
  BY <1>1, HeapOf
<1>4. /\ \A i \in 1..(n + 1) : Heaps(gs)[i] = HeapBytes(gs[i])
      /\ \A i \in 1..n : Heaps(hs)[i] = HeapBytes(hs[i])
  BY <1>1 DEF Heaps
<1>5. \A i \in 1..n : i + 1 \in 1..(n + 1)
  BY <1>1
<1>6. \A i \in 1..n : Heaps(hs)[i] = Heaps(gs)[i + 1]
  BY <1>1, <1>4, <1>5
<1>7. \A i \in 1..(n + 1) : Heaps(gs)[i] \in Nat
  BY <1>2, <1>4
<1>8. SumFunctionOnSet(Heaps(gs), 1..(n + 1)) = Heaps(gs)[1] + SumFunctionOnSet(Heaps(hs), 1..n)
  BY <1>1, <1>6, <1>7, SumFirst
<1>9. Heaps(gs)[1] = HeapBytes(Head(gs))
  BY <1>1, <1>4
<1> QED
  BY <1>a, <1>2, <1>3, <1>8, <1>9

(* Bytes do not depend on how far a group is written.                      *)
LEMMA HeapSame ==
  ASSUME NEW gs \in Seq(Groups), NEW hs \in Seq(Groups), Len(gs) = Len(hs),
         \A i \in DOMAIN gs : gs[i].kind = hs[i].kind /\ gs[i].spans = hs[i].spans
  PROVE  SumFunction(Heaps(gs)) = SumFunction(Heaps(hs))
<1>1. DOMAIN gs = DOMAIN hs /\ IsFiniteSet(DOMAIN gs)
  BY HeapOf
<1>2. \A i \in DOMAIN gs : Heaps(gs)[i] = Heaps(hs)[i]
  BY <1>1 DEF Heaps, HeapBytes
<1>3. SumFunctionOnSet(Heaps(gs), DOMAIN gs) = SumFunctionOnSet(Heaps(hs), DOMAIN gs)
  BY <1>1, <1>2, SumSame
<1> QED
  BY <1>1, <1>3 DEF SumFunction, Heaps

(* The batches in a queue after a group is queued.                         *)
LEMMA BatchesAppend ==
  ASSUME NEW gs \in Seq(Groups), NEW g \in Groups
  PROVE  /\ Cardinality(BatchesOf(gs)) \in Nat
         /\ Cardinality(BatchesOf(Append(gs, g)))
              = Cardinality(BatchesOf(gs)) + (IF g.kind = "batch" THEN 1 ELSE 0)
<1> DEFINE n == Len(gs)
<1>1. IsFiniteSet(BatchesOf(gs)) /\ n + 1 \notin BatchesOf(gs)
  <2>1. BatchesOf(gs) \subseteq 1..n /\ n \in Nat
    BY DEF BatchesOf
  <2>2. IsFiniteSet(1..n) /\ n + 1 \notin 1..n
    BY <2>1, Upto
  <2> QED
    BY <2>1, <2>2, FS_Subset
<1>2. BatchesOf(Append(gs, g))
        = IF g.kind = "batch" THEN BatchesOf(gs) \cup {n + 1} ELSE BatchesOf(gs)
  BY DEF BatchesOf
<1>3. /\ Cardinality(BatchesOf(gs)) \in Nat
      /\ Cardinality(BatchesOf(gs) \cup {n + 1}) = Cardinality(BatchesOf(gs)) + 1
  BY <1>1, CountOne
<1> QED
  BY <1>2, <1>3

(* The batches in a queue after its front group is completed.              *)
LEMMA BatchesTail ==
  ASSUME NEW gs \in Seq(Groups), gs # <<>>
  PROVE  /\ Cardinality(BatchesOf(Tail(gs))) \in Nat
         /\ Cardinality(BatchesOf(gs))
              = Cardinality(BatchesOf(Tail(gs))) + (IF Head(gs).kind = "batch" THEN 1 ELSE 0)
<1> DEFINE hs == Tail(gs)
           A == BatchesOf(gs) \ {1}
           B == BatchesOf(hs)
           f == [i \in B |-> i + 1]
<1>1. hs \in Seq(Groups) /\ Len(hs) = Len(gs) - 1 /\ Head(gs) = gs[1]
      /\ \A i \in 1..(Len(gs) - 1) : hs[i] = gs[i + 1]
  OBVIOUS
<1>2. IsFiniteSet(BatchesOf(gs)) /\ IsFiniteSet(B) /\ Cardinality(B) \in Nat
  <2>1. BatchesOf(gs) \subseteq 1..Len(gs) /\ Len(gs) \in Nat
    BY DEF BatchesOf
  <2>2. B \subseteq 1..Len(hs) /\ Len(hs) \in Nat
    BY <1>1 DEF BatchesOf
  <2>3. IsFiniteSet(1..Len(gs)) /\ IsFiniteSet(1..Len(hs))
    BY <2>1, <2>2, Upto
  <2>4. IsFiniteSet(BatchesOf(gs)) /\ IsFiniteSet(B)
    BY <2>1, <2>2, <2>3, FS_Subset
  <2> QED
    BY <2>4, FS_CardinalityType
<1>3. f \in Bijection(B, A)
  <2>1. \A i \in B : f[i] \in A
    BY <1>1 DEF BatchesOf
  <2>2. \A j \in A : j - 1 \in B /\ f[j - 1] = j
    BY <1>1 DEF BatchesOf
  <2>3. \A i, j \in B : f[i] = f[j] => i = j
    BY <1>1 DEF BatchesOf
  <2> QED
    BY <2>1, <2>2, <2>3 DEF Bijection, Injection, Surjection, IsInjective
<1>4. Cardinality(B) = Cardinality(A)
  <2>1. ExistsBijection(B, A)
    BY <1>3 DEF ExistsBijection
  <2> HIDE DEF A, B
  <2> QED
    BY <1>2, <2>1, FS_Bijection
<1>5. 1 \in BatchesOf(gs) <=> Head(gs).kind = "batch"
  BY <1>1 DEF BatchesOf
<1>6. /\ Cardinality(BatchesOf(gs)) \in Nat
      /\ Cardinality(A) = Cardinality(BatchesOf(gs)) - (IF 1 \in BatchesOf(gs) THEN 1 ELSE 0)
  BY <1>2, CountOne
<1>7. B = BatchesOf(Tail(gs))
  OBVIOUS
<1> HIDE DEF A, B
<1> QED
  BY <1>2, <1>4, <1>5, <1>6, <1>7

(* A batch names just the candidates that were ready.                      *)
LEMMA SpansOfReady ==
  ASSUME NEW ready \in SUBSET Positions, NEW c, NEW q \in InOrder(ready, c)
  PROVE  q \in Seq(Positions) /\ ToSet(q) = ready
<1> DEFINE n == Cardinality(ready)
<1>1. IsFiniteSet(ready) /\ n \in Nat
  BY SenderAssumption, FS_Subset, FS_CardinalityType
<1>2. q \in [1..n -> ready] /\ \A i, j \in 1..n : i # j => q[i] # q[j]
  BY DEF InOrder, SetToSeqs
<1>3. q \in Seq(ready)
  BY <1>1, <1>2
<1>4. ASSUME NEW x \in ready, x \notin ToSet(q) PROVE FALSE
  <2> DEFINE T == ready \ {x}
  <2>1. IsFiniteSet(T) /\ Cardinality(T) = n - 1
    BY <1>1, CountOne, FS_Subset
  <2>2. q \in [1..n -> T]
    BY <1>2, <1>4 DEF ToSet
  <2>3. IsFiniteSet(1..n) /\ Cardinality(1..n) = n
    BY <1>1, FS_Interval
  <2>4. \E i, j \in 1..n : i # j /\ q[i] = q[j]
    BY <1>1, <2>1, <2>2, <2>3, FS_PigeonHole
  <2> QED
    BY <1>2, <2>4
<1> QED
  BY <1>2, <1>3, <1>4 DEF ToSet

(* Rates stay in their limits, whatever a client asks for.                 *)
LEMMA ClampedRate ==
  ASSUME NEW rate \in Requests PROVE Clamped(rate) \in MinRate..MaxRate
<1>1. CASE rate = NaN
  BY <1>1, SenderAssumption DEF Clamped
<1>2. CASE rate # NaN
  <2>1. rate \in Int /\ MinRate \in Int /\ MaxRate \in Int /\ MinRate <= MaxRate
    BY <1>2, SenderAssumption
  <2>2. Min({rate, MaxRate}) = IF rate <= MaxRate THEN rate ELSE MaxRate
    BY <2>1, MaxMin
  <2>3. Min({rate, MaxRate}) \in Int
    BY <2>1, <2>2
  <2>4. Max({MinRate, Min({rate, MaxRate})})
          = IF MinRate >= Min({rate, MaxRate}) THEN MinRate ELSE Min({rate, MaxRate})
    BY <2>1, <2>3, MaxMin
  <2> QED
    BY <1>2, <2>1, <2>2, <2>4 DEF Clamped
<1> QED
  BY <1>1, <1>2

(* Fewer chunks cost no more.                                              *)
LEMMA CostGrows ==
  ASSUME NEW k \in Nat, NEW n \in Nat, k <= n
  PROVE  k * One \in Nat /\ n * One \in Nat /\ k * One <= n * One
<1>1. One \in Nat
  BY SenderAssumption
<1> QED
  BY <1>1

(* The whole chunks in a quota cost no more than it.                       *)
LEMMA WholeChunks ==
  ASSUME NEW q \in Nat, NEW k \in Nat, k <= q \div One
  PROVE  k * One <= q
<1>1. One \in Nat \ {0}
  BY SenderAssumption
<1>2. (q \div One) \in Nat /\ (q \div One) * One <= q
  BY <1>1
<1>3. k * One <= (q \div One) * One
  BY <1>1, <1>2
<1> QED
  BY <1>1, <1>2, <1>3

(* Candidates are pending, and a remote client's quota pays for all of     *)
(* them.                                                                   *)
LEMMA CandidatesSound ==
  ASSUME TypeOK, NEW q \in Int, NEW dist, NEW c \in Candidates(q, dist),
         ~Memory => q >= 0
  PROVE  /\ c \in Seq(Positions)
         /\ ToSet(c) \subseteq pending
         /\ ~Memory => Len(c) * One <= q
<1>1. IsFiniteSet(pending) /\ pending \subseteq Positions /\ One \in Nat \ {0}
  BY SenderAssumption, FS_Subset DEF TypeOK
<1>2. ASSUME NEW T \in SUBSET pending, c \in Sorted(T, dist)
      PROVE  /\ c \in Seq(Positions) /\ ToSet(c) \subseteq pending
             /\ Len(c) = Cardinality(T) /\ Cardinality(T) \in Nat
  <2>1. Cardinality(T) \in Nat
    BY <1>1, FS_Subset, FS_CardinalityType
  <2>2. c \in [1..Cardinality(T) -> T]
    BY <1>2 DEF Sorted, SetToSeqs
  <2>3. c \in Seq(T) /\ Len(c) = Cardinality(T)
    BY <2>1, <2>2
  <2> QED
    BY <1>1, <2>1, <2>3 DEF ToSet
<1>3. CASE q < One
  <2>1. c = <<>>
    BY <1>3 DEF Candidates
  <2> QED
    BY <1>1, <2>1 DEF ToSet
<1>4. CASE ~(q < One) /\ ~Memory /\ Cardinality(pending) > q \div One
  <2>1. PICK T \in Nearest(pending, q \div One, dist) : c \in Sorted(T, dist)
    BY <1>4 DEF Candidates
  <2>2. T \in SUBSET pending /\ Cardinality(T) = q \div One
    BY <2>1 DEF Nearest, kSubset
  <2>3. q \in Nat
    BY <1>1, <1>4
  <2>4. Len(c) \in Nat /\ Len(c) <= q \div One
    BY <1>2, <2>1, <2>2
  <2> QED
    BY <1>2, <2>1, <2>2, <2>3, <2>4, WholeChunks
<1>5. CASE ~(q < One) /\ ~(~Memory /\ Cardinality(pending) > q \div One)
  <2>1. c \in Sorted(pending, dist)
    BY <1>5 DEF Candidates
  <2>2. q \in Nat /\ q \div One \in Nat
    BY <1>1, <1>5
  <2>3. /\ c \in Seq(Positions) /\ ToSet(c) \subseteq pending
        /\ Len(c) = Cardinality(pending) /\ Cardinality(pending) \in Nat
    BY <1>2, <2>1
  <2>4. ~Memory => Len(c) <= q \div One
    BY <1>5, <2>2, <2>3
  <2> QED
    BY <2>2, <2>3, <2>4, WholeChunks
<1> QED
  BY <1>3, <1>4, <1>5

(* A tick never pays out more than one tick's worth, or one chunk.         *)
LEMMA AccrueBound ==
  ASSUME TypeOK, quota <= MaxRate
  PROVE  /\ Accrue(quota) \in Int /\ Accrue(quota) <= MaxRate
         /\ quota >= 0 => Accrue(quota) >= 0
<1>1. /\ quota \in Int /\ desired \in Nat /\ desired <= MaxRate /\ One \in Nat
      /\ One <= MaxRate /\ MaxRate \in Nat
  BY SenderAssumption DEF TypeOK
<1>2. Max({desired, One}) = IF desired >= One THEN desired ELSE One
  BY <1>1, MaxMin
<1> DEFINE m == Max({desired, One})
           a == quota + desired
<1>3. m \in Nat /\ m <= MaxRate /\ a \in Int
  BY <1>1, <1>2
<1>4. Accrue(quota) = Min({a, m})
  BY DEF Accrue
<1> HIDE DEF m, a
<1>5. Min({a, m}) = IF a <= m THEN a ELSE m
  BY <1>3, MaxMin
<1> QED
  BY <1>1, <1>3, <1>4, <1>5 DEF a

(* No more ready chunks than candidates.                                   *)
LEMMA ReadyBound ==
  ASSUME NEW c \in Seq(Positions), NEW ready \in SUBSET ToSet(c)
  PROVE  Cardinality(ready) \in Nat /\ Cardinality(ready) <= Len(c)
<1>1. c \in Surjection(1..Len(c), ToSet(c)) /\ Len(c) \in Nat
  BY DEF Surjection, ToSet
<1>2. IsFiniteSet(1..Len(c)) /\ Cardinality(1..Len(c)) = Len(c)
  <2>1. IsFiniteSet(1..Len(c)) /\ Cardinality(1..Len(c)) = IF 1 > Len(c) THEN 0 ELSE Len(c) - 1 + 1
    BY <1>1, FS_Interval
  <2> QED
    BY <1>1, <2>1
<1>3. IsFiniteSet(ToSet(c)) /\ Cardinality(ToSet(c)) <= Cardinality(1..Len(c))
  BY <1>1, <1>2, FS_Surjection
<1>4. IsFiniteSet(ready) /\ Cardinality(ready) <= Cardinality(ToSet(c))
  BY <1>3, FS_Subset
<1>5. Cardinality(ready) \in Nat /\ Cardinality(ToSet(c)) \in Nat
  BY <1>3, <1>4, FS_CardinalityType
<1> QED
  BY <1>1, <1>2, <1>3, <1>4, <1>5

-----------------------------------------------------------------------------
(* The steps. DeliveryBounded is taken apart into the type invariant, flow *)
(* control and the bytes.                                                  *)

BytesExact == used = SumFunction(Heaps(groups))

(* The parts of the invariant.                                             *)
LEMMA Parts ==
  /\ SenderInv <=> /\ TypeOK /\ FlowControl /\ BytesExact /\ ClientConverges
                   /\ pending \subseteq view /\ PlanSound /\ QueueSound
  /\ SenderInv' <=> /\ TypeOK' /\ FlowControl' /\ BytesExact' /\ ClientConverges'
                    /\ (pending \subseteq view)' /\ PlanSound' /\ QueueSound'
BY DEF SenderInv, DeliveryBounded, DeliveryBytesExact, BytesExact, Heaps

(* What a step that leaves queue and client alone cannot disturb.          *)
LEMMA QueueAlone ==
  ASSUME SenderInv, UNCHANGED <<groups, used, closed, loaded>>
  PROVE  /\ BytesExact' /\ QueueSound' /\ Batches' = Batches
         /\ \A p : FinallyLoaded(p)' <=> FinallyLoaded(p)
<1>1. BytesExact /\ QueueSound
  BY Parts
<1>2. BytesExact'
  BY <1>1 DEF BytesExact, Heaps, HeapBytes, SizeOf
<1>3. QueueSound'
  BY <1>1 DEF QueueSound
<1>4. Batches' = Batches /\ \A p : FinallyLoaded(p)' <=> FinallyLoaded(p)
  BY DEF Batches, FinallyLoaded, Names
<1> QED
  BY <1>2, <1>3, <1>4

(* The number of queued batches is a natural number.                       *)
LEMMA OutstandingNat ==
  ASSUME TypeOK
  PROVE  Cardinality(Batches) \in Nat /\ Outstanding \in Nat /\ Batches = BatchesOf(groups)
<1>1. groups \in Seq(Groups) /\ acks \in Nat /\ Batches = BatchesOf(groups)
  BY DEF TypeOK, Batches, BatchesOf
<1>2. IsFiniteSet(BatchesOf(groups))
  <2>1. BatchesOf(groups) \subseteq 1..Len(groups) /\ Len(groups) \in Nat
    BY <1>1 DEF BatchesOf
  <2> QED
    BY <2>1, Upto, FS_Subset
<1>3. Cardinality(BatchesOf(groups)) \in Nat
  BY <1>2, FS_CardinalityType
<1> QED
  BY <1>1, <1>3 DEF Outstanding

(* A position enters the view.                                             *)
LEMMA MarkStep ==
  ASSUME SenderInv, NEW p \in Positions, mark_pending(p)
  PROVE  SenderInv'
<1>1. /\ TypeOK /\ FlowControl /\ ClientConverges /\ pending \subseteq view /\ PlanSound
  BY Parts
<1>2. /\ plan = None /\ p \notin view /\ p \notin pending /\ Cardinality(pending) # MaxPending
      /\ pending' = pending \cup {p} /\ view' = view \cup {p}
      /\ UNCHANGED <<desired, quota, unacked, window, ticked, plan, groups, used, closed,
                     stale, loaded, acks, strays>>
  BY DEF mark_pending, delivery, client
<1>3. /\ BytesExact' /\ QueueSound' /\ Batches' = Batches
      /\ \A x : FinallyLoaded(x)' <=> FinallyLoaded(x)
  BY <1>2, QueueAlone
<1>4. TypeOK'
  <2>1. IsFiniteSet(pending) /\ MaxPending \in Nat
    BY <1>1, SenderAssumption, FS_Subset DEF TypeOK
  <2>2. Cardinality(pending \cup {p}) = Cardinality(pending) + 1 /\ Cardinality(pending) \in Nat
    BY <1>2, <2>1, CountOne
  <2>3. Cardinality(pending') <= MaxPending
    BY <1>1, <1>2, <2>1, <2>2 DEF TypeOK
  <2> QED
    BY <1>1, <1>2, <2>3 DEF TypeOK
<1>5. FlowControl'
  BY <1>1, <1>2, <1>3 DEF FlowControl, Outstanding
<1>6. ClientConverges'
  BY <1>1, <1>2, <1>3 DEF ClientConverges
<1>7. (pending \subseteq view)' /\ PlanSound'
  BY <1>1, <1>2 DEF PlanSound
<1> QED
  BY <1>3, <1>4, <1>5, <1>6, <1>7, Parts

(* A group queued last decides what becomes of the positions it names, and *)
(* changes nothing for the others.                                         *)
LEMMA AppendNames ==
  ASSUME groups \in Seq(Groups), NEW g \in Groups, groups' = Append(groups, g),
         loaded' = loaded, NEW x
  PROVE  FinallyLoaded(x)' <=> IF Names(g, x) THEN g.kind = "batch" ELSE FinallyLoaded(x)
<1>1. /\ DOMAIN groups = 1..Len(groups) /\ DOMAIN groups' = 1..(Len(groups) + 1)
      /\ Len(groups) \in Nat /\ groups'[Len(groups) + 1] = g
      /\ \A i \in DOMAIN groups : groups'[i] = groups[i]
  OBVIOUS
<1>2. FinallyLoaded(x)' <=>
        \/ x \in loaded /\ \A i \in 1..(Len(groups) + 1) : ~Names(groups'[i], x)
        \/ \E i \in 1..(Len(groups) + 1) :
             /\ Names(groups'[i], x) /\ groups'[i].kind = "batch"
             /\ \A j \in 1..(Len(groups) + 1) : j > i => ~Names(groups'[j], x)
  BY <1>1 DEF FinallyLoaded, Names
<1>3. FinallyLoaded(x) <=>
        \/ x \in loaded /\ \A i \in 1..Len(groups) : ~Names(groups[i], x)
        \/ \E i \in 1..Len(groups) :
             /\ Names(groups[i], x) /\ groups[i].kind = "batch"
             /\ \A j \in 1..Len(groups) : j > i => ~Names(groups[j], x)
  BY <1>1 DEF FinallyLoaded
<1>4. \A i \in 1..Len(groups) : Names(groups'[i], x) = Names(groups[i], x)
        /\ groups'[i].kind = groups[i].kind
  BY <1>1
<1>5. CASE Names(g, x)
  BY <1>1, <1>2, <1>5
<1>6. CASE ~Names(g, x)
  BY <1>1, <1>2, <1>3, <1>4, <1>6
<1> QED
  BY <1>5, <1>6

(* What a group queued last leaves intact in the queue.                    *)
LEMMA AppendSound ==
  ASSUME SenderInv, NEW g \in Groups, g.cursor = 0, g.kind = "forget" => Len(g.spans) = 1,
         groups' = Append(groups, g), loaded' = loaded, closed' = closed, ~closed
  PROVE  QueueSound'
<1>1. QueueSound /\ groups \in Seq(Groups)
  BY Parts DEF TypeOK
<1>2. /\ DOMAIN groups = 1..Len(groups) /\ DOMAIN groups' = 1..(Len(groups) + 1)
      /\ Len(groups) \in Nat /\ groups'[Len(groups) + 1] = g
      /\ \A i \in DOMAIN groups : groups'[i] = groups[i]
  BY <1>1
<1>3. Len(g.spans) \in Nat /\ DOMAIN g.spans = 1..Len(g.spans)
  BY DEF Groups
<1> DEFINE Good(h, i, l) ==
         /\ i > 1 => h.cursor = 0
         /\ h.cursor <= Len(h.spans) + 1
         /\ h.kind = "forget" => Len(h.spans) = 1
         /\ \A k \in DOMAIN h.spans : h.kind = "batch" /\ k < h.cursor => h.spans[k] \in l
<1>4. \A i \in DOMAIN groups : Good(groups[i], i, loaded)
  BY <1>1 DEF QueueSound
<1>5. Good(g, Len(groups) + 1, loaded)
  BY <1>3
<1>6. \A i \in DOMAIN groups' : Good(groups'[i], i, loaded)
  <2> HIDE DEF Good
  <2> QED
    BY <1>2, <1>4, <1>5
<1> QED
  BY <1>6 DEF QueueSound

(* A position leaves the view: it was still pending, the player is not     *)
(* alive, or a Forget is queued.                                           *)
LEMMA DropStep ==
  ASSUME SenderInv, NEW p \in Positions, NEW alive \in BOOLEAN, drop_chunk(p, alive)
  PROVE  SenderInv'
<1>1. /\ TypeOK /\ FlowControl /\ ClientConverges /\ pending \subseteq view /\ PlanSound
      /\ BytesExact /\ QueueSound
  BY Parts
<1>2. /\ plan = None /\ view' = view \ {p}
      /\ UNCHANGED <<desired, quota, unacked, window, ticked, plan, used, closed,
                     loaded, acks, strays>>
  BY DEF drop_chunk, client
<1>3. PlanSound'
  BY <1>1, <1>2 DEF PlanSound
<1>4. CASE p \in pending /\ pending' = pending \ {p} /\ UNCHANGED <<groups, stale>>
  <2>1. /\ BytesExact' /\ QueueSound' /\ Batches' = Batches
        /\ \A x : FinallyLoaded(x)' <=> FinallyLoaded(x)
    BY <1>2, <1>4, QueueAlone
  <2>2. TypeOK'
    <3>1. IsFiniteSet(pending) /\ MaxPending \in Nat /\ Cardinality(pending) <= MaxPending
      BY <1>1, SenderAssumption, FS_Subset DEF TypeOK
    <3>2. Cardinality(pending \ {p}) = Cardinality(pending) - 1 /\ Cardinality(pending) \in Nat
      BY <1>4, <3>1, CountOne
    <3>3. Cardinality(pending') <= MaxPending
      BY <1>4, <3>1, <3>2
    <3> QED
      BY <1>1, <1>2, <1>4, <3>3 DEF TypeOK
  <2>3. FlowControl'
    BY <1>1, <1>2, <2>1 DEF FlowControl, Outstanding
  <2>4. ClientConverges'
    BY <1>1, <1>2, <1>4, <2>1 DEF ClientConverges
  <2>5. (pending \subseteq view)'
    BY <1>1, <1>2, <1>4
  <2> QED
    BY <1>3, <2>1, <2>2, <2>3, <2>4, <2>5, Parts
<1>5. CASE /\ p \notin pending /\ stale' = IF p \in view THEN stale \cup {p} ELSE stale
           /\ UNCHANGED <<pending, groups>>
  <2>1. /\ BytesExact' /\ QueueSound' /\ Batches' = Batches
        /\ \A x : FinallyLoaded(x)' <=> FinallyLoaded(x)
    BY <1>2, <1>5, QueueAlone
  <2>2. TypeOK'
    BY <1>1, <1>2, <1>5 DEF TypeOK
  <2>3. FlowControl'
    BY <1>1, <1>2, <2>1 DEF FlowControl, Outstanding
  <2>4. ClientConverges'
    BY <1>1, <1>2, <1>5, <2>1 DEF ClientConverges
  <2>5. (pending \subseteq view)'
    BY <1>1, <1>2, <1>5
  <2> QED
    BY <1>3, <2>1, <2>2, <2>3, <2>4, <2>5, Parts
<1>6. CASE /\ p \notin pending /\ check_group /\ groups' = Append(groups, Forget(p))
           /\ stale' = stale \ {p} /\ UNCHANGED pending
  <2> DEFINE g == Forget(p)
  <2>1. /\ g \in Groups /\ g.kind = "forget" /\ g.cursor = 0 /\ g.spans = <<p>>
        /\ groups \in Seq(Groups) /\ ~closed /\ Len(groups) # MaxGroups
    BY <1>1, <1>6 DEF Forget, Groups, TypeOK, check_group
  <2>2. groups' = Append(groups, g)
    BY <1>6
  <2> HIDE DEF g
  <2>3. QueueSound'
    BY <1>2, <2>1, <2>2, AppendSound
  <2>4. BytesExact'
    <3>1. HeapBytes(g) = 0
      BY <2>1 DEF HeapBytes
    <3>2. SumFunction(Heaps(Append(groups, g))) = SumFunction(Heaps(groups)) + HeapBytes(g)
      BY <2>1, HeapAppend
    <3>3. SumFunction(Heaps(groups)) \in Nat
      BY <2>1, HeapOf
    <3>4. SumFunction(Heaps(groups')) = SumFunction(Heaps(groups))
      BY <2>2, <3>1, <3>2, <3>3
    <3> QED
      BY <1>1, <1>2, <3>4 DEF BytesExact, Heaps, HeapBytes, SizeOf
  <2>5. TypeOK'
    <3>1. groups' \in Seq(Groups) /\ Len(groups') = Len(groups) + 1 /\ Len(groups) \in Nat
      BY <2>1, <2>2
    <3>2. MaxGroups \in Nat /\ Len(groups) <= MaxGroups
      BY <1>1, SenderAssumption DEF TypeOK
    <3>3. Len(groups') <= MaxGroups
      BY <2>1, <3>1, <3>2
    <3> QED
      BY <1>1, <1>2, <1>6, <3>1, <3>3 DEF TypeOK
  <2>6. FlowControl'
    <3>1. Cardinality(BatchesOf(groups')) = Cardinality(BatchesOf(groups))
      <4>1. /\ Cardinality(BatchesOf(groups)) \in Nat
            /\ Cardinality(BatchesOf(Append(groups, g)))
                 = Cardinality(BatchesOf(groups)) + (IF g.kind = "batch" THEN 1 ELSE 0)
        BY <2>1, BatchesAppend
      <4> QED
        BY <2>1, <2>2, <4>1
    <3>2. Outstanding' = Outstanding
      BY <1>2, <3>1 DEF Outstanding, Batches, BatchesOf
    <3> QED
      BY <1>1, <1>2, <3>2 DEF FlowControl
  <2>7. ClientConverges'
    <3>1. \A x : Names(g, x) <=> x = p
      BY <2>1 DEF Names, ToSet
    <3>2. \A x : FinallyLoaded(x)' <=> IF Names(g, x) THEN g.kind = "batch" ELSE FinallyLoaded(x)
      BY <1>2, <2>1, <2>2, AppendNames
    <3>3. \A x : FinallyLoaded(x)' <=> x # p /\ FinallyLoaded(x)
      BY <2>1, <3>1, <3>2
    <3> QED
      BY <1>1, <1>2, <1>6, <2>1, <3>3 DEF ClientConverges
  <2>8. (pending \subseteq view)'
    BY <1>1, <1>2, <1>6
  <2> QED
    BY <1>3, <2>3, <2>4, <2>5, <2>6, <2>7, <2>8, Parts
<1> QED
  BY <1>4, <1>5, <1>6 DEF drop_chunk

(* An answer, to a batch or made up, moves the flow control one batch.     *)
LEMMA SenderAcknowledgeStep ==
  ASSUME SenderInv, NEW rate \in Requests, acknowledge(rate), plan = None,
         UNCHANGED <<pending, ticked, plan, groups, used, closed, view, stale, loaded>>,
         \/ acks > 0 /\ acks' = acks - 1 /\ strays' = strays
         \/ strays < MaxStrays /\ strays' = strays + 1 /\ acks' = acks
  PROVE  SenderInv'
<1>1. /\ TypeOK /\ FlowControl /\ ClientConverges /\ pending \subseteq view /\ PlanSound
  BY Parts
<1>2. /\ BytesExact' /\ QueueSound' /\ Batches' = Batches
      /\ \A x : FinallyLoaded(x)' <=> FinallyLoaded(x)
  BY QueueAlone
<1>3. /\ unacked \in Nat /\ window \in {1, Window} /\ Window \in Nat \ {0} /\ quota \in Int
      /\ acks \in Nat /\ strays \in 0..MaxStrays /\ MaxStrays \in Nat
      /\ One \in Nat /\ MaxRate \in Nat /\ One <= MaxRate
  BY <1>1, SenderAssumption DEF TypeOK
<1>4. unacked' = (IF unacked >= 1 THEN unacked - 1 ELSE 0) /\ unacked' \in Nat
  <2>1. Max({unacked - 1, 0}) = IF unacked - 1 >= 0 THEN unacked - 1 ELSE 0
    BY <1>3, MaxMin
  <2> QED
    BY <1>3, <2>1 DEF acknowledge
<1>5. /\ desired' = Clamped(rate) /\ quota' = (IF unacked' = 0 THEN One ELSE quota)
      /\ window' = Window
  BY DEF acknowledge
<1>6. TypeOK'
  <2>1. desired' \in MinRate..MaxRate
    BY <1>5, ClampedRate
  <2>2. quota' \in Int /\ acks' \in Nat /\ strays' \in 0..MaxStrays
    BY <1>3, <1>5
  <2> QED
    BY <1>1, <1>4, <1>5, <2>1, <2>2 DEF TypeOK
<1>7. FlowControl'
  <2>1. Cardinality(Batches) \in Nat /\ Outstanding \in Nat
    BY <1>1, OutstandingNat
  <2>2. Outstanding = Cardinality(Batches) + acks /\ Outstanding' = Cardinality(Batches) + acks'
    BY <1>2 DEF Outstanding
  <2>3. unacked <= window /\ quota <= MaxRate /\ (~Memory => quota >= 0)
        /\ (~closed => unacked \in (Outstanding - strays)..Outstanding)
    BY <1>1 DEF FlowControl
  <2>4. unacked' <= window' /\ quota' <= MaxRate /\ (~Memory => quota' >= 0)
    BY <1>3, <1>4, <1>5, <2>3
  <2>5. ASSUME ~closed PROVE unacked' \in (Outstanding' - strays')..Outstanding'
    <3>1. unacked >= Outstanding - strays /\ unacked <= Outstanding
      BY <1>3, <2>1, <2>3, <2>5
    <3> QED
      BY <1>3, <1>4, <2>1, <2>2, <3>1
  <2> QED
    BY <2>4, <2>5 DEF FlowControl
<1>8. ClientConverges' /\ PlanSound' /\ (pending \subseteq view)'
  BY <1>1, <1>2 DEF ClientConverges, PlanSound
<1> QED
  BY <1>2, <1>6, <1>7, <1>8, Parts

(* An answer to a batch, or one nobody asked for.                          *)
LEMMA AnswerStep ==
  ASSUME SenderInv, NEW rate \in Requests, AnswerBatch(rate) \/ StrayAnswer(rate)
  PROVE  SenderInv'
<1>1. CASE AnswerBatch(rate)
  BY <1>1, SenderAcknowledgeStep DEF AnswerBatch, delivery, owner
<1>2. CASE StrayAnswer(rate)
  BY <1>2, SenderAcknowledgeStep DEF StrayAnswer, delivery, owner
<1> QED
  BY <1>1, <1>2

(* The quota grows once per tick, and the candidates are fixed.            *)
LEMMA BeginTickStep ==
  ASSUME SenderInv, NEW dist \in Distances, begin_tick(dist)
  PROVE  SenderInv'
<1>1. /\ TypeOK /\ FlowControl /\ ClientConverges /\ pending \subseteq view /\ PlanSound
  BY Parts
<1>2. /\ ticked' = TRUE
      /\ UNCHANGED <<pending, desired, unacked, window, groups, used, closed,
                     view, stale, loaded, acks, strays>>
  BY DEF begin_tick, delivery, owner, client
<1>3. /\ BytesExact' /\ QueueSound' /\ Batches' = Batches
      /\ \A x : FinallyLoaded(x)' <=> FinallyLoaded(x)
  BY <1>2, QueueAlone
<1>4. quota \in Int /\ quota <= MaxRate /\ (~Memory => quota >= 0) /\ One \in Nat \ {0}
  BY <1>1, SenderAssumption DEF TypeOK, FlowControl
<1>5. /\ quota' \in Int /\ quota' <= MaxRate /\ (~Memory => quota' >= 0)
      /\ plan' \in [candidates : Seq(Positions), admitted : BOOLEAN]
      /\ ToSet(plan'.candidates) \subseteq pending
      /\ plan'.candidates # <<>> => unacked < window
      /\ ~Memory => Len(plan'.candidates) * One <= quota'
  <2>1. CASE unacked < window
    <3>1. quota' = Accrue(quota)
      BY <2>1 DEF begin_tick
    <3>2. quota' \in Int /\ quota' <= MaxRate /\ (~Memory => quota' >= 0)
      BY <1>1, <1>4, <3>1, AccrueBound
    <3>3. PICK c \in Candidates(quota', dist) : plan' = [candidates |-> c, admitted |-> FALSE]
      BY <2>1 DEF begin_tick
    <3> DEFINE q == quota'
    <3>4. q \in Int /\ c \in Candidates(q, dist) /\ (~Memory => q >= 0)
      BY <3>2, <3>3
    <3> HIDE DEF q
    <3>5. c \in Seq(Positions) /\ ToSet(c) \subseteq pending /\ (~Memory => Len(c) * One <= q)
      BY <1>1, <3>4, CandidatesSound
    <3> QED
      BY <2>1, <3>2, <3>3, <3>5 DEF q
  <2>2. CASE ~(unacked < window)
    <3>1. plan' = [candidates |-> <<>>, admitted |-> FALSE] /\ quota' = quota
      BY <2>2 DEF begin_tick
    <3>2. plan'.candidates = <<>> /\ Len(<<>>) * One = 0 /\ ToSet(<<>>) = {}
      BY <1>4, <3>1 DEF ToSet
    <3> QED
      BY <1>4, <3>1, <3>2
  <2> QED
    BY <2>1, <2>2
<1>6. TypeOK'
  BY <1>1, <1>2, <1>5 DEF TypeOK
<1>7. FlowControl'
  BY <1>1, <1>2, <1>3, <1>5 DEF FlowControl, Outstanding
<1>8. PlanSound'
  BY <1>2, <1>5 DEF PlanSound
<1>9. ClientConverges' /\ (pending \subseteq view)'
  BY <1>1, <1>2, <1>3 DEF ClientConverges
<1> QED
  BY <1>3, <1>6, <1>7, <1>8, <1>9, Parts

(* The ready candidates become one batch. That they are still pending, and *)
(* that window and quota still have room, is what PlanSound kept from      *)
(* begin_tick.                                                             *)
LEMMA AdmitStep ==
  ASSUME SenderInv, NEW ready \in SUBSET PlanPositions, try_admit(ready)
  PROVE  SenderInv'
<1>1. /\ TypeOK /\ FlowControl /\ ClientConverges /\ pending \subseteq view /\ PlanSound
      /\ BytesExact
  BY Parts
<1>2. /\ plan # None /\ ~plan.admitted /\ ready # {} /\ ~closed /\ Len(groups) # MaxGroups
      /\ pending' = pending \ ready /\ unacked' = unacked + 1
      /\ quota' = quota - Cardinality(ready) * One
      /\ plan' = [plan EXCEPT !.admitted = TRUE]
      /\ UNCHANGED <<desired, window, ticked, closed, view, stale, loaded, acks, strays>>
  BY DEF try_admit, check_group, owner, client
<1>3. PICK spans \in InOrder(ready, plan.candidates) :
        /\ SizeOf(spans) <= MaxBytes - used
        /\ groups' = Append(groups, Batch(spans))
        /\ used' = used + SizeOf(spans)
  BY DEF try_admit
<1>4. /\ plan \in [candidates : Seq(Positions), admitted : BOOLEAN]
      /\ ToSet(plan.candidates) \subseteq pending
      /\ plan.candidates # <<>> => unacked < window
      /\ ~Memory => Len(plan.candidates) * One <= quota
  BY <1>1, <1>2 DEF PlanSound
<1>5. ready \subseteq ToSet(plan.candidates) /\ ready \subseteq pending /\ pending \subseteq Positions
  BY <1>1, <1>2, <1>4 DEF PlanPositions, TypeOK
<1>6. spans \in Seq(Positions) /\ ToSet(spans) = ready
  <2>1. ready \in SUBSET Positions
    BY <1>5
  <2> QED
    BY <2>1, SpansOfReady
<1> DEFINE g == Batch(spans)
<1>7. /\ g \in Groups /\ g.kind = "batch" /\ g.cursor = 0 /\ g.spans = spans
      /\ groups \in Seq(Groups) /\ groups' = Append(groups, g)
  BY <1>1, <1>3, <1>6 DEF Batch, Groups, TypeOK
<1> HIDE DEF g
<1>8. SizeOf(spans) \in Nat /\ HeapBytes(g) = SizeOf(spans)
  BY <1>6, <1>7, BytesNat DEF HeapBytes
<1>9. /\ Cardinality(ready) \in Nat /\ Cardinality(ready) <= Len(plan.candidates)
      /\ Len(plan.candidates) \in Nat /\ plan.candidates # <<>>
  <2>1. plan.candidates \in Seq(Positions)
    BY <1>4
  <2>2. Cardinality(ready) \in Nat /\ Cardinality(ready) <= Len(plan.candidates)
    BY <1>5, <2>1, ReadyBound
  <2>3. plan.candidates # <<>>
    BY <1>2, <1>5 DEF ToSet
  <2> QED
    BY <2>1, <2>2, <2>3
<1>10. Cardinality(ready) * One \in Nat /\ Cardinality(ready) * One <= Len(plan.candidates) * One
       /\ Len(plan.candidates) * One \in Nat
  <2> DEFINE n == Len(plan.candidates)
             k == Cardinality(ready)
  <2>1. n \in Nat /\ k \in Nat /\ k <= n
    BY <1>9
  <2> HIDE DEF n, k
  <2>2. k * One \in Nat /\ n * One \in Nat /\ k * One <= n * One
    BY <2>1, CostGrows
  <2> QED
    BY <2>2 DEF n, k
<1>11. QueueSound'
  BY <1>2, <1>7, AppendSound
<1>12. BytesExact'
  <2>1. SumFunction(Heaps(Append(groups, g))) = SumFunction(Heaps(groups)) + HeapBytes(g)
    BY <1>7, HeapAppend
  <2>2. SumFunction(Heaps(groups')) = used + SizeOf(spans)
    BY <1>1, <1>7, <1>8, <2>1 DEF BytesExact
  <2> QED
    BY <1>3, <2>2 DEF BytesExact, Heaps, HeapBytes, SizeOf
<1>13. TypeOK'
  <2>1. groups' \in Seq(Groups) /\ Len(groups') <= MaxGroups
    <3>1. groups' \in Seq(Groups) /\ Len(groups') = Len(groups) + 1 /\ Len(groups) \in Nat
      BY <1>7
    <3>2. MaxGroups \in Nat /\ Len(groups) <= MaxGroups
      BY <1>1, SenderAssumption DEF TypeOK
    <3> QED
      BY <1>2, <3>1, <3>2
  <2>2. used' \in 0..MaxBytes /\ quota' \in Int /\ unacked' \in Nat
    <3>1. used \in 0..MaxBytes /\ MaxBytes \in Nat /\ quota \in Int /\ unacked \in Nat
      BY <1>1, SenderAssumption DEF TypeOK
    <3> QED
      BY <1>2, <1>3, <1>8, <1>10, <3>1
  <2>3. pending' \in SUBSET Positions /\ Cardinality(pending') <= MaxPending
    <3>1. IsFiniteSet(pending) /\ MaxPending \in Nat /\ Cardinality(pending) <= MaxPending
          /\ pending' \subseteq pending
      BY <1>1, <1>2, SenderAssumption, FS_Subset DEF TypeOK
    <3>2. Cardinality(pending') <= Cardinality(pending) /\ IsFiniteSet(pending')
      BY <3>1, FS_Subset
    <3>3. Cardinality(pending') \in Nat /\ Cardinality(pending) \in Nat
      BY <3>1, <3>2, FS_CardinalityType
    <3> QED
      BY <1>5, <3>1, <3>2, <3>3
  <2>4. plan'.candidates \in Seq(Positions) /\ plan'.admitted \in BOOLEAN
    BY <1>2, <1>4
  <2> QED
    BY <1>1, <1>2, <2>1, <2>2, <2>3, <2>4 DEF TypeOK
<1>14. FlowControl'
  <2>1. /\ Cardinality(BatchesOf(groups)) \in Nat
        /\ Cardinality(BatchesOf(Append(groups, g)))
             = Cardinality(BatchesOf(groups)) + (IF g.kind = "batch" THEN 1 ELSE 0)
    BY <1>7, BatchesAppend
  <2>2. Cardinality(BatchesOf(groups')) = Cardinality(BatchesOf(groups)) + 1
    BY <1>7, <2>1
  <2>3. /\ Outstanding = Cardinality(BatchesOf(groups)) + acks
        /\ Outstanding' = Cardinality(BatchesOf(groups')) + acks'
    BY DEF Outstanding, Batches, BatchesOf
  <2>4. acks \in Nat /\ strays \in Nat /\ unacked \in Nat /\ window \in Nat /\ quota \in Int
        /\ MaxRate \in Nat
    BY <1>1, SenderAssumption DEF TypeOK
  <2>5. Outstanding \in Nat /\ Outstanding' = Outstanding + 1
    BY <1>2, <2>1, <2>2, <2>3, <2>4
  <2>6. /\ unacked \in (Outstanding - strays)..Outstanding
        /\ quota <= MaxRate
    BY <1>1, <1>2 DEF FlowControl
  <2>7. unacked' \in (Outstanding' - strays')..Outstanding' /\ unacked' <= window'
    BY <1>2, <1>4, <1>9, <2>4, <2>5, <2>6
  <2>8. quota' <= MaxRate /\ (~Memory => quota' >= 0)
    BY <1>2, <1>4, <1>10, <2>4, <2>6
  <2> QED
    BY <2>7, <2>8 DEF FlowControl
<1>15. ClientConverges'
  <2>1. \A x : Names(g, x) <=> x \in ready
    BY <1>6, <1>7 DEF Names
  <2>2. \A x : FinallyLoaded(x)' <=> IF Names(g, x) THEN g.kind = "batch" ELSE FinallyLoaded(x)
    BY <1>2, <1>7, AppendNames
  <2>3. \A x : FinallyLoaded(x)' <=> x \in ready \/ FinallyLoaded(x)
    BY <1>7, <2>1, <2>2
  <2> QED
    BY <1>1, <1>2, <1>5, <2>3 DEF ClientConverges
<1>16. PlanSound' /\ (pending \subseteq view)'
  <2>1. plan' \in [candidates : Seq(Positions), admitted : BOOLEAN] /\ plan'.admitted
    BY <1>2, <1>4
  <2> QED
    BY <1>1, <1>2, <2>1 DEF PlanSound
<1> QED
  BY <1>11, <1>12, <1>13, <1>14, <1>15, <1>16, Parts

(* The end of a plan, and of a tick.                                       *)
LEMMA ClockStep ==
  ASSUME SenderInv, EndPlan \/ NextTick
  PROVE  SenderInv'
<1>1. /\ TypeOK /\ FlowControl /\ ClientConverges /\ pending \subseteq view /\ PlanSound
  BY Parts
<1>2. /\ plan' = None /\ ticked' \in BOOLEAN
      /\ UNCHANGED <<pending, desired, quota, unacked, window, groups, used, closed,
                     view, stale, loaded, acks, strays>>
  BY <1>1 DEF EndPlan, NextTick, TypeOK, sender, delivery, owner, client
<1>3. /\ BytesExact' /\ QueueSound' /\ Batches' = Batches
      /\ \A x : FinallyLoaded(x)' <=> FinallyLoaded(x)
  BY <1>2, QueueAlone
<1>4. TypeOK'
  BY <1>1, <1>2 DEF TypeOK
<1>5. FlowControl'
  BY <1>1, <1>2, <1>3 DEF FlowControl, Outstanding
<1>6. ClientConverges' /\ PlanSound' /\ (pending \subseteq view)'
  BY <1>1, <1>2, <1>3 DEF ClientConverges, PlanSound
<1> QED
  BY <1>3, <1>4, <1>5, <1>6, Parts

(* The connection is given up, and keeps nothing.                          *)
LEMMA FailStep ==
  ASSUME SenderInv, fail
  PROVE  SenderInv'
<1>1. /\ TypeOK /\ FlowControl /\ pending \subseteq view /\ PlanSound
  BY Parts
<1>2. /\ closed' = TRUE /\ groups' = <<>> /\ used' = 0
      /\ UNCHANGED <<pending, desired, quota, unacked, window, ticked, plan,
                     view, stale, loaded, acks, strays>>
  BY DEF fail, sender, owner, client
<1>3. TypeOK'
  BY <1>1, <1>2, SenderAssumption DEF TypeOK
<1>4. FlowControl' /\ ClientConverges' /\ PlanSound' /\ (pending \subseteq view)'
  BY <1>1, <1>2 DEF FlowControl, ClientConverges, PlanSound
<1>5. BytesExact'
  <2>1. SumFunction(Heaps(<<>>)) = 0
    <3>1. DOMAIN Heaps(<<>>) = {}
      BY DEF Heaps
    <3> QED
      BY <3>1, SumEmpty DEF SumFunction
  <2> QED
    BY <1>2, <2>1 DEF BytesExact, Heaps, HeapBytes, SizeOf
<1>6. QueueSound'
  BY <1>2 DEF QueueSound
<1> QED
  BY <1>3, <1>4, <1>5, <1>6, Parts

(* A front group that is completed leaves every position to what the rest  *)
(* of the queue says, or to what the client has by now.                    *)
LEMMA TailNames ==
  ASSUME groups \in Seq(Groups), groups # <<>>, groups' = Tail(groups), NEW x,
         IF Names(groups[1], x) THEN x \in loaded' <=> groups[1].kind = "batch"
                                ELSE x \in loaded' <=> x \in loaded
  PROVE  FinallyLoaded(x)' <=> FinallyLoaded(x)
<1> DEFINE n == Len(groups) - 1
           M(i) == Names(groups[i], x)
           K(i) == groups[i].kind = "batch"
<1>1. /\ n \in Nat /\ DOMAIN groups = 1..(n + 1) /\ DOMAIN groups' = 1..n
      /\ \A i \in 1..n : groups'[i] = groups[i + 1]
  OBVIOUS
<1>2. FinallyLoaded(x)' <=>
        \/ x \in loaded' /\ \A i \in 1..n : ~M(i + 1)
        \/ \E i \in 1..n : /\ M(i + 1) /\ K(i + 1)
                           /\ \A j \in 1..n : j > i => ~M(j + 1)
  <2> DEFINE N(i) == Names(groups'[i], x)
             L(i) == groups'[i].kind = "batch"
  <2>1. FinallyLoaded(x)' <=>
          \/ x \in loaded' /\ \A i \in 1..n : ~N(i)
          \/ \E i \in 1..n : N(i) /\ L(i) /\ \A j \in 1..n : j > i => ~N(j)
    BY <1>1 DEF FinallyLoaded, Names
  <2>2. \A i \in 1..n : (N(i) <=> M(i + 1)) /\ (L(i) <=> K(i + 1))
    BY <1>1
  <2> HIDE DEF N, L, M, K, n
  <2> QED
    BY <2>1, <2>2
<1>3. FinallyLoaded(x) <=>
        \/ x \in loaded /\ \A i \in 1..(n + 1) : ~M(i)
        \/ \E i \in 1..(n + 1) : /\ M(i) /\ K(i)
                                 /\ \A j \in 1..(n + 1) : j > i => ~M(j)
  BY <1>1 DEF FinallyLoaded
<1>4. IF M(1) THEN x \in loaded' <=> K(1) ELSE x \in loaded' <=> x \in loaded
  OBVIOUS
<1> HIDE DEF M, K, n
<1>5. CASE \E i \in 1..n : M(i + 1)
  <2>1. PICK m \in 1..n : M(m + 1)
    BY <1>5
  <2>2. ASSUME FinallyLoaded(x) PROVE FinallyLoaded(x)'
    <3>1. PICK i \in 1..(n + 1) : /\ M(i) /\ K(i)
                                  /\ \A j \in 1..(n + 1) : j > i => ~M(j)
      <4>1. m + 1 \in 1..(n + 1)
        BY <1>1
      <4> QED
        BY <1>3, <2>1, <2>2, <4>1
    <3>2. i >= m + 1
      BY <1>1, <2>1, <3>1
    <3>3. i - 1 \in 1..n /\ (i - 1) + 1 = i
      BY <1>1, <3>2
    <3>4. \A j \in 1..n : j > i - 1 => ~M(j + 1)
      BY <1>1, <3>1, <3>3
    <3> QED
      BY <1>2, <3>1, <3>3, <3>4
  <2>3. ASSUME FinallyLoaded(x)' PROVE FinallyLoaded(x)
    <3>1. PICK i \in 1..n : /\ M(i + 1) /\ K(i + 1)
                            /\ \A j \in 1..n : j > i => ~M(j + 1)
      BY <1>2, <2>1, <2>3
    <3>2. ASSUME NEW j \in 1..(n + 1), j > i + 1 PROVE ~M(j)
      <4>1. j - 1 \in 1..n /\ j - 1 > i /\ (j - 1) + 1 = j
        BY <1>1, <3>2
      <4> QED
        BY <3>1, <4>1
    <3>3. i + 1 \in 1..(n + 1)
      BY <1>1
    <3> QED
      BY <1>3, <3>1, <3>2, <3>3
  <2> QED
    BY <2>2, <2>3
<1>6. CASE \A i \in 1..n : ~M(i + 1)
  <2>1. FinallyLoaded(x)' <=> x \in loaded'
    BY <1>2, <1>6
  <2>2. \A j \in 1..(n + 1) : j # 1 => ~M(j)
    <3>1. ASSUME NEW j \in 1..(n + 1), j # 1 PROVE ~M(j)
      <4>1. j - 1 \in 1..n /\ (j - 1) + 1 = j
        BY <1>1, <3>1
      <4> QED
        BY <1>6, <4>1
    <3> QED
      BY <3>1
  <2>3. 1 \in 1..(n + 1) /\ \A j \in 1..(n + 1) : j > 1 => j # 1
    BY <1>1
  <2>4. FinallyLoaded(x) <=> IF M(1) THEN K(1) ELSE x \in loaded
    BY <1>3, <2>2, <2>3
  <2> QED
    BY <1>4, <2>1, <2>4
<1> QED
  BY <1>5, <1>6

(* What the front packet is, and what writing it does.                     *)
LEMMA Written ==
  ASSUME SenderInv, packet_written
  PROVE  LET g == groups[1] IN
         /\ groups # <<>> /\ ~closed /\ g \in Groups /\ Head(groups) = g
         /\ UNCHANGED <<pending, desired, quota, unacked, window, ticked, plan, closed,
                        view, stale, strays>>
         /\ \/ /\ g.kind = "forget" /\ g.spans \in Seq(Positions) /\ Len(g.spans) = 1
                /\ loaded' = loaded \ {g.spans[1]} /\ acks' = acks
                /\ groups' = Tail(groups) /\ used' = used - HeapBytes(g)
             \/ /\ g.kind = "batch" /\ g.cursor = Len(g.spans) + 1
                /\ loaded' = loaded /\ acks' = acks + 1
                /\ groups' = Tail(groups) /\ used' = used - HeapBytes(g)
             \/ /\ g.kind = "batch" /\ g.cursor \in 0..Len(g.spans)
                /\ loaded' = IF g.cursor = 0 THEN loaded ELSE loaded \cup {g.spans[g.cursor]}
                /\ acks' = acks
                /\ groups' = [groups EXCEPT ![1].cursor = @ + 1] /\ used' = used
<1> DEFINE g == groups[1]
<1>1. TypeOK /\ QueueSound
  BY Parts
<1>2. groups # <<>> /\ ~closed /\ groups \in Seq(Groups)
  BY <1>1 DEF packet_written, TypeOK
<1>3. Head(groups) = g /\ 1 \in DOMAIN groups /\ g \in Groups
  BY <1>2
<1>4. UNCHANGED <<pending, desired, quota, unacked, window, ticked, plan, closed,
                  view, stale, strays>>
  BY DEF packet_written, sender, owner
<1>5. /\ Receive(front_packet, g)
      /\ IF Completed(g)
         THEN groups' = Tail(groups) /\ used' = used - HeapBytes(g)
         ELSE groups' = [groups EXCEPT ![1].cursor = @ + 1] /\ used' = used
  BY <1>3 DEF packet_written
<1>6. /\ g.cursor \in Nat /\ g.spans \in Seq(Positions) /\ g.kind \in {"batch", "forget"}
      /\ g.cursor <= Len(g.spans) + 1 /\ (g.kind = "forget" => Len(g.spans) = 1)
      /\ Len(g.spans) \in Nat /\ DOMAIN g.spans = 1..Len(g.spans)
  BY <1>1, <1>3 DEF Groups, QueueSound
<1>7. front_packet = IF g.kind = "forget" THEN "Forget"
                     ELSE CASE g.cursor = 0 -> "Start"
                            [] g.cursor \in DOMAIN g.spans -> "Data"
                            [] OTHER -> "Finish"
  BY <1>3 DEF front_packet
<1> HIDE DEF g
<1>8. CASE g.kind = "forget"
  <2>1. front_packet = "Forget"
    BY <1>7, <1>8
  <2>2. Completed(g)
    BY <1>8 DEF Completed
  <2>3. loaded' = loaded \ {g.spans[1]} /\ acks' = acks
    BY <1>5, <2>1 DEF Receive
  <2> QED
    BY <1>2, <1>3, <1>4, <1>5, <1>6, <1>8, <2>2, <2>3 DEF g
<1>9. CASE g.kind = "batch" /\ g.cursor = Len(g.spans) + 1
  <2>1. front_packet = "Finish"
    BY <1>6, <1>7, <1>9
  <2>2. Completed(g)
    BY <1>6, <1>9 DEF Completed
  <2>3. loaded' = loaded /\ acks' = acks + 1
    BY <1>5, <2>1 DEF Receive
  <2> QED
    BY <1>2, <1>3, <1>4, <1>5, <1>6, <1>9, <2>2, <2>3 DEF g
<1>10. CASE g.kind = "batch" /\ g.cursor # Len(g.spans) + 1
  <2>1. g.cursor \in 0..Len(g.spans)
    BY <1>6, <1>10
  <2>2. front_packet = IF g.cursor = 0 THEN "Start" ELSE "Data"
    BY <1>6, <1>7, <1>10, <2>1
  <2>3. ~Completed(g)
    BY <1>6, <1>10 DEF Completed
  <2>4. loaded' = (IF g.cursor = 0 THEN loaded ELSE loaded \cup {g.spans[g.cursor]})
        /\ acks' = acks
    BY <1>5, <2>2 DEF Receive
  <2> QED
    BY <1>2, <1>3, <1>4, <1>5, <1>6, <1>10, <2>1, <2>3, <2>4 DEF g
<1> QED
  BY <1>6, <1>8, <1>9, <1>10

(* The queue without its completed front group.                            *)
LEMMA TailSound ==
  ASSUME TypeOK, BytesExact, QueueSound, ~closed, groups # <<>>, closed' = closed,
         groups' = Tail(groups), used' = used - HeapBytes(groups[1])
  PROVE  /\ groups' \in Seq(Groups) /\ Len(groups') <= MaxGroups /\ used' \in 0..MaxBytes
         /\ BytesExact' /\ QueueSound'
         /\ Cardinality(Batches') \in Nat
         /\ Cardinality(Batches)
              = Cardinality(Batches') + (IF groups[1].kind = "batch" THEN 1 ELSE 0)
<1>1. /\ groups \in Seq(Groups) /\ Len(groups) <= MaxGroups /\ MaxGroups \in Nat
      /\ used \in 0..MaxBytes /\ MaxBytes \in Nat
  BY SenderAssumption DEF TypeOK
<1>2. /\ groups' \in Seq(Groups) /\ Len(groups') = Len(groups) - 1 /\ Head(groups) = groups[1]
      /\ 1 \in DOMAIN groups /\ DOMAIN groups' = 1..(Len(groups) - 1)
      /\ DOMAIN groups = 1..Len(groups) /\ Len(groups) \in Nat
      /\ \A i \in DOMAIN groups' : groups'[i] = groups[i + 1]
  BY <1>1
<1>3. /\ SumFunction(Heaps(groups)) = HeapBytes(groups[1]) + SumFunction(Heaps(Tail(groups)))
      /\ HeapBytes(groups[1]) \in Nat
  BY <1>1, <1>2, HeapTail, HeapOf
<1>4. SumFunction(Heaps(groups')) \in Nat
  BY <1>2, HeapOf
<1>5. used' = SumFunction(Heaps(groups'))
  BY <1>1, <1>3, <1>4 DEF BytesExact
<1>6. BytesExact' /\ used' \in 0..MaxBytes
  <2>1. BytesExact'
    BY <1>5 DEF BytesExact, Heaps, HeapBytes, SizeOf
  <2>2. used' \in 0..MaxBytes
    BY <1>1, <1>3, <1>4, <1>5
  <2> QED
    BY <2>1, <2>2
<1>7. QueueSound'
  <2>1. \A i \in DOMAIN groups' : i + 1 \in DOMAIN groups /\ i + 1 > 1
    BY <1>2
  <2>2. ASSUME NEW i \in DOMAIN groups'
        PROVE  /\ groups'[i].cursor = 0
               /\ groups'[i].cursor <= Len(groups'[i].spans) + 1
               /\ groups'[i].kind = "forget" => Len(groups'[i].spans) = 1
               /\ \A k \in DOMAIN groups'[i].spans : ~(k < groups'[i].cursor)
    <3>1. groups'[i] = groups[i + 1] /\ groups'[i] \in Groups
      BY <1>2
    <3>2. DOMAIN groups'[i].spans = 1..Len(groups'[i].spans)
      BY <3>1 DEF Groups
    <3> QED
      BY <2>1, <3>1, <3>2 DEF QueueSound
  <2> QED
    BY <2>2 DEF QueueSound
<1>8. /\ Cardinality(Batches') \in Nat
      /\ Cardinality(Batches)
           = Cardinality(Batches') + (IF groups[1].kind = "batch" THEN 1 ELSE 0)
  <2>1. /\ Cardinality(BatchesOf(Tail(groups))) \in Nat
        /\ Cardinality(BatchesOf(groups))
             = Cardinality(BatchesOf(Tail(groups))) + (IF Head(groups).kind = "batch" THEN 1 ELSE 0)
    BY <1>1, BatchesTail
  <2>2. Batches = BatchesOf(groups) /\ Batches' = BatchesOf(Tail(groups))
    BY DEF Batches, BatchesOf
  <2> QED
    BY <1>2, <2>1, <2>2
<1>9. Len(groups') <= MaxGroups
  BY <1>1, <1>2
<1> QED
  BY <1>2, <1>6, <1>7, <1>8, <1>9

(* A packet reaches the client: a Forget, the Finish of a batch, or its    *)
(* Start or the next of its chunks.                                        *)
LEMMA PacketStep ==
  ASSUME SenderInv, packet_written
  PROVE  SenderInv'
<1> DEFINE g == groups[1]
<1>1. /\ TypeOK /\ FlowControl /\ ClientConverges /\ pending \subseteq view /\ PlanSound
      /\ BytesExact /\ QueueSound
  BY Parts
<1>2. /\ groups # <<>> /\ ~closed /\ g \in Groups
      /\ UNCHANGED <<pending, desired, quota, unacked, window, ticked, plan, closed,
                     view, stale, strays>>
  BY Written
<1>3. /\ groups \in Seq(Groups) /\ acks \in Nat /\ loaded \subseteq Positions
      /\ DOMAIN groups = 1..Len(groups) /\ 1 \in DOMAIN groups
      /\ g.spans \in Seq(Positions) /\ g.cursor \in Nat /\ g.kind \in {"batch", "forget"}
      /\ DOMAIN g.spans = 1..Len(g.spans) /\ Len(g.spans) \in Nat
  BY <1>1, <1>2 DEF TypeOK, Groups
<1>4. Cardinality(Batches) \in Nat
  BY <1>1, OutstandingNat
<1>5. PlanSound' /\ (pending \subseteq view)'
  BY <1>1, <1>2 DEF PlanSound
<1>6. ASSUME \A x \in Positions : FinallyLoaded(x)' <=> FinallyLoaded(x),
             groups' \in Seq(Groups), Len(groups') <= MaxGroups, used' \in 0..MaxBytes,
             loaded' \subseteq Positions, acks' \in Nat, Outstanding' = Outstanding
      PROVE  TypeOK' /\ FlowControl' /\ ClientConverges'
  <2>1. TypeOK'
    BY <1>1, <1>2, <1>6 DEF TypeOK
  <2>2. FlowControl'
    BY <1>1, <1>2, <1>6 DEF FlowControl
  <2>3. ClientConverges'
    BY <1>1, <1>2, <1>6 DEF ClientConverges
  <2> QED
    BY <2>1, <2>2, <2>3
<1>7. CASE /\ g.kind = "forget" /\ Len(g.spans) = 1
           /\ loaded' = loaded \ {g.spans[1]} /\ acks' = acks
           /\ groups' = Tail(groups) /\ used' = used - HeapBytes(g)
  <2>1. /\ groups' \in Seq(Groups) /\ Len(groups') <= MaxGroups /\ used' \in 0..MaxBytes
        /\ BytesExact' /\ QueueSound' /\ Cardinality(Batches') \in Nat
        /\ Cardinality(Batches) = Cardinality(Batches') + (IF g.kind = "batch" THEN 1 ELSE 0)
    BY <1>1, <1>2, <1>7, TailSound
  <2>2. Outstanding' = Outstanding
    BY <1>3, <1>7, <2>1 DEF Outstanding
  <2>3. \A x : Names(g, x) <=> x = g.spans[1]
    BY <1>3, <1>7 DEF Names, ToSet
  <2>4. ASSUME NEW x \in Positions PROVE FinallyLoaded(x)' <=> FinallyLoaded(x)
    <3>1. IF Names(groups[1], x) THEN x \in loaded' <=> groups[1].kind = "batch"
                                 ELSE x \in loaded' <=> x \in loaded
      BY <1>7, <2>3
    <3> QED
      BY <1>2, <1>3, <1>7, <3>1, TailNames
  <2>5. TypeOK' /\ FlowControl' /\ ClientConverges'
    BY <1>3, <1>6, <1>7, <2>1, <2>2, <2>4
  <2> QED
    BY <1>5, <2>1, <2>5, Parts
<1>8. CASE /\ g.kind = "batch" /\ g.cursor = Len(g.spans) + 1
           /\ loaded' = loaded /\ acks' = acks + 1
           /\ groups' = Tail(groups) /\ used' = used - HeapBytes(g)
  <2>1. /\ groups' \in Seq(Groups) /\ Len(groups') <= MaxGroups /\ used' \in 0..MaxBytes
        /\ BytesExact' /\ QueueSound' /\ Cardinality(Batches') \in Nat
        /\ Cardinality(Batches) = Cardinality(Batches') + (IF g.kind = "batch" THEN 1 ELSE 0)
    BY <1>1, <1>2, <1>8, TailSound
  <2>2. Outstanding' = Outstanding
    BY <1>3, <1>8, <2>1 DEF Outstanding
  <2>3. \A x : Names(g, x) => x \in loaded
    <3>1. \A k \in DOMAIN g.spans : k < g.cursor => g.spans[k] \in loaded
      BY <1>1, <1>3, <1>8 DEF QueueSound
    <3>2. \A k \in DOMAIN g.spans : k < g.cursor
      BY <1>3, <1>8
    <3> QED
      BY <3>1, <3>2 DEF Names, ToSet
  <2>4. ASSUME NEW x \in Positions PROVE FinallyLoaded(x)' <=> FinallyLoaded(x)
    <3>1. IF Names(groups[1], x) THEN x \in loaded' <=> groups[1].kind = "batch"
                                 ELSE x \in loaded' <=> x \in loaded
      BY <1>8, <2>3
    <3> QED
      BY <1>2, <1>3, <1>8, <3>1, TailNames
  <2>5. TypeOK' /\ FlowControl' /\ ClientConverges'
    BY <1>3, <1>6, <1>8, <2>1, <2>2, <2>4
  <2> QED
    BY <1>5, <2>1, <2>5, Parts
<1>9. CASE /\ g.kind = "batch" /\ g.cursor \in 0..Len(g.spans)
           /\ loaded' = IF g.cursor = 0 THEN loaded ELSE loaded \cup {g.spans[g.cursor]}
           /\ acks' = acks
           /\ groups' = [groups EXCEPT ![1].cursor = @ + 1] /\ used' = used
  <2>1. /\ groups' \in Seq(Groups) /\ DOMAIN groups' = DOMAIN groups /\ Len(groups') = Len(groups)
        /\ groups'[1] = [g EXCEPT !.cursor = g.cursor + 1]
        /\ \A i \in DOMAIN groups : i # 1 => groups'[i] = groups[i]
    <3> DEFINE h == [g EXCEPT !.cursor = g.cursor + 1]
    <3>1. h \in Groups
      BY <1>2, <1>3 DEF Groups
    <3>2. groups' = [groups EXCEPT ![1] = h]
      BY <1>9
    <3> HIDE DEF h, g
    <3>3. /\ groups' \in Seq(Groups) /\ DOMAIN groups' = DOMAIN groups /\ Len(groups') = Len(groups)
          /\ groups'[1] = h /\ \A i \in DOMAIN groups : i # 1 => groups'[i] = groups[i]
      BY <1>3, <3>1, <3>2
    <3> QED
      BY <3>3 DEF h
  <2>2. groups'[1].kind = g.kind /\ groups'[1].spans = g.spans /\ groups'[1].cursor = g.cursor + 1
    BY <1>2, <2>1 DEF Groups
  <2>3. \A i \in DOMAIN groups : groups'[i].kind = groups[i].kind /\ groups'[i].spans = groups[i].spans
    BY <2>1, <2>2
  <2>4. BytesExact'
    <3>1. SumFunction(Heaps(groups)) = SumFunction(Heaps(groups'))
      BY <1>3, <2>1, <2>3, HeapSame
    <3> QED
      BY <1>1, <1>9, <3>1 DEF BytesExact, Heaps, HeapBytes, SizeOf
  <2>5. Outstanding' = Outstanding
    <3>1. Batches' = Batches
      BY <2>1, <2>3 DEF Batches
    <3> QED
      BY <1>9, <3>1 DEF Outstanding
  <2>6. loaded \subseteq loaded' /\ loaded' \subseteq Positions
    BY <1>3, <1>9
  <2>7. QueueSound'
    <3>1. /\ \A i \in DOMAIN groups' : i > 1 => groups'[i] = groups[i] /\ i # 1
          /\ \A i \in DOMAIN groups' : i = 1 \/ i > 1
      BY <1>3, <2>1
    <3>2. ASSUME NEW i \in DOMAIN groups', i > 1
          PROVE  /\ groups'[i].cursor = 0
                 /\ groups'[i].cursor <= Len(groups'[i].spans) + 1
                 /\ groups'[i].kind = "forget" => Len(groups'[i].spans) = 1
                 /\ \A k \in DOMAIN groups'[i].spans : ~(k < groups'[i].cursor)
      <4>1. groups'[i] = groups[i] /\ groups[i] \in Groups /\ i \in DOMAIN groups
        BY <1>3, <2>1, <3>1, <3>2
      <4>2. DOMAIN groups'[i].spans = 1..Len(groups'[i].spans)
        BY <4>1 DEF Groups
      <4> QED
        BY <1>1, <3>2, <4>1, <4>2 DEF QueueSound
    <3>3. /\ groups'[1].cursor <= Len(groups'[1].spans) + 1
          /\ groups'[1].kind # "forget"
          /\ \A k \in DOMAIN groups'[1].spans :
                k < groups'[1].cursor => groups'[1].spans[k] \in loaded'
      <4>1. \A k \in DOMAIN g.spans : k < g.cursor => g.spans[k] \in loaded
        BY <1>1, <1>3, <1>9 DEF QueueSound
      <4>2. \A k \in DOMAIN g.spans : k < g.cursor + 1 => k < g.cursor \/ k = g.cursor
        BY <1>3
      <4>3. \A k \in DOMAIN g.spans : k = g.cursor => g.spans[k] \in loaded'
        BY <1>3, <1>9
      <4>4. \A k \in DOMAIN g.spans : k < g.cursor + 1 => g.spans[k] \in loaded'
        BY <2>6, <4>1, <4>2, <4>3
      <4>5. g.cursor + 1 <= Len(g.spans) + 1
        BY <1>3, <1>9
      <4> QED
        BY <1>9, <2>2, <4>4, <4>5
    <3> QED
      BY <1>2, <3>1, <3>2, <3>3 DEF QueueSound
  <2>8. ASSUME NEW x \in Positions PROVE FinallyLoaded(x)' <=> FinallyLoaded(x)
    <3>1. \A i \in DOMAIN groups : Names(groups'[i], x) <=> Names(groups[i], x)
      BY <2>3 DEF Names
    <3>2. x \in loaded' => x \in loaded \/ Names(groups[1], x)
      <4>1. g.cursor # 0 => Names(groups[1], g.spans[g.cursor])
        BY <1>3, <1>9 DEF Names, ToSet
      <4> QED
        BY <1>9, <4>1
    <3>3. FinallyLoaded(x)' <=>
            \/ x \in loaded' /\ \A i \in DOMAIN groups' : ~Names(groups'[i], x)
            \/ \E i \in DOMAIN groups' :
                 /\ Names(groups'[i], x) /\ groups'[i].kind = "batch"
                 /\ \A j \in DOMAIN groups' : j > i => ~Names(groups'[j], x)
      BY DEF FinallyLoaded, Names
    <3>4. FinallyLoaded(x)' <=>
            \/ x \in loaded' /\ \A i \in DOMAIN groups : ~Names(groups[i], x)
            \/ \E i \in DOMAIN groups :
                 /\ Names(groups[i], x) /\ groups[i].kind = "batch"
                 /\ \A j \in DOMAIN groups : j > i => ~Names(groups[j], x)
      BY <2>1, <2>3, <3>1, <3>3
    <3> QED
      BY <1>3, <2>6, <3>2, <3>4 DEF FinallyLoaded
  <2>9. TypeOK' /\ FlowControl' /\ ClientConverges'
    <3>1. Len(groups') <= MaxGroups /\ used' \in 0..MaxBytes
      BY <1>1, <1>9, <2>1 DEF TypeOK
    <3> QED
      BY <1>3, <1>6, <1>9, <2>1, <2>5, <2>6, <2>8, <3>1
  <2> QED
    BY <1>5, <2>4, <2>7, <2>9, Parts
<1> HIDE DEF g
<1> QED
  BY <1>7, <1>8, <1>9, Written DEF g

-----------------------------------------------------------------------------
(* The theorems.                                                           *)

(* A new sender with an empty queue.                                       *)
LEMMA SenderInit == Init => SenderInv
<1> SUFFICES ASSUME Init PROVE SenderInv
  OBVIOUS
<1>1. TypeOK
  <2>1. Cardinality({}) = 0
    BY FS_EmptySet
  <2>2. /\ 0 <= MaxPending /\ 0 <= MaxGroups /\ 0 \in 0..MaxBytes /\ 0 \in 0..MaxStrays
        /\ InitialRate \in MinRate..MaxRate
    BY SenderAssumption
  <2>3. <<>> \in Seq(Groups) /\ Len(<<>>) = 0
    OBVIOUS
  <2>4. /\ pending \in SUBSET Positions /\ Cardinality(pending) <= MaxPending
        /\ view \in SUBSET Positions /\ stale \in SUBSET Positions /\ loaded \in SUBSET Positions
    BY <2>1, <2>2 DEF Init
  <2>5. /\ desired \in MinRate..MaxRate /\ quota \in Int /\ unacked \in Nat
        /\ window \in {1, Window} /\ acks \in Nat /\ strays \in 0..MaxStrays
    BY <2>2 DEF Init
  <2>6. groups \in Seq(Groups) /\ Len(groups) <= MaxGroups /\ used \in 0..MaxBytes
    BY <2>2, <2>3 DEF Init
  <2>7. plan = None /\ ticked \in BOOLEAN /\ closed \in BOOLEAN
    BY DEF Init
  <2> QED
    BY <2>4, <2>5, <2>6, <2>7 DEF TypeOK
<1>2. BytesExact
  <2>1. DOMAIN Heaps(<<>>) = {}
    BY DEF Heaps
  <2> QED
    BY <2>1, SumEmpty DEF Init, BytesExact, SumFunction
<1>3. FlowControl
  <2>1. Batches = {}
    BY DEF Init, Batches
  <2>2. Outstanding = 0
    BY <2>1, FS_EmptySet DEF Init, Outstanding
  <2> QED
    BY <2>2, SenderAssumption DEF Init, FlowControl
<1>4. ClientConverges
  BY DEF Init, ClientConverges, FinallyLoaded
<1>5. pending \subseteq view /\ PlanSound /\ QueueSound
  BY DEF Init, PlanSound, QueueSound
<1> QED
  BY <1>1, <1>2, <1>3, <1>4, <1>5, Parts

(* Every step of sender, queue, owner and client keeps the invariant.      *)
LEMMA SenderNext == SenderInv /\ [Next]_vars => SenderInv'
<1> SUFFICES ASSUME SenderInv, [Next]_vars PROVE SenderInv'
  OBVIOUS
<1>1. ASSUME NEW p \in Positions, mark_pending(p) PROVE SenderInv'
  BY <1>1, MarkStep
<1>2. ASSUME NEW p \in Positions, NEW alive \in BOOLEAN, drop_chunk(p, alive) PROVE SenderInv'
  BY <1>2, DropStep
<1>3. ASSUME NEW rate \in Requests, AnswerBatch(rate) \/ StrayAnswer(rate) PROVE SenderInv'
  BY <1>3, AnswerStep
<1>4. ASSUME NEW dist \in Distances, begin_tick(dist) PROVE SenderInv'
  BY <1>4, BeginTickStep
<1>5. ASSUME NEW ready \in SUBSET PlanPositions, try_admit(ready) PROVE SenderInv'
  BY <1>5, AdmitStep
<1>6. CASE EndPlan \/ NextTick
  BY <1>6, ClockStep
<1>7. CASE packet_written
  BY <1>7, PacketStep
<1>8. CASE fail
  BY <1>8, FailStep
<1>9. CASE UNCHANGED vars
  <2>1. /\ TypeOK /\ FlowControl /\ ClientConverges /\ pending \subseteq view /\ PlanSound
    BY Parts
  <2>2. UNCHANGED <<pending, desired, quota, unacked, window, ticked, plan, groups, used,
                    closed, view, stale, loaded, acks, strays>>
    BY <1>9 DEF vars, sender, delivery, owner, client
  <2>3. /\ BytesExact' /\ QueueSound' /\ Batches' = Batches
        /\ \A x : FinallyLoaded(x)' <=> FinallyLoaded(x)
    BY <2>2, QueueAlone
  <2>4. TypeOK'
    BY <2>1, <2>2 DEF TypeOK
  <2>5. FlowControl'
    BY <2>1, <2>2, <2>3 DEF FlowControl, Outstanding
  <2>6. ClientConverges' /\ PlanSound' /\ (pending \subseteq view)'
    BY <2>1, <2>2, <2>3 DEF ClientConverges, PlanSound
  <2> QED
    BY <2>3, <2>4, <2>5, <2>6, Parts
<1> QED
  BY <1>1, <1>2, <1>3, <1>4, <1>5, <1>6, <1>7, <1>8, <1>9 DEF Next

(* The inductive invariant holds for any number of positions, groups,      *)
(* bytes and stray answers.                                                *)
THEOREM SenderInvariant == Spec => []SenderInv
<1> QED
  BY SenderInit, SenderNext, PTL DEF Spec

(* Window, quota and bytes: an admission decided on what begin_tick saw    *)
(* never exceeds what the client allows when it is made, and used_bytes is *)
(* what the queue retains through refusals, completions and failures.      *)
THEOREM SenderBounded == Spec => []DeliveryBounded
<1>1. SenderInv => DeliveryBounded
  BY DEF SenderInv
<1> QED
  BY <1>1, SenderInvariant, PTL

(* Data and Forget of a position reach the client in the order of the      *)
(* owner's decisions, so writing the queue out always leads to the view.   *)
THEOREM SenderConverges == Spec => []ClientConverges
<1>1. SenderInv => ClientConverges
  BY DEF SenderInv
<1> QED
  BY <1>1, SenderInvariant, PTL
=============================================================================
