----------------------------- MODULE LightWorld -----------------------------
(* The immutable terrain a light engine reads (lighting/source.rs) and the *)
(* sky-light entry edges cached from it (lighting/sources.rs).  The world  *)
(* is cut to the plane z = 0: a block is <<x, y>>, a section a Side x Side *)
(* square of blocks, a chunk a column of sections.  A material keeps what  *)
(* the engines read: emission, dampening, and the part of each of its      *)
(* faces that blocks light.                                                *)
EXTENDS Integers, Sequences, FiniteSets

CONSTANTS
  Side,          \* blocks along an edge of a section (16 in the code)
  Chunks,        \* x coordinates of the chunks of the admitted domain
  MinSection,    \* section rows of the dimension
  MaxSection,
  Material,      \* Material[m]: [emission, dampening, shape, faces]
  Halves         \* the parts a face may cover: a full face covers them all

VARIABLES
  mat,           \* mat[p]: material of block p of the source
  edges          \* edges[x]: SkySources.edges, Unknown before the chunk is initialised

worldVars == <<mat, edges>>

Bottom == MinSection * Side
Top == (MaxSection + 1) * Side - 1
Unknown == -2000000                \* no sources cached for the chunk
NegativeInfinity == -1000000      \* i32::MIN
PositiveInfinity == 1000000       \* i32::MAX

Most(ns) == CHOOSE n \in ns : \A k \in ns : k <= n
Least(ns) == CHOOSE n \in ns : \A k \in ns : k >= n
Elements(s) == {s[i] : i \in DOMAIN s}

(* CheckQueue: a batch in insertion order, in which a position stands once. *)
Inserted(checks, p) == IF p \in Elements(checks) THEN checks ELSE Append(checks, p)

(* Directions in the order the engines visit them.                         *)
Order == <<"Down", "Up", "West", "East">>
ALL == {"Down", "Up", "West", "East"}

opposite(d) ==
  CASE d = "Down" -> "Up" [] d = "Up" -> "Down" [] d = "West" -> "East" [] d = "East" -> "West"

step(p, d) ==
  CASE d = "Down" -> <<p[1], p[2] - 1>>
    [] d = "Up"   -> <<p[1], p[2] + 1>>
    [] d = "West" -> <<p[1] - 1, p[2]>>
    [] d = "East" -> <<p[1] + 1, p[2]>>

section(p) == <<p[1] \div Side, p[2] \div Side>>
column(p) == p[1] \div Side

Columns == UNION {(c * Side)..(c * Side + Side - 1) : c \in Chunks}
Blocks == Columns \X (Bottom..Top)
Sections == Chunks \X (MinSection..MaxSection)

(* Light is kept one section row above and below the terrain.              *)
LightSections == Chunks \X ((MinSection - 1)..(MaxSection + 1))
BlocksOf(s) == {<<x, y>> : x \in (s[1] * Side)..(s[1] * Side + Side - 1),
                           y \in (s[2] * Side)..(s[2] * Side + Side - 1)}
RowsDown == [i \in 1..((MaxSection - MinSection + 3) * Side) |-> Top + Side + 1 - i]
RowsUp == [i \in DOMAIN RowsDown |-> Bottom - Side - 1 + i]
Downwards(ys) == SelectSeq(RowsDown, LAMBDA y : y \in ys)
Upwards(ys) == SelectSeq(RowsUp, LAMBDA y : y \in ys)
Around(s) == {n \in LightSections : n[1] - s[1] \in -1..1 /\ n[2] - s[2] \in -1..1}

section_has_only_air(s) == s \notin Sections \/ \A p \in BlocksOf(s) : mat[p] = "air"

state_at(p) ==
  IF column(p) \notin Chunks THEN "bedrock"
  ELSE IF p[2] \in Bottom..Top THEN mat[p] ELSE "air"

(* emission_sources: sections upwards, blocks in y order within a section. *)
Before(p, q) == \/ p[2] \div Side < q[2] \div Side
                \/ p[2] \div Side = q[2] \div Side /\ p[2] < q[2]
                \/ p[2] = q[2] /\ p[1] < q[1]
emission_sources(c) ==
  LET lamps == {p \in Blocks : column(p) = c /\ Material[mat[p]].emission > 0}
  IN  CHOOSE s \in [1..Cardinality(lamps) -> lamps] :
        \A i, j \in DOMAIN s : i < j => Before(s[i], s[j])

(* Faces: two shapes shut the edge between them when together they cover it. *)
Face(m, d) == IF Material[m].shape THEN Material[m].faces[d] ELSE {}
face_occludes(f, g) == f \cup g = Halves
Damping(m) == IF Material[m].dampening > 1 THEN Material[m].dampening ELSE 1

-----------------------------------------------------------------------------
(* SkySources.  An edge y lies between the blocks y - 1 and y; the cache   *)
(* holds the highest blocked one, Bottom - 1 for an open column.           *)

Blocked(above, below) ==
  \/ Material[below].dampening # 0
  \/ face_occludes(Face(above, "Down"), Face(below, "Up"))

BlockedAt(x, e) == Blocked(state_at(<<x, e>>), state_at(<<x, e - 1>>))

Highest(es) == IF es = {} THEN Bottom - 1 ELSE Most(es)

(* SkySources::initialize skips the edges inside air-only sections.        *)
InitialEdge(x) ==
  Highest({e \in (Bottom + 1)..(Top + 1) :
             ~section_has_only_air(section(<<x, e - 1>>)) /\ BlockedAt(x, e)})

scan_below(x, y) == Highest({e \in Bottom..y : BlockedAt(x, e)})

(* SkySources::update after block p changed: its upper edge, then its lower. *)
UpdatedEdge(p) ==
  LET x == p[1]
      old == edges[x]
      Replaces(e) == IF BlockedAt(x, e) THEN e > old ELSE e = old
      Value(e) == IF BlockedAt(x, e) THEN e ELSE scan_below(x, e - 1)
  IN  CASE p[2] + 1 < old        -> old
        [] p[2] + 1 >= old /\ Replaces(p[2] + 1) -> Value(p[2] + 1)
        [] p[2] + 1 >= old /\ ~Replaces(p[2] + 1) /\ Replaces(p[2]) -> Value(p[2])
        [] OTHER -> old

public_edge(e) == IF e = Bottom - 1 THEN NegativeInfinity ELSE e

(* SkyLightEngine::lowest, with what a chunk without sources answers.      *)
lowest(x, missing) ==
  IF x \notin Columns \/ edges[x] = Unknown THEN missing ELSE public_edge(edges[x])

(* highest_lowest_source_y of a chunk.                                     *)
highest_lowest(c) ==
  IF edges[c * Side] = Unknown THEN NegativeInfinity
  ELSE public_edge(Most({edges[x] : x \in (c * Side)..(c * Side + Side - 1)}))

(* The cache stays between the two scans of the terrain: never below the   *)
(* edge an initial scan would find, never above the highest blocked one.   *)
(* They differ only at a face over an air-only section or the void.        *)
EdgesCurrent ==
  \A x \in Columns : edges[x] # Unknown =>
    /\ edges[x] >= InitialEdge(x)
    /\ edges[x] <= scan_below(x, Top + 1)
=============================================================================
