----------------------------- MODULE Heightmaps -----------------------------
(***************************************************************************)
(* The heightmaps of one chunk (world/heightmap.rs): per kind, the first   *)
(* free y above the highest block that counts for the kind, packed into    *)
(* words with padding; restored from stored arrays or primed from the      *)
(* sections when the chunk is loaded, and kept up block by block.          *)
(*                                                                         *)
(* A word is a number below 2^WordBits. A chunk has Columns columns of     *)
(* SectionCount sections, each SectionSize blocks high. Sections carry no  *)
(* count of their own: it is what the blocks say, as the decoder and       *)
(* from_sections check. All calls come with a source of the map's own      *)
(* context, a column inside the chunk and a y inside the build height.     *)
(* The world that changes a block, and the chunk's stored arrays, are      *)
(* external.                                                               *)
(***************************************************************************)
EXTENDS Integers, SequencesExt

CONSTANTS
  Columns,         \* COLUMNS, 256
  SectionSize,     \* 16
  SectionCount,
  MinSection,      \* DimensionHeight::min_section
  WordBits,        \* 64
  StateFlags,      \* StateFlags[s]: the registry's flags of block state s
  Air,             \* air_id
  Terrains,        \* chunks as functions <<column, y>> -> state
  StoredArrays,    \* kinds the stored chunk has arrays of, well formed or not
  AllocationLimit, \* words the set may own
  MaxEdits,        \* bound: blocks changed after the load
  Unloaded

ASSUME HeightmapAssumption ==
  /\ {Columns, SectionSize, SectionCount, WordBits} \subseteq Nat \ {0}
  /\ MinSection \in Int /\ {AllocationLimit, MaxEdits} \subseteq Nat
  /\ \A s \in DOMAIN StateFlags :
       StateFlags[s] \subseteq {"air", "fluid", "blocks", "blocksNoLeaves"}
  \* No kind counts a state that is tagged as air.
  /\ \A s \in DOMAIN StateFlags : "air" \in StateFlags[s] => StateFlags[s] = {"air"}
  /\ Air \in DOMAIN StateFlags /\ "air" \in StateFlags[Air]

VARIABLES
  terrain,   \* external: the blocks of the chunk
  stored,    \* external: its stored arrays, kind -> words
  status,    \* external: its persisted status, early or full
  maps,      \* HeightmapSet.maps: kind -> words, or Unloaded
  edits      \* blocks changed so far

heightVars == <<terrain, stored, status, maps, edits>>

-----------------------------------------------------------------------------
HeightmapKinds == {"WorldSurfaceWg", "WorldSurface", "OceanFloorWg", "OceanFloor",
                   "MotionBlocking", "MotionBlockingNoLeaves"}

required_mask(s) ==
  IF s = "early" THEN {"WorldSurfaceWg", "OceanFloorWg"}
  ELSE {"WorldSurface", "OceanFloor", "MotionBlocking", "MotionBlockingNoLeaves"}

heightmap_mask(s) ==
  LET has(flags) == StateFlags[s] \cap flags # {}
  IN  (IF has({"air"}) THEN {} ELSE {"WorldSurfaceWg", "WorldSurface"})
        \cup (IF has({"blocks"}) THEN {"OceanFloorWg", "OceanFloor"} ELSE {})
        \cup (IF has({"blocks", "fluid"}) THEN {"MotionBlocking"} ELSE {})
        \cup (IF has({"blocksNoLeaves", "fluid"}) THEN {"MotionBlockingNoLeaves"} ELSE {})

(* The source: the sections of a chunk in a dimension.                     *)
MinY == MinSection * SectionSize
MaxY == MinY + SectionCount * SectionSize
ChunkColumns == 0 .. Columns - 1
SectionAt(y) == MinSection + ((y - MinY) \div SectionSize)

NonEmpty(t, s) ==
  \E c \in ChunkColumns, y \in MinY .. MaxY - 1 :
    SectionAt(y) = s /\ "air" \notin StateFlags[t[<<c, y>>]]

highest_section(t) ==
  Max({MinSection} \cup {s \in MinSection .. MinSection + SectionCount - 1 : NonEmpty(t, s)})

(* A section of nothing but air hides which air it is.                     *)
SourceState(t, c, y) == IF NonEmpty(t, SectionAt(y)) THEN t[<<c, y>>] ELSE Air

opaque(kind, s) == kind \in heightmap_mask(s)

-----------------------------------------------------------------------------
(* Packed words.                                                           *)
height_bits == CHOOSE b \in 1 .. WordBits :
  2^(b - 1) <= SectionCount * SectionSize /\ SectionCount * SectionSize < 2^b
PerWord == WordBits \div height_bits
WordCount == (Columns + PerWord - 1) \div PerWord
NoHeights == [w \in 1 .. WordCount |-> 0]

WordOf(c) == (c \div PerWord) + 1
ShiftOf(c) == 2^((c % PerWord) * height_bits)
FieldOf(words, c) == (words[WordOf(c)] \div ShiftOf(c)) % 2^height_bits

first_available(words, c) == FieldOf(words, c) + MinY

set_first(words, c, first) ==
  [words EXCEPT ![WordOf(c)] =
     @ - (FieldOf(words, c) * ShiftOf(c)) + ((first - MinY) * ShiftOf(c))]

-----------------------------------------------------------------------------
(* The heights of the kinds ks in column c: the scan comes down from the   *)
(* highest section with blocks and settles each kind at its first match.   *)
PrimeColumn(t, c, ks) ==
  LET top == (highest_section(t) + 1) * SectionSize
      down == [i \in 1 .. top - MinY |-> top - i]
      found(left, y) == IF SourceState(t, c, y) = Air THEN {}
                        ELSE heightmap_mask(SourceState(t, c, y)) \cap left
      step(acc, y) == [left |-> acc.left \ found(acc.left, y),
                       at |-> [k \in ks |-> IF k \in found(acc.left, y) THEN y + 1
                                            ELSE acc.at[k]]]
  IN  FoldLeft(step, [left |-> ks, at |-> [k \in ks |-> Unloaded]], down).at

(* A column in which nothing counts keeps what the map said.               *)
prime(t, k, words) ==
  LET step(acc, c) == LET first == PrimeColumn(t, c, {k})[k]
                      IN  IF first = Unloaded THEN acc ELSE set_first(acc, c, first)
  IN  FoldLeft(step, words, [i \in 1 .. Columns |-> i - 1])

restore(t, k, words, raw) == IF Len(raw) = Len(words) THEN raw ELSE prime(t, k, words)

Selected == required_mask(status) \cup DOMAIN stored

(* Stored arrays of the right length are restored bit by bit, the other    *)
(* selected kinds primed together.                                         *)
from_stored ==
  /\ maps = Unloaded
  /\ WordCount * Cardinality(Selected) <= AllocationLimit
  /\ LET restored == {k \in DOMAIN stored : Len(stored[k]) = WordCount}
         toPrime == Selected \ restored
         step(acc, c) ==
           LET first == PrimeColumn(terrain, c, toPrime)
           IN  [k \in toPrime |-> IF first[k] = Unloaded THEN acc[k]
                                  ELSE set_first(acc[k], c, first[k])]
         primed == FoldLeft(step, [k \in toPrime |-> NoHeights],
                            [i \in 1 .. Columns |-> i - 1])
     IN  maps' = [k \in Selected |-> IF k \in restored THEN stored[k] ELSE primed[k]]
  /\ UNCHANGED <<terrain, stored, status, edits>>

(* Mutant: a removed top block lowers the height by one only.              *)
UpdateByOne(t, k, words, c, y, s) ==
  LET first == first_available(words, c)
  IN  CASE y <= first - 2 -> words
        [] opaque(k, s) -> IF y < first THEN words ELSE set_first(words, c, y + 1)
        [] y # first - 1 -> words
        [] OTHER -> set_first(words, c, y)

(* update, with a source that has the changed block already.               *)
update(t, k, words, c, y, s) ==
  LET first == first_available(words, c)
      below == {z \in MinY .. y - 1 : opaque(k, SourceState(t, c, z))}
  IN  CASE y <= first - 2 -> words
        [] opaque(k, s) -> IF y < first THEN words ELSE set_first(words, c, y + 1)
        [] y # first - 1 -> words
        [] OTHER -> set_first(words, c, IF below = {} THEN MinY ELSE Max(below) + 1)

(* External: the world changes a block and tells every map.                *)
SetBlock(c, y, s) ==
  /\ maps # Unloaded /\ edits < MaxEdits
  /\ terrain[<<c, y>>] # s
  /\ edits' = edits + 1
  /\ terrain' = [terrain EXCEPT ![<<c, y>>] = s]
  /\ maps' = [k \in DOMAIN maps |-> update(terrain', k, maps[k], c, y, s)]
  /\ UNCHANGED <<stored, status>>

(* A map restored from an array of another height is primed in place.      *)
Reprime(k) ==
  /\ maps # Unloaded /\ k \in DOMAIN maps
  /\ maps' = [maps EXCEPT ![k] = restore(terrain, k, @, <<>>)]
  /\ UNCHANGED <<terrain, stored, status, edits>>

-----------------------------------------------------------------------------
(* The height of a column by its definition.                               *)
Surface(t, k, c) ==
  Max({MinY} \cup {y + 1 : y \in {y \in MinY .. MaxY - 1 : opaque(k, t[<<c, y>>])}})

(* External: an array as it was saved with the terrain, with the padding   *)
(* bits set; or one of another length.                                     *)
Saved(t, k) ==
  FoldLeft(LAMBDA acc, c : set_first(acc, c, Surface(t, k, c)),
           [w \in 1 .. WordCount |-> 2^WordBits - 2^(PerWord * height_bits)],
           [i \in 1 .. Columns |-> i - 1])

HeightInit ==
  /\ terrain \in Terrains
  /\ status \in {"early", "full"}
  /\ \E form \in StoredArrays :
       stored = [k \in DOMAIN form |-> IF form[k] = "saved" THEN Saved(terrain, k)
                                       ELSE Append(NoHeights, 0)]
  /\ maps = Unloaded
  /\ edits = 0

HeightNext ==
  \/ from_stored
  \/ \E c \in ChunkColumns, y \in MinY .. MaxY - 1, s \in DOMAIN StateFlags :
       SetBlock(c, y, s)
  \/ \E k \in HeightmapKinds : Reprime(k)

-----------------------------------------------------------------------------
PaddingOf(words) == [w \in DOMAIN words |-> words[w] \div 2^(PerWord * height_bits)]

(* Whatever blocks were changed since the load, and wherever a map came    *)
(* from, it has in every column the height that the blocks of the chunk    *)
(* give (update looks at one column near its old height only), and the     *)
(* padding bits of a restored array are still there (Heightmap::set).      *)
HeightsExact ==
  maps # Unloaded =>
    \A k \in DOMAIN maps :
      /\ \A c \in ChunkColumns : first_available(maps[k], c) = Surface(terrain, k, c)
      /\ k \in DOMAIN stored /\ Len(stored[k]) = WordCount
           => PaddingOf(maps[k]) = PaddingOf(stored[k])
=============================================================================
