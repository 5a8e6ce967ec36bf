------------------------------ MODULE MCTables ------------------------------
(* The tables, heaps and stores of the sender, the tick owner, the light   *)
(* engines, the player's view and the heightmaps, one of them used in a    *)
(* behaviour: focus says which. What one of them chooses at random at the  *)
(* start is fixed while the others are used.                               *)
EXTENDS ChunkSelection, TickHeap, TickIndex, TickCounts, LightStorage,
        PlayerView, Heightmaps

VARIABLE focus

allVars == <<vars, values, indexVars, countVars, storageVars, viewVars,
             heightVars, focus>>

OneOf(S) == CHOOSE x \in S : TRUE

TablesInit ==
  /\ Init /\ HeapInit /\ IndexInit /\ CountInit /\ StorageInit
  /\ ViewInit /\ HeightInit
  /\ focus \in {"positions", "heap", "index", "counts", "layers", "view", "heights"}
  /\ focus # "positions" => hash = OneOf(Hashes)
  /\ focus # "index" => mix = OneOf(IndexMixes)
  /\ focus # "counts" => identHash = OneOf(IdentHashes)
  /\ focus # "layers" => kind = "Block"
  /\ focus # "view" => distance = MAX_VIEW_DISTANCE
  /\ focus # "heights" => /\ terrain = OneOf(Terrains)
                          /\ status = "full" /\ stored = <<>>

TablesNext ==
  /\ UNCHANGED focus
  /\ \/ /\ focus = "positions" /\ Next
        /\ UNCHANGED <<values, indexVars, countVars, storageVars, viewVars, heightVars>>
     \/ /\ focus = "heap" /\ HeapNext
        /\ UNCHANGED <<vars, indexVars, countVars, storageVars, viewVars, heightVars>>
     \/ /\ focus = "index" /\ IndexNext
        /\ UNCHANGED <<vars, values, countVars, storageVars, viewVars, heightVars>>
     \/ /\ focus = "counts" /\ CountNext
        /\ UNCHANGED <<vars, values, indexVars, storageVars, viewVars, heightVars>>
     \/ /\ focus = "layers" /\ StorageNext
        /\ UNCHANGED <<vars, values, indexVars, countVars, viewVars, heightVars>>
     \/ /\ focus = "view" /\ ViewNext
        /\ UNCHANGED <<vars, values, indexVars, countVars, storageVars, heightVars>>
     \/ /\ focus = "heights" /\ HeightNext
        /\ UNCHANGED <<vars, values, indexVars, countVars, storageVars, viewVars>>

TablesSpec == TablesInit /\ [][TablesNext]_allVars

(* The three tables of the tick owner hold what was put into them.         *)
TickTablesSound == HeapSound /\ IndexSound /\ TablesSound

(* Everything collides at the last bucket of a small table.                *)
Wrapping == [k \in Keys |-> 3 + 4 * (k % 3)]
(* Neighbouring clusters that run into each other.                         *)
Clustered == [k \in Keys |-> (k \div 2) + 2]
Spread == [k \in Keys |-> 5 * k]
SomeHashes == {Wrapping, Clustered, Spread}

(* Two pairs of equal keys; seven places let one repair move an entry that *)
(* an earlier repair left to be visited again.                             *)
SomeEntries == [key : {1, 4}, name : {"a", "b"}] \cup [key : {2, 3, 5}, name : {"a"}]

SomeMixes == {[k \in IndexKeys |-> 3 + 4 * (k % 2)], [k \in IndexKeys |-> (k \div 2) + 2]}
(* One key is put again with another time.                                 *)
SomeTimes == [k \in IndexKeys \cup {0} |-> IF k = 1 THEN {1, 2} ELSE {1}]
(* A saved layer, bright below and dark above.                             *)
SomeLayers == {[uniform |-> FALSE,
                plane |-> [p \in Planes |-> IF p = 0 THEN FULL_LIGHT ELSE Dark]]}
SomeIdentHashes == {[k \in Idents |-> 7], [k \in Idents |-> 6 + k \div 2]}

(* i32::MIN, reached by a wrapped distance.                                *)
Lowest == -9

(* Rising, falling, and a wrapped distance among ties.                     *)
SomeCenters == {[k \in Keys \cup {0} |-> k], [k \in Keys \cup {0} |-> 6 - k],
                [k \in Keys \cup {0} |-> IF k = 6 THEN MinDistance ELSE k % 3]}

(* Two corners and a middle of a small world, and a place too near its edge.*)
SomeViewCenters == {<<-7, -7>>, <<-3, -5>>, <<5, 5>>, <<6, 0>>}
(* Below the least distance, and above the greatest.                       *)
ViewRequests == {-1, 9}

SomeFlags ==
  [s \in {"air", "cave", "water", "stone", "leaves"} |->
     CASE s \in {"air", "cave"} -> {"air"}
       [] s = "water" -> {"fluid"}
       [] s = "stone" -> {"blocks", "blocksNoLeaves"}
       [] OTHER -> {"blocks"}]
Below == -1
(* Nothing but hidden air; ground with water on it and leaves over it.     *)
SomeTerrains ==
  {[p \in (0 .. 2) \X (-2 .. 1) |-> "cave"],
   [p \in (0 .. 2) \X (-2 .. 1) |->
      CASE p[2] = -2 -> "stone" [] p = <<1, -1>> -> "water"
        [] p = <<2, 1>> -> "leaves" [] OTHER -> "air"]}
(* No arrays, saved ones, and arrays of another height that make a full    *)
(* chunk select more than its allowance.                                   *)
SomeArrays ==
  {<<>>, [k \in {"WorldSurfaceWg", "OceanFloor"} |-> "saved"],
   [k \in {"MotionBlocking", "OceanFloorWg", "WorldSurfaceWg"} |->
      IF k = "MotionBlocking" THEN "saved" ELSE "other"]}
=============================================================================
