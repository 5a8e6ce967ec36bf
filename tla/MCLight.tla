------------------------------ MODULE MCLight -------------------------------
(* Three chunks of two-by-two sections: lamps, walls, water, and a slab    *)
(* and a lantern whose lower face and half of their sides are shut.        *)
EXTENDS LightingWork, TLC

None == [d \in {"Down", "Up", "West", "East"} |-> {}]
Shut == [d \in {"Down", "Up", "West", "East"} |->
           CASE d = "Down" -> {1, 2} [] d = "Up" -> {} [] OTHER -> {1}]
MCMaterial ==
  ("air" :> [emission |-> 0, dampening |-> 0, shape |-> FALSE, faces |-> None])
  @@ ("bedrock" :> [emission |-> 0, dampening |-> 15, shape |-> FALSE, faces |-> None])
  @@ ("lamp" :> [emission |-> 4, dampening |-> 15, shape |-> FALSE, faces |-> None])
  @@ ("water" :> [emission |-> 0, dampening |-> 1, shape |-> FALSE, faces |-> None])
  @@ ("slab" :> [emission |-> 0, dampening |-> 0, shape |-> TRUE, faces |-> Shut])
  @@ ("lantern" :> [emission |-> 4, dampening |-> 0, shape |-> TRUE, faces |-> Shut])

(* Terrains: the blocks that are not air.                                  *)
Terrain(w, dims) == [p \in dims |-> IF p \in DOMAIN w THEN w[p] ELSE "air"]
P(x, y) == <<x, y>>
MCWorlds == {Terrain(w, (0..5) \X (0..5)) : w \in {
  (P(0, 0) :> "lamp") @@ (P(2, 0) :> "slab") @@ (P(4, 5) :> "bedrock")
    @@ (P(5, 1) :> "water"),
  (P(0, 0) :> "lamp") @@ (P(2, 5) :> "bedrock") @@ (P(3, 5) :> "bedrock")
    @@ (P(5, 5) :> "bedrock") @@ (P(3, 4) :> "bedrock"),
  (P(0, 1) :> "bedrock") @@ (P(1, 1) :> "slab") @@ (P(5, 4) :> "lantern")
    @@ (P(4, 4) :> "bedrock") @@ (P(4, 1) :> "bedrock") @@ (P(5, 1) :> "water"),
  (P(0, 5) :> "bedrock") @@ (P(2, 0) :> "water") @@ (P(2, 1) :> "bedrock")
    @@ (P(3, 1) :> "lamp")}}

(* Saved light: all of it; none; the block or the sky layers; two sky      *)
(* layers high up, under which others have to be made; with rows before    *)
(* that are replaced by later ones or have no support. Flags are true of   *)
(* all chunks, of none or of one.                                          *)
Both(ss) == {"block", "sky"} \X ss
Older == <<[y |-> 0, block |-> <<3>>, sky |-> <<>>], [y |-> MaxSection + 2, block |-> <<6>>, sky |-> <<2>>],
           [y |-> MaxSection + 2, block |-> <<7>>, sky |-> <<>>]>>
Save(lighted, kept, before) == [lighted |-> lighted, kept |-> kept, before |-> before]
MCSaves ==
  {Save(Chunks, Both(LightSections), Older), Save({}, Both(LightSections), <<>>),
   Save({1}, Both(LightSections), <<>>), Save({}, {}, <<>>), Save(Chunks, {}, <<>>),
   Save({}, {"block"} \X LightSections, <<>>),
   Save({0}, {"sky"} \X {<<0, 1>>, <<1, 1>>}, Older),
   Save(Chunks, Both({<<0, 0>>, <<0, 1>>, <<2, 1>>}), <<>>)}
=============================================================================
