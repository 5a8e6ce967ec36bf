----------------------- MODULE MCLightingPublication -----------------------
(* Small domains for LightingPublication.                                  *)
EXTENDS LightingPublication, TLC

CONSTANTS a1, a2, o1, o2, sunny, dark

Symmetries == Permutations({a1, a2}) \cup Permutations({o1, o2})

OneDraft == {[rows |-> 1, bytes |-> 1]}
SkyOf == (sunny :> TRUE) @@ (dark :> FALSE)
=============================================================================
