------------------------ MODULE MCSectionPreparation ------------------------
(* Small owners for SectionPreparation.                                    *)
EXTENDS SectionPreparation, TLC

CONSTANTS c1, c2, s1, s2

Apart == (s1 :> c1) @@ (s2 :> c2)
=============================================================================
