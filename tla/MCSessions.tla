----------------------------- MODULE MCSessions -----------------------------
(* Small instances of Sessions for TLC.  The connections and request       *)
(* identifiers are interchangeable, so the safety runs use their symmetry. *)
EXTENDS Sessions, TLC

CONSTANTS c1, c2, r1, r2

OneConnection == {c1}
TwoConnections == {c1, c2}
OneRequestId == {r1}
TwoRequestIds == {r1, r2}
NoBodies == {}
OneBodySize == {1}
TwoBodySizes == {1, 2}

Symmetry == Permutations(Connections) \union Permutations(RequestIds)
=============================================================================
