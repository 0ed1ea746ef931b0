------------------------------ MODULE MCEngines -----------------------------
(* Four keys on two chains: three collide, so the head, the middle and the *)
(* end of a chain are all deleted; one key is alone on the other chain.    *)
(* The three are interchangeable, and they are the keys of the array.      *)
EXTENDS Engines

CONSTANTS k1, k2, k3, k4

MCKey == {k1, k2, k3, k4}
MCArrayKey == {k1, k2, k3}

MCHashOf == [k \in MCKey |-> IF k = k4 THEN 1 ELSE 0]

Symmetric == Permutations(MCArrayKey) \cup Permutations(Value)

=============================================================================
