---------------------------- MODULE MCCloseout ----------------------------
(* Values of Closeout's constants for model checking. *)
EXTENDS Closeout, TLC

CONSTANTS p1, p2, w1, w2, e1, e2, v1, v2, c1, c2, c3

OneProcess == {p1}
TwoProcesses == {p1, p2}
OneWriter == {w1}
TwoWriters == {w1, w2}
OneEmission == {e1}
TwoEmissions == {e1, e2}
OneObservation == {v1}
Observations == {v1, v2}
Claims == {c1, c2, c3}
TwoClaims == {c1, c2}

Interchangeable == Permutations(TwoClaims) \cup Permutations(Observations)
                       \cup Permutations(TwoProcesses)
=============================================================================
