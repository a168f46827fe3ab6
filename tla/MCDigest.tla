------------------------------ MODULE MCDigest ------------------------------
(* Two organisations an hour apart, days of two hours.                   *)
EXTENDS Digest, TLC

CONSTANTS o1, o2, w1, w2, m1

MCZone == (o1 :> 0) @@ (o2 :> 1)
MCExpiry == (o1 :> 0) @@ (o2 :> 1)

Symmetry == Permutations(Worker)
=============================================================================
